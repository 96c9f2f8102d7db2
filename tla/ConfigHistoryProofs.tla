------------------------ MODULE ConfigHistoryProofs ------------------------
(***************************************************************************)
(* Proofs about what is kept of channels and of requests: the keys of the  *)
(* channels, in memory and in the file, and the history of the requests.   *)
(***************************************************************************)
EXTENDS ChannelConfig, PendingHistory, Integers, SequenceTheorems, FiniteSetTheorems,
        WellFoundedInduction, TLAPS

-----------------------------------------------------------------------------
(* The configuration: keys stay with their channel and none is lost, for   *)
(* lists of any length, any keys and updates, any number of requests with  *)
(* stale indices and of writes that fail, as long as memory and file have  *)
(* not drifted apart.                                                      *)

-----------------------------------------------------------------------------
(* Positions *)

(* Counting the smaller members numbers a finite set of numbers from 0 on.  *)
LEMMA Numbering ==
  ASSUME NEW P \in SUBSET Nat, IsFiniteSet(P)
  PROVE  /\ Cardinality(P) \in Nat
         /\ \A i \in P : Cardinality({j \in P : j < i}) \in 0..(Cardinality(P) - 1)
         /\ \A i, k \in P :
              Cardinality({j \in P : j < i}) = Cardinality({j \in P : j < k}) => i = k
         /\ \A n \in 1..Cardinality(P) :
              \E i \in P : Cardinality({j \in P : j < i}) = n - 1
<1> DEFINE below(i) == {j \in P : j < i}
           size == Cardinality(P)
           number == [i \in P |-> Cardinality(below(i)) + 1]
<1>1. \A i \in P : /\ IsFiniteSet(below(i)) /\ Cardinality(below(i)) \in Nat
                   /\ Cardinality(below(i)) < size
  <2> SUFFICES ASSUME NEW i \in P
               PROVE  /\ IsFiniteSet(below(i)) /\ Cardinality(below(i)) \in Nat
                      /\ Cardinality(below(i)) < size
    OBVIOUS
  <2>1. below(i) \in SUBSET P /\ below(i) # P
    <3>1. i \in P /\ ~(i < i)
      OBVIOUS
    <3> QED BY <3>1
  <2>2. /\ IsFiniteSet(below(i)) /\ Cardinality(below(i)) <= size
        /\ Cardinality(below(i)) # size
    BY <2>1, FS_Subset
  <2> QED BY <2>2, FS_CardinalityType
<1>2. size \in Nat
  BY FS_CardinalityType
<1> HIDE DEF below, size
<1>3. ASSUME NEW i \in P, NEW k \in P, i < k
      PROVE  Cardinality(below(i)) # Cardinality(below(k))
  <2>1. i \in below(k) /\ i \notin below(i)
    BY <1>3 DEF below
  <2>2. below(i) \in SUBSET below(k)
    <3>1. \A j \in P : j < i => j < k
      BY <1>3
    <3> QED BY <3>1 DEF below
  <2> QED BY <1>1, <2>1, <2>2, FS_Subset
<1>4. \A i, k \in P : Cardinality(below(i)) = Cardinality(below(k)) => i = k
  <2> SUFFICES ASSUME NEW i \in P, NEW k \in P, i # k
               PROVE  Cardinality(below(i)) # Cardinality(below(k))
    OBVIOUS
  <2>1. i < k \/ k < i
    OBVIOUS
  <2> QED BY <1>3, <2>1
<1>5. number \in Injection(P, 1..size)
  <2>1. number \in [P -> 1..size]
    BY <1>1, <1>2
  <2>2. \A i, k \in P : number[i] = number[k] => i = k
    <3>1. \A i, k \in P : number[i] = number[k] =>
                            Cardinality(below(i)) = Cardinality(below(k))
      BY <1>1
    <3> QED BY <1>4, <3>1
  <2> QED BY <2>1, <2>2 DEF Injection, IsInjective
<1>6. IsFiniteSet(1..size) /\ Cardinality(1..size) = size
  BY <1>2, FS_Interval
<1>7. number \in Surjection(P, 1..size)
  BY <1>5, <1>6, FS_Injection DEF size
<1>8. \A n \in 1..size : \E i \in P : Cardinality(below(i)) = n - 1
  <2> SUFFICES ASSUME NEW n \in 1..size
               PROVE  \E i \in P : Cardinality(below(i)) = n - 1
    OBVIOUS
  <2>1. PICK i \in P : number[i] = n
    BY <1>7 DEF Surjection
  <2> QED BY <1>1, <2>1
<1>9. \A i \in P : Cardinality(below(i)) \in 0..(size - 1)
  BY <1>1, <1>2
<1> QED BY <1>2, <1>4, <1>8, <1>9 DEF below, size

(* The positions of a sequence.                                             *)
LEMMA Positions ==
  ASSUME NEW T, NEW s \in Seq(T)
  PROVE  /\ Len(s) \in Nat /\ DOMAIN s = 1..Len(s) /\ IsFiniteSet(DOMAIN s)
         /\ \A i \in DOMAIN s : s[i] \in T
<1>1. Len(s) \in Nat /\ DOMAIN s = 1..Len(s) /\ \A i \in DOMAIN s : s[i] \in T
  OBVIOUS
<1>2. IsFiniteSet(1..Len(s))
  BY <1>1, FS_Interval
<1> QED BY <1>1, <1>2

(* Selected has the elements at the positions, each of them, and no other.  *)
LEMMA SelectedElements ==
  ASSUME NEW T, NEW s \in Seq(T), NEW P \in SUBSET DOMAIN s
  PROVE  /\ Selected(s, P) \in Seq(T)
         /\ ToSet(Selected(s, P)) = {s[i] : i \in P}
<1> DEFINE place(i) == Cardinality({j \in P : j < i})
           at(n) == CHOOSE i \in P : place(i) = n - 1
           size == Cardinality(P)
           chosen == [n \in 1..size |-> s[at(n)]]
<1>1. /\ P \in SUBSET Nat /\ IsFiniteSet(P)
      /\ \A i \in P : i \in DOMAIN s /\ s[i] \in T
  <2>1. /\ Len(s) \in Nat /\ DOMAIN s = 1..Len(s) /\ IsFiniteSet(DOMAIN s)
        /\ \A i \in DOMAIN s : s[i] \in T
    BY Positions
  <2> QED BY <2>1, FS_Subset
<1>2. /\ size \in Nat
      /\ \A i \in P : place(i) \in 0..(size - 1)
      /\ \A i, k \in P : place(i) = place(k) => i = k
      /\ \A n \in 1..size : \E i \in P : place(i) = n - 1
  BY <1>1, Numbering
<1>3. Selected(s, P) = chosen
  BY DEF Selected
<1> HIDE DEF place, size
<1>4. \A n \in 1..size : at(n) \in P /\ place(at(n)) = n - 1
  BY <1>2
<1>5. \A i \in P : place(i) + 1 \in 1..size /\ at(place(i) + 1) = i
  <2> SUFFICES ASSUME NEW i \in P
               PROVE  place(i) + 1 \in 1..size /\ at(place(i) + 1) = i
    OBVIOUS
  <2>1. place(i) + 1 \in 1..size /\ (place(i) + 1) - 1 = place(i)
    BY <1>2
  <2>2. at(place(i) + 1) \in P /\ place(at(place(i) + 1)) = place(i)
    BY <1>4, <2>1
  <2> HIDE DEF at
  <2> QED BY <1>2, <2>1, <2>2
<1> HIDE DEF at
<1>6. chosen \in Seq(T)
  <2>1. \A n \in 1..size : s[at(n)] \in T
    BY <1>1, <1>4
  <2> QED BY <1>2, <2>1
<1>7. DOMAIN chosen = 1..size
  OBVIOUS
<1>8. ToSet(chosen) = {s[i] : i \in P}
  <2>1. \A n \in 1..size : chosen[n] \in {s[i] : i \in P}
    BY <1>4
  <2>2. ASSUME NEW i \in P
        PROVE  \E n \in DOMAIN chosen : chosen[n] = s[i]
    <3>1. place(i) + 1 \in DOMAIN chosen /\ chosen[place(i) + 1] = s[i]
      BY <1>5, <1>7
    <3> QED BY <3>1
  <2> HIDE DEF chosen
  <2> QED BY <1>7, <2>1, <2>2 DEF ToSet
<1> QED BY <1>3, <1>6, <1>8

(* Every set of natural numbers that is not empty has a least element.      *)
LEMMA LeastNatural ==
  ASSUME NEW S \in SUBSET Nat, S # {}
  PROVE  \E n \in S : \A m \in S : n <= m
  <1> DEFINE R == {ss \in Nat \X Nat : ss[1] < ss[2]}
  <1>1. IsWellFoundedOn(R, Nat)
    BY NatLessThanWellFounded DEF OpToRel
  <1>2. \A n, m \in Nat : m < n => <<m, n>> \in R
    OBVIOUS
  <1> HIDE DEF R
  <1>3. PICK n \in S : \A m \in S : ~(<<m, n>> \in R)
    BY <1>1, WFMin
  <1>4. ASSUME NEW m \in S PROVE n <= m
    <2>1. ~(<<m, n>> \in R) /\ n \in Nat /\ m \in Nat
      BY <1>3
    <2>2. ~(m < n)
      BY <1>2, <2>1
    <2> QED
      BY <2>1, <2>2
  <1> QED BY <1>3, <1>4

(* Dropping duplicates drops no element: the first of each stays.           *)
LEMMA Deduplicated ==
  ASSUME NEW s \in Seq(APIKeys)
  PROVE  /\ DeduplicateStrings(s) \in Seq(APIKeys)
         /\ ToSet(DeduplicateStrings(s)) = ToSet(s)
<1> DEFINE P == {i \in DOMAIN s : \A j \in DOMAIN s : j < i => s[j] # s[i]}
<1>1. DeduplicateStrings(s) = Selected(s, P) /\ P \in SUBSET DOMAIN s
  BY DEF DeduplicateStrings
<1>2. /\ Selected(s, P) \in Seq(APIKeys)
      /\ ToSet(Selected(s, P)) = {s[i] : i \in P}
  BY <1>1, SelectedElements
<1>3. ASSUME NEW i \in DOMAIN s
      PROVE  \E j \in P : s[j] = s[i]
  <2> DEFINE same == {j \in DOMAIN s : s[j] = s[i]}
  <2>1. DOMAIN s \in SUBSET Nat
    <3>1. DOMAIN s = 1..Len(s) /\ Len(s) \in Nat
      OBVIOUS
    <3> QED BY <3>1
  <2>2. PICK j \in same : \A k \in same : j <= k
    <3>1. same \in SUBSET Nat /\ same # {}
      BY <2>1
    <3> HIDE DEF same
    <3> QED BY <3>1, LeastNatural
  <2>3. \A k \in DOMAIN s : k < j => s[k] # s[j]
    BY <2>1, <2>2
  <2> QED BY <2>2, <2>3
<1>4. {s[i] : i \in P} = ToSet(s)
  BY <1>3 DEF ToSet
<1> QED BY <1>1, <1>2, <1>4

(* An element taken out of a sequence.                                      *)
LEMMA Removed ==
  ASSUME NEW T, NEW s \in Seq(T), NEW i \in DOMAIN s
  PROVE  /\ RemoveAt(s, i) \in Seq(T)
         /\ DOMAIN RemoveAt(s, i) = 1..(Len(s) - 1)
         /\ \A j \in 1..(Len(s) - 1) :
              /\ j < i => j \in DOMAIN s /\ RemoveAt(s, i)[j] = s[j]
              /\ ~(j < i) => j + 1 \in DOMAIN s /\ RemoveAt(s, i)[j] = s[j + 1]
<1> DEFINE front == SubSeq(s, 1, i - 1)
           back  == SubSeq(s, i + 1, Len(s))
<1>1. /\ Len(s) \in Nat /\ DOMAIN s = 1..Len(s) /\ i \in 1..Len(s)
      /\ \A j \in DOMAIN s : s[j] \in T
  OBVIOUS
<1>2. /\ front \in Seq(T) /\ Len(front) = i - 1
      /\ \A j \in 1..(i - 1) : front[j] = s[j]
  <2>1. 1 \in Int /\ i - 1 \in Int /\ \A j \in 1..(i - 1) : s[j] \in T
    BY <1>1
  <2>2. /\ front \in Seq(T)
        /\ Len(front) = IF 1 <= i - 1 THEN (i - 1) - 1 + 1 ELSE 0
        /\ \A j \in 1..((i - 1) - 1 + 1) : front[j] = s[1 + j - 1]
    BY <2>1, SubSeqProperties
  <2> HIDE DEF front
  <2>3. Len(front) = i - 1
    BY <1>1, <2>2
  <2>4. \A j \in 1..(i - 1) : j \in 1..((i - 1) - 1 + 1) /\ 1 + j - 1 = j
    BY <1>1
  <2> QED BY <2>2, <2>3, <2>4
<1>3. /\ back \in Seq(T) /\ Len(back) = Len(s) - i
      /\ \A j \in 1..(Len(s) - i) : back[j] = s[j + i]
  <2>1. i + 1 \in Int /\ Len(s) \in Int /\ \A j \in (i + 1)..Len(s) : s[j] \in T
    BY <1>1
  <2>2. /\ back \in Seq(T)
        /\ Len(back) = IF i + 1 <= Len(s) THEN Len(s) - (i + 1) + 1 ELSE 0
        /\ \A j \in 1..(Len(s) - (i + 1) + 1) : back[j] = s[(i + 1) + j - 1]
    BY <2>1, SubSeqProperties
  <2> HIDE DEF back
  <2>3. Len(back) = Len(s) - i
    BY <1>1, <2>2
  <2>4. \A j \in 1..(Len(s) - i) :
          j \in 1..(Len(s) - (i + 1) + 1) /\ (i + 1) + j - 1 = j + i
    BY <1>1
  <2> QED BY <2>2, <2>3, <2>4
<1>4. RemoveAt(s, i) = front \o back
  BY DEF RemoveAt
<1> HIDE DEF front, back
<1>5. /\ front \o back \in Seq(T)
      /\ DOMAIN (front \o back) = 1..(Len(front) + Len(back))
      /\ \A j \in 1..(Len(front) + Len(back)) :
           (front \o back)[j] = IF j <= Len(front) THEN front[j]
                                ELSE back[j - Len(front)]
  BY <1>2, <1>3
<1>6. Len(front) + Len(back) = Len(s) - 1
  BY <1>1, <1>2, <1>3
<1>7. ASSUME NEW j \in 1..(Len(s) - 1)
      PROVE  /\ j < i => j \in DOMAIN s /\ (front \o back)[j] = s[j]
             /\ ~(j < i) => j + 1 \in DOMAIN s /\ (front \o back)[j] = s[j + 1]
  <2>1. CASE j < i
    <3>1. j \in 1..(i - 1) /\ j <= Len(front) /\ j \in DOMAIN s
      BY <1>1, <1>2, <2>1
    <3> QED BY <1>2, <1>5, <1>6, <2>1, <3>1
  <2>2. CASE ~(j < i)
    <3>1. /\ j - (i - 1) \in 1..(Len(s) - i) /\ ~(j <= Len(front))
          /\ (j - (i - 1)) + i = j + 1 /\ j + 1 \in DOMAIN s
      BY <1>1, <1>2, <2>2
    <3> QED BY <1>2, <1>3, <1>5, <1>6, <2>2, <3>1
  <2> QED BY <2>1, <2>2
<1> QED BY <1>4, <1>5, <1>6, <1>7

LEMMA LeastTaken ==
  ASSUME NEW S \in SUBSET Nat, S # {}
  PROVE  Min(S) \in S
BY LeastNatural DEF Min

LEMMA ElementTakenOut ==
  ASSUME NEW T, NEW s \in Seq(T), NEW i \in DOMAIN s
  PROVE  /\ RemoveAt(s, i) \in Seq(T) /\ ToSet(RemoveAt(s, i)) \subseteq ToSet(s)
         /\ ToSet(s) \subseteq ToSet(RemoveAt(s, i)) \cup {s[i]}
<1> DEFINE rest == RemoveAt(s, i)
<1>1. /\ rest \in Seq(T) /\ DOMAIN rest = 1..(Len(s) - 1)
      /\ \A j \in 1..(Len(s) - 1) :
           /\ j < i => j \in DOMAIN s /\ rest[j] = s[j]
           /\ ~(j < i) => j + 1 \in DOMAIN s /\ rest[j] = s[j + 1]
  BY Removed
<1> HIDE DEF rest
<1>2. ToSet(rest) \subseteq ToSet(s)
  BY <1>1 DEF ToSet
<1>3. ToSet(s) \subseteq ToSet(rest) \cup {s[i]}
  <2> SUFFICES ASSUME NEW j \in DOMAIN s, j # i
               PROVE  \E k \in DOMAIN rest : rest[k] = s[j]
    BY DEF ToSet
  <2>1. Len(s) \in Nat /\ DOMAIN s = 1..Len(s)
    OBVIOUS
  <2>2. CASE j < i
    <3>1. j \in 1..(Len(s) - 1)
      BY <2>1, <2>2
    <3> QED BY <1>1, <2>2, <3>1
  <2>3. CASE i < j
    <3>1. j - 1 \in 1..(Len(s) - 1) /\ ~(j - 1 < i) /\ (j - 1) + 1 = j
      BY <2>1, <2>3
    <3> QED BY <1>1, <3>1
  <2> QED BY <2>1, <2>2, <2>3
<1> QED BY <1>1, <1>2, <1>3 DEF rest

(* The first place of a key taken out: no other key goes.                   *)
LEMMA KeyTakenOut ==
  ASSUME NEW s \in Seq(APIKeys), NEW key \in ToSet(s)
  PROVE  /\ RemoveFirst(s, key) \in Seq(APIKeys)
         /\ ToSet(RemoveFirst(s, key)) \subseteq ToSet(s)
         /\ ToSet(s) \subseteq ToSet(RemoveFirst(s, key)) \cup {key}
<1> DEFINE hits == {n \in 1..Len(s) : s[n] = key}
<1>1. Len(s) \in Nat /\ DOMAIN s = 1..Len(s)
  OBVIOUS
<1>2. \E n \in 1..Len(s) : s[n] = key
  BY <1>1 DEF ToSet
<1>3. hits # {} /\ hits \in SUBSET Nat
  BY <1>1, <1>2
<1>4. RemoveFirst(s, key) = RemoveAt(s, Min(hits))
  BY <1>2, <1>3 DEF RemoveFirst, SelectInSeq
<1> HIDE DEF hits
<1>5. Min(hits) \in hits
  BY <1>3, LeastTaken
<1>6. Min(hits) \in DOMAIN s /\ s[Min(hits)] = key
  BY <1>1, <1>5 DEF hits
<1> DEFINE i == Min(hits)
<1> HIDE DEF i
<1>7. /\ RemoveAt(s, i) \in Seq(APIKeys) /\ ToSet(RemoveAt(s, i)) \subseteq ToSet(s)
      /\ ToSet(s) \subseteq ToSet(RemoveAt(s, i)) \cup {s[i]}
  BY <1>6, ElementTakenOut DEF i
<1> QED BY <1>4, <1>6, <1>7 DEF i

(* The elements of a sequence that grows by one, or at one end or by        *)
(* another sequence.                                                        *)
LEMMA JoinedElements ==
  ASSUME NEW T, NEW s \in Seq(T), NEW t \in Seq(T)
  PROVE  s \o t \in Seq(T) /\ ToSet(s \o t) = ToSet(s) \cup ToSet(t)
<1>1. /\ s \o t \in Seq(T) /\ Len(s) \in Nat /\ Len(t) \in Nat
      /\ DOMAIN s = 1..Len(s) /\ DOMAIN t = 1..Len(t)
      /\ DOMAIN (s \o t) = 1..(Len(s) + Len(t))
      /\ \A i \in 1..(Len(s) + Len(t)) :
           (s \o t)[i] = IF i <= Len(s) THEN s[i] ELSE t[i - Len(s)]
  OBVIOUS
<1> DEFINE u == s \o t
<1> HIDE DEF u
<1>2. \A i \in DOMAIN u : u[i] \in ToSet(s) \cup ToSet(t)
  <2> SUFFICES ASSUME NEW i \in DOMAIN u
               PROVE  u[i] \in ToSet(s) \cup ToSet(t)
    OBVIOUS
  <2>1. CASE i <= Len(s)
    <3>1. i \in DOMAIN s /\ u[i] = s[i]
      BY <1>1, <2>1 DEF u
    <3> QED BY <3>1 DEF ToSet
  <2>2. CASE ~(i <= Len(s))
    <3>1. i - Len(s) \in DOMAIN t /\ u[i] = t[i - Len(s)]
      BY <1>1, <2>2 DEF u
    <3> QED BY <3>1 DEF ToSet
  <2> QED BY <2>1, <2>2
<1>3. ASSUME NEW i \in DOMAIN s
      PROVE  \E k \in DOMAIN u : u[k] = s[i]
  <2>1. i \in DOMAIN u /\ u[i] = s[i]
    BY <1>1 DEF u
  <2> QED BY <2>1
<1>4. ASSUME NEW i \in DOMAIN t
      PROVE  \E k \in DOMAIN u : u[k] = t[i]
  <2>1. i + Len(s) \in DOMAIN u /\ ~(i + Len(s) <= Len(s)) /\ (i + Len(s)) - Len(s) = i
    BY <1>1 DEF u
  <2>2. u[i + Len(s)] = t[i]
    BY <1>1, <2>1 DEF u
  <2> QED BY <2>1, <2>2
<1>5. ToSet(u) = ToSet(s) \cup ToSet(t)
  BY <1>2, <1>3, <1>4 DEF ToSet
<1> QED BY <1>1, <1>5 DEF u

LEMMA SingleElement ==
  ASSUME NEW T, NEW e \in T
  PROVE  <<e>> \in Seq(T) /\ ToSet(<<e>>) = {e}
<1>1. <<e>> \in Seq(T) /\ DOMAIN <<e>> = 1..1 /\ <<e>>[1] = e
  OBVIOUS
<1>2. 1..1 = {1}
  OBVIOUS
<1> QED BY <1>1, <1>2 DEF ToSet

LEMMA AppendedElements ==
  ASSUME NEW T, NEW s \in Seq(T), NEW e \in T
  PROVE  Append(s, e) \in Seq(T) /\ ToSet(Append(s, e)) = ToSet(s) \cup {e}
<1> DEFINE t == <<e>>
<1>1. Append(s, e) = s \o t
  OBVIOUS
<1>2. t \in Seq(T) /\ ToSet(t) = {e}
  BY SingleElement
<1> HIDE DEF t
<1>3. s \o t \in Seq(T) /\ ToSet(s \o t) = ToSet(s) \cup ToSet(t)
  BY <1>2, JoinedElements
<1> QED BY <1>1, <1>2, <1>3

-----------------------------------------------------------------------------
(* Channels *)

DisabledKeyInfo == [key : APIKeys, quota : BOOLEAN, due : BOOLEAN]

KeysOf(entries) == {entry.key : entry \in ToSet(entries)}

(* What an operation on one channel may do to its keys: it loses none, and  *)
(* what it adds was given to the channel.                                   *)
Grown(c, d) ==
  /\ d \in Channels
  /\ d.id = c.id
  /\ KnownKeys(c) \subseteq KnownKeys(d)
  /\ KnownKeys(d) \subseteq KnownKeys(c) \cup OwnKeys[c.id]

LEMMA ChannelFields ==
  ASSUME NEW c \in Channels
  PROVE  /\ c.id \in ChannelIds /\ c.keys \in Seq(APIKeys)
         /\ c.disabled \in Seq(DisabledKeyInfo) /\ c.historical \in SUBSET APIKeys
         /\ c.status \in Statuses /\ c.promoted \in BOOLEAN /\ c.priority \in Nat
         /\ KnownKeys(c) = ToSet(c.keys) \cup KeysOf(c.disabled) \cup c.historical
         /\ ActiveKeys(c) = ToSet(c.keys) /\ DisabledKeys(c) = KeysOf(c.disabled)
         /\ ToSet(c.keys) \subseteq APIKeys /\ KeysOf(c.disabled) \subseteq APIKeys
         /\ OwnKeys[c.id] \subseteq APIKeys
<1>1. /\ c.id \in ChannelIds /\ c.keys \in Seq(APIKeys)
      /\ c.disabled \in Seq(DisabledKeyInfo) /\ c.historical \in SUBSET APIKeys
      /\ c.status \in Statuses /\ c.promoted \in BOOLEAN /\ c.priority \in Nat
  BY DEF Channels, DisabledKeyInfo
<1>2. ToSet(c.keys) \subseteq APIKeys
  BY <1>1, Positions DEF ToSet
<1>3. ToSet(c.disabled) \subseteq DisabledKeyInfo
  BY <1>1, Positions DEF ToSet
<1>4. KeysOf(c.disabled) \subseteq APIKeys
  BY <1>3 DEF KeysOf, DisabledKeyInfo
<1>5. OwnKeys[c.id] \subseteq APIKeys
  BY <1>1, ChannelConfigAssumption
<1>6. /\ ActiveKeys(c) = ToSet(c.keys) /\ DisabledKeys(c) = KeysOf(c.disabled)
      /\ KnownKeys(c) = ToSet(c.keys) \cup KeysOf(c.disabled) \cup c.historical
  BY DEF KnownKeys, ActiveKeys, DisabledKeys, Entries, KeysOf
<1> QED BY <1>1, <1>2, <1>4, <1>5, <1>6

(* New lists of keys, as long as they hold the old keys between them.       *)
LEMMA Rekeyed ==
  ASSUME NEW c \in Channels, NEW keys \in Seq(APIKeys),
         NEW disabled \in Seq(DisabledKeyInfo), NEW historical \in SUBSET APIKeys,
         NEW d,
         d = [c EXCEPT !.keys = keys, !.disabled = disabled, !.historical = historical],
         KnownKeys(c) \subseteq ToSet(keys) \cup KeysOf(disabled) \cup historical,
         ToSet(keys) \cup KeysOf(disabled) \cup historical
           \subseteq KnownKeys(c) \cup OwnKeys[c.id]
  PROVE  Grown(c, d)
<1>1. /\ d \in Channels /\ d.id = c.id /\ d.keys = keys /\ d.disabled = disabled
      /\ d.historical = historical
  BY DEF Channels, DisabledKeyInfo
<1>2. KnownKeys(d) = ToSet(keys) \cup KeysOf(disabled) \cup historical
  BY <1>1, ChannelFields
<1> QED BY <1>1, <1>2 DEF Grown

(* Status, promotion and priority hold no keys.                             *)
LEMMA Reordered ==
  ASSUME NEW c \in Channels, NEW status \in Statuses, NEW promoted \in BOOLEAN,
         NEW priority \in Nat, NEW d,
         d = [c EXCEPT !.status = status, !.promoted = promoted, !.priority = priority]
  PROVE  Grown(c, d) /\ KnownKeys(d) = KnownKeys(c)
<1>1. /\ d \in Channels /\ d.id = c.id /\ d.keys = c.keys /\ d.disabled = c.disabled
      /\ d.historical = c.historical
  BY DEF Channels
<1>2. KnownKeys(d) = KnownKeys(c)
  BY <1>1, ChannelFields
<1> QED BY <1>1, <1>2 DEF Grown

LEMMA GrownTwice ==
  ASSUME NEW c, NEW d, NEW e, Grown(c, d), Grown(d, e)
  PROVE  Grown(c, e)
BY DEF Grown

(* The disabled keys in a set, and the others.                              *)
LEMMA ChosenKeys ==
  ASSUME NEW c \in Channels, NEW keys
  PROVE  /\ Chosen(c, keys) \in Seq(DisabledKeyInfo)
         /\ KeysOf(Chosen(c, keys)) = DisabledKeys(c) \cap keys
         /\ Unchosen(c, keys) \in Seq(DisabledKeyInfo)
         /\ KeysOf(Unchosen(c, keys)) = DisabledKeys(c) \ keys
<1> DEFINE s == c.disabled
           P == {n \in DOMAIN s : s[n].key \in keys}
           Q == {n \in DOMAIN s : s[n].key \notin keys}
<1>1. s \in Seq(DisabledKeyInfo) /\ DisabledKeys(c) = KeysOf(s)
  BY ChannelFields
<1>2. /\ Selected(s, P) \in Seq(DisabledKeyInfo)
      /\ ToSet(Selected(s, P)) = {s[i] : i \in P}
      /\ Selected(s, Q) \in Seq(DisabledKeyInfo)
      /\ ToSet(Selected(s, Q)) = {s[i] : i \in Q}
  BY <1>1, SelectedElements
<1>3. /\ Chosen(c, keys) = Selected(s, P) /\ Unchosen(c, keys) = Selected(s, Q)
  BY DEF Chosen, Unchosen
<1>4. /\ {entry.key : entry \in {s[i] : i \in P}} = {s[i].key : i \in DOMAIN s} \cap keys
      /\ {entry.key : entry \in {s[i] : i \in Q}} = {s[i].key : i \in DOMAIN s} \ keys
  OBVIOUS
<1>5. KeysOf(s) = {s[i].key : i \in DOMAIN s}
  BY DEF KeysOf, ToSet
<1> QED BY <1>1, <1>2, <1>3, <1>4, <1>5 DEF KeysOf

(* The changes of one channel.                                              *)
LEMMA UpdatedGrown ==
  ASSUME NEW c \in Channels, NEW update \in Updates,
         update.keys # None => ToSet(update.keys) \subseteq OwnKeys[c.id]
  PROVE  Grown(c, Updated(c, update))
<1> DEFINE new == ToSet(update.keys)
           replaced == /\ Len(c.keys) = 1 /\ Len(update.keys) = 1
                       /\ c.keys # update.keys
           status == IF replaced /\ c.status = "suspended" THEN "active" ELSE c.status
           changedKeys == [c EXCEPT
                             !.historical = (@ \cup ActiveKeys(c)) \ new,
                             !.status = IF replaced /\ @ = "suspended" THEN "active" ELSE @,
                             !.keys = DeduplicateStrings(update.keys)]
           rekeyed == IF update.keys = None THEN c ELSE changedKeys
           Given(value, old) == IF value = None THEN old ELSE value
<1>1. Updated(c, update) =
        [rekeyed EXCEPT !.priority = Given(update.priority, @),
                        !.status   = Given(update.status, @),
                        !.promoted = Given(update.promoted, @)]
  BY DEF Updated
<1>2. /\ update.keys = None \/ update.keys \in Seq(APIKeys)
      /\ update.status = None \/ update.status \in Statuses
      /\ update.promoted = None \/ update.promoted \in BOOLEAN
      /\ update.priority = None \/ update.priority \in Nat
  BY ChannelConfigAssumption
<1>3. Grown(c, rekeyed)
  <2>1. CASE update.keys = None
    <3>1. rekeyed = c
      BY <2>1
    <3> QED BY <3>1 DEF Grown
  <2>2. CASE update.keys # None
    <3> DEFINE historical == (c.historical \cup ActiveKeys(c)) \ new
               keys == DeduplicateStrings(update.keys)
               d == [c EXCEPT !.keys = keys, !.disabled = c.disabled,
                              !.historical = historical]
    <3>1. keys \in Seq(APIKeys) /\ ToSet(keys) = new
      BY <1>2, <2>2, Deduplicated
    <3>2. /\ c.disabled \in Seq(DisabledKeyInfo) /\ historical \in SUBSET APIKeys
          /\ KnownKeys(c) = ToSet(c.keys) \cup KeysOf(c.disabled) \cup c.historical
          /\ ActiveKeys(c) = ToSet(c.keys)
      BY ChannelFields
    <3> HIDE DEF keys
    <3>3. Grown(c, d)
      <4>1. /\ KnownKeys(c) \subseteq ToSet(keys) \cup KeysOf(c.disabled) \cup historical
            /\ ToSet(keys) \cup KeysOf(c.disabled) \cup historical
                 \subseteq KnownKeys(c) \cup OwnKeys[c.id]
        BY <2>2, <3>1, <3>2
      <4> HIDE DEF historical
      <4> QED BY <3>1, <3>2, <4>1, Rekeyed
    <3>4. status \in Statuses
      BY ChannelFields DEF Statuses
    <3>5. changedKeys = [d EXCEPT !.status = status, !.promoted = d.promoted,
                                  !.priority = d.priority]
      <4> HIDE DEF replaced
      <4> QED BY DEF keys, Channels
    <3> HIDE DEF d, status, changedKeys
    <3>6. d \in Channels /\ d.promoted \in BOOLEAN /\ d.priority \in Nat
      BY <3>3, ChannelFields DEF Grown
    <3>7. Grown(d, changedKeys)
      BY <3>4, <3>5, <3>6, Reordered
    <3> QED BY <2>2, <3>3, <3>7, GrownTwice
  <2> QED BY <2>1, <2>2
<1> HIDE DEF rekeyed
<1>4. rekeyed \in Channels
  BY <1>3 DEF Grown
<1>5. /\ Given(update.priority, rekeyed.priority) \in Nat
      /\ Given(update.status, rekeyed.status) \in Statuses
      /\ Given(update.promoted, rekeyed.promoted) \in BOOLEAN
  BY <1>2, <1>4, ChannelFields
<1> HIDE DEF Given
<1>6. Updated(c, update) =
        [rekeyed EXCEPT !.status = Given(update.status, rekeyed.status),
                        !.promoted = Given(update.promoted, rekeyed.promoted),
                        !.priority = Given(update.priority, rekeyed.priority)]
  BY <1>1, <1>4 DEF Channels
<1>7. Grown(rekeyed, Updated(c, update))
  BY <1>4, <1>5, <1>6, Reordered
<1> QED BY <1>3, <1>7, GrownTwice

LEMMA KeyAddedGrown ==
  ASSUME NEW c \in Channels, NEW key \in OwnKeys[c.id]
  PROVE  Grown(c, [c EXCEPT !.keys = Append(@, key),
                            !.disabled = Unchosen(c, {key}),
                            !.historical = @ \ {key}])
<1> DEFINE keys == Append(c.keys, key)
           disabled == Unchosen(c, {key})
           historical == c.historical \ {key}
           d == [c EXCEPT !.keys = Append(@, key), !.disabled = Unchosen(c, {key}),
                          !.historical = @ \ {key}]
<1>1. /\ KnownKeys(c) = ToSet(c.keys) \cup KeysOf(c.disabled) \cup c.historical
      /\ DisabledKeys(c) = KeysOf(c.disabled) /\ key \in APIKeys
      /\ c.keys \in Seq(APIKeys) /\ historical \in SUBSET APIKeys
  BY ChannelFields
<1>2. keys \in Seq(APIKeys) /\ ToSet(keys) = ToSet(c.keys) \cup {key}
  BY <1>1, AppendedElements
<1>3. disabled \in Seq(DisabledKeyInfo) /\ KeysOf(disabled) = DisabledKeys(c) \ {key}
  BY ChosenKeys
<1>4. d = [c EXCEPT !.keys = keys, !.disabled = disabled, !.historical = historical]
  BY DEF Channels
<1> HIDE DEF keys, disabled, d
<1>5. /\ KnownKeys(c) \subseteq ToSet(keys) \cup KeysOf(disabled) \cup historical
      /\ ToSet(keys) \cup KeysOf(disabled) \cup historical
           \subseteq KnownKeys(c) \cup OwnKeys[c.id]
  BY <1>1, <1>2, <1>3
<1> HIDE DEF historical
<1>6. Grown(c, d)
  BY <1>1, <1>2, <1>3, <1>4, <1>5, Rekeyed
<1> QED BY <1>6 DEF d

LEMMA KeyRemovedGrown ==
  ASSUME NEW c \in Channels, NEW key \in ActiveKeys(c)
  PROVE  Grown(c, [c EXCEPT !.keys = RemoveFirst(@, key), !.historical = @ \cup {key}])
<1> DEFINE keys == RemoveFirst(c.keys, key)
           historical == c.historical \cup {key}
           d == [c EXCEPT !.keys = RemoveFirst(@, key), !.historical = @ \cup {key}]
<1>1. /\ KnownKeys(c) = ToSet(c.keys) \cup KeysOf(c.disabled) \cup c.historical
      /\ c.disabled \in Seq(DisabledKeyInfo) /\ key \in ToSet(c.keys)
      /\ c.keys \in Seq(APIKeys) /\ historical \in SUBSET APIKeys
  BY ChannelFields
<1>2. /\ keys \in Seq(APIKeys) /\ ToSet(keys) \subseteq ToSet(c.keys)
      /\ ToSet(c.keys) \subseteq ToSet(keys) \cup {key}
  BY <1>1, KeyTakenOut
<1>3. d = [c EXCEPT !.keys = keys, !.disabled = c.disabled, !.historical = historical]
  BY DEF Channels
<1> HIDE DEF keys, d
<1>4. /\ KnownKeys(c) \subseteq ToSet(keys) \cup KeysOf(c.disabled) \cup historical
      /\ ToSet(keys) \cup KeysOf(c.disabled) \cup historical
           \subseteq KnownKeys(c) \cup OwnKeys[c.id]
  BY <1>1, <1>2
<1> HIDE DEF historical
<1>5. Grown(c, d)
  BY <1>1, <1>2, <1>3, <1>4, Rekeyed
<1> QED BY <1>5 DEF d

(* A key moved to the end or to the front of the list.                      *)
LEMMA KeyMovedGrown ==
  ASSUME NEW c \in Channels, NEW key \in ActiveKeys(c)
  PROVE  /\ Grown(c, [c EXCEPT !.keys = Append(RemoveFirst(@, key), key)])
         /\ Grown(c, [c EXCEPT !.keys = <<key>> \o RemoveFirst(@, key)])
<1> DEFINE rest == RemoveFirst(c.keys, key)
           first == <<key>>
           back == Append(rest, key)
           front == first \o rest
           d == [c EXCEPT !.keys = Append(RemoveFirst(@, key), key)]
           e == [c EXCEPT !.keys = <<key>> \o RemoveFirst(@, key)]
<1>1. /\ KnownKeys(c) = ToSet(c.keys) \cup KeysOf(c.disabled) \cup c.historical
      /\ c.disabled \in Seq(DisabledKeyInfo) /\ key \in ToSet(c.keys)
      /\ c.keys \in Seq(APIKeys) /\ c.historical \in SUBSET APIKeys /\ key \in APIKeys
  BY ChannelFields
<1>2. /\ rest \in Seq(APIKeys) /\ ToSet(rest) \subseteq ToSet(c.keys)
      /\ ToSet(c.keys) \subseteq ToSet(rest) \cup {key}
  BY <1>1, KeyTakenOut
<1>3. first \in Seq(APIKeys) /\ ToSet(first) = {key}
  BY <1>1, SingleElement
<1>4. /\ d = [c EXCEPT !.keys = back, !.disabled = c.disabled,
                       !.historical = c.historical]
      /\ e = [c EXCEPT !.keys = front, !.disabled = c.disabled,
                       !.historical = c.historical]
  BY DEF Channels
<1> HIDE DEF rest, first, d, e
<1>5. back \in Seq(APIKeys) /\ ToSet(back) = ToSet(rest) \cup {key}
  BY <1>1, <1>2, AppendedElements
<1>6. front \in Seq(APIKeys) /\ ToSet(front) = ToSet(first) \cup ToSet(rest)
  BY <1>2, <1>3, JoinedElements
<1> HIDE DEF back, front
<1>7. ToSet(back) = ToSet(c.keys) /\ ToSet(front) = ToSet(c.keys)
  BY <1>1, <1>2, <1>3, <1>5, <1>6
<1>8. Grown(c, d) /\ Grown(c, e)
  BY <1>1, <1>4, <1>5, <1>6, <1>7, Rekeyed
<1> QED BY <1>8 DEF d, e

(* A key that an upstream has rejected.                                     *)
LEMMA KeyRejectedGrown ==
  ASSUME NEW c \in Channels, NEW key \in ActiveKeys(c), NEW quota \in BOOLEAN
  PROVE  Grown(c, KeyDisabled(c, key, quota))
<1> DEFINE entry == [key |-> key, quota |-> quota, due |-> FALSE]
           keys == RemoveFirst(c.keys, key)
           disabled == Append(c.disabled, entry)
           historical == c.historical \cup {key}
           d == KeyDisabled(c, key, quota)
<1>1. /\ KnownKeys(c) = ToSet(c.keys) \cup KeysOf(c.disabled) \cup c.historical
      /\ c.disabled \in Seq(DisabledKeyInfo) /\ key \in ToSet(c.keys) /\ key \in APIKeys
      /\ c.keys \in Seq(APIKeys) /\ historical \in SUBSET APIKeys
  BY ChannelFields
<1>2. /\ keys \in Seq(APIKeys) /\ ToSet(keys) \subseteq ToSet(c.keys)
      /\ ToSet(c.keys) \subseteq ToSet(keys) \cup {key}
  BY <1>1, KeyTakenOut
<1>3. entry \in DisabledKeyInfo /\ entry.key = key
  BY <1>1 DEF DisabledKeyInfo
<1>4. d = [c EXCEPT !.keys = keys, !.disabled = disabled, !.historical = historical]
  BY DEF Channels, KeyDisabled
<1> HIDE DEF entry
<1>5. disabled \in Seq(DisabledKeyInfo) /\ ToSet(disabled) = ToSet(c.disabled) \cup {entry}
  BY <1>1, <1>3, AppendedElements
<1> HIDE DEF keys, disabled, d
<1>6. KeysOf(disabled) = KeysOf(c.disabled) \cup {key}
  BY <1>5, <1>3 DEF KeysOf
<1>7. /\ KnownKeys(c) \subseteq ToSet(keys) \cup KeysOf(disabled) \cup historical
      /\ ToSet(keys) \cup KeysOf(disabled) \cup historical
           \subseteq KnownKeys(c) \cup OwnKeys[c.id]
  BY <1>1, <1>2, <1>6
<1> HIDE DEF historical
<1>8. Grown(c, d)
  BY <1>1, <1>2, <1>5, <1>4, <1>7, Rekeyed
<1> QED BY <1>8 DEF d

(* Disabled keys that are active again.                                     *)
LEMMA RestoredGrown ==
  ASSUME NEW c \in Channels, NEW keys \in SUBSET DisabledKeys(c)
  PROVE  Grown(c, WithRestored(c, keys))
<1> DEFINE missing == keys \ ActiveKeys(c)
           back == Chosen(c, missing)
           names == [n \in DOMAIN back |-> back[n].key]
           added == DeduplicateStrings(names)
           serving == c.keys \o added
           rest == Unchosen(c, keys)
           historical == c.historical \ keys
           d == WithRestored(c, keys)
<1>1. /\ KnownKeys(c) = ToSet(c.keys) \cup KeysOf(c.disabled) \cup c.historical
      /\ DisabledKeys(c) = KeysOf(c.disabled) /\ ActiveKeys(c) = ToSet(c.keys)
      /\ c.keys \in Seq(APIKeys) /\ historical \in SUBSET APIKeys
  BY ChannelFields
<1>2. /\ back \in Seq(DisabledKeyInfo) /\ KeysOf(back) = DisabledKeys(c) \cap missing
      /\ rest \in Seq(DisabledKeyInfo) /\ KeysOf(rest) = DisabledKeys(c) \ keys
  BY ChosenKeys
<1>3. d = [c EXCEPT !.keys = serving, !.disabled = rest, !.historical = historical]
  BY DEF WithRestored, Channels
<1> HIDE DEF back, rest, d
<1>4. names \in Seq(APIKeys) /\ ToSet(names) = KeysOf(back)
  <2>1. /\ Len(back) \in Nat /\ DOMAIN back = 1..Len(back)
        /\ \A n \in DOMAIN back : back[n] \in DisabledKeyInfo
    BY <1>2, Positions
  <2>2. \A n \in 1..Len(back) : back[n].key \in APIKeys
    BY <2>1 DEF DisabledKeyInfo
  <2>3. names \in Seq(APIKeys)
    BY <2>1, <2>2
  <2>4. ToSet(names) = {back[n].key : n \in DOMAIN back}
    BY DEF ToSet
  <2>5. KeysOf(back) = {back[n].key : n \in DOMAIN back}
    BY DEF KeysOf, ToSet
  <2> QED BY <2>3, <2>4, <2>5
<1> HIDE DEF names
<1>5. added \in Seq(APIKeys) /\ ToSet(added) = ToSet(names)
  BY <1>4, Deduplicated
<1> HIDE DEF added
<1>6. serving \in Seq(APIKeys) /\ ToSet(serving) = ToSet(c.keys) \cup ToSet(added)
  BY <1>1, <1>5, JoinedElements
<1> HIDE DEF serving
<1>7. /\ KnownKeys(c) \subseteq ToSet(serving) \cup KeysOf(rest) \cup historical
      /\ ToSet(serving) \cup KeysOf(rest) \cup historical
           \subseteq KnownKeys(c) \cup OwnKeys[c.id]
  <2>1. ToSet(serving) = ToSet(c.keys) \cup keys
    BY <1>1, <1>2, <1>4, <1>5, <1>6
  <2>2. KeysOf(rest) = KeysOf(c.disabled) \ keys
    BY <1>1, <1>2
  <2> QED BY <1>1, <2>1, <2>2
<1> HIDE DEF historical, missing
<1>8. Grown(c, d)
  BY <1>1, <1>2, <1>3, <1>6, <1>7, Rekeyed
<1> QED BY <1>8 DEF d

(* One disabled key, restored by hand: its first entry goes.                *)
LEMMA OneRestoredGrown ==
  ASSUME NEW c \in Channels, NEW key \in DisabledKeys(c)
  PROVE  Grown(c, KeyRestored(c, key))
<1> DEFINE s == c.disabled
           rest == RemoveFirstMatch(s, LAMBDA e : e.key = key)
           keys == IF key \in ActiveKeys(c) THEN c.keys ELSE Append(c.keys, key)
           historical == c.historical \ {key}
           d == KeyRestored(c, key)
<1>1. /\ KnownKeys(c) = ToSet(c.keys) \cup KeysOf(s) \cup c.historical
      /\ s \in Seq(DisabledKeyInfo) /\ key \in KeysOf(s) /\ KeysOf(s) \subseteq APIKeys
      /\ c.keys \in Seq(APIKeys) /\ historical \in SUBSET APIKeys
  BY ChannelFields
<1>2. /\ Append(c.keys, key) \in Seq(APIKeys)
      /\ ToSet(Append(c.keys, key)) = ToSet(c.keys) \cup {key}
  BY <1>1, AppendedElements
<1>3. keys \in Seq(APIKeys) /\ ToSet(keys) = ToSet(c.keys) \cup {key}
  BY <1>1, <1>2 DEF ActiveKeys
<1>4. d = [c EXCEPT !.keys = keys, !.disabled = rest, !.historical = historical]
  BY DEF Channels, KeyRestored
<1>5. PICK i \in DOMAIN s : rest = RemoveAt(s, i) /\ s[i].key = key
  <2> DEFINE hits == {n \in 1..Len(s) : s[n].key = key}
  <2>1. /\ Len(s) \in Nat /\ DOMAIN s = 1..Len(s)
    BY <1>1, Positions
  <2>2. \E n \in 1..Len(s) : s[n].key = key
    BY <1>1, <2>1 DEF KeysOf, ToSet
  <2>3. hits # {} /\ hits \in SUBSET Nat
    BY <2>1, <2>2
  <2>4. rest = RemoveAt(s, Min(hits))
    BY <2>2, <2>3 DEF RemoveFirstMatch, SelectInSeq
  <2> HIDE DEF hits
  <2>5. Min(hits) \in hits
    BY <2>3, LeastTaken
  <2>6. Min(hits) \in DOMAIN s /\ s[Min(hits)].key = key
    BY <2>1, <2>5 DEF hits
  <2> QED BY <2>4, <2>6
<1> HIDE DEF rest, keys, d
<1>6. /\ rest \in Seq(DisabledKeyInfo) /\ ToSet(rest) \subseteq ToSet(s)
      /\ ToSet(s) \subseteq ToSet(rest) \cup {s[i]}
  BY <1>1, <1>5, ElementTakenOut
<1>7. KeysOf(rest) \subseteq KeysOf(s) /\ KeysOf(s) \subseteq KeysOf(rest) \cup {key}
  BY <1>5, <1>6 DEF KeysOf
<1>8. /\ KnownKeys(c) \subseteq ToSet(keys) \cup KeysOf(rest) \cup historical
      /\ ToSet(keys) \cup KeysOf(rest) \cup historical
           \subseteq KnownKeys(c) \cup OwnKeys[c.id]
  BY <1>1, <1>3, <1>7
<1> HIDE DEF historical
<1>9. Grown(c, d)
  BY <1>1, <1>3, <1>4, <1>6, <1>8, Rekeyed
<1> QED BY <1>9 DEF d

(* An hour later.                                                           *)
Older(c) ==
  [c EXCEPT !.disabled = [n \in DOMAIN c.disabled |->
                            [c.disabled[n] EXCEPT !.due = c.disabled[n].quota]]]

LEMMA OlderGrown ==
  ASSUME NEW c \in Channels
  PROVE  Grown(c, Older(c))
<1> DEFINE s == c.disabled
           late == [n \in DOMAIN s |-> [s[n] EXCEPT !.due = s[n].quota]]
           d == Older(c)
<1>1. /\ KnownKeys(c) = ToSet(c.keys) \cup KeysOf(s) \cup c.historical
      /\ s \in Seq(DisabledKeyInfo)
      /\ c.keys \in Seq(APIKeys) /\ c.historical \in SUBSET APIKeys
  BY ChannelFields
<1>2. Len(s) \in Nat /\ DOMAIN s = 1..Len(s) /\ \A n \in DOMAIN s : s[n] \in DisabledKeyInfo
  BY <1>1, Positions
<1>3. \A n \in DOMAIN s : /\ [s[n] EXCEPT !.due = s[n].quota] \in DisabledKeyInfo
                          /\ [s[n] EXCEPT !.due = s[n].quota].key = s[n].key
  BY <1>2 DEF DisabledKeyInfo
<1>4. late \in Seq(DisabledKeyInfo)
  BY <1>2, <1>3
<1>5. KeysOf(late) = KeysOf(s)
  <2>1. KeysOf(late) = {late[n].key : n \in DOMAIN s}
    BY DEF KeysOf, ToSet
  <2>2. KeysOf(s) = {s[n].key : n \in DOMAIN s}
    BY DEF KeysOf, ToSet
  <2> QED BY <1>3, <2>1, <2>2
<1>6. d = [c EXCEPT !.keys = c.keys, !.disabled = late, !.historical = c.historical]
  BY DEF Older, Channels
<1> HIDE DEF late, d
<1>7. Grown(c, d)
  BY <1>1, <1>4, <1>5, <1>6, Rekeyed
<1> QED BY <1>7 DEF d

(* A channel merged with another keeps its types.                           *)
LEMMA MergedType ==
  ASSUME NEW old \in Channels, NEW new \in Channels
  PROVE  Merge(old, new) \in Channels
<1>1. /\ (IF new.disabled = <<>> THEN old.disabled ELSE new.disabled)
           \in Seq([key : APIKeys, quota : BOOLEAN, due : BOOLEAN])
      /\ (IF new.historical = {} THEN old.historical ELSE new.historical)
           \in SUBSET APIKeys
      /\ (new.promoted \/ old.promoted) \in BOOLEAN
  BY ChannelFields DEF DisabledKeyInfo
<1> QED BY <1>1 DEF Merge, Channels

-----------------------------------------------------------------------------
(* Lists of channels *)

(* A list that has grown or kept its length has its channels in the places  *)
(* that they had.                                                           *)
Placed(old, new) ==
  Len(old) <= Len(new) => \A i \in DOMAIN old : new[i].id = old[i].id

(* What every operation, and a load of the file, keeps of a list.           *)
Successor(old, new) ==
  /\ new \in Seq(Channels)
  /\ AtHome(old) => AtHome(new)
  /\ NamedOnce(old) => NamedOnce(new) /\ KeysCarried(old, new)

Change(old, new) == Successor(old, new) /\ Placed(old, new)

(* Each channel changes in its place.                                       *)
LEMMA Revised ==
  ASSUME NEW old \in Seq(Channels), NEW new, new = [i \in DOMAIN old |-> new[i]],
         \A i \in DOMAIN old : Grown(old[i], new[i])
  PROVE  Change(old, new)
<1>1. /\ Len(old) \in Nat /\ DOMAIN old = 1..Len(old)
      /\ \A i \in DOMAIN old : old[i] \in Channels
  BY Positions
<1>2. DOMAIN new = DOMAIN old
  OBVIOUS
<1>3. \A i \in DOMAIN old :
        /\ new[i] \in Channels /\ new[i].id = old[i].id
        /\ KnownKeys(old[i]) \subseteq KnownKeys(new[i])
        /\ KnownKeys(new[i]) \subseteq KnownKeys(old[i]) \cup OwnKeys[old[i].id]
  BY DEF Grown
<1>4. new \in Seq(Channels)
  <2>1. \A i \in 1..Len(old) : new[i] \in Channels
    BY <1>1, <1>3
  <2>2. [i \in 1..Len(old) |-> new[i]] \in Seq(Channels)
    BY <1>1, <2>1
  <2> QED BY <1>1, <2>2
<1>5. ASSUME AtHome(old) PROVE AtHome(new)
  <2> SUFFICES ASSUME NEW i \in DOMAIN old
               PROVE  KnownKeys(new[i]) \subseteq OwnKeys[new[i].id]
    BY <1>2 DEF AtHome
  <2>1. KnownKeys(old[i]) \subseteq OwnKeys[old[i].id]
    BY <1>5 DEF AtHome
  <2> QED BY <1>3, <2>1
<1>6. ASSUME NamedOnce(old) PROVE NamedOnce(new)
  BY <1>2, <1>3, <1>6 DEF NamedOnce
<1>7. ASSUME NamedOnce(old) PROVE KeysCarried(old, new)
  <2> SUFFICES ASSUME NEW i \in DOMAIN old, NEW j \in DOMAIN old,
                      old[i].id = new[j].id
               PROVE  KnownKeys(old[i]) \subseteq KnownKeys(new[j])
    BY <1>2 DEF KeysCarried
  <2>1. i = j
    BY <1>3, <1>7 DEF NamedOnce
  <2> QED BY <1>3, <2>1
<1>8. Placed(old, new)
  BY <1>3 DEF Placed
<1> QED BY <1>4, <1>5, <1>6, <1>7, <1>8 DEF Change, Successor

LEMMA GrownItself ==
  ASSUME NEW c \in Channels
  PROVE  Grown(c, c)
BY DEF Grown

LEMMA ChangedOne ==
  ASSUME NEW old \in Seq(Channels), NEW i \in DOMAIN old, NEW c, Grown(old[i], c)
  PROVE  Change(old, [old EXCEPT ![i] = c])
<1> DEFINE new == [old EXCEPT ![i] = c]
<1>1. \A j \in DOMAIN old : old[j] \in Channels
  BY Positions
<1>2. /\ new = [j \in DOMAIN old |-> new[j]]
      /\ \A j \in DOMAIN old : new[j] = IF j = i THEN c ELSE old[j]
  OBVIOUS
<1> HIDE DEF new
<1>3. \A j \in DOMAIN old : Grown(old[j], new[j])
  BY <1>1, <1>2, GrownItself
<1>4. Change(old, new)
  BY <1>2, <1>3, Revised
<1> QED BY <1>4 DEF new

(* A channel that is taken out: the others keep their names and keys.       *)
LEMMA ChangedByRemoval ==
  ASSUME NEW old \in Seq(Channels), NEW i \in DOMAIN old
  PROVE  /\ Change(old, RemoveAt(old, i))
         /\ \A j \in DOMAIN RemoveAt(old, i) : \E k \in DOMAIN old : RemoveAt(old, i)[j] = old[k]
<1> DEFINE new == RemoveAt(old, i)
           from(j) == IF j < i THEN j ELSE j + 1
<1>1. Len(old) \in Nat /\ DOMAIN old = 1..Len(old)
  BY Positions
<1>2. /\ new \in Seq(Channels) /\ DOMAIN new = 1..(Len(old) - 1)
      /\ \A j \in 1..(Len(old) - 1) :
           /\ j < i => j \in DOMAIN old /\ new[j] = old[j]
           /\ ~(j < i) => j + 1 \in DOMAIN old /\ new[j] = old[j + 1]
  BY Removed
<1> HIDE DEF new
<1>3. \A j \in DOMAIN new : from(j) \in DOMAIN old /\ new[j] = old[from(j)]
  BY <1>2
<1>4. \A j, k \in DOMAIN new : from(j) = from(k) => j = k
  BY <1>1, <1>2
<1> HIDE DEF from
<1>5. AtHome(old) => AtHome(new)
  BY <1>3 DEF AtHome
<1>6. ASSUME NamedOnce(old) PROVE NamedOnce(new) /\ KeysCarried(old, new)
  <2>1. NamedOnce(new)
    BY <1>3, <1>4, <1>6 DEF NamedOnce
  <2>2. \A k \in DOMAIN old, j \in DOMAIN new : old[k].id = new[j].id => k = from(j)
    BY <1>3, <1>6 DEF NamedOnce
  <2>3. KeysCarried(old, new)
    BY <1>3, <2>2 DEF KeysCarried
  <2> QED BY <2>1, <2>3
<1>7. Placed(old, new)
  <2>1. Len(new) \in Nat /\ DOMAIN new = 1..Len(new)
    BY <1>2, Positions
  <2>2. Len(old) \in 1..Len(old) /\ Len(old) \notin 1..(Len(old) - 1)
    BY <1>1
  <2>3. ~(Len(old) <= Len(new))
    BY <1>1, <1>2, <2>1, <2>2
  <2> QED BY <2>3 DEF Placed
<1> QED BY <1>2, <1>3, <1>5, <1>6, <1>7 DEF Change, Successor, new

(* A channel with a new name and keys of its own.                           *)
LEMMA ChangedByAppend ==
  ASSUME NEW old \in Seq(Channels), NEW c \in Channels,
         KnownKeys(c) \subseteq OwnKeys[c.id],
         \A i \in DOMAIN old : old[i].id # c.id
  PROVE  Change(old, Append(old, c))
<1> DEFINE new == Append(old, c)
<1>1. Len(old) \in Nat /\ DOMAIN old = 1..Len(old)
  BY Positions
<1>2. /\ new \in Seq(Channels) /\ DOMAIN new = 1..(Len(old) + 1)
      /\ \A j \in 1..(Len(old) + 1) : new[j] = IF j <= Len(old) THEN old[j] ELSE c
  BY <1>1
<1> HIDE DEF new
<1>3. \A j \in DOMAIN new : \/ j \in DOMAIN old /\ new[j] = old[j]
                            \/ j = Len(old) + 1 /\ new[j] = c
  BY <1>1, <1>2
<1>4. AtHome(old) => AtHome(new)
  BY <1>3 DEF AtHome
<1>5. ASSUME NamedOnce(old) PROVE NamedOnce(new) /\ KeysCarried(old, new)
  <2>1. NamedOnce(new)
    BY <1>3, <1>5 DEF NamedOnce
  <2>2. ASSUME NEW i \in DOMAIN old, NEW j \in DOMAIN new, old[i].id = new[j].id
        PROVE  KnownKeys(old[i]) \subseteq KnownKeys(new[j])
    BY <1>3, <1>5, <2>2 DEF NamedOnce
  <2> QED BY <2>1, <2>2 DEF KeysCarried
<1>6. Placed(old, new)
  BY <1>1, <1>2 DEF Placed
<1> QED BY <1>2, <1>4, <1>5, <1>6 DEF Change, Successor, new

(* The check of the keys suspends channels, and changes nothing else.       *)
LEMMA Checked ==
  ASSUME NEW list \in Seq(Channels)
  PROVE  /\ Change(list, ValidateChannelKeys(list))
         /\ DOMAIN ValidateChannelKeys(list) = DOMAIN list
         /\ \A i \in DOMAIN list :
              /\ ValidateChannelKeys(list)[i].id = list[i].id
              /\ KnownKeys(ValidateChannelKeys(list)[i]) = KnownKeys(list[i])
<1> DEFINE new == ValidateChannelKeys(list)
<1>1. new = [i \in DOMAIN list |->
               IF list[i].status = "active" /\ list[i].keys = <<>>
               THEN [list[i] EXCEPT !.status = "suspended"] ELSE list[i]]
  BY DEF ValidateChannelKeys
<1>2. \A i \in DOMAIN list : list[i] \in Channels
  BY Positions
<1> HIDE DEF new
<1>3. ASSUME NEW i \in DOMAIN list
      PROVE  Grown(list[i], new[i]) /\ KnownKeys(new[i]) = KnownKeys(list[i])
  <2> DEFINE c == list[i]
  <2>1. c \in Channels /\ (new[i] = c \/ new[i] = [c EXCEPT !.status = "suspended"])
    BY <1>1, <1>2
  <2> HIDE DEF c
  <2>2. CASE new[i] = c
    BY <2>1, <2>2, GrownItself DEF c
  <2>3. CASE new[i] = [c EXCEPT !.status = "suspended"]
    <3> DEFINE d == new[i]
               status == "suspended"
    <3>0. c \in Channels
      BY <2>1
    <3>1. /\ status \in Statuses /\ c.promoted \in BOOLEAN /\ c.priority \in Nat
          /\ d = [c EXCEPT !.status = status, !.promoted = c.promoted,
                           !.priority = c.priority]
      BY <2>1, <2>3 DEF Channels, Statuses
    <3> HIDE DEF d, status
    <3>2. Grown(c, d)
      BY <3>0, <3>1, Reordered
    <3>4. KnownKeys(d) = KnownKeys(c)
      <4>1. d.keys = c.keys /\ d.disabled = c.disabled /\ d.historical = c.historical
        BY <3>0, <3>1 DEF Channels
      <4> QED BY <4>1 DEF KnownKeys, ActiveKeys, DisabledKeys, Entries
    <3>3. c = list[i]
      BY DEF c
    <3> QED BY <3>2, <3>3, <3>4 DEF d
  <2> QED BY <2>1, <2>2, <2>3
<1>4. new = [i \in DOMAIN list |-> new[i]]
  BY <1>1
<1>5. Change(list, new)
  BY <1>3, <1>4, Revised
<1>6. DOMAIN new = DOMAIN list
  BY <1>1
<1> QED BY <1>3, <1>5, <1>6 DEF Grown, new

-----------------------------------------------------------------------------
(* The steps *)

(* A step that saves a list which an operation has made.                    *)
Saving == \E list : SaveConfigLocked(list) /\ Change(config, list)

LEMMA SavedOne ==
  ASSUME config \in Seq(Channels), NEW i \in DOMAIN config, NEW c, Grown(config[i], c),
         SaveConfigLocked([config EXCEPT ![i] = c])
  PROVE  Saving
BY ChangedOne DEF Saving

LEMMA AddUpstreamSaves ==
  ASSUME config \in Seq(Channels), AddUpstream
  PROVE  Saving
<1>0. PICK id \in ChannelIds \ {config[i].id : i \in DOMAIN config} :
        \E keys \in {<<>>} \cup {<<k>> : k \in OwnKeys[id]} :
          SaveConfigLocked(Append(config, NewChannel(id, DeduplicateStrings(keys))))
  BY DEF AddUpstream
<1>1. PICK keys \in {<<>>} \cup {<<k>> : k \in OwnKeys[id]} :
        SaveConfigLocked(Append(config, NewChannel(id, DeduplicateStrings(keys))))
  BY <1>0
<1>2. OwnKeys[id] \subseteq APIKeys
  BY ChannelConfigAssumption
<1>3. keys \in Seq(APIKeys) /\ ToSet(keys) \subseteq OwnKeys[id]
  <2>1. CASE keys = <<>>
    <3>1. ToSet(keys) = {}
      BY <2>1 DEF ToSet
    <3> QED BY <2>1, <3>1
  <2>2. CASE keys # <<>>
    <3>1. PICK k \in OwnKeys[id] : keys = <<k>>
      BY <1>1, <2>2
    <3>2. k \in APIKeys
      BY <1>2, <3>1
    <3>3. <<k>> \in Seq(APIKeys) /\ ToSet(<<k>>) = {k}
      BY <3>2, SingleElement
    <3> QED BY <3>1, <3>3
  <2> QED BY <2>1, <2>2
<1> DEFINE unique == DeduplicateStrings(keys)
           c == NewChannel(id, unique)
<1>4. unique \in Seq(APIKeys) /\ ToSet(unique) = ToSet(keys)
  BY <1>3, Deduplicated
<1> HIDE DEF unique
<1>5. /\ c \in Channels /\ c.id = id /\ c.keys = unique /\ c.disabled = <<>>
      /\ c.historical = {}
  BY <1>0, <1>4 DEF NewChannel, Channels, Statuses
<1> HIDE DEF c
<1>6. KnownKeys(c) \subseteq OwnKeys[c.id]
  <2>1. KeysOf(c.disabled) = {}
    BY <1>5 DEF KeysOf, ToSet
  <2>2. KnownKeys(c) = ToSet(c.keys) \cup KeysOf(c.disabled) \cup c.historical
    BY <1>5, ChannelFields
  <2> QED BY <1>3, <1>4, <1>5, <2>1, <2>2
<1>7. \A i \in DOMAIN config : config[i].id # c.id
  BY <1>0, <1>5
<1>8. Change(config, Append(config, c))
  BY <1>5, <1>6, <1>7, ChangedByAppend
<1>9. SaveConfigLocked(Append(config, c))
  BY <1>1 DEF c, unique
<1> QED BY <1>8, <1>9 DEF Saving

LEMMA UpdateUpstreamSaves ==
  ASSUME config \in Seq(Channels), NEW i \in DOMAIN config, UpdateUpstream(i)
  PROVE  Saving
<1>1. PICK update \in Updates :
        /\ update.keys # None => ToSet(update.keys) \subseteq OwnKeys[config[i].id]
        /\ SaveConfigLocked([config EXCEPT ![i] = Updated(config[i], update)])
  BY DEF UpdateUpstream, Set
<1>2. config[i] \in Channels
  BY Positions
<1>3. Grown(config[i], Updated(config[i], update))
  BY <1>1, <1>2, UpdatedGrown
<1> QED BY <1>1, <1>3, SavedOne

LEMMA RemoveUpstreamSaves ==
  ASSUME config \in Seq(Channels), NEW i \in DOMAIN config, RemoveUpstream(i)
  PROVE  Saving
<1>1. Change(config, RemoveAt(config, i))
  BY ChangedByRemoval
<1> QED BY <1>1 DEF RemoveUpstream, Saving

LEMMA KeyEditsSave ==
  ASSUME config \in Seq(Channels), NEW i \in DOMAIN config, KeyEdits(i)
  PROVE  Saving
<1> DEFINE c == config[i]
<1>1. c \in Channels
  BY Positions
<1>2. CASE AddAPIKey(i)
  <2>1. PICK key \in OwnKeys[c.id] :
          SaveConfigLocked([config EXCEPT ![i] =
            [c EXCEPT !.keys = Append(@, key), !.disabled = Unchosen(c, {key}),
                      !.historical = @ \ {key}]])
    BY <1>2 DEF AddAPIKey, Set
  <2>2. Grown(c, [c EXCEPT !.keys = Append(@, key), !.disabled = Unchosen(c, {key}),
                           !.historical = @ \ {key}])
    BY <1>1, <2>1, KeyAddedGrown
  <2> QED BY <2>1, <2>2, SavedOne
<1>3. CASE RemoveAPIKey(i)
  <2>1. PICK key \in ActiveKeys(c) :
          SaveConfigLocked([config EXCEPT ![i] =
            [c EXCEPT !.keys = RemoveFirst(@, key), !.historical = @ \cup {key}]])
    BY <1>3 DEF RemoveAPIKey, Set
  <2>2. Grown(c, [c EXCEPT !.keys = RemoveFirst(@, key), !.historical = @ \cup {key}])
    BY <1>1, <2>1, KeyRemovedGrown
  <2> QED BY <2>1, <2>2, SavedOne
<1>4. CASE MoveAPIKeyToTop(i)
  <2>1. PICK key \in ActiveKeys(c) :
          SaveConfigLocked([config EXCEPT ![i] =
            [c EXCEPT !.keys = <<key>> \o RemoveFirst(@, key)]])
    BY <1>4 DEF MoveAPIKeyToTop, Set
  <2>2. Grown(c, [c EXCEPT !.keys = <<key>> \o RemoveFirst(@, key)])
    BY <1>1, <2>1, KeyMovedGrown
  <2> QED BY <2>1, <2>2, SavedOne
<1>5. CASE MoveAPIKeyToBottom(i)
  <2>1. PICK key \in ActiveKeys(c) :
          SaveConfigLocked([config EXCEPT ![i] =
            [c EXCEPT !.keys = Append(RemoveFirst(@, key), key)]])
    BY <1>5 DEF MoveAPIKeyToBottom, Set
  <2>2. Grown(c, [c EXCEPT !.keys = Append(RemoveFirst(@, key), key)])
    BY <1>1, <2>1, KeyMovedGrown
  <2> QED BY <2>1, <2>2, SavedOne
<1> QED BY <1>2, <1>3, <1>4, <1>5 DEF KeyEdits

(* Only the order, the status or the promotion of the channels changes.     *)
LEMMA SavedOrder ==
  ASSUME config \in Seq(Channels), NEW list, list = [i \in DOMAIN config |-> list[i]],
         SaveConfigLocked(list),
         \A i \in DOMAIN config :
           \E status \in Statuses, promoted \in BOOLEAN, priority \in Nat :
             list[i] = [config[i] EXCEPT !.status = status, !.promoted = promoted,
                                         !.priority = priority]
  PROVE  Saving
<1>1. ASSUME NEW i \in DOMAIN config
      PROVE  Grown(config[i], list[i])
  <2> DEFINE c == config[i]
             d == list[i]
  <2>1. PICK status \in Statuses, promoted \in BOOLEAN, priority \in Nat :
          d = [c EXCEPT !.status = status, !.promoted = promoted, !.priority = priority]
    OBVIOUS
  <2>2. c \in Channels
    BY Positions
  <2> HIDE DEF c, d
  <2>3. Grown(c, d)
    BY <2>1, <2>2, Reordered
  <2> QED BY <2>3 DEF c, d
<1>2. Change(config, list)
  BY <1>1, Revised
<1> QED BY <1>2 DEF Saving

LEMMA OrderEditsSave ==
  ASSUME config \in Seq(Channels), NEW i \in DOMAIN config, OrderEdits(i)
  PROVE  Saving
<1>1. \A j \in DOMAIN config : config[j] \in Channels
  BY Positions
<1>2. CASE SetChannelStatus(i)
  <2> DEFINE c == config[i]
  <2>1. PICK status \in Statuses :
          SaveConfigLocked([config EXCEPT ![i] =
            [c EXCEPT !.status = status, !.promoted = @ /\ status # "suspended"]])
    BY <1>2 DEF SetChannelStatus, Set
  <2> DEFINE promoted == c.promoted /\ status # "suspended"
             d == [c EXCEPT !.status = status, !.promoted = @ /\ status # "suspended"]
  <2>2. /\ c \in Channels /\ promoted \in BOOLEAN /\ c.priority \in Nat
        /\ d = [c EXCEPT !.status = status, !.promoted = promoted, !.priority = c.priority]
    BY <1>1 DEF Channels
  <2>3. SaveConfigLocked([config EXCEPT ![i] = d])
    BY <2>1
  <2> HIDE DEF c, d, promoted
  <2>4. Grown(c, d)
    BY <2>2, Reordered
  <2> QED BY <2>3, <2>4, SavedOne DEF c
<1>3. CASE SetChannelPromotion(i)
  <2>1. PICK promote \in BOOLEAN :
          SaveConfigLocked([j \in DOMAIN config |->
            [config[j] EXCEPT !.promoted = IF j = i THEN promote ELSE @ /\ ~promote]])
    BY <1>3 DEF SetChannelPromotion
  <2> DEFINE list == [j \in DOMAIN config |->
                [config[j] EXCEPT !.promoted = IF j = i THEN promote ELSE @ /\ ~promote]]
  <2>2. list = [j \in DOMAIN config |-> list[j]] /\ SaveConfigLocked(list)
    BY <2>1
  <2>3. ASSUME NEW j \in DOMAIN config
        PROVE  \E status \in Statuses, promoted \in BOOLEAN, priority \in Nat :
                 list[j] = [config[j] EXCEPT !.status = status, !.promoted = promoted,
                                             !.priority = priority]
    <3> DEFINE c == config[j]
               promoted == IF j = i THEN promote ELSE c.promoted /\ ~promote
    <3>1. c \in Channels /\ promoted \in BOOLEAN /\ list[j] = [c EXCEPT !.promoted = promoted]
      BY <1>1, <2>1 DEF Channels
    <3> HIDE DEF c, promoted, list
    <3>2. /\ c.status \in Statuses /\ c.priority \in Nat
          /\ list[j] = [c EXCEPT !.status = c.status, !.promoted = promoted,
                                 !.priority = c.priority]
      BY <3>1 DEF Channels
    <3> QED BY <3>1, <3>2 DEF c
  <2> HIDE DEF list
  <2> QED BY <2>2, <2>3, SavedOrder
<1> QED BY <1>2, <1>3 DEF OrderEdits

(* Every channel that the order names has a place in it.                    *)
LEMMA ReorderSaves ==
  ASSUME config \in Seq(Channels), ReorderUpstreams
  PROVE  Saving
<1>1. /\ Len(config) \in Nat /\ DOMAIN config = 1..Len(config) /\ IsFiniteSet(DOMAIN config)
      /\ \A i \in DOMAIN config : config[i] \in Channels
  BY Positions
<1>0. PICK named \in SUBSET DOMAIN config \ {{}} :
        \E order \in SetToSeqs(named) :
          SaveConfigLocked([i \in DOMAIN config |->
            IF i \in named
            THEN [config[i] EXCEPT !.priority = CHOOSE n \in DOMAIN order : order[n] = i]
            ELSE config[i]])
  BY DEF ReorderUpstreams
<1>2. PICK order \in SetToSeqs(named) :
        SaveConfigLocked([i \in DOMAIN config |->
          IF i \in named
          THEN [config[i] EXCEPT !.priority = CHOOSE n \in DOMAIN order : order[n] = i]
          ELSE config[i]])
  BY <1>0
<1> DEFINE places == 1..Cardinality(named)
           place(i) == CHOOSE n \in DOMAIN order : order[n] = i
           list == [i \in DOMAIN config |->
                      IF i \in named THEN [config[i] EXCEPT !.priority = place(i)]
                      ELSE config[i]]
<1>3. IsFiniteSet(named) /\ Cardinality(named) \in Nat
  BY <1>0, <1>1, FS_Subset, FS_CardinalityType
<1>4. order \in Injection(places, named)
  BY <1>2 DEF SetToSeqs, Injection, IsInjective
<1>5. IsFiniteSet(places) /\ Cardinality(places) = Cardinality(named)
  BY <1>3, FS_Interval
<1>6. order \in Surjection(places, named)
  BY <1>3, <1>4, <1>5, FS_Injection
<1>7. \A i \in named : place(i) \in Nat
  <2>1. DOMAIN order = places /\ places \subseteq Nat
    BY <1>3, <1>6 DEF Surjection
  <2>2. \A i \in named : \E n \in DOMAIN order : order[n] = i
    BY <1>6, <2>1 DEF Surjection
  <2> QED BY <2>1, <2>2
<1> HIDE DEF place
<1>8. list = [i \in DOMAIN config |-> list[i]] /\ SaveConfigLocked(list)
  BY <1>2 DEF place
<1>9. ASSUME NEW i \in DOMAIN config
      PROVE  \E status \in Statuses, promoted \in BOOLEAN, priority \in Nat :
               list[i] = [config[i] EXCEPT !.status = status, !.promoted = promoted,
                                           !.priority = priority]
  <2> DEFINE c == config[i]
             priority == IF i \in named THEN place(i) ELSE c.priority
  <2>1. /\ c \in Channels /\ priority \in Nat
        /\ list[i] = [c EXCEPT !.priority = priority]
    BY <1>1, <1>7 DEF Channels
  <2> HIDE DEF c, priority, list
  <2>2. /\ c.status \in Statuses /\ c.promoted \in BOOLEAN
        /\ list[i] = [c EXCEPT !.status = c.status, !.promoted = c.promoted,
                               !.priority = priority]
    BY <2>1 DEF Channels
  <2> QED BY <2>1, <2>2 DEF c
<1> HIDE DEF list
<1> QED BY <1>8, <1>9, SavedOrder

LEMMA RestoresSave ==
  ASSUME config \in Seq(Channels), NEW i \in DOMAIN config, RestoreKey(i) \/ RestoreAllKeys(i)
  PROVE  Saving
<1> DEFINE c == config[i]
<1>1. c \in Channels
  BY Positions
<1>2. CASE RestoreKey(i)
  <2>1. PICK key \in DisabledKeys(c) :
          SaveConfigLocked([config EXCEPT ![i] = KeyRestored(c, key)])
    BY <1>2 DEF RestoreKey
  <2>2. Grown(c, KeyRestored(c, key))
    BY <1>1, <2>1, OneRestoredGrown
  <2> QED BY <2>1, <2>2, SavedOne
<1>3. CASE RestoreAllKeys(i)
  <2>1. SaveConfigLocked([config EXCEPT ![i] = WithRestored(c, DisabledKeys(c))])
    BY <1>3 DEF RestoreAllKeys
  <2>2. Grown(c, WithRestored(c, DisabledKeys(c)))
    BY <1>1, RestoredGrown
  <2> QED BY <2>1, <2>2, SavedOne
<1> QED BY <1>2, <1>3

LEMMA ConsoleSaves ==
  ASSUME config \in Seq(Channels), Console
  PROVE  Saving
<1>1. PICK i \in DOMAIN config :
        \/ MessagesConsole(i) \/ ResponsesConsole(i) \/ GeminiConsole(i)
        \/ ChatConsole(i) \/ ImagesConsole(i)
        \/ RestoreKey(i) \/ RestoreAllKeys(i)
  BY DEF Console
<1>2. \/ AddUpstream \/ UpdateUpstream(i) \/ RemoveUpstream(i) \/ KeyEdits(i)
      \/ ReorderUpstreams \/ OrderEdits(i) \/ RestoreKey(i) \/ RestoreAllKeys(i)
  BY <1>1 DEF MessagesConsole, ResponsesConsole, ResponsesChannels, ResponsesKeys,
     ResponsesOrder, GeminiConsole, GeminiChannels, GeminiKeys, GeminiOrder,
     ChatConsole, ChatChannels, ChatKeys, ChatOrder,
     ImagesConsole, ImagesChannels, ImagesKeys, ImagesOrder
<1> QED BY <1>2, AddUpstreamSaves, UpdateUpstreamSaves, RemoveUpstreamSaves, KeyEditsSave,
           ReorderSaves, OrderEditsSave, RestoresSave

LEMMA RejectionSaves ==
  ASSUME config \in Seq(Channels), NEW p, BlacklistKey(p)
  PROVE  Saving \/ UNCHANGED listVars
<1> DEFINE i == proxy[p].at
           key == proxy[p].key
           c == config[i]
<1>1. CASE ~Holds(i, key)
  BY <1>1 DEF BlacklistKey
<1>2. CASE Holds(i, key)
  <2>1. PICK quota \in BOOLEAN :
          SaveConfigLocked([config EXCEPT ![i] = KeyDisabled(c, key, quota)])
    BY <1>2 DEF BlacklistKey
  <2>2. i \in DOMAIN config /\ c \in Channels /\ key \in ActiveKeys(c)
    BY <1>2, Positions DEF Holds
  <2> HIDE DEF i, key
  <2>3. Grown(c, KeyDisabled(c, key, quota))
    BY <2>2, KeyRejectedGrown
  <2> QED BY <2>1, <2>2, <2>3, SavedOne
<1> QED BY <1>1, <1>2

LEMMA DeprioritizationSaves ==
  ASSUME config \in Seq(Channels), NEW p, DeprioritizeAPIKey(p)
  PROVE  Saving \/ UNCHANGED listVars
<1> DEFINE key == proxy[p].key
           hits == {n \in 1..Len(config) :
                      FirstAt(config[n].keys, key) \notin {0, Len(config[n].keys)}}
           i == SelectInSeq(config, LAMBDA c : FirstAt(c.keys, key) \notin {0, Len(c.keys)})
           c == config[i]
<1>1. CASE ~(interface # "Gemini" /\ i # 0)
  BY <1>1 DEF DeprioritizeAPIKey
<1>2. CASE interface # "Gemini" /\ i # 0
  <2>1. SaveConfigLocked([config EXCEPT ![i].keys = Append(RemoveFirst(@, key), key)])
    BY <1>2 DEF DeprioritizeAPIKey
  <2>2. /\ Len(config) \in Nat /\ DOMAIN config = 1..Len(config)
        /\ \A n \in DOMAIN config : config[n] \in Channels
    BY Positions
  <2>3. hits # {} /\ i = Min(hits)
    <3>1. i = IF hits # {} THEN Min(hits) ELSE 0
      BY DEF SelectInSeq
    <3> QED BY <1>2, <3>1
  <2>4. hits \in SUBSET Nat
    BY <2>2
  <2>5. i \in DOMAIN config /\ FirstAt(config[i].keys, key) # 0
    <3> HIDE DEF i
    <3>1. i \in hits
      <4> HIDE DEF hits
      <4> QED BY <2>3, <2>4, LeastTaken
    <3> QED BY <2>2, <3>1
  <2> HIDE DEF i, key
  <2>6. c \in Channels /\ key \in ActiveKeys(c)
    <3>1. \E n \in 1..Len(config[i].keys) : config[i].keys[n] = key
      BY <2>5 DEF FirstAt, SelectInSeq
    <3>2. c \in Channels /\ c.keys \in Seq(APIKeys)
      BY <2>2, <2>5, ChannelFields
    <3> QED BY <3>1, <3>2 DEF ActiveKeys, ToSet
  <2>7. Grown(c, [c EXCEPT !.keys = Append(RemoveFirst(@, key), key)])
    BY <2>6, KeyMovedGrown
  <2>8. SaveConfigLocked([config EXCEPT ![i] =
          [c EXCEPT !.keys = Append(RemoveFirst(@, key), key)]])
    BY <2>1
  <2> QED BY <2>5, <2>7, <2>8, SavedOne
<1> QED BY <1>1, <1>2

LEMMA RecoverySaves ==
  ASSUME config \in Seq(Channels), RestoreDisabledKeys \/ Activate
  PROVE  Saving \/ UNCHANGED listVars
<1> DEFINE i == recovery.at
           c == config[i]
<1>1. CASE RestoreDisabledKeys
  <2> DEFINE hit == DisabledKeys(c) \cap recovery.plan[i].keys
  <2>1. \/ UNCHANGED listVars
        \/ i \in DOMAIN config /\ SaveConfigLocked([config EXCEPT ![i] = WithRestored(c, hit)])
    BY <1>1 DEF RestoreDisabledKeys
  <2> SUFFICES ASSUME i \in DOMAIN config,
                      SaveConfigLocked([config EXCEPT ![i] = WithRestored(c, hit)])
               PROVE  Saving
    BY <2>1
  <2>2. c \in Channels /\ hit \in SUBSET DisabledKeys(c)
    BY Positions
  <2> HIDE DEF i, hit
  <2>3. Grown(c, WithRestored(c, hit))
    BY <2>2, RestoredGrown
  <2> QED BY <2>3, SavedOne
<1>2. CASE Activate
  <2>1. \/ UNCHANGED listVars
        \/ i \in DOMAIN config /\ SaveConfigLocked([config EXCEPT ![i].status = "active"])
    BY <1>2 DEF Activate
  <2> SUFFICES ASSUME i \in DOMAIN config,
                      SaveConfigLocked([config EXCEPT ![i].status = "active"])
               PROVE  Saving
    BY <2>1
  <2> HIDE DEF i
  <2> DEFINE status == "active"
             d == [c EXCEPT !.status = status]
  <2>2. SaveConfigLocked([config EXCEPT ![i] = d])
    OBVIOUS
  <2>0. c \in Channels
    BY Positions
  <2>3. /\ c \in Channels /\ status \in Statuses /\ c.promoted \in BOOLEAN /\ c.priority \in Nat
        /\ d = [c EXCEPT !.status = status, !.promoted = c.promoted, !.priority = c.priority]
    BY <2>0 DEF Channels, Statuses
  <2> HIDE DEF c, d, status
  <2>4. Grown(c, d)
    BY <2>3, Reordered
  <2> QED BY <2>2, <2>4, SavedOne DEF c
<1> QED BY <1>1, <1>2

(* Most steps save what an operation has made, or leave the lists alone.    *)
LEMMA Steps ==
  ASSUME config \in Seq(Channels), [ConfigNext]_configVars
  PROVE  \/ Saving \/ UNCHANGED listVars
         \/ LoadConfig \/ FileEdit \/ HourPasses \/ Restart
<1>1. CASE Console
  BY <1>1, ConsoleSaves
<1>2. CASE \E p \in Proxies :
             \/ Pick(p) \/ Served(p)
             \/ BlacklistKey(p) \/ MarkKeyAsFailed(p) \/ DeprioritizeAPIKey(p)
  <2>1. PICK p \in Proxies :
          \/ Pick(p) \/ Served(p)
          \/ BlacklistKey(p) \/ MarkKeyAsFailed(p) \/ DeprioritizeAPIKey(p)
    BY <1>2
  <2>2. CASE Pick(p) \/ Served(p) \/ MarkKeyAsFailed(p)
    BY <2>2 DEF Pick, Served, MarkKeyAsFailed
  <2>3. CASE BlacklistKey(p) \/ DeprioritizeAPIKey(p)
    BY <2>3, RejectionSaves, DeprioritizationSaves
  <2> QED BY <2>1, <2>2, <2>3
<1>3. CASE RestoreDisabledKeys \/ Activate
  BY <1>3, RecoverySaves
<1>4. CASE CleanupExpiredFailures \/ StartRecovery \/ ShouldActivateChannel
  BY <1>4 DEF CleanupExpiredFailures, StartRecovery, ShouldActivateChannel
<1>5. CASE UNCHANGED configVars
  BY <1>5 DEF configVars
<1> QED BY <1>1, <1>2, <1>3, <1>4, <1>5 DEF ConfigNext

-----------------------------------------------------------------------------
(* The file is loaded *)

LEMMA DecodedType ==
  ASSUME NEW old \in Seq(Channels), NEW file \in Seq(Channels)
  PROVE  Decoded(old, file) \in Seq(Channels)
<1>1. /\ Len(old) \in Nat /\ DOMAIN old = 1..Len(old)
      /\ \A i \in DOMAIN old : old[i] \in Channels
  BY Positions
<1>2. /\ Len(file) \in Nat /\ DOMAIN file = 1..Len(file)
      /\ \A i \in DOMAIN file : file[i] \in Channels
  BY Positions
<1> DEFINE element(i) == IF i <= Len(old) THEN Merge(old[i], file[i]) ELSE file[i]
<1>3. \A i \in 1..Len(file) : element(i) \in Channels
  <2> SUFFICES ASSUME NEW i \in 1..Len(file) PROVE element(i) \in Channels
    OBVIOUS
  <2>1. CASE i <= Len(old)
    <3>1. i \in DOMAIN old /\ old[i] \in Channels /\ file[i] \in Channels
      BY <1>1, <1>2, <2>1
    <3>2. Merge(old[i], file[i]) \in Channels
      BY <3>1, MergedType
    <3> QED BY <2>1, <3>2
  <2>2. CASE ~(i <= Len(old))
    BY <1>2, <2>2
  <2> QED BY <2>1, <2>2
<1> HIDE DEF element
<1>4. [i \in 1..Len(file) |-> element(i)] \in Seq(Channels)
  BY <1>2, <1>3
<1>5. \/ Decoded(old, file) = old
      \/ Decoded(old, file) = [i \in 1..Len(file) |-> element(i)]
  BY <1>2 DEF Decoded, element
<1> QED BY <1>4, <1>5

(* A list whose channels are channels of another, up to their status.       *)
LEMMA Remaining ==
  ASSUME NEW old \in Seq(Channels), NEW new \in Seq(Channels),
         NamedOnce(old), NamedOnce(new),
         \A j \in DOMAIN new : \E i \in DOMAIN old :
           new[j].id = old[i].id /\ KnownKeys(new[j]) = KnownKeys(old[i])
  PROVE  Successor(old, new)
<1>1. AtHome(old) => AtHome(new)
  BY DEF AtHome
<1>2. KeysCarried(old, new)
  <2> SUFFICES ASSUME NEW i \in DOMAIN old, NEW j \in DOMAIN new, old[i].id = new[j].id
               PROVE  KnownKeys(old[i]) \subseteq KnownKeys(new[j])
    BY DEF KeysCarried
  <2>1. PICK k \in DOMAIN old : new[j].id = old[k].id /\ KnownKeys(new[j]) = KnownKeys(old[k])
    OBVIOUS
  <2>2. k = i
    BY <2>1 DEF NamedOnce
  <2> QED BY <2>1, <2>2
<1> QED BY <1>1, <1>2 DEF Successor

-----------------------------------------------------------------------------
(* Keys at home, and none lost *)

ListTypes == config \in Seq(Channels) /\ disk \in Seq(Channels) /\ drift \in BOOLEAN

(* Until they drift apart, the channels in the file are channels in memory  *)
(* (all of them, but for the ones that were deleted by hand).               *)
InStep ==
  ~drift => /\ AtHome(config) /\ NamedOnce(config) /\ NamedOnce(disk)
            /\ \A j \in DOMAIN disk : \E i \in DOMAIN config : disk[j] = config[i]

ConfigInv == ListTypes /\ InStep

NoneLost == drift \/ drift' \/ KeysCarried(config, config')

LEMMA Settled ==
  ASSUME ConfigInv, UNCHANGED listVars
  PROVE  ConfigInv' /\ NoneLost
<1>1. config' = config /\ disk' = disk /\ drift' = drift
  BY DEF listVars
<1>2. ConfigInv'
  BY <1>1 DEF ConfigInv, ListTypes, InStep, AtHome, NamedOnce
<1>3. NamedOnce(config) => KeysCarried(config, config)
  BY DEF NamedOnce, KeysCarried
<1> QED BY <1>1, <1>2, <1>3 DEF ConfigInv, ListTypes, InStep, NoneLost

LEMMA Saved ==
  ASSUME ConfigInv, NEW list \in Seq(Channels), NEW merged \in BOOLEAN, Save(list, merged),
         ~drift /\ ~merged => Successor(config, list)
  PROVE  ConfigInv' /\ NoneLost
<1>1. /\ config' = list
      /\ \/ disk' = list /\ drift' = (drift \/ merged)
         \/ disk' = disk /\ drift' = (drift \/ merged \/ disk # list)
  BY DEF Save
<1>2. ListTypes'
  BY <1>1 DEF ConfigInv, ListTypes
<1>3. ASSUME ~drift' PROVE disk' = list /\ ~drift /\ ~merged
  BY <1>1, <1>3 DEF ConfigInv, ListTypes
<1>4. ASSUME ~drift' PROVE AtHome(list) /\ NamedOnce(list) /\ KeysCarried(config, list)
  BY <1>3, <1>4 DEF ConfigInv, InStep, Successor
<1>5. InStep'
  <2> SUFFICES ASSUME ~drift' PROVE InStep'
    BY DEF InStep
  <2>1. disk' = list /\ AtHome(list) /\ NamedOnce(list)
    BY <1>3, <1>4
  <2> QED BY <1>1, <2>1 DEF InStep, AtHome, NamedOnce
<1>6. NoneLost
  BY <1>1, <1>4 DEF NoneLost, KeysCarried
<1> QED BY <1>2, <1>5, <1>6 DEF ConfigInv

LEMMA LoadKeeps ==
  ASSUME ConfigInv, LoadConfig
  PROVE  ConfigInv' /\ NoneLost
<1> DEFINE list == Decoded(config, disk)
           checked == ValidateChannelKeys(list)
           merged == disk # list
<1>1. config \in Seq(Channels) /\ disk \in Seq(Channels) /\ drift \in BOOLEAN
  BY DEF ConfigInv, ListTypes
<1>2. list \in Seq(Channels)
  BY <1>1, DecodedType
<1>3. \/ checked # list /\ Save(checked, merged)
      \/ config' = list /\ disk' = disk /\ drift' = (drift \/ merged)
  BY DEF LoadConfig
<1> HIDE DEF list
<1>4. /\ checked \in Seq(Channels) /\ DOMAIN checked = DOMAIN list
      /\ \A j \in DOMAIN list : /\ checked[j].id = list[j].id
                                /\ KnownKeys(checked[j]) = KnownKeys(list[j])
      /\ NamedOnce(list) => NamedOnce(checked)
  BY <1>2, Checked DEF Change, Successor
<1> HIDE DEF checked
<1>5. ASSUME ~drift, ~merged PROVE Successor(config, list) /\ Successor(config, checked)
  <2>1. list = disk /\ NamedOnce(config) /\ NamedOnce(list)
    BY <1>5 DEF ConfigInv, InStep
  <2>2. \A j \in DOMAIN list : \E i \in DOMAIN config : list[j] = config[i]
    BY <1>5, <2>1 DEF ConfigInv, InStep
  <2>3. Successor(config, list)
    BY <1>1, <1>2, <2>1, <2>2, Remaining
  <2>4. \A j \in DOMAIN checked : \E i \in DOMAIN config :
          checked[j].id = config[i].id /\ KnownKeys(checked[j]) = KnownKeys(config[i])
    BY <1>4, <2>2
  <2>5. Successor(config, checked)
    BY <1>1, <1>4, <2>1, <2>4, Remaining
  <2> QED BY <2>3, <2>5
<1>6. CASE checked # list /\ Save(checked, merged)
  <2>1. merged \in BOOLEAN
    OBVIOUS
  <2>2. ~drift /\ ~merged => Successor(config, checked)
    BY <1>5
  <2> HIDE DEF merged
  <2> QED BY <1>4, <1>6, <2>1, <2>2, Saved
<1>7. CASE config' = list /\ disk' = disk /\ drift' = (drift \/ merged)
  <2>1. ListTypes'
    BY <1>1, <1>2, <1>7 DEF ListTypes
  <2>2. ASSUME ~drift' PROVE ~drift /\ ~merged /\ disk = list
    BY <1>1, <1>7, <2>2
  <2>3. ASSUME ~drift'
        PROVE  AtHome(list) /\ NamedOnce(list) /\ KeysCarried(config, list)
    BY <1>5, <2>2, <2>3 DEF ConfigInv, InStep, Successor
  <2>4. InStep'
    <3> SUFFICES ASSUME ~drift' PROVE InStep'
      BY DEF InStep
    <3>1. disk' = list /\ AtHome(list) /\ NamedOnce(list)
      BY <1>7, <2>2, <2>3
    <3> QED BY <1>7, <3>1 DEF InStep, AtHome, NamedOnce
  <2>5. NoneLost
    BY <1>7, <2>3 DEF NoneLost, KeysCarried
  <2> QED BY <2>1, <2>4, <2>5 DEF ConfigInv
<1> QED BY <1>3, <1>6, <1>7

LEMMA FileEditKeeps ==
  ASSUME ConfigInv, FileEdit
  PROVE  ConfigInv' /\ NoneLost
<1>1. PICK k \in DOMAIN disk : disk' = RemoveAt(disk, k)
  BY DEF FileEdit
<1>2. config' = config /\ drift' = drift
  BY DEF FileEdit
<1> DEFINE edited == RemoveAt(disk, k)
<1>3. /\ Change(disk, edited)
      /\ \A j \in DOMAIN edited : \E i \in DOMAIN disk : edited[j] = disk[i]
  BY ChangedByRemoval DEF ConfigInv, ListTypes
<1> HIDE DEF edited
<1>4. ListTypes'
  BY <1>1, <1>2, <1>3 DEF ConfigInv, ListTypes, Change, Successor, edited
<1>5. InStep'
  <2> SUFFICES ASSUME ~drift' PROVE InStep'
    BY DEF InStep
  <2>1. /\ AtHome(config) /\ NamedOnce(config) /\ NamedOnce(edited)
        /\ \A j \in DOMAIN edited : \E i \in DOMAIN config : edited[j] = config[i]
    BY <1>2, <1>3 DEF ConfigInv, InStep, Change, Successor
  <2>2. disk' = edited
    BY <1>1 DEF edited
  <2> QED BY <1>2, <2>1, <2>2 DEF InStep, AtHome, NamedOnce
<1>6. NoneLost
  BY <1>2 DEF ConfigInv, InStep, NoneLost, NamedOnce, KeysCarried
<1> QED BY <1>4, <1>5, <1>6 DEF ConfigInv

(* The lists an hour later.                                                 *)
Aged(list) == [i \in DOMAIN list |-> Older(list[i])]

LEMMA AgedChange ==
  ASSUME NEW list \in Seq(Channels)
  PROVE  /\ Change(list, Aged(list)) /\ DOMAIN Aged(list) = DOMAIN list
         /\ \A i \in DOMAIN list : /\ Aged(list)[i] = Older(list[i])
                                   /\ Aged(list)[i].id = list[i].id
<1> DEFINE new == Aged(list)
<1>1. /\ new = [i \in DOMAIN list |-> new[i]] /\ DOMAIN new = DOMAIN list
      /\ \A i \in DOMAIN list : new[i] = Older(list[i])
  BY DEF Aged
<1> HIDE DEF new
<1>2. \A i \in DOMAIN list : Grown(list[i], new[i])
  BY <1>1, Positions, OlderGrown
<1>3. Change(list, new)
  BY <1>1, <1>2, Revised
<1> QED BY <1>1, <1>2, <1>3 DEF Grown, new

LEMMA HourAges ==
  ASSUME HourPasses
  PROVE  /\ config' = Aged(config) /\ disk' = Aged(disk) /\ ~changed
         /\ drift' = drift /\ changed' = changed /\ failedSaves' = failedSaves
BY DEF HourPasses, Aged, Older

LEMMA HourKeeps ==
  ASSUME ConfigInv, HourPasses
  PROVE  ConfigInv' /\ NoneLost
<1>1. config' = Aged(config) /\ disk' = Aged(disk) /\ drift' = drift
  BY HourAges
<1>2. config \in Seq(Channels) /\ disk \in Seq(Channels) /\ drift \in BOOLEAN
  BY DEF ConfigInv, ListTypes
<1> DEFINE c == Aged(config)
           d == Aged(disk)
<1>3. /\ Change(config, c) /\ DOMAIN c = DOMAIN config
      /\ \A i \in DOMAIN config : c[i] = Older(config[i])
  BY <1>2, AgedChange
<1>4. /\ Change(disk, d) /\ DOMAIN d = DOMAIN disk
      /\ \A i \in DOMAIN disk : d[i] = Older(disk[i])
  BY <1>2, AgedChange
<1> HIDE DEF c, d
<1>5. config' = c /\ disk' = d
  BY <1>1 DEF c, d
<1>6. ListTypes'
  BY <1>1, <1>2, <1>3, <1>4, <1>5 DEF ListTypes, Change, Successor
<1>7. ~drift => /\ AtHome(c) /\ NamedOnce(c) /\ NamedOnce(d) /\ KeysCarried(config, c)
                /\ \A j \in DOMAIN d : \E i \in DOMAIN c : d[j] = c[i]
  BY <1>3, <1>4 DEF ConfigInv, InStep, Change, Successor
<1>8. InStep'
  BY <1>1, <1>5, <1>7 DEF InStep, AtHome, NamedOnce
<1>9. NoneLost
  BY <1>5, <1>7 DEF NoneLost, KeysCarried
<1> QED BY <1>6, <1>8, <1>9 DEF ConfigInv

LEMMA RestartKeeps ==
  ASSUME ConfigInv, Restart
  PROVE  ConfigInv' /\ NoneLost
<1> DEFINE checked == ValidateChannelKeys(disk)
<1>1. config' = checked /\ disk' = config' /\ drift' = (drift \/ disk # config)
  BY DEF Restart
<1>2. Change(disk, checked)
  BY Checked DEF ConfigInv, ListTypes
<1> HIDE DEF checked
<1>3. ListTypes'
  BY <1>1, <1>2 DEF ConfigInv, ListTypes, Change, Successor
<1>4. ~drift' => AtHome(checked) /\ NamedOnce(checked) /\ KeysCarried(config, checked)
  BY <1>1, <1>2 DEF ConfigInv, ListTypes, InStep, Change, Successor
<1>5. InStep'
  <2> SUFFICES ASSUME ~drift' PROVE InStep'
    BY DEF InStep
  <2>1. config' = checked /\ disk' = checked /\ AtHome(checked) /\ NamedOnce(checked)
    BY <1>1, <1>4
  <2> QED BY <2>1 DEF InStep, AtHome, NamedOnce
<1>6. NoneLost
  BY <1>1, <1>4 DEF NoneLost, KeysCarried
<1> QED BY <1>3, <1>5, <1>6 DEF ConfigInv

LEMMA ConfigInvStarts ==
  ASSUME ConfigInit
  PROVE  ConfigInv
<1>1. config \in Seq(Channels) /\ AtHome(config) /\ NamedOnce(config) /\ disk = config
  BY ChannelConfigAssumption DEF ConfigInit
<1>2. drift = FALSE
  BY DEF ConfigInit
<1> QED BY <1>1, <1>2 DEF ConfigInv, ListTypes, InStep

LEMMA ConfigInvKept ==
  ASSUME ConfigInv, [ConfigNext]_configVars
  PROVE  ConfigInv' /\ NoneLost
<1>1. \/ Saving \/ UNCHANGED listVars
      \/ LoadConfig \/ FileEdit \/ HourPasses \/ Restart
  BY Steps DEF ConfigInv, ListTypes
<1>2. CASE Saving
  <2>1. PICK list : SaveConfigLocked(list) /\ Change(config, list)
    BY <1>2 DEF Saving
  <2>2. Save(list, FALSE) /\ Successor(config, list) /\ list \in Seq(Channels)
    BY <2>1 DEF SaveConfigLocked, Change, Successor
  <2> QED BY <2>2, Saved
<1> QED BY <1>1, <1>2, Settled, LoadKeeps, FileEditKeeps, HourKeeps, RestartKeeps

(* A channel holds only keys that were given to it, until a write fails or  *)
(* a load passes on old fields, whatever index a request or a scan uses.    *)
THEOREM KeysAlwaysHome == ConfigSpec => [](drift \/ KeysStayHome)
<1>1. ConfigInit => ConfigInv
  BY ConfigInvStarts
<1>2. ConfigInv /\ [ConfigNext]_configVars => ConfigInv'
  BY ConfigInvKept
<1>3. ConfigInv => drift \/ KeysStayHome
  BY DEF ConfigInv, InStep, KeysStayHome
<1> QED BY <1>1, <1>2, <1>3, PTL DEF ConfigSpec

-----------------------------------------------------------------------------
(* What no failed write and no merging load can do *)

NamesInv == ListTypes /\ NamedOnce(config) /\ NamedOnce(disk)

(* What a step carries over, whatever has failed before it.                 *)
Carried == IF LoadConfig \/ Restart THEN KeysCarried(disk, config')
                                    ELSE KeysCarried(config, config')

LEMMA MergedKeys ==
  ASSUME NEW old \in Channels, NEW new \in Channels
  PROVE  /\ Merge(old, new).id = new.id
         /\ KnownKeys(new) \subseteq KnownKeys(Merge(old, new))
<1> DEFINE d == Merge(old, new)
<1>1. /\ d.id = new.id /\ d.keys = new.keys
      /\ new.disabled = <<>> \/ d.disabled = new.disabled
      /\ new.historical = {} \/ d.historical = new.historical
  BY DEF Merge, Channels
<1>2. d \in Channels
  BY MergedType
<1> HIDE DEF d
<1>3. /\ KnownKeys(new) = ToSet(new.keys) \cup KeysOf(new.disabled) \cup new.historical
      /\ KnownKeys(d) = ToSet(d.keys) \cup KeysOf(d.disabled) \cup d.historical
  BY <1>2, ChannelFields
<1>4. new.disabled = <<>> => KeysOf(new.disabled) = {}
  BY DEF KeysOf, ToSet
<1>5. KnownKeys(new) \subseteq KnownKeys(d)
  BY <1>1, <1>3, <1>4
<1> QED BY <1>1, <1>5 DEF d

(* What is decoded has the names of the file, and at least its keys.        *)
LEMMA DecodedCarries ==
  ASSUME NEW old \in Seq(Channels), NEW file \in Seq(Channels),
         NamedOnce(old), NamedOnce(file)
  PROVE  NamedOnce(Decoded(old, file)) /\ KeysCarried(file, Decoded(old, file))
<1> DEFINE list == Decoded(old, file)
<1>1. CASE file = <<>> /\ interface \in OmittedWhenEmpty
  <2>1. list = old
    BY <1>1 DEF Decoded
  <2>2. DOMAIN file = {}
    BY <1>1
  <2> QED BY <2>1, <2>2 DEF KeysCarried
<1>2. CASE ~(file = <<>> /\ interface \in OmittedWhenEmpty)
  <2>1. list = [i \in DOMAIN file |-> IF i <= Len(old) THEN Merge(old[i], file[i]) ELSE file[i]]
    BY <1>2 DEF Decoded
  <2>2. /\ Len(old) \in Nat /\ DOMAIN old = 1..Len(old)
        /\ \A i \in DOMAIN old : old[i] \in Channels
    BY Positions
  <2>3. /\ Len(file) \in Nat /\ DOMAIN file = 1..Len(file)
        /\ \A i \in DOMAIN file : file[i] \in Channels
    BY Positions
  <2> HIDE DEF list
  <2>4. ASSUME NEW i \in DOMAIN file
        PROVE  list[i].id = file[i].id /\ KnownKeys(file[i]) \subseteq KnownKeys(list[i])
    <3>1. CASE i <= Len(old)
      <4>1. i \in DOMAIN old
        BY <2>2, <2>3, <3>1
      <4>2. list[i] = Merge(old[i], file[i])
        BY <2>1, <3>1
      <4> QED BY <2>2, <2>3, <4>1, <4>2, MergedKeys
    <3>2. CASE ~(i <= Len(old))
      BY <2>1, <3>2
    <3> QED BY <3>1, <3>2
  <2>5. DOMAIN list = DOMAIN file
    BY <2>1
  <2>6. NamedOnce(list)
    BY <2>4, <2>5 DEF NamedOnce
  <2>7. KeysCarried(file, list)
    <3> SUFFICES ASSUME NEW i \in DOMAIN file, NEW j \in DOMAIN list,
                        file[i].id = list[j].id
                 PROVE  KnownKeys(file[i]) \subseteq KnownKeys(list[j])
      BY DEF KeysCarried
    <3>1. i = j
      BY <2>4, <2>5 DEF NamedOnce
    <3> QED BY <2>4, <3>1
  <2> QED BY <2>6, <2>7 DEF list
<1> QED BY <1>1, <1>2

LEMMA SavedNames ==
  ASSUME NamesInv, NEW list \in Seq(Channels), NEW merged \in BOOLEAN,
         Save(list, merged), NamedOnce(list)
  PROVE  NamesInv' /\ config' = list
<1>1. /\ config' = list /\ disk' \in {list, disk} /\ drift' \in BOOLEAN
  BY DEF Save, NamesInv, ListTypes
<1> QED BY <1>1 DEF NamesInv, ListTypes, NamedOnce

LEMMA LoadCarries ==
  ASSUME NamesInv, LoadConfig
  PROVE  NamesInv' /\ KeysCarried(disk, config')
<1> DEFINE list == Decoded(config, disk)
           checked == ValidateChannelKeys(list)
           merged == disk # list
<1>1. config \in Seq(Channels) /\ disk \in Seq(Channels) /\ drift \in BOOLEAN
  BY DEF NamesInv, ListTypes
<1>2. list \in Seq(Channels) /\ NamedOnce(list) /\ KeysCarried(disk, list)
  BY <1>1, DecodedType, DecodedCarries DEF NamesInv
<1>3. \/ checked # list /\ Save(checked, merged)
      \/ config' = list /\ disk' = disk /\ drift' = (drift \/ merged)
  BY DEF LoadConfig
<1> HIDE DEF list
<1>4. /\ checked \in Seq(Channels) /\ NamedOnce(checked) /\ DOMAIN checked = DOMAIN list
      /\ \A j \in DOMAIN list : /\ checked[j].id = list[j].id
                                /\ KnownKeys(checked[j]) = KnownKeys(list[j])
  BY <1>2, Checked DEF Change, Successor
<1> HIDE DEF checked
<1>5. KeysCarried(disk, checked)
  BY <1>2, <1>4 DEF KeysCarried
<1>6. merged \in BOOLEAN
  OBVIOUS
<1> HIDE DEF merged
<1>7. CASE checked # list /\ Save(checked, merged)
  <2>1. NamesInv' /\ config' = checked
    BY <1>4, <1>6, <1>7, SavedNames
  <2> QED BY <1>5, <2>1
<1>8. CASE config' = list /\ disk' = disk /\ drift' = (drift \/ merged)
  BY <1>1, <1>2, <1>6, <1>8 DEF NamesInv, ListTypes, NamedOnce
<1> QED BY <1>3, <1>7, <1>8

LEMMA NamesKept ==
  ASSUME NamesInv, [ConfigNext]_configVars
  PROVE  NamesInv' /\ Carried
<1>0. config \in Seq(Channels) /\ disk \in Seq(Channels) /\ drift \in BOOLEAN
  BY DEF NamesInv, ListTypes
<1>1. CASE Saving
  <2>1. PICK list : SaveConfigLocked(list) /\ Change(config, list)
    BY <1>1 DEF Saving
  <2>2. Save(list, FALSE) /\ list \in Seq(Channels) /\ NamedOnce(list) /\ KeysCarried(config, list)
    BY <2>1 DEF SaveConfigLocked, Change, Successor, NamesInv
  <2>3. NamesInv' /\ config' = list
    BY <2>2, SavedNames
  <2>4. KeysCarried(config, config')
    BY <2>2, <2>3
  <2>5. Restart => KeysCarried(disk, config')
    BY <1>0, Checked DEF Restart, Change, Successor, NamesInv
  <2> QED BY <2>3, <2>4, <2>5, LoadCarries DEF Carried
<1>2. CASE UNCHANGED listVars
  <2>1. config' = config /\ disk' = disk /\ drift' = drift
    BY <1>2 DEF listVars
  <2>2. NamesInv'
    BY <2>1 DEF NamesInv, ListTypes, NamedOnce
  <2>3. KeysCarried(config, config')
    BY <2>1 DEF NamesInv, NamedOnce, KeysCarried
  <2>4. Restart => KeysCarried(disk, config')
    BY <1>0, Checked DEF Restart, Change, Successor, NamesInv
  <2> QED BY <2>2, <2>3, <2>4, LoadCarries DEF Carried
<1>3. CASE LoadConfig
  BY <1>3, LoadCarries DEF Carried
<1>4. CASE FileEdit
  <2>1. PICK k \in DOMAIN disk : disk' = RemoveAt(disk, k)
    BY <1>4 DEF FileEdit
  <2>2. config' = config /\ drift' = drift
    BY <1>4 DEF FileEdit
  <2>3. disk' \in Seq(Channels) /\ NamedOnce(disk')
    BY <1>0, <2>1, ChangedByRemoval DEF Change, Successor, NamesInv
  <2>4. KeysCarried(config, config')
    BY <2>2 DEF NamesInv, NamedOnce, KeysCarried
  <2>5. NamesInv'
    BY <2>2, <2>3 DEF NamesInv, ListTypes, NamedOnce
  <2>6. Restart => KeysCarried(disk, config')
    BY <1>0, Checked DEF Restart, Change, Successor, NamesInv
  <2> QED BY <2>4, <2>5, <2>6, LoadCarries DEF Carried
<1>5. CASE HourPasses
  <2>1. config' = Aged(config) /\ disk' = Aged(disk) /\ drift' = drift
    BY <1>5, HourAges
  <2>2. /\ Aged(config) \in Seq(Channels) /\ NamedOnce(Aged(config))
        /\ KeysCarried(config, Aged(config))
    BY <1>0, AgedChange DEF Change, Successor, NamesInv
  <2>3. Aged(disk) \in Seq(Channels) /\ NamedOnce(Aged(disk))
    BY <1>0, AgedChange DEF Change, Successor, NamesInv
  <2>4. NamesInv'
    BY <1>0, <2>1, <2>2, <2>3 DEF NamesInv, ListTypes, NamedOnce
  <2>5. KeysCarried(config, config')
    BY <2>1, <2>2
  <2>6. Restart => KeysCarried(disk, config')
    BY <1>0, Checked DEF Restart, Change, Successor, NamesInv
  <2> QED BY <2>4, <2>5, <2>6, LoadCarries DEF Carried
<1>6. CASE Restart
  <2>1. /\ config' = ValidateChannelKeys(disk) /\ disk' = config'
        /\ drift' = (drift \/ disk # config)
    BY <1>6 DEF Restart
  <2>2. /\ ValidateChannelKeys(disk) \in Seq(Channels) /\ NamedOnce(ValidateChannelKeys(disk))
        /\ KeysCarried(disk, ValidateChannelKeys(disk))
    BY <1>0, Checked DEF Change, Successor, NamesInv
  <2>3. NamesInv'
    BY <1>0, <2>1, <2>2 DEF NamesInv, ListTypes, NamedOnce
  <2> QED BY <1>6, <2>1, <2>2, <2>3 DEF Carried
<1> QED BY <1>0, <1>1, <1>2, <1>3, <1>4, <1>5, <1>6, Steps

(* No step loses a key of a channel that stays, also when its write fails;  *)
(* a reload or a restart keeps every key of the file, and those of memory   *)
(* unless memory and file have drifted apart.                               *)
THEOREM KeysAlwaysKept == ConfigSpec => KeysKept
<1>1. ConfigInit => ConfigInv /\ NamesInv
  <2> SUFFICES ASSUME ConfigInit PROVE ConfigInv /\ NamesInv
    OBVIOUS
  <2>1. ConfigInv /\ drift = FALSE
    BY ConfigInvStarts DEF ConfigInit
  <2> QED BY <2>1 DEF ConfigInv, InStep, NamesInv
<1>2. ConfigInv /\ NamesInv /\ [ConfigNext]_configVars => (ConfigInv /\ NamesInv)'
  BY ConfigInvKept, NamesKept
<1>3. ConfigInv /\ NamesInv /\ [ConfigNext]_configVars =>
        [IF LoadConfig \/ Restart
         THEN KeysCarried(disk, config') /\ (drift' \/ KeysCarried(config, config'))
         ELSE KeysCarried(config, config')]_configVars
  <2> SUFFICES ASSUME ConfigInv, NamesInv, [ConfigNext]_configVars
               PROVE  IF LoadConfig \/ Restart
                      THEN KeysCarried(disk, config') /\ (drift' \/ KeysCarried(config, config'))
                      ELSE KeysCarried(config, config')
    OBVIOUS
  <2>1. NoneLost /\ Carried
    BY ConfigInvKept, NamesKept
  <2>2. LoadConfig \/ Restart => (drift => drift')
    BY DEF LoadConfig, Restart, Save, ConfigInv, ListTypes
  <2> QED BY <2>1, <2>2 DEF NoneLost, Carried
<1> QED BY <1>1, <1>2, <1>3, PTL DEF ConfigSpec, KeysKept

-----------------------------------------------------------------------------
(* A file that nobody edits, and one write that fails *)

(* The file holds channels of memory, or of memory before the write that    *)
(* failed; one that will be loaded has them in the same places.             *)
SamePlaces == \A i \in DOMAIN disk \cap DOMAIN config : disk[i].id = config[i].id

HomeInv ==
  /\ config \in Seq(Channels) /\ disk \in Seq(Channels)
  /\ failedSaves \in {0, 1}
  /\ failedSaves = 0 => disk = config
  /\ AtHome(config) /\ AtHome(disk)
  /\ changed => SamePlaces

LEMMA MergedWithItself ==
  ASSUME NEW list \in Seq(Channels)
  PROVE  Decoded(list, list) = list
<1>1. /\ Len(list) \in Nat /\ DOMAIN list = 1..Len(list)
      /\ list = [i \in DOMAIN list |-> list[i]]
  OBVIOUS
<1>2. ASSUME NEW i \in DOMAIN list PROVE Merge(list[i], list[i]) = list[i]
  <2> DEFINE c == list[i]
  <2>1. c \in Channels
    BY Positions
  <2> HIDE DEF c
  <2>2. /\ (IF c.disabled = <<>> THEN c.disabled ELSE c.disabled) = c.disabled
        /\ (IF c.historical = {} THEN c.historical ELSE c.historical) = c.historical
        /\ (c.promoted \/ c.promoted) = c.promoted
    BY <2>1 DEF Channels
  <2>3. Merge(c, c) = c
    BY <2>1, <2>2 DEF Merge, Channels
  <2> QED BY <2>3 DEF c
<1>3. \A i \in DOMAIN list :
        (IF i <= Len(list) THEN Merge(list[i], list[i]) ELSE list[i]) = list[i]
  BY <1>1, <1>2
<1> QED BY <1>1, <1>3 DEF Decoded

(* What is loaded over channels in the same places is at home.              *)
LEMMA LoadedHome ==
  ASSUME NEW old \in Seq(Channels), NEW file \in Seq(Channels), AtHome(old), AtHome(file),
         \A i \in DOMAIN file \cap DOMAIN old : file[i].id = old[i].id
  PROVE  /\ AtHome(Decoded(old, file))
         /\ \A i \in DOMAIN file \cap DOMAIN Decoded(old, file) :
              file[i].id = Decoded(old, file)[i].id
<1> DEFINE list == Decoded(old, file)
<1>1. /\ Len(old) \in Nat /\ DOMAIN old = 1..Len(old)
      /\ \A i \in DOMAIN old : old[i] \in Channels
  BY Positions
<1>2. /\ Len(file) \in Nat /\ DOMAIN file = 1..Len(file)
      /\ \A i \in DOMAIN file : file[i] \in Channels
  BY Positions
<1>3. CASE file = <<>> /\ interface \in OmittedWhenEmpty
  <2>1. list = old /\ DOMAIN file = {}
    BY <1>3 DEF Decoded
  <2> HIDE DEF list
  <2>2. AtHome(list) /\ \A i \in DOMAIN file \cap DOMAIN list : file[i].id = list[i].id
    BY <2>1
  <2> QED BY <2>2 DEF list
<1>4. CASE ~(file = <<>> /\ interface \in OmittedWhenEmpty)
  <2>1. /\ DOMAIN list = DOMAIN file
        /\ \A i \in DOMAIN file : list[i] = IF i <= Len(old) THEN Merge(old[i], file[i])
                                            ELSE file[i]
    BY <1>4 DEF Decoded
  <2> HIDE DEF list
  <2>2. ASSUME NEW i \in DOMAIN file
        PROVE  list[i].id = file[i].id /\ KnownKeys(list[i]) \subseteq OwnKeys[file[i].id]
    <3>1. KnownKeys(file[i]) \subseteq OwnKeys[file[i].id]
      BY DEF AtHome
    <3>2. CASE ~(i <= Len(old))
      BY <2>1, <3>1, <3>2
    <3>3. CASE i <= Len(old)
      <4> DEFINE a == old[i]
                 b == file[i]
                 m == Merge(a, b)
      <4>1. i \in DOMAIN old
        BY <1>1, <1>2, <3>3
      <4>2. /\ a \in Channels /\ b \in Channels /\ a.id = b.id /\ list[i] = m
            /\ KnownKeys(a) \subseteq OwnKeys[b.id] /\ KnownKeys(b) \subseteq OwnKeys[b.id]
        BY <1>1, <1>2, <2>1, <3>1, <3>3, <4>1 DEF AtHome
      <4> HIDE DEF a, b
      <4>3. /\ m.id = b.id /\ m.keys = b.keys
            /\ m.disabled = b.disabled \/ m.disabled = a.disabled
            /\ m.historical = b.historical \/ m.historical = a.historical
        BY <4>2 DEF Merge, Channels
      <4> HIDE DEF m
      <4>4. KnownKeys(m) = ToSet(m.keys) \cup KeysOf(m.disabled) \cup m.historical
        BY DEF KnownKeys, ActiveKeys, DisabledKeys, Entries, KeysOf
      <4>5. /\ KnownKeys(a) = ToSet(a.keys) \cup KeysOf(a.disabled) \cup a.historical
            /\ KnownKeys(b) = ToSet(b.keys) \cup KeysOf(b.disabled) \cup b.historical
        BY DEF KnownKeys, ActiveKeys, DisabledKeys, Entries, KeysOf
      <4>6. KnownKeys(m) \subseteq KnownKeys(a) \cup KnownKeys(b)
        BY <4>3, <4>4, <4>5
      <4> QED BY <4>2, <4>3, <4>6 DEF b
    <3> QED BY <3>2, <3>3
  <2>3. AtHome(list)
    BY <2>1, <2>2 DEF AtHome
  <2> QED BY <2>1, <2>2, <2>3 DEF list
<1> QED BY <1>3, <1>4

LEMMA SavedHome ==
  ASSUME MaxFailedSaves \in {0, 1}, HomeInv, NEW list, SaveConfigLocked(list),
         Change(config, list)
  PROVE  HomeInv'
<1>1. /\ config' = list
      /\ \/ disk' = list /\ failedSaves' = failedSaves
         \/ /\ failedSaves < MaxFailedSaves
            /\ ~changed \/ Len(disk) <= Len(list)
            /\ failedSaves' = failedSaves + 1 /\ disk' = disk /\ changed' = changed
  BY DEF SaveConfigLocked, Save
<1>2. list \in Seq(Channels) /\ AtHome(list) /\ Placed(config, list)
  BY DEF HomeInv, Change, Successor
<1>3. CASE disk' = list /\ failedSaves' = failedSaves
  <2>1. SamePlaces'
    BY <1>1, <1>3 DEF SamePlaces
  <2> QED BY <1>1, <1>2, <1>3, <2>1 DEF HomeInv, AtHome
<1>4. CASE /\ failedSaves < MaxFailedSaves
           /\ ~changed \/ Len(disk) <= Len(list)
           /\ failedSaves' = failedSaves + 1 /\ disk' = disk /\ changed' = changed
  <2>1. failedSaves = 0 /\ failedSaves' = 1 /\ disk = config
    BY <1>4 DEF HomeInv
  <2>2. ASSUME changed' PROVE SamePlaces'
    BY <1>1, <1>2, <1>4, <2>1, <2>2 DEF SamePlaces, Placed
  <2> QED BY <1>1, <1>2, <1>4, <2>1, <2>2 DEF HomeInv, AtHome
<1> QED BY <1>1, <1>3, <1>4

LEMMA LoadedKeepsHome ==
  ASSUME MaxFailedSaves \in {0, 1}, HomeInv, LoadConfig
  PROVE  HomeInv'
<1> DEFINE list == Decoded(config, disk)
           checked == ValidateChannelKeys(list)
           merged == disk # list
<1>1. /\ config \in Seq(Channels) /\ disk \in Seq(Channels) /\ AtHome(config) /\ AtHome(disk)
      /\ \A i \in DOMAIN disk \cap DOMAIN config : disk[i].id = config[i].id
  BY DEF HomeInv, LoadConfig, SamePlaces
<1>2. /\ list \in Seq(Channels) /\ AtHome(list)
      /\ \A i \in DOMAIN disk \cap DOMAIN list : disk[i].id = list[i].id
  BY <1>1, DecodedType, LoadedHome
<1>3. failedSaves = 0 => list = disk
  BY <1>1, MergedWithItself DEF HomeInv
<1>4. \/ Save(checked, merged)
      \/ config' = list /\ disk' = disk /\ ~changed' /\ failedSaves' = failedSaves
  BY DEF LoadConfig
<1> HIDE DEF list
<1>5. /\ checked \in Seq(Channels) /\ AtHome(checked) /\ DOMAIN checked = DOMAIN list
      /\ \A j \in DOMAIN list : checked[j].id = list[j].id
  BY <1>2, Checked DEF Change, Successor
<1> HIDE DEF checked, merged
<1>6. CASE Save(checked, merged)
  <2>1. \/ config' = checked /\ disk' = checked /\ failedSaves' = failedSaves
        \/ /\ config' = checked /\ disk' = disk /\ failedSaves' = 1
    BY <1>6 DEF Save, HomeInv
  <2>2. SamePlaces'
    BY <1>2, <1>5, <2>1 DEF SamePlaces
  <2> QED BY <1>1, <1>5, <2>1, <2>2 DEF HomeInv, AtHome
<1>7. CASE config' = list /\ disk' = disk /\ ~changed' /\ failedSaves' = failedSaves
  BY <1>1, <1>2, <1>3, <1>7 DEF HomeInv, AtHome
<1> QED BY <1>4, <1>6, <1>7

LEMMA HomeInvKept ==
  ASSUME EditedPositions = {}, MaxFailedSaves \in {0, 1}, HomeInv, [ConfigNext]_configVars
  PROVE  HomeInv'
<1>1. \/ Saving \/ UNCHANGED listVars
      \/ LoadConfig \/ FileEdit \/ HourPasses \/ Restart
  BY Steps DEF HomeInv
<1>2. CASE Saving
  BY <1>2, SavedHome DEF Saving
<1>3. CASE UNCHANGED listVars
  BY <1>3 DEF listVars, HomeInv, SamePlaces, AtHome
<1>4. CASE LoadConfig
  BY <1>4, LoadedKeepsHome
<1>5. CASE FileEdit
  BY <1>5 DEF FileEdit
<1>6. CASE HourPasses
  <2> DEFINE c == Aged(config)
             d == Aged(disk)
  <2>1. /\ config' = c /\ disk' = d /\ ~changed
        /\ changed' = changed /\ failedSaves' = failedSaves
    BY <1>6, HourAges
  <2>2. Change(config, c) /\ Change(disk, d)
    BY AgedChange DEF HomeInv
  <2>3. failedSaves = 0 => c = d
    BY DEF HomeInv
  <2> HIDE DEF c, d
  <2> QED BY <2>1, <2>2, <2>3 DEF HomeInv, AtHome, Change, Successor
<1>7. CASE Restart
  <2> DEFINE checked == ValidateChannelKeys(disk)
  <2>1. config' = checked /\ disk' = checked /\ ~changed' /\ failedSaves' = failedSaves
    BY <1>7 DEF Restart
  <2>2. Change(disk, checked)
    BY Checked DEF HomeInv
  <2> HIDE DEF checked
  <2> QED BY <2>1, <2>2 DEF HomeInv, AtHome, Change, Successor
<1> QED BY <1>1, <1>2, <1>3, <1>4, <1>5, <1>6, <1>7

(* Where nobody edits the file and at most one write fails, no key is ever  *)
(* in another channel's lists, not even after memory and file have drifted  *)
(* apart: what the reload passes on belongs to the same channel.            *)
THEOREM KeysAlwaysHomeUnedited ==
  ASSUME EditedPositions = {}, MaxFailedSaves \in {0, 1}
  PROVE  ConfigSpec => []KeysStayHome
<1>1. ConfigInit => HomeInv
  <2> SUFFICES ASSUME ConfigInit PROVE HomeInv
    OBVIOUS
  <2>1. config \in Seq(Channels) /\ AtHome(config) /\ disk = config
    BY ChannelConfigAssumption DEF ConfigInit
  <2> QED BY <2>1 DEF ConfigInit, HomeInv
<1>2. HomeInv /\ [ConfigNext]_configVars => HomeInv'
  BY HomeInvKept
<1>3. HomeInv => KeysStayHome
  BY DEF HomeInv, KeysStayHome
<1> QED BY <1>1, <1>2, <1>3, PTL DEF ConfigSpec

-----------------------------------------------------------------------------
(* The request history: its indices and the outcomes written through them  *)
(* are right for any number of requests, any clock and any sequence of     *)
(* cleanups, cancellations, resets and deletions.                          *)

Stages   == {"idle", "started", "stamped", "connected", "settled", "ended"}
Unsettled == {"idle", "started", "stamped", "connected"}

(***************************************************************************)
(* The inductive invariant, of a history h with its indices p, for         *)
(* attempts at the stages c with the fates f.  Owned is the strengthening  *)
(* that makes it inductive: the record of a connected request always has   *)
(* its index, so the path that appends a second record is never taken      *)
(* while the first one exists.                                             *)
(***************************************************************************)
Typed(h, p, c, f) ==
  /\ h \in Seq(Records)
  /\ p \in [Requests -> Nat]
  /\ c \in [Requests -> Stages]
  /\ f \in [Requests -> Fates \cup {"none"}]

Homes(h, p, c) ==
  \A r \in Requests : p[r] # 0 =>
    /\ c[r] = "connected"
    /\ p[r] <= Len(h)
    /\ h[p[r]].owner = r

Owned(h, p, c) ==
  \A i \in DOMAIN h :
    /\ c[h[i].owner] \in {"connected", "settled", "ended"}
    /\ c[h[i].owner] = "connected" => p[h[i].owner] = i

Once(h) == \A i, j \in DOMAIN h : h[i].owner = h[j].owner => i = j

Truthful(h, f) ==
  \A i \in DOMAIN h :
    f[h[i].owner] # "none" => /\ f[h[i].owner] # "cancelled"
                              /\ h[i].success <=> f[h[i].owner] = "success"

Fated(c, f) == \A r \in Requests : f[r] = "none" <=> c[r] \in Unsettled

Sound(h, p, c, f) ==
  /\ Typed(h, p, c, f)
  /\ Homes(h, p, c)
  /\ Owned(h, p, c)
  /\ Once(h)
  /\ Truthful(h, f)
  /\ Fated(c, f)

IInv == Sound(history, pending, pc, fate)

-----------------------------------------------------------------------------
(* Operators *)

(* The positions of a history, and what is there.                           *)
LEMMA OwnersAreRequests ==
  ASSUME NEW h \in Seq(Records)
  PROVE  /\ Len(h) \in Nat /\ DOMAIN h = 1..Len(h)
         /\ \A i \in DOMAIN h : h[i] \in Records /\ h[i].owner \in Requests
<1>1. Len(h) \in Nat /\ DOMAIN h = 1..Len(h) /\ \A i \in DOMAIN h : h[i] \in Records
  OBVIOUS
<1>2. \A record \in Records : record.owner \in Requests
  BY DEF Records
<1> QED BY <1>1, <1>2

(* What the cleanup cuts off is a prefix of the history.                    *)
LEMMA ExpiredBounded ==
  ASSUME NEW h \in Seq(Records)
  PROVE  Expired(h) \in 0..Len(h)
<1> DEFINE S == {i \in DOMAIN h : \A j \in 1..i : ~Fresh(h[j])}
<1>1. DOMAIN h = 1..Len(h) /\ Len(h) \in Nat
  OBVIOUS
<1>2. IsFiniteSet(1..Len(h)) /\ Cardinality(1..Len(h)) = Len(h)
  BY <1>1, FS_Interval
<1>3. S \subseteq 1..Len(h)
  BY <1>1
<1>4. IsFiniteSet(S) /\ Cardinality(S) <= Len(h)
  BY <1>2, <1>3, FS_Subset
<1>5. Cardinality(S) \in Nat
  BY <1>4, FS_CardinalityType
<1> QED BY <1>4, <1>5, <1>1 DEF Expired

(* What is left when the first n records are cut off.                       *)
LEMMA CutFacts ==
  ASSUME NEW h \in Seq(Records), NEW n \in 0..Len(h)
  PROVE  LET g == SubSeq(h, n + 1, Len(h))
         IN  /\ g \in Seq(Records) /\ Len(g) = Len(h) - n /\ DOMAIN g = 1..(Len(h) - n)
             /\ \A i \in 1..(Len(h) - n) : g[i] = h[i + n] /\ i + n \in DOMAIN h
<1> DEFINE g == SubSeq(h, n + 1, Len(h))
<1>1. /\ Len(h) \in Nat /\ DOMAIN h = 1..Len(h) /\ n \in Nat /\ n <= Len(h)
      /\ \A i \in DOMAIN h : h[i] \in Records
  OBVIOUS
<1>2. /\ g \in Seq(Records)
      /\ Len(g) = IF n + 1 <= Len(h) THEN Len(h) - (n + 1) + 1 ELSE 0
      /\ \A i \in 1..(Len(h) - (n + 1) + 1) : g[i] = h[(n + 1) + i - 1]
  <2>1. n + 1 \in Int /\ Len(h) \in Int /\ \A i \in (n + 1)..Len(h) : h[i] \in Records
    BY <1>1
  <2> QED BY <2>1, SubSeqProperties
<1> HIDE DEF g
<1>3. Len(g) = Len(h) - n /\ DOMAIN g = 1..(Len(h) - n)
  <2>1. Len(h) \in Nat /\ n \in Nat /\ n <= Len(h)
    BY <1>1
  <2>2. Len(g) = Len(h) - n
    BY <1>2, <2>1
  <2> QED BY <1>2, <2>2
<1>4. ASSUME NEW i \in 1..(Len(h) - n)
      PROVE  g[i] = h[i + n] /\ i + n \in DOMAIN h
  <2>1. i \in 1..(Len(h) - (n + 1) + 1) /\ (n + 1) + i - 1 = i + n /\ i + n \in 1..Len(h)
    BY <1>1
  <2> QED BY <1>1, <1>2, <2>1
<1> QED BY <1>2, <1>3, <1>4 DEF g

(* Cutting n records off the front and shifting the indices keeps the       *)
(* invariant.                                                               *)
LEMMA CutSound ==
  ASSUME NEW h, NEW p, NEW c, NEW f, Sound(h, p, c, f), NEW n \in 0..Len(h)
  PROVE  Sound(SubSeq(h, n + 1, Len(h)), Shifted(p, n), c, f)
<1> DEFINE g == SubSeq(h, n + 1, Len(h))
           s == Shifted(p, n)
<1>0. Typed(h, p, c, f) /\ Homes(h, p, c) /\ Owned(h, p, c) /\ Once(h)
      /\ Truthful(h, f) /\ Fated(c, f)
  BY DEF Sound
<1>1. /\ h \in Seq(Records) /\ Len(h) \in Nat /\ DOMAIN h = 1..Len(h)
      /\ p \in [Requests -> Nat]
      /\ \A i \in DOMAIN h : h[i] \in Records /\ h[i].owner \in Requests
  BY <1>0, OwnersAreRequests DEF Typed
<1>2. /\ g \in Seq(Records) /\ Len(g) = Len(h) - n /\ DOMAIN g = 1..(Len(h) - n)
      /\ \A i \in 1..(Len(h) - n) : g[i] = h[i + n] /\ i + n \in DOMAIN h
  BY <1>1, CutFacts
<1>3. s \in [Requests -> Nat] /\ \A r \in Requests : s[r] = IF p[r] > n THEN p[r] - n ELSE 0
  BY <1>1 DEF Shifted
<1> HIDE DEF g, s
<1>4. Typed(g, s, c, f)
  BY <1>0, <1>2, <1>3 DEF Typed
<1>5. Homes(g, s, c)
  <2> SUFFICES ASSUME NEW r \in Requests, s[r] # 0
               PROVE  c[r] = "connected" /\ s[r] <= Len(g) /\ g[s[r]].owner = r
    BY DEF Homes
  <2>1. p[r] \in Nat /\ p[r] > n /\ s[r] = p[r] - n /\ p[r] # 0
    BY <1>1, <1>3
  <2>2. c[r] = "connected" /\ p[r] <= Len(h) /\ h[p[r]].owner = r
    BY <1>0, <2>1 DEF Homes
  <2>3. s[r] \in 1..(Len(h) - n) /\ s[r] + n = p[r]
    <3>1. n \in Nat /\ p[r] \in Nat /\ Len(h) \in Nat /\ p[r] > n /\ p[r] <= Len(h)
      BY <1>1, <2>1, <2>2
    <3> QED BY <3>1, <2>1
  <2> QED BY <1>1, <1>2, <2>2, <2>3
<1>6. Owned(g, s, c)
  <2> SUFFICES ASSUME NEW i \in DOMAIN g
               PROVE  /\ c[g[i].owner] \in {"connected", "settled", "ended"}
                      /\ c[g[i].owner] = "connected" => s[g[i].owner] = i
    BY DEF Owned
  <2>1. i \in 1..(Len(h) - n) /\ g[i] = h[i + n] /\ i + n \in DOMAIN h
    BY <1>2
  <2>2. /\ c[h[i + n].owner] \in {"connected", "settled", "ended"}
        /\ c[h[i + n].owner] = "connected" => p[h[i + n].owner] = i + n
    BY <1>0, <2>1 DEF Owned
  <2>3. g[i].owner \in Requests
    BY <1>1, <2>1
  <2> QED BY <1>3, <2>1, <2>2, <2>3
<1>7. Once(g)
  <2> SUFFICES ASSUME NEW i \in DOMAIN g, NEW j \in DOMAIN g, g[i].owner = g[j].owner
               PROVE  i = j
    BY DEF Once
  <2>1. /\ i \in 1..(Len(h) - n) /\ g[i] = h[i + n] /\ i + n \in DOMAIN h
        /\ j \in 1..(Len(h) - n) /\ g[j] = h[j + n] /\ j + n \in DOMAIN h
    BY <1>2
  <2>2. i + n = j + n
    BY <1>0, <2>1 DEF Once
  <2> QED BY <2>1, <2>2
<1>8. Truthful(g, f)
  BY <1>0, <1>2 DEF Truthful
<1> QED BY <1>0, <1>4, <1>5, <1>6, <1>7, <1>8 DEF Sound, g, s

(* Taking one record out and closing the gap.                               *)
LEMMA WithoutSound ==
  ASSUME NEW h, NEW p, NEW c, NEW f, Sound(h, p, c, f),
         NEW r \in Requests, p[r] # 0
  PROVE  Sound(Without(h, p[r]), CloseGap([p EXCEPT ![r] = 0], p[r]),
               [c EXCEPT ![r] = "settled"], [f EXCEPT ![r] = "cancelled"])
<1> DEFINE idx == p[r]
           g == Without(h, idx)
           s == CloseGap([p EXCEPT ![r] = 0], idx)
           d == [c EXCEPT ![r] = "settled"]
           e == [f EXCEPT ![r] = "cancelled"]
<1>0. Typed(h, p, c, f) /\ Homes(h, p, c) /\ Owned(h, p, c) /\ Once(h)
      /\ Truthful(h, f) /\ Fated(c, f)
  BY DEF Sound
<1>1. /\ h \in Seq(Records) /\ Len(h) \in Nat /\ DOMAIN h = 1..Len(h)
      /\ p \in [Requests -> Nat] /\ c \in [Requests -> Stages]
      /\ f \in [Requests -> Fates \cup {"none"}]
      /\ \A i \in DOMAIN h : h[i] \in Records /\ h[i].owner \in Requests
  BY <1>0, OwnersAreRequests DEF Typed
<1>2. /\ idx \in 1..Len(h) /\ c[r] = "connected" /\ h[idx].owner = r
  BY <1>0, <1>1 DEF Homes
<1>3. /\ DOMAIN g = 1..(Len(h) - 1)
      /\ \A i \in 1..(Len(h) - 1) :
           /\ i < idx => g[i] = h[i]
           /\ i >= idx => g[i] = h[i + 1]
           /\ i \in DOMAIN h /\ i + 1 \in DOMAIN h
  BY <1>1, <1>2 DEF Without
<1>4. g \in Seq(Records) /\ Len(g) = Len(h) - 1
  <2>1. g = [i \in 1..(Len(h) - 1) |-> IF i < idx THEN h[i] ELSE h[i + 1]]
    BY DEF Without
  <2>2. \A i \in 1..(Len(h) - 1) : (IF i < idx THEN h[i] ELSE h[i + 1]) \in Records
    BY <1>1, <1>2
  <2>3. Len(h) - 1 \in Nat
    BY <1>1, <1>2
  <2> HIDE DEF g
  <2> QED BY <2>1, <2>2, <2>3
<1>5. /\ s \in [Requests -> Nat]
      /\ s[r] = 0
      /\ \A q \in Requests : q # r => s[q] = IF p[q] > idx THEN p[q] - 1 ELSE p[q]
  BY <1>1, <1>2 DEF CloseGap
<1>6. /\ d \in [Requests -> Stages] /\ e \in [Requests -> Fates \cup {"none"}]
      /\ d[r] = "settled" /\ e[r] = "cancelled"
      /\ \A q \in Requests : q # r => d[q] = c[q] /\ e[q] = f[q]
  BY <1>1 DEF Stages, Fates
<1>7. \A q \in Requests : q # r => p[q] # idx
  BY <1>0, <1>2 DEF Homes
<1> DEFINE Old(i) == IF i < idx THEN i ELSE i + 1
<1>8. \A i \in DOMAIN g : /\ Old(i) \in DOMAIN h /\ g[i] = h[Old(i)] /\ Old(i) # idx
                          /\ g[i].owner \in Requests /\ g[i].owner # r
  <2> SUFFICES ASSUME NEW i \in DOMAIN g
               PROVE  /\ Old(i) \in DOMAIN h /\ g[i] = h[Old(i)] /\ Old(i) # idx
                      /\ g[i].owner \in Requests /\ g[i].owner # r
    OBVIOUS
  <2>1. i \in 1..(Len(h) - 1) /\ i \in Nat /\ idx \in Nat /\ Len(h) \in Nat
    BY <1>1, <1>2, <1>3
  <2> HIDE DEF g, idx
  <2>2. Old(i) \in 1..Len(h) /\ Old(i) # idx /\ g[i] = h[Old(i)]
    BY <1>3, <2>1
  <2> HIDE DEF Old
  <2> QED BY <1>0, <1>1, <1>2, <2>2 DEF Once
<1> HIDE DEF g, s, d, e, idx
<1>9. Typed(g, s, d, e)
  BY <1>4, <1>5, <1>6 DEF Typed
<1>10. Homes(g, s, d)
  <2> SUFFICES ASSUME NEW q \in Requests, s[q] # 0
               PROVE  d[q] = "connected" /\ s[q] <= Len(g) /\ g[s[q]].owner = q
    BY DEF Homes
  <2>1. q # r /\ s[q] = (IF p[q] > idx THEN p[q] - 1 ELSE p[q])
    BY <1>5
  <2>2. p[q] \in Nat /\ p[q] # 0 /\ p[q] # idx
    BY <1>1, <1>2, <1>5, <1>7, <2>1
  <2>3. c[q] = "connected" /\ p[q] <= Len(h) /\ h[p[q]].owner = q
    BY <1>0, <2>2 DEF Homes
  <2>4. s[q] \in 1..(Len(h) - 1)
    BY <1>1, <1>2, <2>1, <2>2, <2>3
  <2>5. g[s[q]] = h[p[q]]
    BY <1>1, <1>2, <1>3, <2>1, <2>2, <2>4
  <2> QED BY <1>4, <1>6, <2>1, <2>3, <2>4, <2>5
<1>11. Owned(g, s, d)
  <2> SUFFICES ASSUME NEW i \in DOMAIN g
               PROVE  /\ d[g[i].owner] \in {"connected", "settled", "ended"}
                      /\ d[g[i].owner] = "connected" => s[g[i].owner] = i
    BY DEF Owned
  <2>1. /\ Old(i) \in DOMAIN h /\ g[i] = h[Old(i)] /\ Old(i) # idx
        /\ g[i].owner \in Requests /\ g[i].owner # r
    BY <1>8
  <2>2. /\ c[g[i].owner] \in {"connected", "settled", "ended"}
        /\ c[g[i].owner] = "connected" => p[g[i].owner] = Old(i)
    BY <1>0, <2>1 DEF Owned
  <2>3. i \in Nat /\ idx \in Nat
    BY <1>2, <1>3
  <2> QED BY <1>5, <1>6, <2>1, <2>2, <2>3
<1>12. Once(g)
  <2> SUFFICES ASSUME NEW i \in DOMAIN g, NEW j \in DOMAIN g, g[i].owner = g[j].owner
               PROVE  i = j
    BY DEF Once
  <2>1. Old(i) = Old(j)
    <3>1. /\ Old(i) \in DOMAIN h /\ g[i] = h[Old(i)]
          /\ Old(j) \in DOMAIN h /\ g[j] = h[Old(j)]
      BY <1>8
    <3> HIDE DEF Old
    <3> QED BY <1>0, <3>1 DEF Once
  <2>2. i \in Nat /\ j \in Nat /\ idx \in Nat
    BY <1>2, <1>3
  <2> QED BY <2>1, <2>2
<1>13. Truthful(g, e)
  <2> SUFFICES ASSUME NEW i \in DOMAIN g, e[g[i].owner] # "none"
               PROVE  /\ e[g[i].owner] # "cancelled"
                      /\ g[i].success <=> e[g[i].owner] = "success"
    BY DEF Truthful
  <2>1. Old(i) \in DOMAIN h /\ g[i] = h[Old(i)] /\ g[i].owner \in Requests
        /\ e[g[i].owner] = f[g[i].owner]
    BY <1>6, <1>8
  <2> HIDE DEF Old
  <2> QED BY <1>0, <2>1 DEF Truthful
<1>14. Fated(d, e)
  BY <1>0, <1>6 DEF Fated, Unsettled
<1> QED BY <1>9, <1>10, <1>11, <1>12, <1>13, <1>14 DEF Sound, g, s, d, e, idx

(* A record of a request that has none yet: the optimistic one of a request *)
(* that connects (at = Len(h) + 1), or the outcome of one whose placeholder *)
(* is gone or never was (at = 0).                                           *)
LEMMA AppendSound ==
  ASSUME NEW h, NEW p, NEW c, NEW f, Sound(h, p, c, f),
         NEW record \in Records,
         \A i \in DOMAIN h : h[i].owner # record.owner,
         NEW at, NEW stage, NEW end,
         \/ at = Len(h) + 1 /\ stage = "connected" /\ end = "none"
         \/ at = 0 /\ stage \in {"settled", "ended"} /\ end \in {"success", "failure"}
            /\ (record.success <=> end = "success")
  PROVE  Sound(Append(h, record), [p EXCEPT ![record.owner] = at],
               [c EXCEPT ![record.owner] = stage], [f EXCEPT ![record.owner] = end])
<1> DEFINE r == record.owner
           g == Append(h, record)
           s == [p EXCEPT ![r] = at]
           d == [c EXCEPT ![r] = stage]
           e == [f EXCEPT ![r] = end]
<1>0. Typed(h, p, c, f) /\ Homes(h, p, c) /\ Owned(h, p, c) /\ Once(h)
      /\ Truthful(h, f) /\ Fated(c, f)
  BY DEF Sound
<1>1. /\ h \in Seq(Records) /\ Len(h) \in Nat /\ DOMAIN h = 1..Len(h)
      /\ p \in [Requests -> Nat] /\ c \in [Requests -> Stages]
      /\ f \in [Requests -> Fates \cup {"none"}]
      /\ \A i \in DOMAIN h : h[i] \in Records /\ h[i].owner \in Requests
      /\ r \in Requests
  BY <1>0, OwnersAreRequests DEF Typed, Records
<1>2. /\ g \in Seq(Records) /\ Len(g) = Len(h) + 1 /\ DOMAIN g = 1..(Len(h) + 1)
      /\ g[Len(h) + 1] = record
      /\ \A i \in DOMAIN h : g[i] = h[i]
  BY <1>1
<1>3. /\ s \in [Requests -> Nat] /\ d \in [Requests -> Stages]
      /\ e \in [Requests -> Fates \cup {"none"}]
      /\ s[r] = at /\ d[r] = stage /\ e[r] = end
      /\ \A q \in Requests : q # r => s[q] = p[q] /\ d[q] = c[q] /\ e[q] = f[q]
  BY <1>1 DEF Stages, Fates
<1>4. \A i \in DOMAIN g : \/ i \in DOMAIN h /\ g[i] = h[i] /\ g[i].owner \in Requests
                             /\ g[i].owner # r /\ i # Len(h) + 1
                          \/ i = Len(h) + 1 /\ g[i] = record /\ g[i].owner = r
  BY <1>1, <1>2
<1> HIDE DEF g, s, d, e
<1>5. Typed(g, s, d, e)
  BY <1>2, <1>3 DEF Typed
<1>6. Homes(g, s, d)
  <2> SUFFICES ASSUME NEW q \in Requests, s[q] # 0
               PROVE  d[q] = "connected" /\ s[q] <= Len(g) /\ g[s[q]].owner = q
    BY DEF Homes
  <2>1. CASE q = r
    BY <1>1, <1>2, <1>3, <2>1
  <2>2. CASE q # r
    <3>1. c[q] = "connected" /\ p[q] <= Len(h) /\ h[p[q]].owner = q /\ p[q] # 0 /\ p[q] \in Nat
      BY <1>0, <1>1, <1>3, <2>2 DEF Homes
    <3>2. p[q] \in DOMAIN h
      BY <1>1, <3>1
    <3> QED BY <1>1, <1>2, <1>3, <2>2, <3>1, <3>2
  <2> QED BY <2>1, <2>2
<1>7. Owned(g, s, d)
  <2> SUFFICES ASSUME NEW i \in DOMAIN g
               PROVE  /\ d[g[i].owner] \in {"connected", "settled", "ended"}
                      /\ d[g[i].owner] = "connected" => s[g[i].owner] = i
    BY DEF Owned
  <2>1. CASE i \in DOMAIN h /\ g[i] = h[i] /\ g[i].owner \in Requests /\ g[i].owner # r
    <3>1. /\ c[h[i].owner] \in {"connected", "settled", "ended"}
          /\ c[h[i].owner] = "connected" => p[h[i].owner] = i
      BY <1>0, <2>1 DEF Owned
    <3>2. d[g[i].owner] = c[h[i].owner] /\ s[g[i].owner] = p[h[i].owner]
      BY <1>3, <2>1
    <3> QED BY <3>1, <3>2
  <2>2. CASE i = Len(h) + 1 /\ g[i].owner = r
    BY <1>3, <2>2
  <2> QED BY <1>4, <2>1, <2>2
<1>8. Once(g)
  <2> SUFFICES ASSUME NEW i \in DOMAIN g, NEW j \in DOMAIN g, g[i].owner = g[j].owner
               PROVE  i = j
    BY DEF Once
  <2> QED BY <1>0, <1>4 DEF Once
<1>9. Truthful(g, e)
  BY <1>0, <1>3, <1>4 DEF Truthful
<1>10. Fated(d, e)
  BY <1>0, <1>3 DEF Fated, Unsettled
<1> QED BY <1>5, <1>6, <1>7, <1>8, <1>9, <1>10 DEF Sound, g, s, d, e, r

(* An outcome written over the placeholder.                                 *)
LEMMA InPlaceSound ==
  ASSUME NEW h, NEW p, NEW c, NEW f, Sound(h, p, c, f),
         NEW r \in Requests, p[r] # 0, NEW outcome \in {"success", "failure"}
  PROVE  Sound([h EXCEPT ![p[r]].success = (outcome = "success")],
               [p EXCEPT ![r] = 0], [c EXCEPT ![r] = "settled"],
               [f EXCEPT ![r] = outcome])
<1> DEFINE idx == p[r]
           b == (outcome = "success")
           g == [h EXCEPT ![idx].success = b]
           s == [p EXCEPT ![r] = 0]
           d == [c EXCEPT ![r] = "settled"]
           e == [f EXCEPT ![r] = outcome]
<1>0. Typed(h, p, c, f) /\ Homes(h, p, c) /\ Owned(h, p, c) /\ Once(h)
      /\ Truthful(h, f) /\ Fated(c, f)
  BY DEF Sound
<1>1. /\ h \in Seq(Records) /\ Len(h) \in Nat /\ DOMAIN h = 1..Len(h)
      /\ p \in [Requests -> Nat] /\ c \in [Requests -> Stages]
      /\ f \in [Requests -> Fates \cup {"none"}]
      /\ \A i \in DOMAIN h : h[i] \in Records /\ h[i].owner \in Requests
  BY <1>0, OwnersAreRequests DEF Typed
<1>2. idx \in DOMAIN h /\ c[r] = "connected" /\ h[idx].owner = r
  BY <1>0, <1>1 DEF Homes
<1>3. b \in BOOLEAN /\ (b <=> outcome = "success")
  OBVIOUS
<1> HIDE DEF b
<1>4. /\ DOMAIN g = DOMAIN h
      /\ g[idx] = [h[idx] EXCEPT !.success = b]
      /\ \A i \in DOMAIN h : i # idx => g[i] = h[i]
  BY <1>2
<1>5. /\ g[idx] \in Records /\ g[idx].owner = r /\ g[idx].success = b
  BY <1>1, <1>2, <1>3, <1>4 DEF Records
<1> HIDE DEF g
<1>6. \A i \in DOMAIN g : g[i] \in Records
  BY <1>1, <1>4, <1>5
<1>7. g \in Seq(Records) /\ Len(g) = Len(h)
  <2>1. g = [i \in 1..Len(h) |-> g[i]]
    BY <1>1, <1>4 DEF g
  <2> QED BY <1>1, <1>4, <1>6, <2>1
<1>8. /\ s \in [Requests -> Nat] /\ d \in [Requests -> Stages]
      /\ e \in [Requests -> Fates \cup {"none"}]
      /\ s[r] = 0 /\ d[r] = "settled" /\ e[r] = outcome
      /\ \A q \in Requests : q # r => s[q] = p[q] /\ d[q] = c[q] /\ e[q] = f[q]
  BY <1>1 DEF Stages, Fates
<1>9. \A i \in DOMAIN g : \/ i # idx /\ i \in DOMAIN h /\ g[i] = h[i]
                             /\ g[i].owner \in Requests /\ g[i].owner # r
                          \/ i = idx /\ g[i].owner = r /\ g[i].success = b
  BY <1>0, <1>1, <1>2, <1>4, <1>5 DEF Once
<1>10. \A i \in DOMAIN g : g[i].owner = h[i].owner
  BY <1>2, <1>9
<1> HIDE DEF s, d, e, idx
<1>11. Typed(g, s, d, e)
  BY <1>7, <1>8 DEF Typed
<1>12. Homes(g, s, d)
  <2> SUFFICES ASSUME NEW q \in Requests, s[q] # 0
               PROVE  d[q] = "connected" /\ s[q] <= Len(g) /\ g[s[q]].owner = q
    BY DEF Homes
  <2>1. q # r /\ s[q] = p[q] /\ d[q] = c[q]
    BY <1>8
  <2>2. c[q] = "connected" /\ p[q] <= Len(h) /\ h[p[q]].owner = q /\ p[q] \in Nat
    BY <1>0, <1>1, <2>1 DEF Homes
  <2>3. p[q] \in DOMAIN g
    BY <1>1, <1>4, <2>1, <2>2
  <2> QED BY <1>7, <1>10, <2>1, <2>2, <2>3
<1>13. Owned(g, s, d)
  BY <1>0, <1>8, <1>9 DEF Owned
<1>14. Once(g)
  BY <1>0, <1>4, <1>10 DEF Once
<1>15. Truthful(g, e)
  BY <1>0, <1>3, <1>8, <1>9 DEF Truthful
<1>16. Fated(d, e)
  BY <1>0, <1>2, <1>8 DEF Fated, Unsettled
<1> QED BY <1>11, <1>12, <1>13, <1>14, <1>15, <1>16 DEF Sound, g, s, d, e, idx, b

(* Stages that change nothing in the history.                               *)
LEMMA StageSound ==
  ASSUME NEW h, NEW p, NEW c, NEW f, Sound(h, p, c, f),
         NEW r \in Requests, NEW stage,
         \/ c[r] \in {"idle", "started"} /\ stage \in {"started", "stamped"}
         \/ c[r] = "settled" /\ stage = "ended"
  PROVE  Sound(h, p, [c EXCEPT ![r] = stage], f)
<1> DEFINE d == [c EXCEPT ![r] = stage]
<1>0. Typed(h, p, c, f) /\ Homes(h, p, c) /\ Owned(h, p, c) /\ Once(h)
      /\ Truthful(h, f) /\ Fated(c, f)
  BY DEF Sound
<1>1. /\ h \in Seq(Records) /\ c \in [Requests -> Stages]
      /\ \A i \in DOMAIN h : h[i].owner \in Requests
  BY <1>0, OwnersAreRequests DEF Typed
<1>2. /\ d \in [Requests -> Stages] /\ d[r] = stage
      /\ \A q \in Requests : q # r => d[q] = c[q]
  BY <1>1 DEF Stages
<1>3. c[r] # "connected"
  OBVIOUS
<1> HIDE DEF d
<1>4. Typed(h, p, d, f)
  BY <1>0, <1>2 DEF Typed
<1>5. Homes(h, p, d)
  BY <1>0, <1>2, <1>3 DEF Homes
<1>6. Owned(h, p, d)
  BY <1>0, <1>1, <1>2 DEF Owned
<1>7. Fated(d, f)
  BY <1>0, <1>2 DEF Fated, Unsettled
<1> QED BY <1>0, <1>4, <1>5, <1>6, <1>7 DEF Sound, d

(* The emptied history of a key that was reset or dropped.                  *)
LEMMA EmptySound ==
  ASSUME NEW h, NEW p, NEW c, NEW f, Sound(h, p, c, f)
  PROVE  Sound(<< >>, [r \in Requests |-> 0], c, f)
<1>1. Typed(h, p, c, f) /\ Fated(c, f)
  BY DEF Sound
<1>2. Typed(<< >>, [r \in Requests |-> 0], c, f)
  BY <1>1 DEF Typed
<1>3. Homes(<< >>, [r \in Requests |-> 0], c)
  BY DEF Homes
<1>4. Owned(<< >>, [r \in Requests |-> 0], c) /\ Once(<< >>) /\ Truthful(<< >>, f)
  BY DEF Owned, Once, Truthful
<1> QED BY <1>1, <1>2, <1>3, <1>4 DEF Sound

(* A request without an index has no record either, unless it has settled.  *)
LEMMA NoRecord ==
  ASSUME NEW h, NEW p, NEW c, NEW f, Sound(h, p, c, f), NEW r \in Requests,
         \/ c[r] = "connected" /\ p[r] = 0
         \/ c[r] \in {"idle", "started", "stamped"}
  PROVE  p[r] = 0 /\ \A i \in DOMAIN h : h[i].owner # r
<1>1. Typed(h, p, c, f) /\ Homes(h, p, c) /\ Owned(h, p, c)
  BY DEF Sound
<1>2. p[r] = 0
  BY <1>1 DEF Homes
<1>3. ASSUME NEW i \in DOMAIN h, h[i].owner = r
      PROVE  FALSE
  <2>1. DOMAIN h = 1..Len(h) /\ Len(h) \in Nat
    BY <1>1, OwnersAreRequests DEF Typed
  <2>2. c[r] = "connected" /\ p[r] = i
    BY <1>1, <1>3 DEF Owned
  <2> QED BY <1>2, <2>1, <2>2
<1> QED BY <1>2, <1>3

(* A cancelled request whose record is gone already.                        *)
LEMMA CancelledUnrecorded ==
  ASSUME NEW h, NEW p, NEW c, NEW f, Sound(h, p, c, f),
         NEW r \in Requests, c[r] = "connected", p[r] = 0
  PROVE  Sound(h, p, [c EXCEPT ![r] = "settled"], [f EXCEPT ![r] = "cancelled"])
<1> DEFINE d == [c EXCEPT ![r] = "settled"]
           e == [f EXCEPT ![r] = "cancelled"]
<1>0. Typed(h, p, c, f) /\ Homes(h, p, c) /\ Owned(h, p, c) /\ Once(h)
      /\ Truthful(h, f) /\ Fated(c, f)
  BY DEF Sound
<1>1. /\ h \in Seq(Records) /\ c \in [Requests -> Stages]
      /\ f \in [Requests -> Fates \cup {"none"}]
      /\ \A i \in DOMAIN h : h[i].owner \in Requests
  BY <1>0, OwnersAreRequests DEF Typed
<1>2. /\ d \in [Requests -> Stages] /\ e \in [Requests -> Fates \cup {"none"}]
      /\ d[r] = "settled" /\ e[r] = "cancelled"
      /\ \A q \in Requests : q # r => d[q] = c[q] /\ e[q] = f[q]
  BY <1>1 DEF Stages, Fates
<1>3. \A i \in DOMAIN h : h[i].owner # r
  BY NoRecord
<1> HIDE DEF d, e
<1>4. Typed(h, p, d, e)
  BY <1>0, <1>2 DEF Typed
<1>5. Homes(h, p, d)
  BY <1>0, <1>2 DEF Homes
<1>6. Owned(h, p, d)
  BY <1>0, <1>1, <1>2, <1>3 DEF Owned
<1>7. Truthful(h, e)
  BY <1>0, <1>1, <1>2, <1>3 DEF Truthful
<1>8. Fated(d, e)
  BY <1>0, <1>2 DEF Fated, Unsettled
<1> QED BY <1>0, <1>4, <1>5, <1>6, <1>7, <1>8 DEF Sound, d, e

-----------------------------------------------------------------------------
(* Actions *)

(* Whatever is appended, the cleanup that follows keeps the invariant.      *)
LEMMA AppendAndCleanupSound ==
  ASSUME NEW record, NEW p, NEW c, NEW f,
         Sound(Append(history, record), p, c, f),
         AppendAndCleanup(record, p)
  PROVE  Sound(history', pending', c, f)
<1> DEFINE longer == Append(history, record)
           n      == Expired(longer)
<1>1. longer \in Seq(Records)
  BY DEF Sound, Typed
<1>2. n \in 0..Len(longer)
  BY <1>1, ExpiredBounded
<1>3. history' = SubSeq(longer, n + 1, Len(longer)) /\ pending' = Shifted(p, n)
  BY DEF AppendAndCleanup
<1> HIDE DEF longer, n
<1>4. Sound(longer, p, c, f)
  BY DEF longer
<1> QED BY <1>2, <1>3, <1>4, CutSound

(* The outcome of a request that has no record, as a new one.               *)
LEMMA OutcomeRecorded ==
  ASSUME IInv, NEW r \in Requests, NEW outcome \in {"success", "failure"},
         NEW stage \in {"settled", "ended"},
         clock \in Nat,
         \/ pc[r] = "connected" /\ pending[r] = 0
         \/ pc[r] = "idle",
         RecordOutcome(r, outcome),
         pc' = [pc EXCEPT ![r] = stage],
         fate' = [fate EXCEPT ![r] = outcome]
  PROVE  IInv'
<1> DEFINE record == [owner |-> r, success |-> outcome = "success",
                      timestamp |-> clock, model |-> FALSE]
<1>1. pending[r] = 0 /\ \A i \in DOMAIN history : history[i].owner # r
  BY NoRecord DEF IInv
<1>2. record \in Records /\ record.owner = r /\ (record.success <=> outcome = "success")
  BY DEF Records
<1>3. AppendAndCleanup(record, pending)
  BY DEF RecordOutcome
<1> HIDE DEF record
<1>4. Sound(Append(history, record), [pending EXCEPT ![record.owner] = 0],
            [pc EXCEPT ![record.owner] = stage], [fate EXCEPT ![record.owner] = outcome])
  BY <1>1, <1>2, AppendSound DEF IInv
<1>5. [pending EXCEPT ![r] = 0] = pending
  BY <1>1 DEF IInv, Sound, Typed
<1>6. Sound(Append(history, record), pending, pc', fate')
  BY <1>2, <1>4, <1>5
<1>7. Sound(history', pending', pc', fate')
  BY <1>3, <1>6, AppendAndCleanupSound
<1> QED BY <1>7 DEF IInv

-----------------------------------------------------------------------------
(* Types *)

Traversals == [cells : Seq(Records), offset : Nat, shared : BOOLEAN,
               next : Nat \ {0}, counted : Seq(Requests)]

LEMMA OverwrittenType ==
  ASSUME traversal \in Traversals, NEW h \in Seq(Records),
         NEW positions, positions \subseteq DOMAIN h
  PROVE  Overwritten(h, positions) \in Traversals
<1> DEFINE cell(v) == IF /\ traversal.shared /\ v > traversal.offset
                         /\ v - traversal.offset \in positions
                      THEN h[v - traversal.offset]
                      ELSE traversal.cells[v]
           seen == [v \in DOMAIN traversal.cells |-> cell(v)]
<1>1. traversal.cells \in Seq(Records)
  BY DEF Traversals
<1>2. \A i \in DOMAIN h : h[i] \in Records
  OBVIOUS
<1>3. \A v \in DOMAIN traversal.cells : traversal.cells[v] \in Records
  BY <1>1
<1>4. \A v \in DOMAIN traversal.cells : cell(v) \in Records
  BY <1>2, <1>3
<1>5. DOMAIN traversal.cells = 1..Len(traversal.cells) /\ Len(traversal.cells) \in Nat
  BY <1>1
<1> HIDE DEF cell
<1>6. seen \in Seq(Records)
  BY <1>4, <1>5
<1>7. Overwritten(h, positions) = [traversal EXCEPT !.cells = seen]
  BY DEF Overwritten, cell
<1> HIDE DEF seen
<1> QED BY <1>6, <1>7 DEF Traversals

LEMMA AppendAndCleanupType ==
  ASSUME TypeOK, NEW record \in Records, NEW p \in [Requests -> Nat],
         AppendAndCleanup(record, p)
  PROVE  history' \in Seq(Records) /\ pending' \in [Requests -> Nat]
         /\ traversal' \in Traversals
<1> DEFINE longer == Append(history, record)
           n      == Expired(longer)
           shown  == Overwritten(longer, {Len(longer)})
           moved  == IF n < Len(longer) THEN [shown EXCEPT !.offset = @ + n] ELSE shown
<1>1. /\ history \in Seq(Records) /\ traversal \in Traversals
  BY DEF TypeOK, Traversals
<1>2. /\ longer \in Seq(Records) /\ Len(longer) \in DOMAIN longer /\ Len(longer) \in Nat
  BY <1>1
<1>3. n \in 0..Len(longer)
  BY <1>2, ExpiredBounded
<1>4. /\ history' = SubSeq(longer, n + 1, Len(longer))
      /\ pending' = Shifted(p, n)
      /\ traversal' \in {moved, Detached}
  BY DEF AppendAndCleanup
<1> HIDE DEF longer, n
<1>5. shown \in Traversals
  BY <1>1, <1>2, OverwrittenType
<1> HIDE DEF shown
<1>6. n \in Nat
  BY <1>2, <1>3
<1>7. moved \in Traversals
  <2> DEFINE offset == shown.offset + n
  <2>1. offset \in Nat
    BY <1>5, <1>6 DEF Traversals
  <2> HIDE DEF offset
  <2>2. [shown EXCEPT !.offset = offset] \in Traversals
    BY <1>5, <2>1 DEF Traversals
  <2> QED BY <1>5, <2>2 DEF offset
<1>8. Detached \in Traversals
  BY <1>1 DEF Detached, Traversals
<1>9. history' \in Seq(Records)
  BY <1>2, <1>3, <1>4, CutFacts
<1>10. pending' \in [Requests -> Nat]
  BY <1>4, <1>6 DEF Shifted
<1> QED BY <1>4, <1>7, <1>8, <1>9, <1>10

LEMMA WithoutType ==
  ASSUME NEW h \in Seq(Records), NEW idx \in DOMAIN h
  PROVE  /\ Without(h, idx) \in Seq(Records)
         /\ idx..(Len(h) - 1) \subseteq DOMAIN Without(h, idx)
<1>1. DOMAIN h = 1..Len(h) /\ Len(h) \in Nat /\ \A i \in DOMAIN h : h[i] \in Records
  OBVIOUS
<1>2. idx \in 1..Len(h) /\ Len(h) - 1 \in Nat
  BY <1>1
<1>3. \A i \in 1..(Len(h) - 1) : (IF i < idx THEN h[i] ELSE h[i + 1]) \in Records
  BY <1>1, <1>2
<1> QED BY <1>1, <1>2, <1>3 DEF Without

LEMMA InPlaceType ==
  ASSUME NEW h \in Seq(Records), NEW idx \in DOMAIN h, NEW b \in BOOLEAN
  PROVE  /\ [h EXCEPT ![idx].success = b] \in Seq(Records)
         /\ DOMAIN [h EXCEPT ![idx].success = b] = DOMAIN h
<1> DEFINE g == [h EXCEPT ![idx].success = b]
<1>1. DOMAIN h = 1..Len(h) /\ Len(h) \in Nat /\ \A i \in DOMAIN h : h[i] \in Records
  OBVIOUS
<1>2. /\ DOMAIN g = DOMAIN h /\ g[idx] = [h[idx] EXCEPT !.success = b]
      /\ \A i \in DOMAIN h : i # idx => g[i] = h[i]
  OBVIOUS
<1>3. g[idx] \in Records
  BY <1>1, <1>2 DEF Records
<1>4. g = [i \in 1..Len(h) |-> g[i]]
  BY <1>1
<1> HIDE DEF g
<1>5. \A i \in 1..Len(h) : g[i] \in Records
  BY <1>1, <1>2, <1>3
<1>6. g \in Seq(Records)
  BY <1>1, <1>4, <1>5
<1> QED BY <1>2, <1>6 DEF g

LEMMA TypeNext == TypeOK /\ [Next]_vars => TypeOK'
<1> SUFFICES ASSUME TypeOK, [Next]_vars
             PROVE  TypeOK'
  OBVIOUS
<1> USE PendingHistoryAssumption
<1>0. /\ history \in Seq(Records) /\ Len(history) \in Nat /\ DOMAIN history = 1..Len(history)
      /\ pending \in [Requests -> Nat] /\ clock \in Nat /\ traversal \in Traversals
      /\ stamp \in [Requests -> Nat]
  BY DEF TypeOK, Traversals
<1>1. ASSUME NEW r \in Requests, RecordRequestStart(r)
      PROVE  TypeOK'
  BY <1>1 DEF RecordRequestStart, TypeOK
<1>2. ASSUME NEW r \in Requests, ReadClock(r)
      PROVE  TypeOK'
  BY <1>2 DEF ReadClock, TypeOK
<1>3. ASSUME NEW r \in Requests, RecordRequestConnectedAt(r)
      PROVE  TypeOK'
  <2> DEFINE record == [owner |-> r, success |-> TRUE, timestamp |-> stamp[r],
                        model |-> TRUE]
             p == [pending EXCEPT ![r] = Len(history) + 1]
  <2>1. record \in Records /\ p \in [Requests -> Nat]
    BY <1>0 DEF Records
  <2>2. AppendAndCleanup(record, p)
    BY <1>3 DEF RecordRequestConnectedAt
  <2>3. history' \in Seq(Records) /\ pending' \in [Requests -> Nat] /\ traversal' \in Traversals
    BY <2>1, <2>2, AppendAndCleanupType
  <2> QED BY <1>3, <2>3 DEF RecordRequestConnectedAt, TypeOK, Traversals
<1>4. ASSUME NEW r \in Requests, NEW outcome \in {"success", "failure"},
             RecordOutcome(r, outcome)
      PROVE  /\ history' \in Seq(Records) /\ pending' \in [Requests -> Nat]
             /\ traversal' \in Traversals /\ tracked' \in BOOLEAN /\ lastSettled' \in Nat
  <2> DEFINE record == [owner |-> r, success |-> outcome = "success",
                        timestamp |-> clock, model |-> FALSE]
  <2>1. record \in Records
    BY <1>0 DEF Records
  <2>2. AppendAndCleanup(record, pending) /\ tracked' = TRUE /\ lastSettled' = clock
    BY <1>4 DEF RecordOutcome
  <2> QED BY <1>0, <2>1, <2>2, AppendAndCleanupType
<1>5. ASSUME NEW r \in Requests, NEW outcome \in {"success", "failure"},
             FinalizeOutcome(r, outcome)
      PROVE  TypeOK'
  <2>1. ASSUME HasRecord(r), history' = [history EXCEPT ![pending[r]].success = (outcome = "success")],
               pending' = [pending EXCEPT ![r] = 0], lastSettled' = clock,
               traversal' = Overwritten([history EXCEPT ![pending[r]].success = (outcome = "success")],
                                        {pending[r]}),
               tracked' = tracked
        PROVE  /\ history' \in Seq(Records) /\ pending' \in [Requests -> Nat]
               /\ traversal' \in Traversals /\ tracked' \in BOOLEAN /\ lastSettled' \in Nat
    <3>1. pending[r] \in DOMAIN history
      BY <1>0, <2>1 DEF HasRecord
    <3>2. /\ history' \in Seq(Records) /\ DOMAIN history' = DOMAIN history
      BY <1>0, <2>1, <3>1, InPlaceType
    <3>3. traversal' \in Traversals
      BY <1>0, <2>1, <3>1, <3>2, OverwrittenType
    <3> QED BY <1>0, <2>1, <3>2, <3>3 DEF TypeOK
  <2>2. /\ history' \in Seq(Records) /\ pending' \in [Requests -> Nat]
        /\ traversal' \in Traversals /\ tracked' \in BOOLEAN /\ lastSettled' \in Nat
    BY <1>4, <1>5, <2>1 DEF FinalizeOutcome
  <2> QED BY <1>5, <2>2 DEF FinalizeOutcome, TypeOK, Traversals, Fates
<1>6. ASSUME NEW r \in Requests, NEW outcome \in {"success", "failure"},
             RecordUnconnected(r, outcome)
      PROVE  TypeOK'
  BY <1>4, <1>6 DEF RecordUnconnected, TypeOK, Traversals, Fates
<1>7. ASSUME NEW r \in Requests, FinalizeClientCancel(r)
      PROVE  TypeOK'
  <2>1. CASE HasRecord(r)
    <3>1. pending[r] \in DOMAIN history
      BY <1>0, <2>1 DEF HasRecord
    <3>2. /\ history' = Without(history, pending[r])
          /\ pending' = CloseGap([pending EXCEPT ![r] = 0], pending[r])
          /\ traversal' = Overwritten(history', pending[r]..(Len(history) - 1))
      BY <1>7, <2>1 DEF FinalizeClientCancel
    <3>3. history' \in Seq(Records) /\ pending[r]..(Len(history) - 1) \subseteq DOMAIN history'
      BY <1>0, <3>1, <3>2, WithoutType
    <3>4. traversal' \in Traversals
      BY <1>0, <3>2, <3>3, OverwrittenType
    <3>5. pending' \in [Requests -> Nat]
      BY <1>0, <3>2 DEF CloseGap
    <3> QED BY <1>7, <3>3, <3>4, <3>5 DEF FinalizeClientCancel, TypeOK, Traversals, Fates
  <2>2. CASE ~HasRecord(r)
    BY <1>7, <2>2 DEF FinalizeClientCancel, TypeOK, Fates
  <2> QED BY <2>1, <2>2
<1>8. ASSUME NEW r \in Requests, RecordRequestEnd(r)
      PROVE  TypeOK'
  BY <1>8 DEF RecordRequestEnd, OneLess, TypeOK
<1>9. ASSUME Emptied, tracked' \in BOOLEAN
      PROVE  TypeOK'
  <2>1. traversal' \in Traversals
    BY <1>0, <1>9 DEF Emptied, Detached, Traversals
  <2>2. history' \in Seq(Records)
    BY <1>9 DEF Emptied
  <2> QED BY <1>9, <2>1, <2>2 DEF Emptied, TypeOK, Traversals
<1>10. ASSUME ResetKey \/ DeleteKey \/ CleanupStaleKey
       PROVE  TypeOK'
  BY <1>9, <1>10 DEF ResetKey, DeleteKey, CleanupStaleKey, TypeOK
<1>11. ASSUME Tick
       PROVE  TypeOK'
  BY <1>11 DEF Tick, TypeOK
<1>12. ASSUME CopyReference
       PROVE  TypeOK'
  <2>1. traversal' \in Traversals
    <3>1. << >> \in Seq(Requests)
      OBVIOUS
    <3>2. traversal' = [cells |-> history, offset |-> 0, shared |-> TRUE, next |-> 1,
                        counted |-> << >>]
      BY <1>12 DEF CopyReference, NoTraversal
    <3> QED BY <1>0, <3>1, <3>2 DEF Traversals
  <2>2. traversals' \in Nat
    BY <1>12 DEF CopyReference, TypeOK
  <2>3. UNCHANGED <<tracked, history, pending, active, lastSettled, clock, pc, stamp,
                    fate, lost>>
    BY <1>12 DEF CopyReference
  <2> QED BY <2>1, <2>2, <2>3 DEF TypeOK, Traversals
<1>13. ASSUME VisitRecord
       PROVE  TypeOK'
  <2> DEFINE record == traversal.cells[traversal.next]
             count == IF record.model THEN Append(traversal.counted, record.owner)
                                      ELSE traversal.counted
  <2>1. traversal' = [traversal EXCEPT !.next = @ + 1, !.counted = count]
    BY <1>13 DEF VisitRecord
  <2>2. /\ traversal.cells \in Seq(Records) /\ traversal.counted \in Seq(Requests)
        /\ traversal.next \in Nat \ {0}
    BY <1>0 DEF Traversals
  <2>3. count \in Seq(Requests)
    <3>1. traversal.next \in DOMAIN traversal.cells
      BY <1>13, <2>2 DEF VisitRecord
    <3>2. record \in Records
      BY <2>2, <3>1
    <3>3. record.owner \in Requests
      BY <3>2 DEF Records
    <3> HIDE DEF record
    <3> QED BY <2>2, <3>3
  <2>4. traversal.next + 1 \in Nat \ {0}
    BY <2>2
  <2> HIDE DEF count
  <2>5. traversal' \in Traversals
    BY <1>0, <2>1, <2>3, <2>4 DEF Traversals
  <2>6. UNCHANGED <<tracked, history, pending, active, lastSettled, clock, pc, stamp,
                    fate, lost, traversals>>
    BY <1>13 DEF VisitRecord
  <2> QED BY <2>5, <2>6 DEF TypeOK, Traversals
<1>14. ASSUME ReturnStats
       PROVE  TypeOK'
  <2>1. traversal' \in Traversals
    <3>1. << >> \in Seq(Requests) /\ << >> \in Seq(Records)
      OBVIOUS
    <3> QED BY <1>14, <3>1 DEF ReturnStats, NoTraversal, Traversals
  <2> QED BY <1>14, <2>1 DEF ReturnStats, TypeOK, Traversals
<1>15. ASSUME UNCHANGED vars
       PROVE  TypeOK'
  BY <1>15 DEF vars, TypeOK
<1> QED BY <1>1, <1>2, <1>3, <1>5, <1>6, <1>7, <1>8, <1>10, <1>11, <1>12, <1>13,
           <1>14, <1>15 DEF Next, Attempt

(* Every variable has its type at all times.                                *)
THEOREM HistoryTypeCorrect == Spec => []TypeOK
<1>1. Init => TypeOK
  <2>1. << >> \in Seq(Records) /\ << >> \in Seq(Requests)
    OBVIOUS
  <2>2. NoTraversal \in Traversals
    BY <2>1 DEF NoTraversal, Traversals
  <2> SUFFICES ASSUME Init
               PROVE  TypeOK
    OBVIOUS
  <2>3. history \in Seq(Records) /\ traversal \in Traversals
    BY <2>1, <2>2 DEF Init
  <2>4. /\ pending \in [Requests -> Nat] /\ stamp \in [Requests -> Nat]
        /\ pc \in [Requests -> {"idle", "started", "stamped", "connected", "settled", "ended"}]
        /\ fate \in [Requests -> Fates \cup {"none"}]
        /\ active \in Nat /\ lastSettled \in Nat /\ clock \in Nat \ {0}
        /\ lost \subseteq Requests /\ traversals \in Nat
    BY DEF Init
  <2>5. tracked \in BOOLEAN
    BY Zenon DEF Init
  <2> QED BY <2>3, <2>4, <2>5 DEF TypeOK, Traversals
<1> QED BY <1>1, TypeNext, PTL DEF Spec

-----------------------------------------------------------------------------
(* The inductive invariant *)

LEMMA SoundInit == Init => IInv
<1> SUFFICES ASSUME Init
             PROVE  IInv
  OBVIOUS
<1>1. Typed(history, pending, pc, fate)
  BY DEF Init, Typed, Stages
<1>2. Homes(history, pending, pc)
  BY DEF Init, Homes
<1>3. Owned(history, pending, pc) /\ Once(history) /\ Truthful(history, fate)
  BY DEF Init, Owned, Once, Truthful
<1>4. Fated(pc, fate)
  BY DEF Init, Fated, Unsettled
<1> QED BY <1>1, <1>2, <1>3, <1>4 DEF IInv, Sound

LEMMA SoundNext == TypeOK /\ IInv /\ [Next]_vars => IInv'
<1> SUFFICES ASSUME TypeOK, IInv, [Next]_vars
             PROVE  IInv'
  OBVIOUS
<1>0. /\ history \in Seq(Records) /\ pc \in [Requests -> Stages]
      /\ fate \in [Requests -> Fates \cup {"none"}]
      /\ pending \in [Requests -> Nat]
      /\ clock \in Nat /\ stamp \in [Requests -> Nat]
      /\ Homes(history, pending, pc) /\ Fated(pc, fate)
  BY DEF IInv, Sound, Typed, TypeOK
<1>1. ASSUME NEW r \in Requests, RecordRequestStart(r)
      PROVE  IInv'
  <2>1. /\ pc[r] = "idle" /\ pc' = [pc EXCEPT ![r] = "started"]
        /\ UNCHANGED <<history, pending, fate>>
    BY <1>1 DEF RecordRequestStart
  <2>2. Sound(history, pending, [pc EXCEPT ![r] = "started"], fate)
    BY <2>1, StageSound DEF IInv
  <2> QED BY <2>1, <2>2 DEF IInv
<1>2. ASSUME NEW r \in Requests, ReadClock(r)
      PROVE  IInv'
  <2>1. /\ pc[r] = "started" /\ pc' = [pc EXCEPT ![r] = "stamped"]
        /\ UNCHANGED <<history, pending, fate>>
    BY <1>2 DEF ReadClock
  <2>2. Sound(history, pending, [pc EXCEPT ![r] = "stamped"], fate)
    BY <2>1, StageSound DEF IInv
  <2> QED BY <2>1, <2>2 DEF IInv
<1>3. ASSUME NEW r \in Requests, RecordRequestConnectedAt(r)
      PROVE  IInv'
  <2> DEFINE record == [owner |-> r, success |-> TRUE, timestamp |-> stamp[r],
                        model |-> TRUE]
             p == [pending EXCEPT ![r] = Len(history) + 1]
  <2>1. /\ pc[r] = "stamped" /\ pc' = [pc EXCEPT ![r] = "connected"]
        /\ AppendAndCleanup(record, p)
        /\ fate' = fate
    BY <1>3 DEF RecordRequestConnectedAt
  <2>2. record \in Records /\ record.owner = r
    BY <1>0 DEF Records
  <2>3. \A i \in DOMAIN history : history[i].owner # r
    BY <2>1, NoRecord DEF IInv
  <2>4. fate = [fate EXCEPT ![r] = "none"]
    BY <1>0, <2>1 DEF Fated, Unsettled
  <2> HIDE DEF record
  <2>5. Sound(Append(history, record), [pending EXCEPT ![record.owner] = Len(history) + 1],
              [pc EXCEPT ![record.owner] = "connected"],
              [fate EXCEPT ![record.owner] = "none"])
    BY <2>2, <2>3, AppendSound DEF IInv
  <2>6. Sound(Append(history, record), p, pc', fate')
    BY <2>1, <2>2, <2>4, <2>5
  <2>7. Sound(history', pending', pc', fate')
    BY <2>1, <2>6, AppendAndCleanupSound
  <2> QED BY <2>7 DEF IInv
<1>4. ASSUME NEW r \in Requests, NEW outcome \in {"success", "failure"},
             FinalizeOutcome(r, outcome)
      PROVE  IInv'
  <2>1. /\ pc[r] = "connected" /\ pc' = [pc EXCEPT ![r] = "settled"]
        /\ fate' = [fate EXCEPT ![r] = outcome]
    BY <1>4 DEF FinalizeOutcome
  <2>2. CASE HasRecord(r)
    <3>1. /\ pending[r] # 0 /\ pending' = [pending EXCEPT ![r] = 0]
          /\ history' = [history EXCEPT ![pending[r]].success = (outcome = "success")]
      BY <1>4, <2>2 DEF FinalizeOutcome, HasRecord
    <3>2. Sound(history', pending', pc', fate')
      BY <2>1, <3>1, InPlaceSound DEF IInv
    <3> QED BY <3>2 DEF IInv
  <2>3. CASE ~HasRecord(r)
    <3>1. RecordOutcome(r, outcome)
      BY <1>4, <2>3 DEF FinalizeOutcome
    <3>2. pending[r] = 0
      BY <1>0, <2>3 DEF HasRecord, Homes
    <3> QED BY <1>0, <2>1, <3>1, <3>2, OutcomeRecorded
  <2> QED BY <2>2, <2>3
<1>5. ASSUME NEW r \in Requests, NEW outcome \in {"success", "failure"},
             RecordUnconnected(r, outcome)
      PROVE  IInv'
  <2>1. /\ pc[r] = "idle" /\ pc' = [pc EXCEPT ![r] = "ended"]
        /\ fate' = [fate EXCEPT ![r] = outcome] /\ RecordOutcome(r, outcome)
    BY <1>5 DEF RecordUnconnected
  <2> QED BY <1>0, <2>1, OutcomeRecorded
<1>6. ASSUME NEW r \in Requests, FinalizeClientCancel(r)
      PROVE  IInv'
  <2>1. /\ pc[r] = "connected" /\ pc' = [pc EXCEPT ![r] = "settled"]
        /\ fate' = [fate EXCEPT ![r] = "cancelled"]
    BY <1>6 DEF FinalizeClientCancel
  <2>2. CASE HasRecord(r)
    <3>1. /\ pending[r] # 0 /\ history' = Without(history, pending[r])
          /\ pending' = CloseGap([pending EXCEPT ![r] = 0], pending[r])
      BY <1>6, <2>2 DEF FinalizeClientCancel, HasRecord
    <3>2. Sound(history', pending', pc', fate')
      BY <2>1, <3>1, WithoutSound DEF IInv
    <3> QED BY <3>2 DEF IInv
  <2>3. CASE ~HasRecord(r)
    <3>1. UNCHANGED <<history, pending>>
      BY <1>6, <2>3 DEF FinalizeClientCancel
    <3>2. pending[r] = 0
      BY <1>0, <2>3 DEF HasRecord, Homes
    <3>3. Sound(history, pending, pc', fate')
      BY <2>1, <3>2, CancelledUnrecorded DEF IInv
    <3> QED BY <3>1, <3>3 DEF IInv
  <2> QED BY <2>2, <2>3
<1>7. ASSUME NEW r \in Requests, RecordRequestEnd(r)
      PROVE  IInv'
  <2>1. /\ pc[r] = "settled" /\ pc' = [pc EXCEPT ![r] = "ended"]
        /\ UNCHANGED <<history, pending, fate>>
    BY <1>7 DEF RecordRequestEnd
  <2>2. Sound(history, pending, [pc EXCEPT ![r] = "ended"], fate)
    BY <2>1, StageSound DEF IInv
  <2> QED BY <2>1, <2>2 DEF IInv
<1>8. ASSUME ResetKey \/ DeleteKey \/ CleanupStaleKey
      PROVE  IInv'
  <2>1. history' = << >> /\ pending' = [r \in Requests |-> 0] /\ UNCHANGED <<pc, fate>>
    BY <1>8 DEF ResetKey, DeleteKey, CleanupStaleKey, Emptied
  <2> QED BY <2>1, EmptySound DEF IInv
<1>9. ASSUME Tick \/ CopyReference \/ VisitRecord \/ ReturnStats \/ UNCHANGED vars
      PROVE  IInv'
  <2>1. UNCHANGED <<history, pending, pc, fate>>
    BY <1>9 DEF Tick, CopyReference, VisitRecord, ReturnStats, vars
  <2> QED BY <2>1 DEF IInv
<1> QED BY <1>1, <1>2, <1>3, <1>4, <1>5, <1>6, <1>7, <1>8, <1>9 DEF Next, Attempt

(* However the history is cut and shifted, no outcome is written over the   *)
(* record of another request.                                               *)
THEOREM IndicesPointHome == Spec => []IndexPointsHome
<1>1. IInv => IndexPointsHome
  BY DEF IInv, Sound, Homes, IndexPointsHome
<1> QED BY <1>1, SoundInit, SoundNext, HistoryTypeCorrect, PTL DEF Spec

(* No request is counted by two records.                                    *)
THEOREM AlwaysRecordedOnce == Spec => []RecordedOnce
<1>1. IInv => RecordedOnce
  BY DEF IInv, Sound, Once, RecordedOnce
<1> QED BY <1>1, SoundInit, SoundNext, HistoryTypeCorrect, PTL DEF Spec

(* The history never contradicts how a request ended.                       *)
THEOREM OutcomesAlwaysTrue == Spec => []OutcomesTrue
<1>1. IInv => OutcomesTrue
  BY DEF IInv, Sound, Truthful, OutcomesTrue
<1> QED BY <1>1, SoundInit, SoundNext, HistoryTypeCorrect, PTL DEF Spec

-----------------------------------------------------------------------------
(* What leaves the history *)

(* Everything that the cleanup cuts off is older than 24 hours: a prefix of *)
(* n records that cannot be extended ends where the count says.             *)
LEMMA ExpiredStale ==
  ASSUME NEW h \in Seq(Records), NEW i \in 1..Expired(h)
  PROVE  ~Fresh(h[i])
<1> DEFINE Stale(k) == \A j \in 1..k : ~Fresh(h[j])
           S == {k \in DOMAIN h : Stale(k)}
<1>1. DOMAIN h = 1..Len(h) /\ Len(h) \in Nat
  OBVIOUS
<1>2. Expired(h) = Cardinality(S) /\ Expired(h) \in 0..Len(h)
  BY ExpiredBounded DEF Expired
<1>3. i \in Nat /\ i \in 1..Len(h)
  BY <1>1, <1>2
<1>4. ASSUME ~Stale(i)
      PROVE  FALSE
  <2>1. S \subseteq 1..(i - 1)
    <3> SUFFICES ASSUME NEW k \in S
                 PROVE  k \in 1..(i - 1)
      OBVIOUS
    <3>1. k \in 1..Len(h) /\ Stale(k)
      BY <1>1
    <3>2. CASE k >= i
      <4>1. 1..i \subseteq 1..k
        BY <1>3, <3>1, <3>2
      <4> QED BY <1>4, <3>1, <4>1
    <3> QED BY <1>3, <3>1, <3>2
  <2> HIDE DEF S
  <2>2. IsFiniteSet(1..(i - 1)) /\ Cardinality(1..(i - 1)) = i - 1
    BY <1>3, FS_Interval
  <2>3. Cardinality(S) <= i - 1
    BY <2>1, <2>2, FS_Subset
  <2> QED BY <1>2, <1>3, <2>3
<1>5. Stale(i)
  BY <1>4
<1> QED BY <1>3, <1>5

Recorded(h, r) == \E i \in DOMAIN h : h[i].owner = r

(* A record is never older than the request's own time stamp.               *)
Dated(h) == \A i \in DOMAIN h : stamp[h[i].owner] <= h[i].timestamp

Expiring(r) == stamp[r] + Keep <= clock

(* An append and its cleanup take away nothing that is not older.           *)
LEMMA AppendAndCleanupKeeps ==
  ASSUME TypeOK, Dated(history), NEW record \in Records, NEW p,
         stamp[record.owner] <= record.timestamp,
         AppendAndCleanup(record, p), UNCHANGED stamp
  PROVE  /\ Dated(history)'
         /\ \A r \in Requests :
              Recorded(history, r) \/ r = record.owner => Recorded(history', r) \/ Expiring(r)
<1> USE PendingHistoryAssumption
<1> DEFINE longer == Append(history, record)
           n      == Expired(longer)
           m      == Len(longer)
<1>0. /\ history \in Seq(Records) /\ Len(history) \in Nat /\ DOMAIN history = 1..Len(history)
      /\ clock \in Nat /\ stamp \in [Requests -> Nat] /\ Keep \in Nat
  BY DEF TypeOK
<1>1. /\ longer \in Seq(Records) /\ m \in Nat /\ DOMAIN longer = 1..m
      /\ m = Len(history) + 1 /\ longer[m] = record
      /\ \A i \in DOMAIN history : i \in DOMAIN longer /\ longer[i] = history[i]
  BY <1>0
<1>2. n \in 0..m
  BY <1>1, ExpiredBounded
<1>3. \A i \in 1..n : ~Fresh(longer[i])
  BY <1>1, ExpiredStale
<1>4. history' = SubSeq(longer, n + 1, m)
  BY DEF AppendAndCleanup
<1>5. \A i \in DOMAIN longer : stamp[longer[i].owner] <= longer[i].timestamp
  <2> SUFFICES ASSUME NEW i \in DOMAIN longer
               PROVE  stamp[longer[i].owner] <= longer[i].timestamp
    OBVIOUS
  <2>1. i = m \/ i \in DOMAIN history
    BY <1>0, <1>1
  <2> QED BY <1>1, <2>1 DEF Dated
<1>6. \A i \in DOMAIN longer : longer[i].owner \in Requests /\ longer[i].timestamp \in Nat
  <2>1. \A i \in DOMAIN longer : longer[i] \in Records
    BY <1>1
  <2> QED BY <2>1 DEF Records
<1> HIDE DEF longer, n, m
<1>7. /\ DOMAIN history' = 1..(m - n)
      /\ \A i \in 1..(m - n) : history'[i] = longer[i + n] /\ i + n \in DOMAIN longer
  BY <1>1, <1>2, <1>4, CutFacts DEF m
<1>8. Dated(history)'
  BY <1>5, <1>7 DEF Dated
<1>9. ASSUME NEW r \in Requests, Recorded(history, r) \/ r = record.owner
      PROVE  Recorded(history', r) \/ Expiring(r)
  <2>1. PICK i \in DOMAIN longer : longer[i].owner = r
    BY <1>1, <1>9 DEF Recorded
  <2>2. CASE i > n
    <3>1. i - n \in 1..(m - n) /\ (i - n) + n = i
      BY <1>1, <1>2, <2>2
    <3>2. history'[i - n].owner = r
      BY <1>7, <2>1, <3>1
    <3> QED BY <1>7, <3>1, <3>2 DEF Recorded
  <2>3. CASE ~(i > n)
    <3>1. i \in 1..n
      BY <1>1, <1>2, <2>3
    <3>2. ~(longer[i].timestamp + Keep > clock)
      BY <1>3, <3>1 DEF Fresh
    <3>3. stamp[r] <= longer[i].timestamp /\ longer[i].timestamp \in Nat /\ stamp[r] \in Nat
      BY <1>0, <1>5, <1>6, <2>1
    <3> QED BY <1>0, <3>2, <3>3 DEF Expiring
  <2> QED BY <2>2, <2>3
<1> QED BY <1>8, <1>9

(* A record leaves with its age, its cancellation or its key only.          *)
KInv == /\ \A r \in Requests : stamp[r] <= clock
        /\ Dated(history)
        /\ RecordKept

Connected == {"connected", "settled", "ended"}

(* The records, their owners and their time stamps decide.                  *)
LEMMA KeptBy ==
  ASSUME TypeOK, KInv, UNCHANGED <<stamp, clock, lost>>,
         Dated(history)', pc' \in [Requests -> Stages],
         \A r \in Requests :
            pc'[r] \in Connected /\ fate'[r] # "cancelled" =>
              \/ Recorded(history', r) \/ Expiring(r)
              \/ pc[r] \in Connected /\ fate[r] # "cancelled"
                 /\ (Recorded(history, r) => Recorded(history', r))
  PROVE  KInv'
<1>1. \A r \in Requests : stamp'[r] <= clock'
  BY DEF KInv
<1>2. ASSUME NEW r \in Requests, pc'[r] \in Connected, fate'[r] # "cancelled"
      PROVE  Recorded(history', r) \/ stamp'[r] + Keep <= clock' \/ r \in lost'
  BY <1>2 DEF KInv, RecordKept, Recorded, Expiring, Connected
<1> QED BY <1>1, <1>2 DEF KInv, RecordKept, Recorded, Connected

LEMMA KInvInit == Init => KInv
<1> SUFFICES ASSUME Init
             PROVE  KInv
  OBVIOUS
<1>1. \A r \in Requests : stamp[r] <= clock
  BY DEF Init
<1>2. Dated(history) /\ RecordKept
  BY DEF Init, Dated, RecordKept
<1> QED BY <1>1, <1>2 DEF KInv

LEMMA KInvNext == TypeOK /\ IInv /\ KInv /\ [Next]_vars => KInv'
<1> SUFFICES ASSUME TypeOK, IInv, KInv, [Next]_vars
             PROVE  KInv'
  OBVIOUS
<1> USE PendingHistoryAssumption
<1>0. /\ history \in Seq(Records) /\ pc \in [Requests -> Stages]
      /\ Len(history) \in Nat /\ DOMAIN history = 1..Len(history)
      /\ fate \in [Requests -> Fates \cup {"none"}] /\ pending \in [Requests -> Nat]
      /\ clock \in Nat /\ stamp \in [Requests -> Nat]
      /\ \A i \in DOMAIN history : history[i] \in Records /\ history[i].owner \in Requests
      /\ \A r \in Requests : stamp[r] <= clock
      /\ Dated(history) /\ RecordKept
  BY OwnersAreRequests DEF TypeOK, Stages, KInv
<1>1. ASSUME NEW r \in Requests, NEW record \in Records, NEW p,
             record.owner = r, stamp[r] <= record.timestamp,
             AppendAndCleanup(record, p), UNCHANGED <<stamp, clock, lost>>,
             NEW stage \in {"connected", "settled", "ended"},
             pc' = [pc EXCEPT ![r] = stage],
             \A q \in Requests : q # r => fate'[q] = fate[q]
      PROVE  KInv'
  <2>1. /\ Dated(history)'
        /\ \A q \in Requests :
             Recorded(history, q) \/ q = r => Recorded(history', q) \/ Expiring(q)
    BY <1>0, <1>1, AppendAndCleanupKeeps
  <2>2. pc' \in [Requests -> Stages] /\ \A q \in Requests : q # r => pc'[q] = pc[q]
    BY <1>0, <1>1 DEF Stages
  <2>3. ASSUME NEW q \in Requests, pc'[q] \in Connected, fate'[q] # "cancelled"
        PROVE  \/ Recorded(history', q) \/ Expiring(q)
               \/ pc[q] \in Connected /\ fate[q] # "cancelled"
                  /\ (Recorded(history, q) => Recorded(history', q))
    BY <1>1, <2>1, <2>2, <2>3
  <2> QED BY <1>1, <2>1, <2>2, <2>3, KeptBy
<1>2. ASSUME NEW r \in Requests, RecordRequestStart(r)
      PROVE  KInv'
  <2>1. /\ UNCHANGED <<history, stamp, clock, lost, fate>>
        /\ pc' \in [Requests -> Stages] /\ pc'[r] \notin Connected
        /\ \A q \in Requests : q # r => pc'[q] = pc[q]
    BY <1>0, <1>2 DEF RecordRequestStart, Stages, Connected
  <2> QED BY <1>0, <2>1 DEF KInv, RecordKept, Dated, Connected
<1>3. ASSUME NEW r \in Requests, ReadClock(r)
      PROVE  KInv'
  <2>1. /\ UNCHANGED <<history, clock, lost, fate>>
        /\ stamp'[r] = clock /\ \A q \in Requests : q # r => stamp'[q] = stamp[q]
        /\ pc'[r] \notin Connected /\ \A q \in Requests : q # r => pc'[q] = pc[q]
        /\ pc[r] = "started"
    BY <1>0, <1>3 DEF ReadClock, Stages, Connected
  <2>2. \A i \in DOMAIN history : history[i].owner # r
    BY <2>1, NoRecord DEF IInv
  <2>3. Dated(history)'
    BY <1>0, <2>1, <2>2 DEF Dated
  <2>4. \A q \in Requests : stamp'[q] <= clock'
    BY <1>0, <2>1
  <2>5. RecordKept'
    BY <1>0, <2>1 DEF RecordKept, Connected
  <2> QED BY <2>3, <2>4, <2>5 DEF KInv
<1>4. ASSUME NEW r \in Requests, RecordRequestConnectedAt(r)
      PROVE  KInv'
  <2> DEFINE record == [owner |-> r, success |-> TRUE, timestamp |-> stamp[r],
                        model |-> TRUE]
  <2>1. record \in Records /\ record.owner = r /\ stamp[r] <= record.timestamp
    BY <1>0 DEF Records
  <2>2. /\ AppendAndCleanup(record, [pending EXCEPT ![r] = Len(history) + 1])
        /\ UNCHANGED <<stamp, clock, lost, fate>> /\ pc' = [pc EXCEPT ![r] = "connected"]
    BY <1>4 DEF RecordRequestConnectedAt
  <2> QED BY <1>1, <2>1, <2>2
<1>5. ASSUME NEW r \in Requests, NEW outcome \in {"success", "failure"},
             RecordOutcome(r, outcome), UNCHANGED <<stamp, clock, lost>>,
             NEW stage \in {"settled", "ended"}, pc' = [pc EXCEPT ![r] = stage],
             fate' = [fate EXCEPT ![r] = outcome]
      PROVE  KInv'
  <2> DEFINE record == [owner |-> r, success |-> outcome = "success",
                        timestamp |-> clock, model |-> FALSE]
  <2>1. record \in Records /\ record.owner = r /\ stamp[r] <= record.timestamp
    BY <1>0 DEF Records
  <2>2. AppendAndCleanup(record, pending)
    BY <1>5 DEF RecordOutcome
  <2>3. \A q \in Requests : q # r => fate'[q] = fate[q]
    BY <1>0, <1>5
  <2> QED BY <1>1, <1>5, <2>1, <2>2, <2>3
<1>6. ASSUME NEW r \in Requests, NEW outcome \in {"success", "failure"},
             FinalizeOutcome(r, outcome)
      PROVE  KInv'
  <2>1. CASE HasRecord(r)
    <3>1. /\ history' = [history EXCEPT ![pending[r]].success = (outcome = "success")]
          /\ UNCHANGED <<stamp, clock, lost>>
          /\ pc[r] = "connected" /\ pc' = [pc EXCEPT ![r] = "settled"]
          /\ fate' = [fate EXCEPT ![r] = outcome]
      BY <1>6, <2>1 DEF FinalizeOutcome
    <3>2. pending[r] \in DOMAIN history
      BY <1>0, <2>1 DEF HasRecord
    <3>3. /\ DOMAIN history' = DOMAIN history
          /\ \A i \in DOMAIN history :
               history'[i].owner = history[i].owner
               /\ history'[i].timestamp = history[i].timestamp
      BY <1>0, <3>1, <3>2 DEF Records
    <3>4. Dated(history)'
      BY <1>0, <3>1, <3>3 DEF Dated
    <3>5. pc' \in [Requests -> Stages]
      BY <1>0, <3>1 DEF Stages
    <3>6. fate[r] # "cancelled"
      BY <3>1 DEF IInv, Sound, Fated, Unsettled
    <3>7. ASSUME NEW q \in Requests, pc'[q] \in Connected, fate'[q] # "cancelled"
          PROVE  /\ pc[q] \in Connected /\ fate[q] # "cancelled"
                 /\ (Recorded(history, q) => Recorded(history', q))
      <4>1. Recorded(history, q) => Recorded(history', q)
        BY <3>3 DEF Recorded
      <4>2. pc[q] \in Connected /\ fate[q] # "cancelled"
        BY <1>0, <3>1, <3>6, <3>7 DEF Connected
      <4> QED BY <4>1, <4>2
    <3> QED BY <3>1, <3>4, <3>5, <3>7, KeptBy
  <2>2. CASE ~HasRecord(r)
    BY <1>5, <1>6, <2>2 DEF FinalizeOutcome
  <2> QED BY <2>1, <2>2
<1>7. ASSUME NEW r \in Requests, NEW outcome \in {"success", "failure"},
             RecordUnconnected(r, outcome)
      PROVE  KInv'
  BY <1>5, <1>7 DEF RecordUnconnected
<1>8. ASSUME NEW r \in Requests, FinalizeClientCancel(r)
      PROVE  KInv'
  <2>1. /\ UNCHANGED <<stamp, clock, lost>>
        /\ pc[r] = "connected" /\ pc' = [pc EXCEPT ![r] = "settled"]
        /\ fate' = [fate EXCEPT ![r] = "cancelled"]
    BY <1>8 DEF FinalizeClientCancel
  <2>2. /\ pc' \in [Requests -> Stages] /\ fate'[r] = "cancelled"
        /\ \A q \in Requests : q # r => pc'[q] = pc[q] /\ fate'[q] = fate[q]
    BY <1>0, <2>1 DEF Stages
  <2>3. CASE HasRecord(r)
    <3> DEFINE idx == pending[r]
    <3>1. idx \in DOMAIN history /\ history[idx].owner = r /\ history' = Without(history, idx)
      BY <1>0, <1>8, <2>3 DEF HasRecord, FinalizeClientCancel, IInv, Sound, Homes
    <3> HIDE DEF idx
    <3>2. /\ DOMAIN history' = 1..(Len(history) - 1)
          /\ \A i \in 1..(Len(history) - 1) :
               history'[i] = IF i < idx THEN history[i] ELSE history[i + 1]
      BY <1>0, <3>1 DEF Without
    <3>3. Dated(history)'
      <4> SUFFICES ASSUME NEW i \in DOMAIN history'
                   PROVE  stamp'[history'[i].owner] <= history'[i].timestamp
        BY DEF Dated
      <4>1. i \in DOMAIN history /\ i + 1 \in DOMAIN history
        BY <1>0, <3>2
      <4> QED BY <1>0, <2>1, <3>2, <4>1 DEF Dated
    <3>4. ASSUME NEW q \in Requests, q # r, Recorded(history, q)
          PROVE  Recorded(history', q)
      <4>1. PICK i \in DOMAIN history : history[i].owner = q
        BY <3>4 DEF Recorded
      <4>2. i # idx
        BY <3>1, <3>4, <4>1
      <4>3. CASE i < idx
        <5>1. i \in 1..(Len(history) - 1) /\ history'[i] = history[i]
          BY <1>0, <3>1, <3>2, <4>1, <4>3
        <5> QED BY <3>2, <4>1, <5>1 DEF Recorded
      <4>4. CASE i > idx
        <5>1. i - 1 \in 1..(Len(history) - 1) /\ ~(i - 1 < idx) /\ (i - 1) + 1 = i
          BY <1>0, <3>1, <4>1, <4>4
        <5>2. history'[i - 1] = history[i]
          BY <3>2, <5>1
        <5> QED BY <3>2, <4>1, <5>1, <5>2 DEF Recorded
      <4> QED BY <1>0, <3>1, <4>1, <4>2, <4>3, <4>4
    <3>5. ASSUME NEW q \in Requests, pc'[q] \in Connected, fate'[q] # "cancelled"
          PROVE  /\ pc[q] \in Connected /\ fate[q] # "cancelled"
                 /\ (Recorded(history, q) => Recorded(history', q))
      BY <2>2, <3>4, <3>5
    <3> QED BY <2>1, <2>2, <3>3, <3>5, KeptBy
  <2>4. CASE ~HasRecord(r)
    <3>1. history' = history
      BY <1>8, <2>4 DEF FinalizeClientCancel
    <3>2. Dated(history)'
      BY <1>0, <2>1, <3>1 DEF Dated
    <3>3. ASSUME NEW q \in Requests, pc'[q] \in Connected, fate'[q] # "cancelled"
          PROVE  /\ pc[q] \in Connected /\ fate[q] # "cancelled"
                 /\ (Recorded(history, q) => Recorded(history', q))
      BY <2>2, <3>1, <3>3
    <3> QED BY <2>1, <2>2, <3>2, <3>3, KeptBy
  <2> QED BY <2>3, <2>4
<1>9. ASSUME NEW r \in Requests, RecordRequestEnd(r)
      PROVE  KInv'
  <2>1. /\ UNCHANGED <<history, stamp, clock, lost, fate>>
        /\ pc[r] \in Connected /\ \A q \in Requests : q # r => pc'[q] = pc[q]
    BY <1>0, <1>9 DEF RecordRequestEnd, Connected
  <2> QED BY <1>0, <2>1 DEF KInv, RecordKept, Dated, Connected
<1>10. ASSUME ResetKey \/ DeleteKey \/ CleanupStaleKey
       PROVE  KInv'
  <2>1. /\ history' = << >> /\ UNCHANGED <<stamp, clock, pc, fate>>
        /\ lost' = lost \cup {r \in Requests : pc[r] \in {"connected", "settled", "ended"}}
    BY <1>10 DEF ResetKey, DeleteKey, CleanupStaleKey, Emptied
  <2>2. Dated(history)'
    BY <2>1 DEF Dated
  <2> QED BY <1>0, <2>1, <2>2 DEF KInv, RecordKept
<1>11. ASSUME Tick
       PROVE  KInv'
  <2>1. UNCHANGED <<history, stamp, pc, fate, lost>> /\ clock' = clock + 1
    BY <1>11 DEF Tick
  <2>2. \A r \in Requests : /\ stamp[r] \in Nat
                            /\ stamp[r] <= clock'
                            /\ stamp[r] + Keep <= clock => stamp[r] + Keep <= clock'
    BY <1>0, <2>1
  <2> QED BY <1>0, <2>1, <2>2 DEF KInv, RecordKept, Dated
<1>12. ASSUME CopyReference \/ VisitRecord \/ ReturnStats \/ UNCHANGED vars
       PROVE  KInv'
  <2>1. UNCHANGED <<history, stamp, clock, pc, fate, lost>>
    BY <1>12 DEF CopyReference, VisitRecord, ReturnStats, vars
  <2> QED BY <1>0, <2>1 DEF KInv, RecordKept, Dated
<1> QED BY <1>2, <1>3, <1>4, <1>6, <1>7, <1>8, <1>9, <1>10, <1>11, <1>12 DEF Next, Attempt

(* A connected request leaves the history by age, cancellation or with its  *)
(* key only.                                                                *)
THEOREM RecordsKept == Spec => []RecordKept
<1>1. KInv => RecordKept
  BY DEF KInv
<1> QED BY <1>1, KInvInit, KInvNext, SoundInit, SoundNext, HistoryTypeCorrect, PTL DEF Spec

-----------------------------------------------------------------------------
(* Active requests *)

LEMMA GhostNext == TypeOK /\ NoGhostActivity /\ [Next]_vars => NoGhostActivity'
<1> SUFFICES ASSUME TypeOK, NoGhostActivity, [Next]_vars
             PROVE  NoGhostActivity'
  OBVIOUS
<1>0. /\ pc \in [Requests -> Stages] /\ active \in Nat
      /\ IsFiniteSet(Requests) /\ Running \subseteq Requests
  BY PendingHistoryAssumption DEF TypeOK, Stages, Running
<1>1. IsFiniteSet(Running) /\ Cardinality(Running) \in Nat
  BY <1>0, FS_Subset, FS_CardinalityType
<1>2. active <= Cardinality(Running)
  BY DEF NoGhostActivity
<1>3. ASSUME Running' = Running, active' = active \/ active' = 0
      PROVE  NoGhostActivity'
  BY <1>1, <1>2, <1>3 DEF NoGhostActivity
<1>4. ASSUME NEW r \in Requests, RecordRequestStart(r)
      PROVE  NoGhostActivity'
  <2>1. pc[r] = "idle" /\ pc' = [pc EXCEPT ![r] = "started"] /\ active' = active + 1
    BY <1>4 DEF RecordRequestStart
  <2>2. r \notin Running /\ Running' = Running \cup {r}
    BY <1>0, <2>1 DEF Running
  <2>3. Cardinality(Running') = Cardinality(Running) + 1
    BY <1>1, <2>2, FS_AddElement
  <2> QED BY <1>0, <1>1, <1>2, <2>1, <2>3 DEF NoGhostActivity
<1>5. ASSUME NEW r \in Requests, RecordRequestEnd(r)
      PROVE  NoGhostActivity'
  <2>1. pc[r] = "settled" /\ pc' = [pc EXCEPT ![r] = "ended"]
        /\ active' = IF active > 0 THEN active - 1 ELSE active
    BY <1>5 DEF RecordRequestEnd, OneLess
  <2>2. r \in Running /\ Running' = Running \ {r}
    BY <1>0, <2>1 DEF Running
  <2>3. Cardinality(Running') = Cardinality(Running) - 1 /\ Cardinality(Running') \in Nat
    BY <1>1, <2>2, FS_RemoveElement, FS_CardinalityType
  <2> QED BY <1>0, <1>1, <1>2, <2>1, <2>3 DEF NoGhostActivity
<1>6. ASSUME NEW r \in Requests, ReadClock(r) \/ RecordRequestConnectedAt(r)
      PROVE  NoGhostActivity'
  <2>1. /\ pc[r] \in {"started", "stamped"} /\ UNCHANGED active
        /\ \/ pc' = [pc EXCEPT ![r] = "stamped"]
           \/ pc' = [pc EXCEPT ![r] = "connected"]
    BY <1>6 DEF ReadClock, RecordRequestConnectedAt
  <2>2. Running' = Running
    BY <1>0, <2>1 DEF Running
  <2> QED BY <1>3, <2>1, <2>2
<1>7. ASSUME NEW r \in Requests, NEW outcome \in {"success", "failure"},
             FinalizeOutcome(r, outcome) \/ FinalizeClientCancel(r)
      PROVE  NoGhostActivity'
  <2>1. pc[r] = "connected" /\ pc' = [pc EXCEPT ![r] = "settled"] /\ UNCHANGED active
    BY <1>7 DEF FinalizeOutcome, FinalizeClientCancel
  <2>2. Running' = Running
    BY <1>0, <2>1 DEF Running
  <2> QED BY <1>3, <2>1, <2>2
<1>8. ASSUME NEW r \in Requests, NEW outcome \in {"success", "failure"},
             RecordUnconnected(r, outcome)
      PROVE  NoGhostActivity'
  <2>1. pc[r] = "idle" /\ pc' = [pc EXCEPT ![r] = "ended"] /\ UNCHANGED active
    BY <1>8 DEF RecordUnconnected
  <2>2. Running' = Running
    BY <1>0, <2>1 DEF Running
  <2> QED BY <1>3, <2>1, <2>2
<1>9. ASSUME ResetKey \/ DeleteKey \/ CleanupStaleKey
      PROVE  NoGhostActivity'
  <2>1. active' = 0 /\ UNCHANGED pc
    BY <1>9 DEF ResetKey, DeleteKey, CleanupStaleKey, Emptied
  <2> QED BY <1>3, <2>1 DEF Running
<1>10. ASSUME Tick \/ CopyReference \/ VisitRecord \/ ReturnStats \/ UNCHANGED vars
       PROVE  NoGhostActivity'
  <2>1. UNCHANGED <<active, pc>>
    BY <1>10 DEF Tick, CopyReference, VisitRecord, ReturnStats, vars
  <2> QED BY <1>3, <2>1 DEF Running
<1> QED BY <1>4, <1>5, <1>6, <1>7, <1>8, <1>9, <1>10 DEF Next, Attempt

(* ActiveRequests never exceeds the requests under way, so it is zero again *)
(* when they have ended.                                                    *)
THEOREM NoGhosts == Spec => []NoGhostActivity
<1>1. Init => NoGhostActivity
  <2> SUFFICES ASSUME Init
               PROVE  NoGhostActivity
    OBVIOUS
  <2>1. active = 0 /\ Running = {}
    BY DEF Init, Running
  <2>2. Cardinality({}) = 0
    BY FS_EmptySet
  <2> QED BY <2>1, <2>2 DEF NoGhostActivity
<1> QED BY <1>1, GhostNext, HistoryTypeCorrect, PTL DEF Spec
-----------------------------------------------------------------------------
(* The walk without the lock *)

(***************************************************************************)
(* What is known of a walk t through an array that a history h lives in,   *)
(* for attempts at the stages c.  Mirrored ties the array to the history   *)
(* as long as they share it.  Of one request at most one cell ever names   *)
(* the model (Single): it is written when the request connects, which it   *)
(* does once, and moved only by cancellations.  A request that was counted *)
(* is not met again (Ahead): its cell is behind the walk, and a cell that  *)
(* is written later with a model is that of a request which has connected  *)
(* only now and so cannot have been counted (Reached).                     *)
(***************************************************************************)
Reached(c, r) == c[r] \in {"connected", "settled", "ended"}

Mirrored(t, h) ==
  t.shared => \A p \in DOMAIN h :
                p + t.offset \in DOMAIN t.cells => t.cells[p + t.offset] = h[p]

Known(t, c) ==
  /\ \A v \in DOMAIN t.cells : t.cells[v].model => Reached(c, t.cells[v].owner)
  /\ \A k \in DOMAIN t.counted : Reached(c, t.counted[k])

Single(t) ==
  \A v, w \in DOMAIN t.cells :
    /\ t.cells[v].model /\ t.cells[w].model
    /\ t.cells[v].owner = t.cells[w].owner
    => v = w

Ahead(t) ==
  \A v \in DOMAIN t.cells : \A k \in DOMAIN t.counted :
    v >= t.next /\ t.cells[v].model => t.counted[k] # t.cells[v].owner

CountsOnce(t) ==
  \A i, j \in DOMAIN t.counted : t.counted[i] = t.counted[j] => i = j

Walk(t, h, c) ==
  /\ Mirrored(t, h)
  /\ Known(t, c)
  /\ Single(t)
  /\ Ahead(t)
  /\ CountsOnce(t)

Uncancelled == \A r \in Requests : fate[r] # "cancelled"

WalkInv == Uncancelled => Walk(traversal, history, pc)

(* Later stages of the attempts take nothing away.                          *)
LEMMA WalkStage ==
  ASSUME NEW t, NEW h, NEW c, NEW d, Walk(t, h, c),
         t \in Traversals,
         \A r \in Requests : Reached(c, r) => Reached(d, r)
  PROVE  Walk(t, h, d)
<1>1. /\ \A v \in DOMAIN t.cells : t.cells[v].owner \in Requests
      /\ \A k \in DOMAIN t.counted : t.counted[k] \in Requests
  <2>1. t.cells \in Seq(Records) /\ t.counted \in Seq(Requests)
    BY DEF Traversals
  <2> QED BY <2>1, OwnersAreRequests
<1>2. Known(t, d)
  BY <1>1 DEF Walk, Known
<1> QED BY <1>2 DEF Walk

(* An array that is no longer shared needs no history.                      *)
LEMMA WalkDetached ==
  ASSUME NEW h, NEW g, NEW c, Walk(traversal, h, c), traversal \in Traversals
  PROVE  Walk(Detached, g, c)
<1>1. /\ Detached.cells = traversal.cells /\ Detached.next = traversal.next
      /\ Detached.counted = traversal.counted /\ Detached.shared = FALSE
  BY DEF Detached, Traversals
<1> HIDE DEF Detached
<1> QED BY <1>1 DEF Walk, Mirrored, Known, Single, Ahead, CountsOnce

(* What Overwritten does to the cells when one position k is written.       *)
LEMMA OverwrittenCells ==
  ASSUME NEW h \in Seq(Records), NEW k \in DOMAIN h, traversal \in Traversals
  PROVE  LET u == Overwritten(h, {k})
         IN  /\ u \in Traversals
             /\ u.offset = traversal.offset /\ u.shared = traversal.shared
             /\ u.next = traversal.next /\ u.counted = traversal.counted
             /\ DOMAIN u.cells = DOMAIN traversal.cells
             /\ \A v \in DOMAIN traversal.cells :
                  u.cells[v] = IF traversal.shared /\ v = k + traversal.offset
                               THEN h[k] ELSE traversal.cells[v]
<1> DEFINE u == Overwritten(h, {k})
           cell(v) == IF /\ traversal.shared /\ v > traversal.offset
                         /\ v - traversal.offset \in {k}
                      THEN h[v - traversal.offset]
                      ELSE traversal.cells[v]
           seen == [v \in DOMAIN traversal.cells |-> cell(v)]
<1>1. u \in Traversals
  BY OverwrittenType
<1>2. u = [traversal EXCEPT !.cells = seen]
  BY DEF Overwritten
<1>3. \A v \in DOMAIN traversal.cells :
        cell(v) = IF traversal.shared /\ v = k + traversal.offset
                  THEN h[k] ELSE traversal.cells[v]
  <2>1. /\ traversal.offset \in Nat /\ k \in Nat \ {0}
        /\ \A v \in DOMAIN traversal.cells : v \in Nat
    <3>1. traversal.offset \in Nat /\ traversal.cells \in Seq(Records)
      BY DEF Traversals
    <3> QED BY <3>1
  <2>2. ASSUME NEW v \in DOMAIN traversal.cells
        PROVE  /\ v > traversal.offset /\ v - traversal.offset \in {k}
                  <=> v = k + traversal.offset
               /\ v = k + traversal.offset => v - traversal.offset = k
    BY <2>1
  <2> QED BY <2>2
<1> HIDE DEF cell, u
<1>4. /\ u.offset = traversal.offset /\ u.shared = traversal.shared
      /\ u.next = traversal.next /\ u.counted = traversal.counted
      /\ u.cells = seen
  BY <1>2 DEF Traversals
<1> QED BY <1>1, <1>3, <1>4 DEF u

(* One record is written into the history: in place over that of the same   *)
(* request, or as a new one, without a model or of a request that connects. *)
LEMMA WalkWritten ==
  ASSUME NEW h \in Seq(Records), NEW k \in DOMAIN h, NEW c, NEW d,
         traversal \in Traversals, history \in Seq(Records),
         Walk(traversal, history, c),
         DOMAIN h \subseteq DOMAIN history \cup {k},
         \A p \in DOMAIN h : p # k => h[p] = history[p],
         \A r \in Requests : Reached(c, r) => Reached(d, r),
         h[k].model => Reached(d, h[k].owner),
         \/ k \in DOMAIN history /\ h[k].owner = history[k].owner
            /\ h[k].model = history[k].model
         \/ ~h[k].model
         \/ ~Reached(c, h[k].owner)
  PROVE  Walk(Overwritten(h, {k}), h, d)
<1> DEFINE u == Overwritten(h, {k})
           at == k + traversal.offset
<1>1. /\ u \in Traversals
      /\ u.offset = traversal.offset /\ u.shared = traversal.shared
      /\ u.next = traversal.next /\ u.counted = traversal.counted
      /\ DOMAIN u.cells = DOMAIN traversal.cells
      /\ \A v \in DOMAIN traversal.cells :
           u.cells[v] = IF traversal.shared /\ v = at THEN h[k] ELSE traversal.cells[v]
  BY OverwrittenCells
<1>2. Walk(traversal, history, d)
  BY WalkStage
<1>3. /\ traversal.offset \in Nat
      /\ \A p \in DOMAIN h : p \in Nat
      /\ \A v \in DOMAIN traversal.cells : traversal.cells[v].owner \in Requests
      /\ \A i \in DOMAIN traversal.counted : traversal.counted[i] \in Requests
  <2>1. /\ traversal.offset \in Nat /\ traversal.cells \in Seq(Records)
        /\ traversal.counted \in Seq(Requests)
    BY DEF Traversals
  <2> QED BY <2>1, OwnersAreRequests
<1> HIDE DEF u
<1>4. Mirrored(u, h)
  <2> SUFFICES ASSUME traversal.shared, NEW p \in DOMAIN h,
                      p + traversal.offset \in DOMAIN traversal.cells
               PROVE  u.cells[p + traversal.offset] = h[p]
    BY <1>1 DEF Mirrored
  <2>1. CASE p = k
    BY <1>1, <2>1
  <2>2. CASE p # k
    <3>1. p + traversal.offset # at
      <4>1. p \in Nat /\ k \in Nat
        BY <1>3
      <4> QED BY <1>3, <2>2, <4>1
    <3>2. p \in DOMAIN history /\ h[p] = history[p]
      BY <2>2
    <3> HIDE DEF at
    <3>3. traversal.cells[p + traversal.offset] = history[p]
      BY <3>2 DEF Walk, Mirrored
    <3> QED BY <1>1, <3>1, <3>2, <3>3
  <2> QED BY <2>1, <2>2
<1>5. Known(u, d)
  BY <1>1, <1>2 DEF Walk, Known
<1>6. \A v \in DOMAIN traversal.cells :
        u.cells[v].model =>
          \/ /\ traversal.cells[v].model
             /\ u.cells[v].owner = traversal.cells[v].owner
          \/ /\ v = at /\ u.cells[v] = h[k] /\ ~Reached(c, u.cells[v].owner)
  <2> SUFFICES ASSUME NEW v \in DOMAIN traversal.cells, u.cells[v].model
               PROVE  \/ /\ traversal.cells[v].model
                         /\ u.cells[v].owner = traversal.cells[v].owner
                      \/ /\ v = at /\ u.cells[v] = h[k] /\ ~Reached(c, u.cells[v].owner)
    OBVIOUS
  <2>1. CASE ~(traversal.shared /\ v = at)
    BY <1>1, <2>1
  <2>2. CASE traversal.shared /\ v = at
    <3>1. u.cells[v] = h[k]
      BY <1>1, <2>2
    <3>2. CASE k \in DOMAIN history /\ h[k].owner = history[k].owner
               /\ h[k].model = history[k].model
      <4>1. traversal.cells[at] = history[k]
        BY <2>2, <3>2 DEF Walk, Mirrored
      <4> QED BY <2>2, <3>1, <3>2, <4>1
    <3>3. CASE ~Reached(c, h[k].owner)
      BY <2>2, <3>1, <3>3
    <3> QED BY <3>1, <3>2, <3>3
  <2> QED BY <2>1, <2>2
<1> HIDE DEF at
<1>7. \A v \in DOMAIN traversal.cells :
        traversal.cells[v].model => Reached(c, traversal.cells[v].owner)
  BY DEF Walk, Known
<1>8. Single(u)
  <2> SUFFICES ASSUME NEW v \in DOMAIN traversal.cells, NEW w \in DOMAIN traversal.cells,
                      u.cells[v].model, u.cells[w].model,
                      u.cells[v].owner = u.cells[w].owner
               PROVE  v = w
    BY <1>1 DEF Single
  <2>1. CASE v = at /\ ~Reached(c, u.cells[v].owner)
    BY <1>6, <1>7, <2>1
  <2>2. CASE w = at /\ ~Reached(c, u.cells[w].owner)
    BY <1>6, <1>7, <2>2
  <2>3. CASE /\ traversal.cells[v].model /\ u.cells[v].owner = traversal.cells[v].owner
             /\ traversal.cells[w].model /\ u.cells[w].owner = traversal.cells[w].owner
    BY <2>3 DEF Walk, Single
  <2> QED BY <1>6, <2>1, <2>2, <2>3
<1>9. Ahead(u)
  <2> SUFFICES ASSUME NEW v \in DOMAIN traversal.cells, NEW i \in DOMAIN traversal.counted,
                      v >= traversal.next, u.cells[v].model
               PROVE  traversal.counted[i] # u.cells[v].owner
    BY <1>1 DEF Ahead
  <2>1. Reached(c, traversal.counted[i])
    BY DEF Walk, Known
  <2>2. CASE ~Reached(c, u.cells[v].owner)
    BY <2>1, <2>2
  <2>3. CASE traversal.cells[v].model /\ u.cells[v].owner = traversal.cells[v].owner
    BY <2>3 DEF Walk, Ahead
  <2> QED BY <1>6, <2>2, <2>3
<1>10. CountsOnce(u)
  BY <1>1 DEF Walk, CountsOnce
<1> QED BY <1>4, <1>5, <1>8, <1>9, <1>10 DEF Walk, u

(* A record is appended, and the front cut off.                             *)
LEMMA WalkAppended ==
  ASSUME TypeOK, NEW record \in Records, NEW p \in [Requests -> Nat],
         AppendAndCleanup(record, p), NEW d,
         Walk(traversal, history, pc),
         \A r \in Requests : Reached(pc, r) => Reached(d, r),
         record.model => Reached(d, record.owner) /\ ~Reached(pc, record.owner)
  PROVE  Walk(traversal', history', d)
<1> DEFINE longer == Append(history, record)
           n      == Expired(longer)
           shown  == Overwritten(longer, {Len(longer)})
           moved  == IF n < Len(longer) THEN [shown EXCEPT !.offset = @ + n] ELSE shown
<1>1. /\ history \in Seq(Records) /\ traversal \in Traversals
  BY DEF TypeOK, Traversals
<1>2. /\ longer \in Seq(Records) /\ Len(longer) \in DOMAIN longer /\ Len(longer) \in Nat
      /\ longer[Len(longer)] = record
      /\ DOMAIN longer \subseteq DOMAIN history \cup {Len(longer)}
      /\ \A q \in DOMAIN longer : q # Len(longer) => longer[q] = history[q]
  BY <1>1
<1>3. n \in 0..Len(longer)
  BY <1>2, ExpiredBounded
<1>4. /\ history' = SubSeq(longer, n + 1, Len(longer))
      /\ traversal' \in {moved, Detached}
  BY DEF AppendAndCleanup
<1> HIDE DEF longer, n
<1>5. Walk(shown, longer, d)
  <2> DEFINE k == Len(longer)
  <2>1. k \in DOMAIN longer /\ longer[k] = record
        /\ DOMAIN longer \subseteq DOMAIN history \cup {k}
        /\ \A q \in DOMAIN longer : q # k => longer[q] = history[q]
    BY <1>2
  <2> HIDE DEF k
  <2>2. Walk(Overwritten(longer, {k}), longer, d)
    BY <1>1, <1>2, <2>1, WalkWritten
  <2> QED BY <2>2 DEF k
<1>6. shown \in Traversals
  BY <1>1, <1>2, OverwrittenCells
<1> HIDE DEF shown
<1>7. /\ history' \in Seq(Records) /\ DOMAIN history' = 1..(Len(longer) - n)
      /\ \A i \in 1..(Len(longer) - n) : history'[i] = longer[i + n] /\ i + n \in DOMAIN longer
  BY <1>2, <1>3, <1>4, CutFacts
<1>8. CASE traversal' = moved
  <2>1. /\ moved.cells = shown.cells /\ moved.next = shown.next
        /\ moved.counted = shown.counted /\ moved.shared = shown.shared
        /\ n < Len(longer) => moved.offset = shown.offset + n
    BY <1>6 DEF Traversals
  <2> HIDE DEF moved
  <2>2. Mirrored(moved, history')
    <3> SUFFICES ASSUME shown.shared, NEW q \in DOMAIN history',
                        q + moved.offset \in DOMAIN shown.cells
                 PROVE  shown.cells[q + moved.offset] = history'[q]
      BY <2>1 DEF Mirrored
    <3>1. q \in Nat /\ n \in Nat /\ shown.offset \in Nat /\ n < Len(longer)
      BY <1>2, <1>3, <1>6, <1>7 DEF Traversals
    <3>2. q + moved.offset = (q + n) + shown.offset
      BY <2>1, <3>1
    <3>3. history'[q] = longer[q + n] /\ q + n \in DOMAIN longer
      BY <1>7
    <3> QED BY <1>5, <3>2, <3>3 DEF Walk, Mirrored
  <2>3. Known(moved, d) /\ Single(moved) /\ Ahead(moved) /\ CountsOnce(moved)
    BY <1>5, <2>1 DEF Walk, Known, Single, Ahead, CountsOnce
  <2> QED BY <1>8, <2>2, <2>3 DEF Walk
<1>9. CASE traversal' = Detached
  <2>1. Walk(Detached, history', pc)
    BY <1>1, WalkDetached
  <2>2. Detached \in Traversals
    BY <1>1 DEF Detached, Traversals
  <2> QED BY <1>9, <2>1, <2>2, WalkStage
<1> QED BY <1>4, <1>8, <1>9

(* The outcome of a request as a new record, which names no model.          *)
LEMMA WalkOutcome ==
  ASSUME TypeOK, NEW r \in Requests, NEW outcome \in {"success", "failure"},
         RecordOutcome(r, outcome), NEW d,
         Walk(traversal, history, pc),
         \A q \in Requests : Reached(pc, q) => Reached(d, q)
  PROVE  Walk(traversal', history', d)
<1> DEFINE record == [owner |-> r, success |-> outcome = "success",
                      timestamp |-> clock, model |-> FALSE]
<1>1. record \in Records /\ ~record.model
  BY DEF Records, TypeOK
<1>2. AppendAndCleanup(record, pending) /\ pending \in [Requests -> Nat]
  BY DEF RecordOutcome, TypeOK
<1> HIDE DEF record
<1> QED BY <1>1, <1>2, WalkAppended

LEMMA WalkNext == TypeOK /\ IInv /\ WalkInv /\ [Next]_vars => WalkInv'
<1> SUFFICES ASSUME TypeOK, IInv, WalkInv, [Next]_vars, Uncancelled'
             PROVE  Walk(traversal, history, pc)'
  BY DEF WalkInv
<1>0. /\ history \in Seq(Records) /\ pc \in [Requests -> Stages]
      /\ traversal \in Traversals /\ pending \in [Requests -> Nat]
      /\ fate \in [Requests -> Fates \cup {"none"}]
      /\ Owned(history, pending, pc) /\ Once(history) /\ Fated(pc, fate)
  BY DEF IInv, Sound, Typed, TypeOK, Traversals
<1>1. Uncancelled
  <2> SUFFICES ASSUME NEW q \in Requests
               PROVE  fate[q] = fate'[q] \/ fate[q] = "none"
    BY DEF Uncancelled
  <2>1. \/ fate' = fate
        \/ \E r \in Requests, e \in Fates :
              pc[r] \in {"idle", "connected"} /\ fate' = [fate EXCEPT ![r] = e]
    BY DEF Next, Attempt, vars, RecordRequestStart, ReadClock, RecordRequestConnectedAt,
           FinalizeOutcome, RecordUnconnected, FinalizeClientCancel, RecordRequestEnd,
           ResetKey, DeleteKey, CleanupStaleKey, Emptied, Tick, CopyReference,
           VisitRecord, ReturnStats, Fates
  <2> QED BY <1>0, <2>1 DEF Fated, Unsettled
<1>2. Walk(traversal, history, pc)
  BY <1>1 DEF WalkInv
<1>3. ASSUME UNCHANGED <<traversal, history>>,
             \A q \in Requests : Reached(pc, q) => Reached(pc', q)
      PROVE  Walk(traversal, history, pc)'
  BY <1>0, <1>2, <1>3, WalkStage
<1>4. ASSUME NEW r \in Requests, RecordRequestStart(r) \/ ReadClock(r)
      PROVE  Walk(traversal, history, pc)'
  <2>1. /\ UNCHANGED <<traversal, history>>
        /\ pc[r] \in {"idle", "started"}
        /\ \/ pc' = [pc EXCEPT ![r] = "started"]
           \/ pc' = [pc EXCEPT ![r] = "stamped"]
    BY <1>4 DEF RecordRequestStart, ReadClock
  <2>2. \A q \in Requests : Reached(pc, q) => Reached(pc', q)
    BY <1>0, <2>1 DEF Reached
  <2> QED BY <1>3, <2>1, <2>2
<1>5. ASSUME NEW r \in Requests, RecordRequestConnectedAt(r)
      PROVE  Walk(traversal, history, pc)'
  <2> DEFINE record == [owner |-> r, success |-> TRUE, timestamp |-> stamp[r],
                        model |-> TRUE]
             p == [pending EXCEPT ![r] = Len(history) + 1]
  <2>1. /\ pc[r] = "stamped" /\ pc' = [pc EXCEPT ![r] = "connected"]
        /\ AppendAndCleanup(record, p)
    BY <1>5 DEF RecordRequestConnectedAt
  <2>2. record \in Records /\ record.owner = r /\ p \in [Requests -> Nat]
    BY <1>0 DEF Records, TypeOK
  <2>3. ~Reached(pc, r) /\ Reached(pc', r)
        /\ \A q \in Requests : Reached(pc, q) => Reached(pc', q)
    BY <1>0, <2>1 DEF Reached
  <2> HIDE DEF record, p
  <2> QED BY <1>2, <2>1, <2>2, <2>3, WalkAppended
<1>6. ASSUME NEW r \in Requests, NEW outcome \in {"success", "failure"},
             FinalizeOutcome(r, outcome)
      PROVE  Walk(traversal, history, pc)'
  <2>1. pc[r] = "connected" /\ pc' = [pc EXCEPT ![r] = "settled"]
    BY <1>6 DEF FinalizeOutcome
  <2>2. \A q \in Requests : Reached(pc, q) => Reached(pc', q)
    BY <1>0, <2>1 DEF Reached
  <2>3. CASE HasRecord(r)
    <3> DEFINE k == pending[r]
               b == (outcome = "success")
    <3>1. /\ history' = [history EXCEPT ![k].success = b]
          /\ traversal' = Overwritten(history', {k})
      BY <1>6, <2>3 DEF FinalizeOutcome
    <3>2. k \in DOMAIN history /\ b \in BOOLEAN
      BY <1>0, <2>3 DEF HasRecord
    <3> HIDE DEF k, b
    <3>3. history' \in Seq(Records) /\ DOMAIN history' = DOMAIN history
      BY <1>0, <3>1, <3>2, InPlaceType
    <3>4. /\ \A q \in DOMAIN history : q # k => history'[q] = history[q]
          /\ history'[k] = [history[k] EXCEPT !.success = b]
      BY <1>0, <3>1, <3>2
    <3>5. history[k] \in Records
      BY <1>0, <3>2
    <3>6. history'[k].owner = history[k].owner /\ history'[k].model = history[k].model
      BY <3>4, <3>5 DEF Records
    <3>7. Reached(pc', history'[k].owner)
      <4>1. Reached(pc, history[k].owner) /\ history[k].owner \in Requests
        BY <1>0, <3>2, OwnersAreRequests DEF Owned, Reached
      <4> QED BY <2>2, <3>6, <4>1
    <3>8. PICK h : h = history'
      OBVIOUS
    <3>9. PICK d : d = pc'
      OBVIOUS
    <3>10. Walk(Overwritten(h, {k}), h, d)
      BY <1>0, <1>2, <2>2, <3>2, <3>3, <3>4, <3>6, <3>7, <3>8, <3>9, WalkWritten
    <3> QED BY <3>1, <3>8, <3>9, <3>10
  <2>4. CASE ~HasRecord(r)
    <3>1. RecordOutcome(r, outcome)
      BY <1>6, <2>4 DEF FinalizeOutcome
    <3> QED BY <1>2, <2>2, <3>1, WalkOutcome
  <2> QED BY <2>3, <2>4
<1>7. ASSUME NEW r \in Requests, NEW outcome \in {"success", "failure"},
             RecordUnconnected(r, outcome)
      PROVE  Walk(traversal, history, pc)'
  <2>1. pc[r] = "idle" /\ pc' = [pc EXCEPT ![r] = "ended"] /\ RecordOutcome(r, outcome)
    BY <1>7 DEF RecordUnconnected
  <2>2. \A q \in Requests : Reached(pc, q) => Reached(pc', q)
    BY <1>0, <2>1 DEF Reached
  <2> QED BY <1>2, <2>1, <2>2, WalkOutcome
<1>8. ASSUME NEW r \in Requests, FinalizeClientCancel(r)
      PROVE  Walk(traversal, history, pc)'
  <2>1. fate' = [fate EXCEPT ![r] = "cancelled"]
    BY <1>8 DEF FinalizeClientCancel
  <2>2. fate'[r] = "cancelled"
    BY <1>0, <2>1
  <2> QED BY <2>2 DEF Uncancelled
<1>9. ASSUME NEW r \in Requests, RecordRequestEnd(r)
      PROVE  Walk(traversal, history, pc)'
  <2>1. /\ UNCHANGED <<traversal, history>>
        /\ pc[r] = "settled" /\ pc' = [pc EXCEPT ![r] = "ended"]
    BY <1>9 DEF RecordRequestEnd
  <2>2. \A q \in Requests : Reached(pc, q) => Reached(pc', q)
    BY <1>0, <2>1 DEF Reached
  <2> QED BY <1>3, <2>1, <2>2
<1>10. ASSUME ResetKey \/ DeleteKey \/ CleanupStaleKey
       PROVE  Walk(traversal, history, pc)'
  <2>1. traversal' = Detached /\ pc' = pc
    BY <1>10 DEF ResetKey, DeleteKey, CleanupStaleKey, Emptied
  <2>2. Walk(Detached, history', pc)
    BY <1>0, <1>2, WalkDetached
  <2> QED BY <2>1, <2>2
<1>11. ASSUME Tick \/ UNCHANGED vars
       PROVE  Walk(traversal, history, pc)'
  <2>1. UNCHANGED <<traversal, history, pc>>
    BY <1>11 DEF Tick, vars
  <2> QED BY <1>3, <2>1
<1>12. ASSUME CopyReference
       PROVE  Walk(traversal, history, pc)'
  <2>1. /\ traversal'.cells = history /\ traversal'.offset = 0
        /\ traversal'.counted = << >> /\ history' = history /\ pc' = pc
    BY <1>12 DEF CopyReference, NoTraversal
  <2>2. Mirrored(traversal', history')
    <3>1. \A q \in DOMAIN history : q + 0 = q
      BY <1>0
    <3> QED BY <2>1, <3>1 DEF Mirrored
  <2>3. Known(traversal', pc') /\ Single(traversal')
    BY <1>0, <2>1 DEF Known, Single, Owned, Once, Reached
  <2>4. Ahead(traversal') /\ CountsOnce(traversal')
    BY <2>1 DEF Ahead, CountsOnce
  <2> QED BY <2>2, <2>3, <2>4 DEF Walk
<1>13. ASSUME VisitRecord
       PROVE  Walk(traversal, history, pc)'
  <2> DEFINE v == traversal.next
             cells == traversal.cells
             counted == traversal.counted
  <2>1. /\ cells \in Seq(Records) /\ counted \in Seq(Requests) /\ v \in Nat \ {0}
      BY <1>0 DEF Traversals
  <2>2. v \in DOMAIN cells
    BY <1>13, <2>1 DEF VisitRecord
  <2>3. /\ traversal'.cells = cells /\ traversal'.offset = traversal.offset
        /\ traversal'.shared = traversal.shared /\ traversal'.next = v + 1
        /\ traversal'.counted = IF cells[v].model THEN Append(counted, cells[v].owner)
                                                  ELSE counted
        /\ UNCHANGED <<history, pc>>
    BY <1>0, <1>13 DEF VisitRecord, Traversals
  <2>4. /\ Mirrored(traversal, history) /\ Known(traversal, pc) /\ Single(traversal)
        /\ Ahead(traversal) /\ CountsOnce(traversal)
    BY <1>2 DEF Walk
  <2>5. cells[v].owner \in Requests
    BY <2>1, <2>2, OwnersAreRequests
  <2>6. /\ \A w \in DOMAIN cells : w \in Nat
        /\ \A w \in DOMAIN cells : w >= v + 1 => w >= v /\ w # v
    BY <2>1
  <2>7. Mirrored(traversal', history') /\ Single(traversal')
    BY <2>3, <2>4 DEF Mirrored, Single
  <2>8. CASE ~cells[v].model
    <3>1. traversal'.counted = counted
      BY <2>3, <2>8
    <3>2. Known(traversal', pc') /\ CountsOnce(traversal')
      BY <2>3, <2>4, <3>1 DEF Known, CountsOnce
    <3>3. Ahead(traversal')
      BY <2>3, <2>4, <2>6, <3>1 DEF Ahead
    <3> QED BY <2>7, <3>2, <3>3 DEF Walk
  <2>9. CASE cells[v].model
    <3>1. traversal'.counted = Append(counted, cells[v].owner)
      BY <2>3, <2>9
    <3> DEFINE more == Append(counted, cells[v].owner)
    <3>2. /\ DOMAIN more = DOMAIN counted \cup {Len(counted) + 1}
          /\ Len(counted) + 1 \notin DOMAIN counted
          /\ more[Len(counted) + 1] = cells[v].owner
          /\ \A i \in DOMAIN counted : more[i] = counted[i]
      BY <2>1, <2>5
    <3> HIDE DEF more
    <3>3. \A i \in DOMAIN counted : counted[i] # cells[v].owner
      <4>1. v >= v
        BY <2>1
      <4> QED BY <2>2, <2>4, <2>9, <4>1 DEF Ahead
    <3>4. traversal'.counted = more
      BY <3>1 DEF more
    <3>5. CountsOnce(traversal')
      <4> SUFFICES ASSUME NEW i \in DOMAIN more, NEW j \in DOMAIN more, more[i] = more[j]
                   PROVE  i = j
        BY <3>4 DEF CountsOnce
      <4> QED BY <2>4, <3>2, <3>3 DEF CountsOnce
    <3>6. Known(traversal', pc')
      BY <2>2, <2>3, <2>4, <2>9, <3>2, <3>4 DEF Known
    <3>7. Ahead(traversal')
      <4> SUFFICES ASSUME NEW w \in DOMAIN cells, NEW i \in DOMAIN more,
                          w >= v + 1, cells[w].model
                   PROVE  more[i] # cells[w].owner
        BY <2>3, <3>4 DEF Ahead
      <4>1. w >= v /\ w # v
        BY <2>6
      <4>2. cells[w].owner # cells[v].owner
        BY <2>2, <2>4, <2>9, <4>1 DEF Single
      <4>3. \A k \in DOMAIN counted : counted[k] # cells[w].owner
        BY <2>4, <4>1 DEF Ahead
      <4> QED BY <3>2, <4>2, <4>3
    <3> QED BY <2>7, <3>5, <3>6, <3>7 DEF Walk
  <2> QED BY <2>8, <2>9
<1>14. ASSUME ReturnStats
       PROVE  Walk(traversal, history, pc)'
  <2>1. /\ traversal'.cells = << >> /\ traversal'.counted = << >>
        /\ traversal'.shared = FALSE
    BY <1>14 DEF ReturnStats, NoTraversal
  <2> QED BY <2>1 DEF Walk, Mirrored, Known, Single, Ahead, CountsOnce
<1> QED BY <1>4, <1>5, <1>6, <1>7, <1>8, <1>9, <1>10, <1>11, <1>12, <1>13, <1>14
        DEF Next, Attempt

(* As long as nobody cancels, the walk through the shared array counts no   *)
(* request twice, whatever is appended, written in place or cut off while   *)
(* it is under way.                                                         *)
THEOREM WalksCountOnce == Spec => []CountedOnceUncancelled
<1>1. Init => WalkInv
  <2> SUFFICES ASSUME Init
               PROVE  Walk(traversal, history, pc)
    BY DEF WalkInv
  <2>1. /\ traversal.cells = << >> /\ traversal.counted = << >>
        /\ traversal.shared = FALSE
    BY DEF Init, NoTraversal
  <2> QED BY <2>1 DEF Walk, Mirrored, Known, Single, Ahead, CountsOnce
<1>2. WalkInv => CountedOnceUncancelled
  BY DEF WalkInv, Uncancelled, Walk, CountsOnce, CountedOnceUncancelled, CountedOnce
<1> QED BY <1>1, <1>2, WalkNext, SoundInit, SoundNext, HistoryTypeCorrect, PTL DEF Spec
=============================================================================
