---------------------------- MODULE RelayProofs ----------------------------
(***************************************************************************)
(* Proofs about the relays of streamed answers, for any capacity of the    *)
(* channels, any number of chunks and lines and any upstream: what passes  *)
(* through a relay arrives whole, and what Messages, Chat and Gemini clients *)
(* see is a stream of their API.                                           *)
(***************************************************************************)
EXTENDS StreamRelay, ChunkRelay, ResponsesRelay, SequenceTheorems,
        FiniteSetTheorems, WellFoundedInduction, TLAPS

-----------------------------------------------------------------------------
(* Functions defined from one number to the next *)

(* Every set of natural numbers that is not empty has a least element.      *)
LEMMA LeastNumber ==
  ASSUME NEW S \in SUBSET Nat, S # {}
  PROVE  \E n \in S : \A m \in S : n <= m
  <1> DEFINE R == {ss \in Nat \X Nat : ss[1] < ss[2]}
  <1>1. IsWellFoundedOn(R, Nat)
    BY NatLessThanWellFounded DEF OpToRel
  <1>2. \A n, m \in Nat : m < n => <<m, n>> \in R
    OBVIOUS
  <1> HIDE DEF R
  <1>3. PICK n \in S : \A m \in S : ~(<<m, n>> \in R)
    BY <1>1, WFMin
  <1>4. ASSUME NEW m \in S PROVE n <= m
    <2>1. ~(<<m, n>> \in R) /\ n \in Nat /\ m \in Nat
      BY <1>3
    <2>2. ~(m < n)
      BY <1>2, <2>1
    <2> QED
      BY <2>1, <2>2
  <1> QED
    BY <1>4

(* What holds of 0, and of a number when it holds of the one before, holds  *)
(* of all numbers up to N.                                                  *)
LEMMA InductionTo ==
  ASSUME NEW N \in Nat, NEW S, 0 \in S, \A n \in 1..N : n - 1 \in S => n \in S
  PROVE  \A n \in 0..N : n \in S
  <1> DEFINE Out == (0..N) \ S
  <1>1. SUFFICES ASSUME Out # {} PROVE FALSE
    OBVIOUS
  <1>2. PICK n \in Out : \A m \in Out : n <= m
    <2>1. Out \in SUBSET Nat
      OBVIOUS
    <2> HIDE DEF Out
    <2> QED
      BY <1>1, <2>1, LeastNumber
  <1>3. n \in 1..N /\ n - 1 \in 0..N /\ ~(n <= n - 1)
    BY <1>2
  <1>4. n - 1 \notin Out
    BY <1>2, <1>3
  <1> QED
    BY <1>2, <1>3, <1>4

(* f starts with base and goes from each number to the next by a step.      *)
Unfolds(f, N, base, step) == f[0] = base /\ \A n \in 1..N : f[n] = step[n][f[n - 1]]

(* A step from each number to the next makes a function.                    *)
LEMMA StepsMakeFunction ==
  ASSUME NEW N \in Nat, NEW S, NEW base \in S, NEW step \in [1..N -> [S -> S]]
  PROVE  \E f \in [0..N -> S] : Unfolds(f, N, base, step)
  <1> DEFINE Made == {k \in 0..N : \E f \in [0..k -> S] : Unfolds(f, k, base, step)}
  <1>1. 0 \in Made
    <2> DEFINE z == [n \in 0..0 |-> base]
    <2>1. z \in [0..0 -> S] /\ z[0] = base
      OBVIOUS
    <2> HIDE DEF z
    <2>2. \A n \in 1..0 : FALSE
      OBVIOUS
    <2> QED
      BY <2>1, <2>2 DEF Unfolds
  <1>2. ASSUME NEW k \in 1..N, k - 1 \in Made PROVE k \in Made
    <2>1. PICK f \in [0..(k - 1) -> S] : Unfolds(f, k - 1, base, step)
      BY <1>2
    <2> DEFINE g == [n \in 0..k |-> IF n = k THEN step[k][f[k - 1]] ELSE f[n]]
    <2>2. f[k - 1] \in S /\ step[k][f[k - 1]] \in S
      BY <2>1
    <2>3. g \in [0..k -> S]
      BY <2>1, <2>2
    <2>4. g[0] = base /\ \A n \in 1..k : g[n] = step[n][g[n - 1]]
      BY <2>1 DEF Unfolds
    <2> HIDE DEF g
    <2> QED
      BY <2>3, <2>4 DEF Unfolds
  <1> HIDE DEF Made
  <1>3. N \in Made
    <2>1. \A k \in 0..N : k \in Made
      BY <1>1, <1>2, InductionTo
    <2> QED
      BY <2>1
  <1> QED
    BY <1>3 DEF Made

(* FlattenSeq, one part after the other.                                    *)
LEMMA FlattenUnfolds ==
  ASSUME NEW S, NEW parts \in Seq(Seq(S))
  PROVE  \E f \in [0..Len(parts) -> Seq(S)] :
           /\ f[0] = << >> /\ FlattenSeq(parts) = f[Len(parts)]
           /\ \A n \in 1..Len(parts) : f[n] = f[n - 1] \o parts[n]
  <1> DEFINE N == Len(parts)
             step == [n \in 1..N |-> [s \in Seq(S) |-> s \o parts[n]]]
  <1>1. N \in Nat /\ \A n \in 1..N : parts[n] \in Seq(S)
    OBVIOUS
  <1>2. step \in [1..N -> [Seq(S) -> Seq(S)]]
    BY <1>1, ConcatProperties
  <1>3. \A n \in 1..N, s \in Seq(S) : step[n][s] = s \o parts[n]
    OBVIOUS
  <1> HIDE DEF step
  <1>4. << >> \in Seq(S)
    OBVIOUS
  <1> HIDE DEF N
  <1>9. N \in Nat
    BY <1>1
  <1>5. PICK f \in [0..N -> Seq(S)] : f[0] = << >> /\ \A n \in 1..N : f[n] = step[n][f[n - 1]]
    <2>1. \E f \in [0..N -> Seq(S)] : Unfolds(f, N, << >>, step)
      BY <1>2, <1>4, <1>9, StepsMakeFunction
    <2> QED
      BY <2>1 DEF Unfolds
  <1>6. \A n \in 1..N : n - 1 \in 0..N /\ f[n - 1] \in Seq(S) /\ f[n] = f[n - 1] \o parts[n]
    <2>1. \A n \in 1..N : n - 1 \in 0..N
      BY <1>1
    <2>2. \A n \in 1..N : f[n - 1] \in Seq(S)
      BY <1>5, <2>1
    <2> QED
      BY <1>3, <1>5, <2>1, <2>2
  <1>7. CASE N = 0
    <2>1. parts = << >>
      BY <1>7 DEF N
    <2>2. FlattenSeq(parts) = parts
      BY <1>7 DEF FlattenSeq, N
    <2> QED
      BY <1>5, <1>6, <1>7, <2>1, <2>2
  <1>8. CASE N # 0
    <2> DEFINE Body(h) == [i \in 1..N |-> IF i = 1 THEN parts[i] ELSE h[i - 1] \o parts[i]]
               e == [i \in 1..N |-> f[i]]
               c == CHOOSE h : h = Body(h)
    <2>1. e = Body(e)
      <3>1. ASSUME NEW i \in 1..N PROVE e[i] = Body(e)[i]
        <4>1. CASE i = 1
          <5>1. f[i] = f[i - 1] \o parts[i] /\ parts[i] \in Seq(S)
            BY <1>1, <1>6
          <5>2. f[i - 1] = << >>
            BY <1>5, <4>1
          <5>3. e[i] = parts[i] /\ Body(e)[i] = parts[i]
            BY <4>1, <5>1, <5>2, ConcatEmptySeq
          <5> QED
            BY <5>3
        <4>2. CASE i # 1
          <5>1. i - 1 \in 1..N
            BY <1>9, <4>2
          <5> QED
            BY <1>6, <4>2, <5>1
        <4> QED
          BY <4>1, <4>2
      <3> QED
        BY <3>1
    <2> HIDE DEF e
    <2>2. c = Body(c)
      BY <2>1, Zenon
    <2>3. FlattenSeq(parts) = c[N]
      BY <1>8 DEF FlattenSeq, N
    <2> HIDE DEF c
    <2> DEFINE g == [n \in 0..N |-> IF n = 0 THEN << >> ELSE c[n]]
    <2>4. ASSUME NEW n \in 1..N, f[n - 1] = g[n - 1] PROVE f[n] = g[n]
      <3>1. CASE n = 1
        <4>1. g[1] = parts[1] /\ parts[1] \in Seq(S)
          BY <1>1, <1>9, <2>2, <3>1
        <4>2. f[n] = f[n - 1] \o parts[n]
          BY <1>6
        <4>4. f[n - 1] = << >>
          BY <1>5, <3>1
        <4>3. f[1] = << >> \o parts[1]
          BY <3>1, <4>2, <4>4
        <4> QED
          BY <3>1, <4>1, <4>3, ConcatEmptySeq
      <3>2. CASE n # 1
        <4>1. n - 1 \in 1..N /\ n \in 0..N /\ n - 1 \in 0..N /\ n # 0 /\ n - 1 # 0
          BY <1>9, <3>2
        <4>2. g[n] = c[n] /\ g[n - 1] = c[n - 1]
          BY <4>1
        <4>3. c[n] = c[n - 1] \o parts[n]
          BY <2>2, <3>2
        <4> QED
          BY <1>6, <2>4, <4>2, <4>3
      <3> QED
        BY <3>1, <3>2
    <2>5. f[0] = g[0]
      BY <1>5, <1>9
    <2>6. N \in 0..N /\ g[N] = c[N]
      BY <1>8, <1>9
    <2> HIDE DEF g
    <2>7. \A n \in 0..N : f[n] = g[n]
      <3> DEFINE Same == {n \in 0..N : f[n] = g[n]}
      <3>1. 0 \in Same
        BY <1>9, <2>5
      <3>2. ASSUME NEW n \in 1..N, n - 1 \in Same PROVE n \in Same
        BY <2>4, <3>2
      <3> HIDE DEF Same
      <3>3. \A n \in 0..N : n \in Same
        BY <1>9, <3>1, <3>2, InductionTo
      <3> QED
        BY <3>3 DEF Same
    <2> QED
      BY <1>5, <1>6, <2>3, <2>6, <2>7 DEF N
  <1> QED
    BY <1>7, <1>8 DEF N

(* What is flattened is extended part by part.                              *)
LEMMA FlattenAppend ==
  ASSUME NEW S, NEW parts \in Seq(Seq(S)), NEW rest \in Seq(S)
  PROVE  /\ FlattenSeq(parts) \in Seq(S)
         /\ FlattenSeq(Append(parts, rest)) = FlattenSeq(parts) \o rest
  <1> DEFINE more == Append(parts, rest)
             N == Len(parts)
  <1>1. /\ more \in Seq(Seq(S)) /\ N \in Nat /\ Len(more) = N + 1
        /\ more[N + 1] = rest /\ \A n \in 1..N : more[n] = parts[n]
    OBVIOUS
  <1> HIDE DEF more
  <1>2. PICK f \in [0..N -> Seq(S)] :
           /\ f[0] = << >> /\ FlattenSeq(parts) = f[N]
           /\ \A n \in 1..N : f[n] = f[n - 1] \o parts[n]
    BY FlattenUnfolds
  <1>3. PICK g \in [0..(N + 1) -> Seq(S)] :
           /\ g[0] = << >> /\ FlattenSeq(more) = g[N + 1]
           /\ \A n \in 1..(N + 1) : g[n] = g[n - 1] \o more[n]
    <2>1. more \in Seq(Seq(S))
      BY <1>1
    <2>2. \E g \in [0..Len(more) -> Seq(S)] :
             /\ g[0] = << >> /\ FlattenSeq(more) = g[Len(more)]
             /\ \A n \in 1..Len(more) : g[n] = g[n - 1] \o more[n]
      BY <2>1, FlattenUnfolds
    <2> QED
      BY <1>1, <2>2
  <1> HIDE DEF N
  <1>4. \A n \in 1..N : f[n - 1] = g[n - 1] => f[n] = g[n]
    <2>1. \A n \in 1..N : n \in 1..(N + 1)
      BY <1>1
    <2> QED
      BY <1>1, <1>2, <1>3, <2>1
  <1>5. \A n \in 0..N : f[n] = g[n]
    <2>1. N \in Nat
      BY <1>1
    <2>2. f[0] = g[0]
      BY <1>2, <1>3
    <2> DEFINE Same == {n \in 0..N : f[n] = g[n]}
    <2>3. 0 \in Same
      BY <2>1, <2>2
    <2>4. ASSUME NEW n \in 1..N, n - 1 \in Same PROVE n \in Same
      BY <1>4, <2>4
    <2> HIDE DEF Same
    <2>5. \A n \in 0..N : n \in Same
      BY <2>1, <2>3, <2>4, InductionTo
    <2> QED
      BY <2>5 DEF Same
  <1>6. g[N + 1] = g[N] \o rest
    <2>1. N + 1 \in 1..(N + 1) /\ (N + 1) - 1 = N
      BY <1>1
    <2> QED
      BY <1>1, <1>3, <2>1
  <1>7. N \in 0..N
    BY <1>1
  <1> QED
    BY <1>1, <1>2, <1>3, <1>5, <1>6, <1>7 DEF more

-----------------------------------------------------------------------------
(* Messages: the relay's invariant *)

Nothing == Client!Bare("nothing")
LastOf(s) == IF s = << >> THEN Nothing ELSE Last(s)

(* Follows, as a relation between one event and the next.                   *)
After(last, e) ==
  \/ Client!IsError(e)
  \/ e.type = "start" /\ last.type = "nothing"
  \/ e.type = "open" /\ last.type \in {"start", "close"}
  \/ /\ e.type \in {"piece", "blank", "close"} /\ last.type \in {"open", "piece", "blank"}
     /\ last.block = e.block
  \/ e.type \in {"delta", "bare"} /\ last.type \in {"start", "close", "delta", "bare"}
  \/ e.type = "stop" /\ last.type \in {"start", "close", "delta", "bare"}

Chained(s) == \A i \in 1..Len(s) : After(IF i = 1 THEN Nothing ELSE s[i - 1], s[i])

(* The events that were produced while the answer goes on: started and b    *)
(* are what the provider remembers of them.                                 *)
Producing(s, started, b) ==
  /\ s \in Seq(Client!Events) /\ Chained(s)
  /\ started \in BOOLEAN /\ b \in Client!Blocks \cup {"none"}
  /\ ~ started => s = << >> /\ b = "none"
  /\ started /\ b = "none" => LastOf(s).type \in {"start", "close"}
  /\ b # "none" => LastOf(s).type \in {"open", "piece", "blank"} /\ LastOf(s).block = b

(* The events between the upstream and the client.                          *)
Waiting == buffered \o eventChan

(* What the client has seen when the events of passed were handled.         *)
Shown(passed) ==
  /\ written \in Seq(Client!Events)
  /\ Content(written) = Content(passed)
  /\ hasDeltaUsage => LastOf(written).type \in {"delta", "stop", "fault", "rejected"}
  /\ \/ LastOf(written) = WithUsage(LastOf(passed))
     \/ /\ hasDeltaUsage /\ LastOf(written) = Client!Bare("delta")
        /\ LastOf(passed).type \in {"start", "close", "delta", "bare"}
        /\ Waiting # << >> /\ Head(Waiting).type = "stop"

Handling ==
  \E passed \in Seq(Client!Events) :
    /\ produced = passed \o (Waiting \o outbox)
    /\ listening => Shown(passed)

RelayTypes ==
  /\ messageStartSent \in BOOLEAN /\ toolUse \in BOOLEAN /\ hasDeltaUsage \in BOOLEAN
  /\ block \in Client!Blocks \cup {"none"}
  /\ produced \in Seq(Client!Events) /\ outbox \in Seq(Client!Events)
  /\ eventChan \in Seq(Client!Events) /\ buffered \in Seq(Client!Events)
  /\ written \in Seq(Client!Events)
  /\ listening \in BOOLEAN /\ clientGone \in BOOLEAN /\ closed \in BOOLEAN

RelayInv ==
  /\ RelayTypes /\ Chained(produced)
  /\ upstream = "sending" /\ provider # "claude" => Producing(produced, messageStartSent, block)
  /\ upstream = "completed" => provider = "responses"
  /\ closed => outbox = << >> /\ upstream \in {"ended", "reported", "broken"}
  /\ clientGone => ~ listening
  /\ draining => pc = "done"
  /\ result = "success" => pc = "done" /\ closed /\ (listening => Content(written) = Content(produced))
  /\ pc # "done" => Handling

-----------------------------------------------------------------------------

(* A few facts about sequences that the library's theorems say in parts.    *)
LEMMA AppendFacts ==
  ASSUME NEW S, NEW s \in Seq(S), NEW e \in S
  PROVE  /\ Append(s, e) \in Seq(S) /\ Append(s, e) = s \o <<e>> /\ <<e>> \in Seq(S)
         /\ Len(Append(s, e)) = Len(s) + 1 /\ Last(Append(s, e)) = e
         /\ Append(s, e) # << >>
         /\ \A i \in 1..Len(s) : Append(s, e)[i] = s[i]
         /\ Append(s, e)[Len(s) + 1] = e
  BY AppendProperties, AppendIsConcat DEF Last

LEMMA ListedPair ==
  ASSUME NEW S, NEW a \in S, NEW b \in S
  PROVE  <<a>> \in Seq(S) /\ <<a, b>> \in Seq(S) /\ <<a>> \o <<b>> = <<a, b>>
  <1>1. <<a>> \in Seq(S) /\ <<b>> \in Seq(S) /\ <<a, b>> \in Seq(S)
    OBVIOUS
  <1>2. <<a>> \o <<b>> \in Seq(S) /\ Len(<<a>> \o <<b>>) = 2
    BY <1>1, ConcatProperties
  <1>3. (<<a>> \o <<b>>)[1] = a /\ (<<a>> \o <<b>>)[2] = b
    BY <1>1, ConcatProperties
  <1>4. \A i \in 1..2 : (<<a>> \o <<b>>)[i] = <<a, b>>[i]
    BY <1>3
  <1> QED
    BY <1>1, <1>2, <1>4, SeqEqual

LEMMA Listed ==
  ASSUME NEW S, NEW a \in S, NEW b \in S, NEW c \in S
  PROVE  <<a>> \in Seq(S) /\ <<a, b, c>> \in Seq(S) /\ <<a>> \o <<b, c>> = <<a, b, c>>
  <1>1. <<a>> \in Seq(S) /\ <<b, c>> \in Seq(S) /\ <<a, b, c>> \in Seq(S)
    OBVIOUS
  <1>2. <<a>> \o <<b, c>> \in Seq(S) /\ Len(<<a>> \o <<b, c>>) = 3
    BY <1>1, ConcatProperties
  <1>3. (<<a>> \o <<b, c>>)[1] = a /\ (<<a>> \o <<b, c>>)[2] = b /\ (<<a>> \o <<b, c>>)[3] = c
    BY <1>1, ConcatProperties
  <1>4. \A i \in 1..3 : (<<a>> \o <<b, c>>)[i] = <<a, b, c>>[i]
    BY <1>3
  <1> QED
    BY <1>1, <1>2, <1>4, SeqEqual

LEMMA LastOfAppend ==
  ASSUME NEW S, NEW s \in Seq(S), NEW e \in S
  PROVE  LastOf(Append(s, e)) = e
  <1> DEFINE t == Append(s, e)
  <1>1. t # << >> /\ t[Len(t)] = e
    BY AppendProperties
  <1> HIDE DEF t
  <1>2. LastOf(t) = e
    BY <1>1 DEF LastOf, Last
  <1> QED
    BY <1>2 DEF t

LEMMA HeadFirst ==
  ASSUME NEW S, NEW s \in Seq(S), s # << >>
  PROVE  /\ Head(s) \in S /\ Tail(s) \in Seq(S) /\ s = <<Head(s)>> \o Tail(s)
         /\ \A t \in Seq(S) : s \o t # << >> /\ Head(s \o t) = Head(s) /\ Tail(s \o t) = Tail(s) \o t
  <1>1. Head(s) \in S /\ Tail(s) \in Seq(S) /\ <<Head(s)>> \in Seq(S) /\ Len(s) \in Nat \ {0}
    BY HeadTailProperties, EmptySeq
  <1>2. s = <<Head(s)>> \o Tail(s)
    <2>1. /\ Len(<<Head(s)>> \o Tail(s)) = Len(s) /\ <<Head(s)>> \o Tail(s) \in Seq(S)
      BY <1>1, HeadTailProperties, ConcatProperties
    <2>2. \A i \in 1..Len(s) : (<<Head(s)>> \o Tail(s))[i] = s[i]
      BY <1>1, HeadTailProperties, ConcatProperties
    <2> QED
      BY <2>1, <2>2, SeqEqual
  <1>3. ASSUME NEW t \in Seq(S)
        PROVE  s \o t # << >> /\ Head(s \o t) = Head(s) /\ Tail(s \o t) = Tail(s) \o t
    <2>1. s \o t \in Seq(S) /\ Len(s \o t) = Len(s) + Len(t) /\ Len(t) \in Nat /\ Len(s \o t) # 0
      BY <1>1, ConcatProperties
    <2>2. s \o t # << >>
      BY <2>1
    <2>3. Head(s \o t) = Head(s)
      BY <1>1, <2>1, ConcatProperties
    <2>4. /\ Tail(s \o t) \in Seq(S) /\ Tail(s) \o t \in Seq(S)
          /\ Len(Tail(s \o t)) = Len(s) + Len(t) - 1 /\ Len(Tail(s) \o t) = Len(s) + Len(t) - 1
      BY <1>1, <2>1, <2>2, HeadTailProperties, ConcatProperties
    <2>5. ASSUME NEW i \in 1..(Len(s) + Len(t) - 1) PROVE Tail(s \o t)[i] = (Tail(s) \o t)[i]
      <3>1. Tail(s \o t)[i] = (s \o t)[i + 1]
        BY <2>1, <2>2, <2>4, HeadTailProperties
      <3>2. (s \o t)[i + 1] = IF i + 1 <= Len(s) THEN s[i + 1] ELSE t[i + 1 - Len(s)]
        BY <1>1, <2>1, ConcatProperties
      <3>3. (Tail(s) \o t)[i] = IF i <= Len(s) - 1 THEN Tail(s)[i] ELSE t[i - (Len(s) - 1)]
        BY <1>1, <2>1, HeadTailProperties, ConcatProperties
      <3>4. i <= Len(s) - 1 => Tail(s)[i] = s[i + 1]
        BY <1>1, HeadTailProperties
      <3>5. i + 1 - Len(s) = i - (Len(s) - 1) /\ (i + 1 <= Len(s) <=> i <= Len(s) - 1)
        BY <1>1
      <3> QED
        BY <3>1, <3>2, <3>3, <3>4, <3>5
    <2> QED
      BY <2>2, <2>3, <2>4, <2>5, SeqEqual
  <1> QED
    BY <1>1, <1>2, <1>3

-----------------------------------------------------------------------------
(* Messages: events and their order *)

(* What is left of an event when only the content is looked at.             *)
LEMMA ContentAppend ==
  ASSUME NEW s \in Seq(Client!Events), NEW e \in Client!Events
  PROVE  Content(Append(s, e)) = Content(s) \o (IF TellsUsage(e) THEN << >> ELSE <<e>>)
  <1> DEFINE E == Client!Events
             Kept(x) == IF TellsUsage(x) THEN << >> ELSE <<x>>
             parts == [i \in DOMAIN s |-> Kept(s[i])]
             more == [i \in DOMAIN Append(s, e) |-> Kept(Append(s, e)[i])]
  <1>1. /\ Len(s) \in Nat /\ DOMAIN s = 1..Len(s) /\ \A i \in 1..Len(s) : s[i] \in E
        /\ DOMAIN Append(s, e) = 1..(Len(s) + 1)
        /\ \A i \in 1..Len(s) : Append(s, e)[i] = s[i]
        /\ Append(s, e)[Len(s) + 1] = e
    BY ElementOfSeq, LenProperties, AppendProperties
  <1>2. \A x \in E : Kept(x) \in Seq(E)
    OBVIOUS
  <1> HIDE DEF E, Kept
  <1>3. parts \in Seq(Seq(E)) /\ Len(parts) = Len(s)
    BY <1>1, <1>2
  <1>4. more = Append(parts, Kept(e))
    <2>1. /\ more \in Seq(Seq(E)) /\ Len(more) = Len(s) + 1
          /\ \A i \in 1..Len(s) : more[i] = Kept(s[i])
          /\ more[Len(s) + 1] = Kept(e)
      <3>1. \A i \in 1..(Len(s) + 1) : Append(s, e)[i] \in E
        BY <1>1 DEF E
      <3>2. more \in [1..(Len(s) + 1) -> Seq(E)]
        BY <1>1, <1>2, <3>1
      <3> QED
        BY <1>1, <3>2
    <2>2. /\ Append(parts, Kept(e)) \in Seq(Seq(E)) /\ Len(Append(parts, Kept(e))) = Len(s) + 1
          /\ \A i \in 1..Len(s) : Append(parts, Kept(e))[i] = Kept(s[i])
          /\ Append(parts, Kept(e))[Len(s) + 1] = Kept(e)
      <3>1. Kept(e) \in Seq(E)
        BY <1>2 DEF E
      <3>2. \A i \in 1..Len(s) : parts[i] = Kept(s[i])
        BY <1>1
      <3> DEFINE last == Kept(e)
                 all  == Append(parts, last)
      <3> HIDE DEF parts, last
      <3>3. last \in Seq(E)
        BY <3>1 DEF last
      <3>4. /\ all \in Seq(Seq(E)) /\ Len(all) = Len(parts) + 1
            /\ \A i \in 1..Len(parts) : all[i] = parts[i]
            /\ all[Len(parts) + 1] = last
        BY <1>3, <3>3, AppendProperties
      <3> HIDE DEF all
      <3>5. /\ all \in Seq(Seq(E)) /\ Len(all) = Len(s) + 1
            /\ \A i \in 1..Len(s) : all[i] = Kept(s[i])
            /\ all[Len(s) + 1] = last
        BY <1>3, <3>2, <3>4
      <3> QED
        BY <3>5 DEF all, last
    <2> HIDE DEF parts, more
    <2>3. \A i \in 1..(Len(s) + 1) : more[i] = Append(parts, Kept(e))[i]
      BY <1>1, <2>1, <2>2
    <2> QED
      BY <1>1, <2>1, <2>2, <2>3, SeqEqual
  <1>5. Content(s) = FlattenSeq(parts) /\ Content(Append(s, e)) = FlattenSeq(more)
    BY DEF Content, Kept
  <1> HIDE DEF parts, more
  <1>6. Kept(e) \in Seq(E)
    BY <1>2 DEF E
  <1>7. FlattenSeq(Append(parts, Kept(e))) = FlattenSeq(parts) \o Kept(e)
    BY <1>3, <1>6, FlattenAppend
  <1> QED
    BY <1>4, <1>5, <1>7 DEF Kept

LEMMA ContentSeq ==
  ASSUME NEW s \in Seq(Client!Events)
  PROVE  Content(s) \in Seq(Client!Events)
  <1> DEFINE E == Client!Events
             parts == [i \in DOMAIN s |-> IF TellsUsage(s[i]) THEN << >> ELSE <<s[i]>>]
  <1>1. Len(s) \in Nat /\ DOMAIN s = 1..Len(s) /\ \A i \in 1..Len(s) : s[i] \in E
    BY ElementOfSeq, LenProperties
  <1>2. parts \in Seq(Seq(E))
    <2>1. \A i \in 1..Len(s) : (IF TellsUsage(s[i]) THEN << >> ELSE <<s[i]>>) \in Seq(E)
      <3> HIDE DEF E
      <3> QED
        BY <1>1
    <2> HIDE DEF E
    <2> QED
      BY <1>1, <2>1
  <1>3. Content(s) = FlattenSeq(parts)
    BY DEF Content
  <1>4. << >> \in Seq(E)
    BY EmptySeq
  <1> HIDE DEF parts, E
  <1>5. FlattenSeq(parts) \in Seq(E)
    BY <1>2, <1>4, FlattenAppend
  <1> QED
    BY <1>3, <1>5 DEF E

(* The types of events, and that a history without events has no last one.  *)
LEMMA EventTypes ==
  ASSUME NEW e \in Client!Events
  PROVE  /\ e.type \in {"start", "delta", "bare", "stop", "fault", "rejected", "open", "piece",
                        "blank", "close"}
         /\ e.type \in {"open", "piece", "blank", "close"} => e.block \in Client!Blocks
         /\ e.type \in {"start", "stop", "fault", "rejected"} => e = Client!Bare(e.type)
         /\ e.type \in {"delta", "bare"} => e.block \in {"none", "tool"}
         /\ e = Client!Within(e.type, e.block)
  BY DEF Client!Events, Client!Bare, Client!Within

LEMMA EventsAre ==
  /\ \A type \in {"start", "delta", "bare", "stop", "fault", "rejected"} :
       Client!Bare(type) \in Client!Events
  /\ \A type \in {"open", "piece", "blank", "close"}, b \in Client!Blocks :
       Client!Within(type, b) \in Client!Events
  /\ \A type \in {"delta", "bare"}, b \in {"none", "tool"} : Client!Within(type, b) \in Client!Events
  /\ \A type, b : Client!Within(type, b).type = type /\ Client!Within(type, b).block = b
  /\ \A type : Client!Bare(type).type = type /\ Client!Bare(type).block = "none"
  <1>1. \A type \in {"start", "delta", "bare", "stop", "fault", "rejected"} :
          Client!Bare(type) \in Client!Events
    BY DEF Client!Events
  <1>2. \A type \in {"open", "piece", "blank", "close"}, b \in Client!Blocks :
          Client!Within(type, b) \in Client!Events
    BY DEF Client!Events
  <1>3. ASSUME NEW type \in {"delta", "bare"}, NEW b \in {"none", "tool"}
        PROVE  Client!Within(type, b) \in Client!Events
    <2>1. CASE b = "none"
      BY <1>1, <2>1 DEF Client!Bare, Client!Within
    <2>2. CASE b = "tool"
      BY <2>2 DEF Client!Events
    <2> QED
      BY <2>1, <2>2
  <1>4. \A type, b : Client!Within(type, b).type = type /\ Client!Within(type, b).block = b
    BY DEF Client!Within
  <1>5. \A type : Client!Bare(type).type = type /\ Client!Bare(type).block = "none"
    BY DEF Client!Bare
  <1> QED
    BY <1>1, <1>2, <1>3, <1>4, <1>5

LEMMA LastOfType ==
  ASSUME NEW s \in Seq(Client!Events)
  PROVE  /\ s = << >> => LastOf(s) = Nothing
         /\ s # << >> => LastOf(s) \in Client!Events /\ LastOf(s) = s[Len(s)]
         /\ LastOf(s).type = "nothing" <=> s = << >>
  <1>1. s # << >> => Len(s) \in 1..Len(s)
    BY EmptySeq
  <1>2. s # << >> => Last(s) = s[Len(s)] /\ Last(s) \in Client!Events
    BY <1>1, ElementOfSeq DEF Last
  <1>3. Nothing.type = "nothing"
    BY EventsAre DEF Nothing
  <1> QED
    BY <1>2, <1>3, EventTypes DEF LastOf

(* Follows looks at the last event only.                                    *)
LEMMA FollowsLast ==
  ASSUME NEW s \in Seq(Client!Events), NEW e
  PROVE  Client!Follows(s, e) <=> After(LastOf(s), e)
  <1>1. LastOf(s) = IF s = << >> THEN Client!Bare("nothing") ELSE Last(s)
    BY DEF LastOf, Nothing
  <1>2. s = << >> <=> LastOf(s).type = "nothing"
    BY LastOfType
  <1>3. CASE s = << >>
    <2>1. LastOf(s) = Client!Bare("nothing")
      BY <1>1, <1>3
    <2> QED
      BY <1>2, <1>3, <2>1 DEF Client!Follows, After
  <1>4. CASE s # << >>
    <2>1. LastOf(s) = Last(s) /\ Last(s).type # "nothing"
      BY <1>1, <1>2, <1>4
    <2>2. Client!Last(s) = Last(s)
      BY DEF Last, Client!Last
    <2>3. Client!Follows(s, e) <=> After(Last(s), e)
      BY <1>4, <2>1, <2>2 DEF Client!Follows, After
    <2> QED
      BY <2>1, <2>3
  <1> QED
    BY <1>3, <1>4

(* A chain is extended by what follows its last event.                      *)
LEMMA ChainGrows ==
  ASSUME NEW s \in Seq(Client!Events), Chained(s), NEW e \in Client!Events, After(LastOf(s), e)
  PROVE  /\ Append(s, e) \in Seq(Client!Events) /\ Chained(Append(s, e))
         /\ LastOf(Append(s, e)) = e
  <1> DEFINE t == Append(s, e)
  <1>1. /\ t \in Seq(Client!Events) /\ Len(t) = Len(s) + 1 /\ Len(s) \in Nat
        /\ \A i \in 1..Len(s) : t[i] = s[i]
        /\ t[Len(s) + 1] = e
    BY AppendProperties
  <1>2. LastOf(t) = e
    BY LastOfAppend
  <1> HIDE DEF t
  <1>3. ASSUME NEW i \in 1..Len(t) PROVE After(IF i = 1 THEN Nothing ELSE t[i - 1], t[i])
    <2>1. CASE i = Len(s) + 1
      <3>1. (IF i = 1 THEN Nothing ELSE t[i - 1]) = LastOf(s)
        <4>1. CASE s = << >>
          BY <2>1, <4>1 DEF LastOf
        <4>2. CASE s # << >>
          <5>1. i # 1 /\ i - 1 = Len(s) /\ Len(s) \in 1..Len(s)
            BY <1>1, <2>1, <4>2, EmptySeq
          <5>2. LastOf(s) = s[Len(s)]
            BY <4>2, LastOfType
          <5> QED
            BY <1>1, <5>1, <5>2
        <4> QED
          BY <4>1, <4>2
      <3> QED
        BY <1>1, <2>1, <3>1
    <2>2. CASE i # Len(s) + 1
      <3>1. i \in 1..Len(s) /\ (i # 1 => i - 1 \in 1..Len(s))
        BY <1>1, <2>2
      <3>2. (IF i = 1 THEN Nothing ELSE t[i - 1]) = (IF i = 1 THEN Nothing ELSE s[i - 1]) /\ t[i] = s[i]
        BY <1>1, <3>1
      <3> QED
        BY <3>1, <3>2 DEF Chained
    <2> QED
      BY <2>1, <2>2
  <1>4. Chained(t)
    BY <1>3 DEF Chained
  <1> QED
    BY <1>1, <1>2, <1>4 DEF t

(* In a chain, what comes next follows what came before.                    *)
LEMMA ChainJoins ==
  ASSUME NEW s \in Seq(Client!Events), NEW t \in Seq(Client!Events), t # << >>, Chained(s \o t)
  PROVE  After(LastOf(s), Head(t))
  <1> DEFINE i == Len(s) + 1
  <1>1. Len(s) \in Nat /\ Len(t) \in Nat \ {0} /\ Len(s \o t) = Len(s) + Len(t) /\ i \in 1..Len(s \o t)
    BY EmptySeq, ConcatProperties
  <1>2. (s \o t)[i] = Head(t)
    BY <1>1, ConcatProperties
  <1>3. (IF i = 1 THEN Nothing ELSE (s \o t)[i - 1]) = LastOf(s)
    <2>1. CASE s = << >>
      BY <2>1 DEF LastOf
    <2>2. CASE s # << >>
      <3>1. i # 1 /\ i - 1 = Len(s) /\ Len(s) \in 1..(Len(s) + Len(t)) /\ Len(s) <= Len(s)
        BY <1>1, <2>2, EmptySeq
      <3>2. (s \o t)[Len(s)] = s[Len(s)]
        BY <3>1, ConcatProperties
      <3>3. LastOf(s) = s[Len(s)]
        BY <2>2, LastOfType
      <3> QED
        BY <3>1, <3>2, <3>3
    <2> QED
      BY <2>1, <2>2
  <1>4. After(IF i = 1 THEN Nothing ELSE (s \o t)[i - 1], (s \o t)[i])
    BY <1>1 DEF Chained
  <1> QED
    BY <1>2, <1>3, <1>4

-----------------------------------------------------------------------------
(* Messages: what the providers produce *)

LEMMA ProducesEvent ==
  ASSUME NEW s, NEW started, NEW b, Producing(s, started, b), NEW e \in Client!Events,
         After(LastOf(s), e), NEW c \in Client!Blocks \cup {"none"},
         c = "none" => e.type \in {"start", "close"},
         c # "none" => e.type \in {"open", "piece", "blank"} /\ e.block = c
  PROVE  <<e>> \in Seq(Client!Events) /\ Producing(s \o <<e>>, TRUE, c)
  <1>1. s \in Seq(Client!Events) /\ Chained(s)
    BY DEF Producing
  <1>2. Append(s, e) = s \o <<e>>
    BY <1>1, AppendIsConcat
  <1>3. /\ Append(s, e) \in Seq(Client!Events) /\ Chained(Append(s, e))
        /\ LastOf(Append(s, e)) = e
    BY <1>1, ChainGrows
  <1>4. Producing(Append(s, e), TRUE, c)
    BY <1>3 DEF Producing
  <1>5. <<e>> \in Seq(Client!Events)
    BY ListedPair
  <1> QED
    BY <1>2, <1>4, <1>5

Starting(started) == IF started THEN << >> ELSE <<Client!Bare("start")>>
Closing(b) == IF b = "none" THEN << >> ELSE <<Client!Within("close", b)>>
Opening(b, c) == IF b = c THEN << >> ELSE Closing(b) \o <<Client!Within("open", c)>>

LEMMA ProducesStart ==
  ASSUME NEW s, NEW started, NEW b, Producing(s, started, b)
  PROVE  /\ Starting(started) \in Seq(Client!Events)
         /\ Producing(s \o Starting(started), TRUE, b)
  <1>1. s \in Seq(Client!Events) /\ started \in BOOLEAN
    BY DEF Producing
  <1>2. CASE started
    <2>1. Starting(started) = << >> /\ Producing(s, TRUE, b)
      BY <1>1, <1>2 DEF Starting
    <2>2. s \o << >> = s /\ << >> \in Seq(Client!Events)
      BY <1>1, ConcatEmptySeq, EmptySeq
    <2> QED
      BY <2>1, <2>2
  <1>3. CASE ~ started
    <2> DEFINE e == Client!Bare("start")
    <2>1. Starting(started) = <<e>> /\ s = << >> /\ b = "none"
      BY <1>3 DEF Starting, Producing
    <2>2. e \in Client!Events /\ e.type = "start"
      BY EventsAre
    <2>3. LastOf(s).type = "nothing"
      BY <1>1, <2>1, LastOfType
    <2>4. After(LastOf(s), e)
      BY <2>2, <2>3 DEF After
    <2> HIDE DEF e
    <2>5. <<e>> \in Seq(Client!Events) /\ Producing(s \o <<e>>, TRUE, "none")
      BY <2>2, <2>4, ProducesEvent
    <2> QED
      BY <2>1, <2>5
  <1> QED
    BY <1>2, <1>3

LEMMA ProducesClose ==
  ASSUME NEW s, NEW started, NEW b, Producing(s, started, b)
  PROVE  /\ Closing(b) \in Seq(Client!Events)
         /\ Producing(s \o Closing(b), started, "none")
  <1>1. s \in Seq(Client!Events) /\ started \in BOOLEAN /\ b \in Client!Blocks \cup {"none"}
    BY DEF Producing
  <1>2. CASE b = "none"
    <2>1. Closing(b) = << >>
      BY <1>2 DEF Closing
    <2>2. s \o << >> = s /\ << >> \in Seq(Client!Events)
      BY <1>1, ConcatEmptySeq, EmptySeq
    <2> QED
      BY <1>2, <2>1, <2>2
  <1>3. CASE b # "none"
    <2> DEFINE e == Client!Within("close", b)
    <2>1. /\ Closing(b) = <<e>> /\ b \in Client!Blocks /\ started = TRUE
          /\ LastOf(s).type \in {"open", "piece", "blank"} /\ LastOf(s).block = b
      BY <1>1, <1>3 DEF Closing, Producing
    <2>2. e \in Client!Events /\ e.type = "close" /\ e.block = b
      BY <2>1, EventsAre
    <2>3. After(LastOf(s), e)
      BY <2>1, <2>2 DEF After
    <2> HIDE DEF e
    <2>4. <<e>> \in Seq(Client!Events) /\ Producing(s \o <<e>>, TRUE, "none")
      BY <2>2, <2>3, ProducesEvent
    <2> QED
      BY <2>1, <2>4
  <1> QED
    BY <1>2, <1>3

LEMMA ProducesOpen ==
  ASSUME NEW s, NEW b, Producing(s, TRUE, b), NEW c \in Client!Blocks
  PROVE  /\ Opening(b, c) \in Seq(Client!Events)
         /\ Producing(s \o Opening(b, c), TRUE, c)
         /\ b = "none" => Opening(b, c) = <<Client!Within("open", c)>>
  <1>1. s \in Seq(Client!Events) /\ c # "none"
    BY DEF Producing, Client!Blocks
  <1>2. CASE b = c
    <2>1. Opening(b, c) = << >>
      BY <1>2 DEF Opening
    <2>2. s \o << >> = s /\ << >> \in Seq(Client!Events)
      BY <1>1, ConcatEmptySeq, EmptySeq
    <2>3. Producing(s, TRUE, c) /\ b # "none"
      BY <1>1, <1>2
    <2> QED
      BY <2>1, <2>2, <2>3
  <1>3. CASE b # c
    <2> DEFINE e == Client!Within("open", c)
               t == s \o Closing(b)
    <2>1. Opening(b, c) = Closing(b) \o <<e>>
      BY <1>3 DEF Opening
    <2>2. Closing(b) \in Seq(Client!Events) /\ Producing(t, TRUE, "none")
      BY ProducesClose
    <2>3. e \in Client!Events /\ e.type = "open" /\ e.block = c
      BY EventsAre
    <2>4. LastOf(t).type \in {"start", "close"}
      BY <2>2 DEF Producing
    <2>5. After(LastOf(t), e)
      BY <2>3, <2>4 DEF After
    <2> HIDE DEF e
    <2>6. <<e>> \in Seq(Client!Events) /\ Producing(t \o <<e>>, TRUE, c)
      BY <1>1, <2>2, <2>3, <2>5, ProducesEvent
    <2>7. t \o <<e>> = s \o (Closing(b) \o <<e>>)
      BY <1>1, <2>2, <2>6, ConcatAssociative
    <2>8. Closing(b) \o <<e>> \in Seq(Client!Events)
      BY <2>2, <2>6, ConcatProperties
    <2>9. b = "none" => Closing(b) \o <<e>> = <<e>>
      BY <2>6, ConcatEmptySeq DEF Closing
    <2> QED
      BY <2>1, <2>6, <2>7, <2>8, <2>9 DEF e
  <1> QED
    BY <1>2, <1>3

LEMMA ProducesPiece ==
  ASSUME NEW s, NEW b \in Client!Blocks, Producing(s, TRUE, b), NEW type \in {"piece", "blank"}
  PROVE  /\ <<Client!Within(type, b)>> \in Seq(Client!Events)
         /\ Producing(s \o <<Client!Within(type, b)>>, TRUE, b)
  <1> DEFINE e == Client!Within(type, b)
  <1>1. LastOf(s).type \in {"open", "piece", "blank"} /\ LastOf(s).block = b /\ b # "none"
    BY DEF Producing, Client!Blocks
  <1>2. e \in Client!Events /\ e.type = type /\ e.block = b
    BY EventsAre
  <1>3. After(LastOf(s), e)
    BY <1>1, <1>2 DEF After
  <1> HIDE DEF e
  <1>4. <<e>> \in Seq(Client!Events) /\ Producing(s \o <<e>>, TRUE, b)
    BY <1>1, <1>2, <1>3, ProducesEvent
  <1> QED
    BY <1>4 DEF e

(* The arguments of a tool call that is open, and its end.                  *)
LEMMA ProducesCall ==
  ASSUME NEW s, Producing(s, TRUE, "tool")
  PROVE  LET call == <<Client!Within("piece", "tool"), Client!Within("close", "tool")>>
         IN  call \in Seq(Client!Events) /\ Producing(s \o call, TRUE, "none")
  <1> DEFINE p == <<Client!Within("piece", "tool")>>
             c == <<Client!Within("close", "tool")>>
  <1>1. s \in Seq(Client!Events) /\ "tool" \in Client!Blocks /\ "tool" # "none"
    BY DEF Producing, Client!Blocks
  <1>2. p \in Seq(Client!Events) /\ Producing(s \o p, TRUE, "tool")
    BY <1>1, ProducesPiece
  <1>3. Closing("tool") = c
    BY DEF Closing
  <1>4. c \in Seq(Client!Events) /\ Producing((s \o p) \o c, TRUE, "none")
    BY <1>2, <1>3, ProducesClose
  <1>5. (s \o p) \o c = s \o (p \o c)
    BY <1>1, <1>2, <1>4, ConcatAssociative
  <1>6. p \o c = <<Client!Within("piece", "tool"), Client!Within("close", "tool")>>
    BY <1>1, EventsAre, ListedPair
  <1>7. p \o c \in Seq(Client!Events)
    BY <1>2, <1>4, ConcatProperties
  <1> HIDE DEF p, c
  <1> QED
    BY <1>4, <1>5, <1>6, <1>7

LEMMA ProducesToolUse ==
  ASSUME NEW s, Producing(s, TRUE, "none")
  PROVE  ToolUsePart \in Seq(Client!Events) /\ Producing(s \o ToolUsePart, TRUE, "none")
  <1> DEFINE o == <<Client!Within("open", "tool")>>
             call == <<Client!Within("piece", "tool"), Client!Within("close", "tool")>>
  <1>1. s \in Seq(Client!Events) /\ "tool" \in Client!Blocks
    BY DEF Producing, Client!Blocks
  <1>2. o \in Seq(Client!Events) /\ Producing(s \o o, TRUE, "tool")
    BY <1>1, ProducesOpen
  <1>3. call \in Seq(Client!Events) /\ Producing((s \o o) \o call, TRUE, "none")
    BY <1>2, ProducesCall
  <1>4. (s \o o) \o call = s \o (o \o call)
    BY <1>1, <1>2, <1>3, ConcatAssociative
  <1>5. o \o call = ToolUsePart
    <2>1. \A type \in {"open", "piece", "close"} : Client!Within(type, "tool") \in Client!Events
      BY <1>1, EventsAre
    <2> QED
      BY <2>1, Listed DEF ToolUsePart, Within
  <1>6. o \o call \in Seq(Client!Events)
    BY <1>2, <1>3, ConcatProperties
  <1> HIDE DEF o, call
  <1> QED
    BY <1>3, <1>4, <1>5, <1>6

(* The end of the message.                                                  *)
LEMMA ProducesEnd ==
  ASSUME NEW s, Producing(s, TRUE, "none"), NEW usage \in {"delta", "bare"}, NEW c \in {"none", "tool"}
  PROVE  LET end == <<Client!Within(usage, c), Client!Bare("stop")>>
         IN  /\ end \in Seq(Client!Events) /\ s \o end \in Seq(Client!Events)
             /\ Chained(s \o end)
  <1> DEFINE d == Client!Within(usage, c)
             e == Client!Bare("stop")
  <1>1. s \in Seq(Client!Events) /\ Chained(s) /\ LastOf(s).type \in {"start", "close"}
    BY DEF Producing
  <1>2. d \in Client!Events /\ d.type = usage /\ e \in Client!Events /\ e.type = "stop"
    BY EventsAre
  <1>3. After(LastOf(s), d) /\ After(d, e)
    BY <1>1, <1>2 DEF After
  <1> HIDE DEF d, e
  <1>4. Append(s, d) \in Seq(Client!Events) /\ Chained(Append(s, d)) /\ LastOf(Append(s, d)) = d
    BY <1>1, <1>2, <1>3, ChainGrows
  <1> DEFINE t == Append(s, d)
  <1> HIDE DEF t
  <1>5. t \in Seq(Client!Events) /\ Chained(t) /\ After(LastOf(t), e)
    BY <1>3, <1>4 DEF t
  <1>6. Append(t, e) \in Seq(Client!Events) /\ Chained(Append(t, e))
    BY <1>2, <1>5, ChainGrows
  <1>7. Append(t, e) = s \o <<d, e>>
    <2>1. t = s \o <<d>> /\ Append(t, e) = t \o <<e>> /\ <<d>> \in Seq(Client!Events)
          /\ <<e>> \in Seq(Client!Events)
      BY <1>1, <1>2, <1>5, AppendIsConcat, ListedPair DEF t
    <2>2. (s \o <<d>>) \o <<e>> = s \o (<<d>> \o <<e>>)
      BY <1>1, <2>1, ConcatAssociative
    <2>3. <<d>> \o <<e>> = <<d, e>>
      BY <1>2, ListedPair
    <2> QED
      BY <2>1, <2>2, <2>3
  <1>8. <<d, e>> \in Seq(Client!Events)
    BY <1>2
  <1> QED
    BY <1>6, <1>7, <1>8 DEF d, e

-----------------------------------------------------------------------------
(* Messages: the goroutine of the provider keeps the invariant *)

LEMMA Regroup ==
  ASSUME NEW S, NEW s \in Seq(S), NEW t \in Seq(S), NEW u \in Seq(S)
  PROVE  s \o (t \o u) = (s \o t) \o u /\ t \o u \in Seq(S)
  BY ConcatAssociative, ConcatProperties

LEMMA EventsRegroup ==
  \A s, t, u \in Seq(Client!Events) : s \o (t \o u) = (s \o t) \o u /\ t \o u \in Seq(Client!Events)
  BY Regroup

LEMMA PartsAre ==
  /\ StartIfNeeded = Starting(messageStartSent) /\ CloseBlock = Closing(block)
  /\ \A b : OpenBlock(b) = Opening(block, b)
  BY DEF StartIfNeeded, Starting, CloseBlock, Closing, OpenBlock, Opening, Bare, Within

LEMMA OpensProduced ==
  ASSUME Producing(produced, messageStartSent, block), NEW b \in Client!Blocks
  PROVE  /\ StartIfNeeded \o OpenBlock(b) \in Seq(Client!Events)
         /\ Producing(produced \o (StartIfNeeded \o OpenBlock(b)), TRUE, b)
  <1> DEFINE s == StartIfNeeded
             o == OpenBlock(b)
             t == produced \o s
  <1>1. produced \in Seq(Client!Events)
    BY DEF Producing
  <1>2. s \in Seq(Client!Events) /\ Producing(t, TRUE, block)
    BY ProducesStart, PartsAre
  <1> HIDE DEF t
  <1>3. o \in Seq(Client!Events) /\ Producing(t \o o, TRUE, b)
    BY <1>2, ProducesOpen, PartsAre
  <1> HIDE DEF s, o
  <1>4. produced \o (s \o o) = t \o o /\ s \o o \in Seq(Client!Events)
    BY <1>1, <1>2, <1>3, Regroup DEF t
  <1> QED
    BY <1>3, <1>4 DEF s, o

LEMMA ClosesProduced ==
  ASSUME Producing(produced, messageStartSent, block)
  PROVE  /\ StartIfNeeded \o CloseBlock \in Seq(Client!Events)
         /\ Producing(produced \o (StartIfNeeded \o CloseBlock), TRUE, "none")
         /\ CloseBlock \in Seq(Client!Events)
         /\ Producing(produced \o CloseBlock, messageStartSent, "none")
  <1> DEFINE s == StartIfNeeded
             c == CloseBlock
             t == produced \o s
  <1>1. produced \in Seq(Client!Events)
    BY DEF Producing
  <1>2. s \in Seq(Client!Events) /\ Producing(t, TRUE, block)
    BY ProducesStart, PartsAre
  <1> HIDE DEF t
  <1>3. c \in Seq(Client!Events) /\ Producing(t \o c, TRUE, "none")
    BY <1>2, ProducesClose, PartsAre
  <1>4. Producing(produced \o c, messageStartSent, "none")
    BY ProducesClose, PartsAre
  <1> HIDE DEF s, c
  <1>5. produced \o (s \o c) = t \o c /\ s \o c \in Seq(Client!Events)
    BY <1>1, <1>2, <1>3, Regroup DEF t
  <1> QED
    BY <1>3, <1>4, <1>5 DEF s, c

(* A chunk that becomes pre and then the rest.                              *)
LEMMA PartsProduced ==
  ASSUME NEW pre \in Seq(Client!Events), NEW rest \in Seq(Client!Events), NEW started, NEW b,
         produced \in Seq(Client!Events), Producing((produced \o pre) \o rest, started, b)
  PROVE  pre \o rest \in Seq(Client!Events) /\ Producing(produced \o (pre \o rest), started, b)
  <1>1. produced \o (pre \o rest) = (produced \o pre) \o rest /\ pre \o rest \in Seq(Client!Events)
    BY Regroup
  <1> QED
    BY <1>1

Produced ==
  /\ outbox' \in Seq(Client!Events) /\ produced' = produced \o outbox'
  /\ toolUse' \in BOOLEAN /\ messageStartSent' \in BOOLEAN /\ block' \in Client!Blocks \cup {"none"}

LEMMA EmitsAre ==
  ASSUME NEW events, NEW b, Becomes(events, b)
  PROVE  outbox' = events /\ produced' = produced \o events /\ block' = b
  BY DEF Becomes, Emit

LEMMA StaysProducing ==
  ASSUME NEW events \in Seq(Client!Events), NEW started, NEW b, Producing(produced \o events, started, b),
         Becomes(events, b), messageStartSent' = started, toolUse' \in BOOLEAN
  PROVE  Produced /\ Producing(produced', messageStartSent', block')
  <1>1. started \in BOOLEAN /\ b \in Client!Blocks \cup {"none"}
    BY DEF Producing
  <1>2. outbox' = events /\ produced' = produced \o events /\ block' = b
    BY EmitsAre
  <1> QED
    BY <1>1, <1>2 DEF Produced

LEMMA OpenAIChunkProduces ==
  ASSUME Producing(produced, messageStartSent, block), toolUse \in BOOLEAN, OpenAIChunk
  PROVE  Produced /\ Producing(produced', messageStartSent', block')
  <1>1. produced \in Seq(Client!Events)
    BY DEF Producing
  <1>2. CASE /\ \E b \in {"thinking", "text"} : Becomes(Piece(b, "piece"), b)
             /\ messageStartSent' = TRUE /\ UNCHANGED toolUse
    <2>1. PICK b \in {"thinking", "text"} : Becomes(Piece(b, "piece"), b)
      BY <1>2
    <2>2. b \in Client!Blocks
      BY DEF Client!Blocks
    <2> DEFINE pre == StartIfNeeded \o OpenBlock(b)
               rest == <<Client!Within("piece", b)>>
    <2>3. pre \in Seq(Client!Events) /\ Producing(produced \o pre, TRUE, b)
      BY <2>2, OpensProduced
    <2>4. rest \in Seq(Client!Events) /\ Producing((produced \o pre) \o rest, TRUE, b)
      BY <2>2, <2>3, ProducesPiece
    <2>5. pre \o rest \in Seq(Client!Events) /\ Producing(produced \o (pre \o rest), TRUE, b)
      BY <1>1, <2>3, <2>4, PartsProduced
    <2>6. Piece(b, "piece") = pre \o rest
      BY DEF Piece, Within
    <2> QED
      BY <1>2, <2>1, <2>5, <2>6, StaysProducing
  <1>3. CASE /\ \E rest \in {<< >>, ToolUsePart} : Becomes(StartIfNeeded \o CloseBlock \o rest, "none")
             /\ messageStartSent' = TRUE /\ UNCHANGED toolUse
    <2> DEFINE pre == StartIfNeeded \o CloseBlock
    <2>1. PICK rest \in {<< >>, ToolUsePart} : Becomes(pre \o rest, "none")
      BY <1>3
    <2>2. pre \in Seq(Client!Events) /\ Producing(produced \o pre, TRUE, "none")
      BY ClosesProduced
    <2> HIDE DEF pre
    <2>3. rest \in Seq(Client!Events) /\ Producing((produced \o pre) \o rest, TRUE, "none")
      <3>1. (produced \o pre) \o << >> = produced \o pre /\ << >> \in Seq(Client!Events)
        BY <1>1, <2>2, ConcatProperties, ConcatEmptySeq, EmptySeq
      <3>2. ToolUsePart \in Seq(Client!Events) /\ Producing((produced \o pre) \o ToolUsePart, TRUE, "none")
        BY <2>2, ProducesToolUse
      <3>3. CASE rest = << >>
        BY <2>2, <3>1, <3>3
      <3>4. CASE rest = ToolUsePart
        BY <3>2, <3>4
      <3> QED
        BY <3>3, <3>4
    <2>4. pre \o rest \in Seq(Client!Events) /\ Producing(produced \o (pre \o rest), TRUE, "none")
      BY <1>1, <2>2, <2>3, PartsProduced
    <2> QED
      BY <1>3, <2>1, <2>4, StaysProducing
  <1>4. CASE Becomes(CloseBlock, "none") /\ toolUse' \in {toolUse, TRUE} /\ UNCHANGED messageStartSent
    BY <1>4, ClosesProduced, StaysProducing
  <1> QED
    BY <1>2, <1>3, <1>4 DEF OpenAIChunk

LEMMA GeminiChunkProduces ==
  ASSUME Producing(produced, messageStartSent, block), toolUse \in BOOLEAN, GeminiChunk
  PROVE  Produced /\ Producing(produced', messageStartSent', block')
  <1>1. produced \in Seq(Client!Events) /\ toolUse' \in BOOLEAN
    BY DEF Producing, GeminiChunk
  <1>2. CASE /\ \E type \in {"piece", "blank"} : Becomes(Piece("text", type), "text")
             /\ messageStartSent' = TRUE
    <2>1. PICK type \in {"piece", "blank"} : Becomes(Piece("text", type), "text")
      BY <1>2
    <2>2. "text" \in Client!Blocks
      BY DEF Client!Blocks
    <2> DEFINE pre == StartIfNeeded \o OpenBlock("text")
               rest == <<Client!Within(type, "text")>>
    <2>3. pre \in Seq(Client!Events) /\ Producing(produced \o pre, TRUE, "text")
      BY <2>2, OpensProduced
    <2>4. rest \in Seq(Client!Events) /\ Producing((produced \o pre) \o rest, TRUE, "text")
      BY <2>2, <2>3, ProducesPiece
    <2>5. pre \o rest \in Seq(Client!Events) /\ Producing(produced \o (pre \o rest), TRUE, "text")
      BY <1>1, <2>3, <2>4, PartsProduced
    <2>6. Piece("text", type) = pre \o rest
      BY DEF Piece, Within
    <2> QED
      BY <1>1, <1>2, <2>1, <2>5, <2>6, StaysProducing
  <1>3. CASE Becomes(StartIfNeeded \o CloseBlock \o ToolUsePart, "none") /\ messageStartSent' = TRUE
    <2> DEFINE pre == StartIfNeeded \o CloseBlock
    <2>1. Becomes(pre \o ToolUsePart, "none")
      BY <1>3
    <2>2. pre \in Seq(Client!Events) /\ Producing(produced \o pre, TRUE, "none")
      BY ClosesProduced
    <2> HIDE DEF pre
    <2>3. ToolUsePart \in Seq(Client!Events) /\ Producing((produced \o pre) \o ToolUsePart, TRUE, "none")
      BY <2>2, ProducesToolUse
    <2>4. pre \o ToolUsePart \in Seq(Client!Events) /\ Producing(produced \o (pre \o ToolUsePart), TRUE, "none")
      BY <1>1, <2>2, <2>3, PartsProduced
    <2> QED
      BY <1>1, <1>3, <2>1, <2>4, StaysProducing
  <1>4. CASE Becomes(CloseBlock, "none") /\ UNCHANGED messageStartSent
    BY <1>1, <1>4, ClosesProduced, StaysProducing
  <1> QED
    BY <1>2, <1>3, <1>4 DEF GeminiChunk

LEMMA ResponsesChunkProduces ==
  ASSUME Producing(produced, messageStartSent, block), toolUse \in BOOLEAN, ResponsesChunk
  PROVE  Produced /\ Producing(produced', messageStartSent', block')
  <1>1. produced \in Seq(Client!Events) /\ {"text", "tool"} \subseteq Client!Blocks
    BY DEF Producing, Client!Blocks
  <1>2. CASE /\ \E rest \in {<< >>, <<Within("piece", "text")>>} :
                  Becomes(StartIfNeeded \o OpenBlock("text") \o rest, "text")
             /\ messageStartSent' = TRUE /\ UNCHANGED toolUse
    <2> DEFINE pre == StartIfNeeded \o OpenBlock("text")
    <2>1. PICK rest \in {<< >>, <<Within("piece", "text")>>} : Becomes(pre \o rest, "text")
      BY <1>2
    <2>2. pre \in Seq(Client!Events) /\ Producing(produced \o pre, TRUE, "text")
      BY <1>1, OpensProduced
    <2> HIDE DEF pre
    <2>3. rest \in Seq(Client!Events) /\ Producing((produced \o pre) \o rest, TRUE, "text")
      <3>1. (produced \o pre) \o << >> = produced \o pre /\ << >> \in Seq(Client!Events)
        BY <1>1, <2>2, ConcatProperties, ConcatEmptySeq, EmptySeq
      <3>2. /\ <<Within("piece", "text")>> \in Seq(Client!Events)
            /\ Producing((produced \o pre) \o <<Within("piece", "text")>>, TRUE, "text")
        BY <1>1, <2>2, ProducesPiece DEF Within
      <3>3. CASE rest = << >>
        BY <2>2, <3>1, <3>3
      <3>4. CASE rest = <<Within("piece", "text")>>
        BY <3>2, <3>4
      <3> QED
        BY <3>3, <3>4
    <2>4. pre \o rest \in Seq(Client!Events) /\ Producing(produced \o (pre \o rest), TRUE, "text")
      BY <1>1, <2>2, <2>3, PartsProduced
    <2> QED
      BY <1>2, <2>1, <2>4, StaysProducing
  <1>3. CASE /\ Becomes(StartIfNeeded \o CloseBlock \o <<Within("open", "tool")>>, "tool")
             /\ messageStartSent' = TRUE /\ UNCHANGED toolUse
    <2> DEFINE pre == StartIfNeeded \o CloseBlock
               rest == <<Within("open", "tool")>>
    <2>1. Becomes(pre \o rest, "tool")
      BY <1>3
    <2>2. pre \in Seq(Client!Events) /\ Producing(produced \o pre, TRUE, "none")
      BY ClosesProduced
    <2> HIDE DEF pre
    <2>3. Opening("none", "tool") = rest
      BY <1>1, <2>2, ProducesOpen DEF Within
    <2>4. rest \in Seq(Client!Events) /\ Producing((produced \o pre) \o rest, TRUE, "tool")
      BY <1>1, <2>2, <2>3, ProducesOpen
    <2>5. pre \o rest \in Seq(Client!Events) /\ Producing(produced \o (pre \o rest), TRUE, "tool")
      BY <1>1, <2>2, <2>4, PartsProduced
    <2> HIDE DEF rest
    <2> QED
      BY <1>3, <2>1, <2>5, StaysProducing
  <1>4. CASE /\ block = "tool"
             /\ Becomes(<<Within("piece", "tool"), Within("close", "tool")>>, "none")
             /\ toolUse' = TRUE /\ UNCHANGED messageStartSent
    <2> DEFINE call == <<Within("piece", "tool"), Within("close", "tool")>>
    <2>1. messageStartSent = TRUE /\ Producing(produced, TRUE, "tool")
      BY <1>4 DEF Producing
    <2>2. call \in Seq(Client!Events) /\ Producing(produced \o call, TRUE, "none")
      BY <2>1, ProducesCall DEF Within
    <2> HIDE DEF call
    <2>3. Becomes(call, "none")
      BY <1>4 DEF call
    <2> QED
      BY <1>4, <2>1, <2>2, <2>3, StaysProducing
  <1> QED
    BY <1>2, <1>3, <1>4 DEF ResponsesChunk

LEMMA ClaudeChunkProduces ==
  ASSUME produced \in Seq(Client!Events), Chained(produced), messageStartSent \in BOOLEAN,
         toolUse \in BOOLEAN, ClaudeChunk
  PROVE  Produced /\ Chained(produced')
  <1>1. PICK e \in Client!Events :
          /\ Client!Follows(produced, e) /\ Becomes(<<e>>, "none")
          /\ toolUse' = (toolUse \/ (e.type \in {"delta", "bare"} /\ e.block = "tool"))
          /\ UNCHANGED messageStartSent
    BY DEF ClaudeChunk
  <1>2. After(LastOf(produced), e)
    BY <1>1, FollowsLast
  <1>3. Append(produced, e) = produced \o <<e>> /\ <<e>> \in Seq(Client!Events)
    BY AppendIsConcat, ListedPair
  <1>4. Chained(Append(produced, e))
    BY <1>2, ChainGrows
  <1>5. outbox' = <<e>> /\ produced' = produced \o <<e>> /\ block' = "none"
    BY <1>1, EmitsAre
  <1>6. toolUse' \in BOOLEAN /\ messageStartSent' \in BOOLEAN
    BY <1>1
  <1> QED
    BY <1>3, <1>4, <1>5, <1>6 DEF Produced

LEMMA RelayInvInit == RelayInit => RelayInv
  <1> SUFFICES ASSUME RelayInit PROVE RelayInv
    OBVIOUS
  <1> USE DEF RelayInit
  <1>1. << >> \in Seq(Client!Events) /\ Len(<< >>) = 0 /\ << >> \o << >> = << >>
    BY EmptySeq, ConcatEmptySeq
  <1>2. RelayTypes
    BY <1>1 DEF RelayTypes
  <1>3. Chained(<< >>)
    BY <1>1 DEF Chained
  <1>4. Producing(produced, messageStartSent, block)
    BY <1>1, <1>3 DEF Producing
  <1>5. Nothing.type = "nothing" /\ WithUsage(Nothing) = Nothing
    BY EventsAre DEF Nothing, WithUsage
  <1>6. Shown(<< >>)
    BY <1>1, <1>5 DEF Shown, LastOf
  <1>7. produced = << >> \o (Waiting \o outbox)
    BY <1>1 DEF Waiting
  <1>8. Handling
    BY <1>1, <1>6, <1>7 DEF Handling
  <1> QED
    BY <1>2, <1>3, <1>4, <1>8 DEF RelayInv

(* What the goroutine converts next joins the end of the queue.             *)
LEMMA ProducedKept ==
  ASSUME RelayInv, Scanning, Produced, Chained(produced'),
         UNCHANGED <<provider, channelVars, handlerVars, clientVars, listening>>,
         upstream' = "sending" /\ provider # "claude" =>
           Producing(produced', messageStartSent', block'),
         upstream' = "completed" => provider = "responses"
  PROVE  RelayInv'
  <1> USE DEF channelVars, handlerVars, clientVars
  <1>1. RelayTypes /\ outbox = << >> /\ closed = FALSE
    BY DEF RelayInv, Scanning, RelayTypes
  <1>2. produced' \in Seq(Client!Events)
    BY <1>1, ConcatProperties DEF Produced, RelayTypes
  <1>3. RelayTypes'
    BY <1>1, <1>2 DEF RelayTypes, Produced
  <1>4. Waiting' = Waiting /\ Waiting \in Seq(Client!Events)
    BY <1>1, ConcatProperties DEF Waiting, RelayTypes
  <1>5. ASSUME pc # "done" PROVE Handling'
    <2>1. PICK passed \in Seq(Client!Events) :
            produced = passed \o (Waiting \o outbox) /\ (listening => Shown(passed))
      BY <1>5 DEF RelayInv, Handling
    <2>2. Waiting \o outbox = Waiting
      BY <1>1, <1>4, ConcatEmptySeq
    <2>3. produced' = (passed \o Waiting) \o outbox' /\ outbox' \in Seq(Client!Events)
      BY <2>1, <2>2 DEF Produced
    <2>4. (passed \o Waiting) \o outbox' = passed \o (Waiting \o outbox')
      BY <1>4, <2>3, Regroup
    <2>5. listening => Shown(passed)'
      BY <1>4, <2>1 DEF Shown
    <2> QED
      BY <1>4, <2>3, <2>4, <2>5 DEF Handling
  <1> QED
    BY <1>1, <1>3, <1>5 DEF RelayInv

LEMMA ReadChunkKept == RelayInv /\ ReadChunk => RelayInv'
  <1> SUFFICES ASSUME RelayInv, ReadChunk PROVE RelayInv'
    OBVIOUS
  <1>1. RelayTypes /\ Chained(produced) /\ Scanning /\ upstream = "sending"
    BY DEF RelayInv, ReadChunk
  <1>2. UNCHANGED <<provider, upstream, channelVars, handlerVars, clientVars, listening>>
    BY DEF ReadChunk
  <1>3. CASE provider = "claude" /\ ClaudeChunk
    <2>1. Produced /\ Chained(produced')
      BY <1>1, <1>3, ClaudeChunkProduces DEF RelayTypes
    <2> QED
      BY <1>1, <1>2, <1>3, <2>1, ProducedKept
  <1>4. CASE provider \in {"openai", "gemini", "responses"} /\
             (OpenAIChunk \/ GeminiChunk \/ ResponsesChunk)
    <2>1. Producing(produced, messageStartSent, block) /\ toolUse \in BOOLEAN
      BY <1>1, <1>4 DEF RelayInv, RelayTypes
    <2>2. Produced /\ Producing(produced', messageStartSent', block')
      BY <1>4, <2>1, OpenAIChunkProduces, GeminiChunkProduces, ResponsesChunkProduces
    <2>3. Chained(produced')
      BY <2>2 DEF Producing
    <2> QED
      BY <1>1, <1>2, <2>2, <2>3, ProducedKept
  <1> QED
    BY <1>3, <1>4 DEF ReadChunk

LEMMA ReadCompletedKept == RelayInv /\ ReadCompleted => RelayInv'
  <1> SUFFICES ASSUME RelayInv, ReadCompleted PROVE RelayInv'
    OBVIOUS
  <1> DEFINE c == CloseBlock
             s == StartIfNeeded
             pre == c \o s
             end == <<Within("delta", StopReason), Bare("stop")>>
             t == produced \o c
  <1>1. /\ RelayTypes /\ Scanning /\ upstream = "sending" /\ provider = "responses"
        /\ Becomes(pre \o end, "none") /\ upstream' = "completed" /\ messageStartSent' = TRUE
        /\ UNCHANGED <<provider, chunks, toolUse, channelVars, handlerVars, clientVars, listening>>
    BY DEF RelayInv, ReadCompleted
  <1>2. produced \in Seq(Client!Events) /\ Producing(produced, messageStartSent, block)
    BY <1>1 DEF RelayInv, RelayTypes
  <1>3. c \in Seq(Client!Events) /\ Producing(t, messageStartSent, "none")
    BY <1>2, ClosesProduced
  <1> HIDE DEF c, t
  <1>4. s \in Seq(Client!Events) /\ Producing(t \o s, TRUE, "none")
    BY <1>3, ProducesStart, PartsAre
  <1> HIDE DEF s
  <1>5. produced \o pre = t \o s /\ pre \in Seq(Client!Events)
    BY <1>2, <1>3, <1>4, Regroup DEF t
  <1>6. Producing(produced \o pre, TRUE, "none")
    BY <1>4, <1>5
  <1> HIDE DEF pre
  <1>7. StopReason \in {"none", "tool"}
    BY DEF StopReason
  <1>8. /\ end \in Seq(Client!Events) /\ (produced \o pre) \o end \in Seq(Client!Events)
        /\ Chained((produced \o pre) \o end)
    BY <1>6, <1>7, ProducesEnd DEF Within, Bare
  <1> HIDE DEF end
  <1>9. produced \o (pre \o end) = (produced \o pre) \o end /\ pre \o end \in Seq(Client!Events)
    <2>1. produced \in Seq(Client!Events) /\ pre \in Seq(Client!Events) /\ end \in Seq(Client!Events)
      BY <1>2, <1>5, <1>8
    <2> QED
      BY <2>1, Regroup
  <1>10. outbox' = pre \o end /\ produced' = produced \o (pre \o end) /\ block' = "none"
    BY <1>1, EmitsAre
  <1>11. Produced /\ Chained(produced')
    BY <1>1, <1>8, <1>9, <1>10 DEF Produced, RelayTypes
  <1> QED
    BY <1>1, <1>11, ProducedKept

LEMMA ScanEndsKept == RelayInv /\ ScanEnds => RelayInv'
  <1> SUFFICES ASSUME RelayInv, ScanEnds PROVE RelayInv'
    OBVIOUS
  <1> DEFINE usage == IF provider = "openai" THEN "bare" ELSE "delta"
             final == IF messageStartSent /\ upstream' = "ended"
                       THEN <<Within(usage, StopReason), Bare("stop")>>
                       ELSE << >>
  <1>1. /\ RelayTypes /\ Chained(produced) /\ Scanning /\ upstream' \in {"ended", "broken"}
        /\ UNCHANGED <<provider, chunks, messageStartSent, toolUse, channelVars, handlerVars,
                       clientVars, listening>>
    BY DEF RelayInv, ScanEnds
  <1>2. Produced /\ Chained(produced')
    <2>1. CASE provider \in {"openai", "gemini"}
      <3>1. Becomes(CloseBlock \o final, "none")
        BY <2>1 DEF ScanEnds
      <3>2. upstream = "sending" /\ Producing(produced, messageStartSent, block)
        BY <1>1, <2>1 DEF RelayInv, Scanning
      <3>3. produced \in Seq(Client!Events)
        BY <1>1 DEF RelayTypes
      <3>4. /\ CloseBlock \in Seq(Client!Events)
            /\ Producing(produced \o CloseBlock, messageStartSent, "none")
        BY <3>2, ClosesProduced
      <3>5. usage \in {"delta", "bare"} /\ StopReason \in {"none", "tool"}
        BY DEF StopReason
      <3>6. final \in Seq(Client!Events) /\ Chained((produced \o CloseBlock) \o final)
        <4>1. CASE messageStartSent /\ upstream' = "ended"
          <5>1. messageStartSent = TRUE
            BY <1>1, <4>1 DEF RelayTypes
          <5>2. Producing(produced \o CloseBlock, TRUE, "none")
            BY <3>4, <5>1
          <5>3. final = <<Client!Within(usage, StopReason), Client!Bare("stop")>>
            BY <4>1 DEF Within, Bare
          <5> HIDE DEF final, usage
          <5> QED
            BY <3>5, <5>2, <5>3, ProducesEnd
        <4>2. CASE ~(messageStartSent /\ upstream' = "ended")
          <5>1. final = << >> /\ << >> \in Seq(Client!Events)
            BY <4>2, EmptySeq
          <5>2. (produced \o CloseBlock) \o << >> = produced \o CloseBlock
            BY <3>3, <3>4, ConcatProperties, ConcatEmptySeq
          <5>3. Chained(produced \o CloseBlock)
            BY <3>4 DEF Producing
          <5> QED
            BY <5>1, <5>2, <5>3
        <4> QED
          BY <4>1, <4>2
      <3> HIDE DEF final
      <3>7. outbox' = CloseBlock \o final /\ produced' = produced \o (CloseBlock \o final) /\ block' = "none"
        BY <3>1, EmitsAre
      <3>8. /\ produced \o (CloseBlock \o final) = (produced \o CloseBlock) \o final
            /\ CloseBlock \o final \in Seq(Client!Events)
        BY <3>3, <3>4, <3>6, Regroup
      <3>9. toolUse' \in BOOLEAN /\ messageStartSent' \in BOOLEAN
        BY <1>1 DEF RelayTypes
      <3> QED
        BY <3>6, <3>7, <3>8, <3>9 DEF Produced
    <2>2. CASE provider \notin {"openai", "gemini"}
      <3>1. Becomes(<< >>, block)
        BY <2>2 DEF ScanEnds
      <3>2. outbox' = << >> /\ produced' = produced \o << >> /\ block' = block
        BY <3>1, EmitsAre
      <3>3. produced \o << >> = produced /\ << >> \in Seq(Client!Events)
        BY <1>1, ConcatEmptySeq, EmptySeq DEF RelayTypes
      <3> QED
        BY <1>1, <3>2, <3>3 DEF Produced, RelayTypes
    <2> QED
      BY <2>1, <2>2
  <1> QED
    BY <1>1, <1>2, ProducedKept

(* Steps of the goroutine that convert nothing and move nothing.            *)
LEMMA ToldKept ==
  ASSUME RelayInv, upstream' \in {"reported", upstream}, closed' \in BOOLEAN,
         closed' => outbox = << >> /\ upstream' \in {"ended", "reported", "broken"},
         closed => closed',
         UNCHANGED <<provider, messageStartSent, block, toolUse, produced, outbox, eventChan,
                     handlerVars, clientVars, listening>>
  PROVE  RelayInv'
  <1> USE DEF handlerVars, clientVars
  <1>1. RelayTypes'
    BY DEF RelayInv, RelayTypes
  <1>2. ASSUME pc # "done" PROVE Handling'
    <2>1. Waiting' = Waiting
      BY DEF Waiting
    <2>2. PICK passed \in Seq(Client!Events) :
            produced = passed \o (Waiting \o outbox) /\ (listening => Shown(passed))
      BY <1>2 DEF RelayInv, Handling
    <2>3. listening => Shown(passed)'
      BY <2>1, <2>2 DEF Shown
    <2> QED
      BY <2>1, <2>2, <2>3 DEF Handling
  <1> QED
    BY <1>1, <1>2 DEF RelayInv

LEMMA SendKept == RelayInv /\ Send => RelayInv'
  <1> SUFFICES ASSUME RelayInv, Send PROVE RelayInv'
    OBVIOUS
  <1> USE DEF handlerVars, clientVars
  <1> DEFINE e == Head(outbox)
  <1>1. /\ RelayTypes /\ outbox # << >> /\ eventChan' = Append(eventChan, e) /\ outbox' = Tail(outbox)
        /\ UNCHANGED <<provider, chunks, upstream, messageStartSent, block, toolUse, produced, errChan,
                       closed, handlerVars, clientVars, listening>>
    BY DEF RelayInv, Send
  <1>2. /\ outbox \in Seq(Client!Events) /\ eventChan \in Seq(Client!Events)
        /\ buffered \in Seq(Client!Events)
    BY <1>1 DEF RelayTypes
  <1>3. e \in Client!Events /\ outbox' \in Seq(Client!Events) /\ outbox = <<e>> \o outbox'
    BY <1>1, <1>2, HeadFirst
  <1> HIDE DEF e
  <1>4. eventChan' = eventChan \o <<e>> /\ eventChan' \in Seq(Client!Events) /\ <<e>> \in Seq(Client!Events)
    BY <1>1, <1>2, <1>3, AppendIsConcat, AppendProperties, ListedPair
  <1>5. RelayTypes'
    BY <1>1, <1>3, <1>4 DEF RelayTypes
  <1>6. closed = FALSE
    BY <1>1 DEF RelayInv, RelayTypes
  <1>7. ASSUME pc # "done" PROVE Handling'
    <2>1. PICK passed \in Seq(Client!Events) :
            produced = passed \o (Waiting \o outbox) /\ (listening => Shown(passed))
      BY <1>7 DEF RelayInv, Handling
    <2>2. Waiting \in Seq(Client!Events) /\ Waiting' = Waiting \o <<e>>
      BY <1>1, <1>2, <1>4, Regroup DEF Waiting
    <2>3. Waiting' \o outbox' = Waiting \o outbox
      BY <1>3, <1>4, <2>2, Regroup
    <2>4. Waiting # << >> => Waiting' # << >> /\ Head(Waiting') = Head(Waiting)
      BY <1>4, <2>2, HeadFirst
    <2>5. listening => Shown(passed)'
      BY <1>1, <2>1, <2>4 DEF Shown
    <2> QED
      BY <1>1, <2>1, <2>3, <2>5 DEF Handling
  <1> QED
    BY <1>1, <1>5, <1>6, <1>7 DEF RelayInv

LEMMA ProvideKept == RelayInv /\ Provide => RelayInv'
  <1>1. RelayInv /\ ReadError => RelayInv'
    <2> SUFFICES ASSUME RelayInv, ReadError PROVE RelayInv'
      OBVIOUS
    <2>1. /\ upstream' = "reported" /\ closed' = closed /\ closed \in BOOLEAN /\ closed = FALSE
      BY DEF ReadError, Scanning, RelayInv, RelayTypes
    <2> QED
      BY <2>1, ToldKept DEF ReadError
  <1>2. RelayInv /\ Report => RelayInv'
    <2> SUFFICES ASSUME RelayInv, Report PROVE RelayInv'
      OBVIOUS
    <2>1. upstream' = "reported" /\ closed' = closed /\ closed = FALSE
      BY DEF Report, RelayInv, RelayTypes
    <2> QED
      BY <2>1, ToldKept DEF Report
  <1>3. RelayInv /\ Close => RelayInv'
    <2> SUFFICES ASSUME RelayInv, Close PROVE RelayInv'
      OBVIOUS
    <2>1. /\ upstream' = upstream /\ closed' = TRUE /\ outbox = << >>
          /\ upstream \in {"ended", "reported", "broken"}
      BY DEF Close, Hushed, upstreamVars
    <2> QED
      BY <2>1, ToldKept DEF Close, upstreamVars
  <1> QED
    BY <1>1, <1>2, <1>3, ReadChunkKept, ReadCompletedKept, ScanEndsKept, SendKept DEF Provide

-----------------------------------------------------------------------------
(* Messages: the handler keeps the invariant *)

(* The handler moves an event from eventChan to the end of buffered, or     *)
(* ends; what waits and what the client saw stay as they are.               *)
LEMMA SetAsideKept ==
  ASSUME RelayInv, eventChan' \in Seq(Client!Events), buffered' \in Seq(Client!Events),
         Waiting' = Waiting, pc = "preflight" \/ pc' = "done", result' # "success",
         draining' => pc' = "done",
         UNCHANGED <<upstreamVars, closed, clientVars, listening>>
  PROVE  RelayInv'
  <1> USE DEF upstreamVars, clientVars
  <1>1. RelayTypes'
    BY DEF RelayInv, RelayTypes
  <1>2. ASSUME pc' # "done" PROVE Handling'
    <2>1. PICK passed \in Seq(Client!Events) :
            produced = passed \o (Waiting \o outbox) /\ (listening => Shown(passed))
      BY <1>2 DEF RelayInv, Handling
    <2>2. listening => Shown(passed)'
      BY <2>1 DEF Shown
    <2> QED
      BY <2>1, <2>2 DEF Handling
  <1> QED
    BY <1>1, <1>2 DEF RelayInv

LEMMA PreflightEventKept == RelayInv /\ PreflightEvent => RelayInv'
  <1> SUFFICES ASSUME RelayInv, PreflightEvent PROVE RelayInv'
    OBVIOUS
  <1> DEFINE e == Head(eventChan)
  <1>1. /\ pc = "preflight" /\ eventChan # << >> /\ buffered' = Append(buffered, e)
        /\ eventChan' = Tail(eventChan)
        /\ UNCHANGED <<upstreamVars, errChan, closed, clientVars, listening>>
    BY DEF PreflightEvent
  <1>2. RelayTypes
    BY DEF RelayInv
  <1>3. eventChan \in Seq(Client!Events) /\ buffered \in Seq(Client!Events)
    BY <1>2 DEF RelayTypes
  <1>4. e \in Client!Events /\ eventChan' \in Seq(Client!Events) /\ eventChan = <<e>> \o eventChan'
    BY <1>1, <1>3, HeadFirst
  <1>5. \/ pc' = "done" /\ result' # "success"
        \/ pc' # "done" /\ UNCHANGED <<result, draining>>
    <2>1. pc # "done"
      BY <1>1
    <2> QED
      BY <2>1 DEF PreflightEvent, Accept, Refuse, Retreat, Return
  <1> HIDE DEF e
  <1>6. buffered' = buffered \o <<e>> /\ buffered' \in Seq(Client!Events) /\ <<e>> \in Seq(Client!Events)
    BY <1>1, <1>3, <1>4, AppendIsConcat, AppendProperties, ListedPair
  <1>7. Waiting' = Waiting
    BY <1>3, <1>4, <1>6, Regroup DEF Waiting
  <1>8. result' # "success"
    BY <1>1, <1>5 DEF RelayInv
  <1>9. draining' => pc' = "done"
    BY <1>1, <1>5 DEF RelayInv
  <1> QED
    BY <1>1, <1>4, <1>6, <1>7, <1>8, <1>9, SetAsideKept

LEMMA PreflightEndKept == RelayInv /\ (PreflightClosed \/ PreflightError \/ PreflightTimeout) => RelayInv'
  <1> SUFFICES ASSUME RelayInv, PreflightClosed \/ PreflightError \/ PreflightTimeout PROVE RelayInv'
    OBVIOUS
  <1>1. pc = "preflight"
    BY DEF PreflightClosed, PreflightError, PreflightTimeout
  <1>2. UNCHANGED <<upstreamVars, eventChan, closed, buffered, clientVars, listening>>
    BY DEF PreflightClosed, PreflightError, PreflightTimeout, channelVars
  <1>3. \/ pc' = "done" /\ result' # "success"
        \/ pc' # "done" /\ UNCHANGED <<result, draining>>
    BY <1>1 DEF PreflightClosed, PreflightError, PreflightTimeout, Accept, Refuse, Retreat, Return
  <1>4. Waiting' = Waiting
    BY <1>2 DEF Waiting
  <1>5. eventChan' \in Seq(Client!Events) /\ buffered' \in Seq(Client!Events)
    BY <1>2 DEF RelayInv, RelayTypes
  <1>6. result' # "success" /\ (draining' => pc' = "done")
    BY <1>1, <1>3 DEF RelayInv
  <1> QED
    BY <1>1, <1>2, <1>4, <1>5, <1>6, SetAsideKept

(* What the handler takes next is what waits first.                         *)
LEMMA UpcomingFirst ==
  ASSUME RelayTypes, Upcoming # << >>
  PROVE  /\ Waiting \in Seq(Client!Events) /\ Waiting # << >> /\ Head(Upcoming) = Head(Waiting)
         /\ buffered # << >> => Tail(buffered) \o eventChan = Tail(Waiting)
         /\ buffered = << >> => buffered \o Tail(eventChan) = Tail(Waiting)
  <1>1. buffered \in Seq(Client!Events) /\ eventChan \in Seq(Client!Events)
    BY DEF RelayTypes
  <1>2. CASE buffered # << >>
    BY <1>1, <1>2, HeadFirst, ConcatProperties DEF Upcoming, Waiting
  <1>3. CASE buffered = << >>
    <2>1. Upcoming = eventChan /\ Waiting = eventChan /\ eventChan # << >>
      BY <1>1, <1>3, ConcatEmptySeq DEF Upcoming, Waiting
    <2>2. buffered \o Tail(eventChan) = Tail(eventChan)
      BY <1>1, <1>3, <2>1, HeadFirst, ConcatEmptySeq
    <2> QED
      BY <1>1, <1>3, <2>1, <2>2
  <1> QED
    BY <1>2, <1>3

(* The events the client is to see in the place of those of the upstream.   *)
LEMMA WithUsageFacts ==
  ASSUME NEW e \in Client!Events
  PROVE  /\ WithUsage(e) \in Client!Events /\ WithUsage(e).type # "bare"
         /\ TellsUsage(WithUsage(e)) <=> TellsUsage(e)
         /\ ~ TellsUsage(e) => WithUsage(e) = e
         /\ WithUsage(e).type = (IF e.type = "bare" THEN "delta" ELSE e.type)
         /\ WithUsage(e).block = e.block
  <1>1. CASE e.type = "bare"
    <2>1. WithUsage(e) = Client!Within("delta", e.block) /\ e.block \in {"none", "tool"}
      BY <1>1, EventTypes DEF WithUsage, Within
    <2> QED
      BY <1>1, <2>1, EventsAre DEF TellsUsage
  <1>2. CASE e.type # "bare"
    BY <1>2 DEF WithUsage
  <1> QED
    BY <1>1, <1>2

LEMMA AfterWithUsage ==
  ASSUME NEW last, NEW e \in Client!Events, last \in Client!Events \/ last = Nothing, After(last, e)
  PROVE  After(WithUsage(last), WithUsage(e))
  <1>1. /\ WithUsage(last).type = (IF last.type = "bare" THEN "delta" ELSE last.type)
        /\ WithUsage(last).block = last.block
    <2>1. CASE last \in Client!Events
      BY <2>1, WithUsageFacts
    <2>2. CASE last = Nothing
      BY <2>2, EventsAre DEF Nothing, WithUsage
    <2> QED
      BY <2>1, <2>2
  <1>2. /\ WithUsage(e).type = (IF e.type = "bare" THEN "delta" ELSE e.type)
        /\ WithUsage(e).block = e.block
    BY WithUsageFacts
  <1> DEFINE l == WithUsage(last)
             f == WithUsage(e)
  <1> HIDE DEF l, f
  <1>3. /\ l.type = (IF last.type = "bare" THEN "delta" ELSE last.type) /\ l.block = last.block
        /\ f.type = (IF e.type = "bare" THEN "delta" ELSE e.type) /\ f.block = e.block
    BY <1>1, <1>2 DEF l, f
  <1>4. After(l, f)
    BY <1>3 DEF After, Client!IsError
  <1> QED
    BY <1>4 DEF l, f

LEMMA NextEvent ==
  ASSUME RelayInv, Upcoming # << >>, NEW passed \in Seq(Client!Events),
         produced = passed \o (Waiting \o outbox)
  PROVE  LET e == Head(Upcoming)
         IN  /\ e \in Client!Events /\ After(LastOf(passed), e)
             /\ Append(passed, e) \in Seq(Client!Events)
             /\ produced = Append(passed, e) \o (Tail(Waiting) \o outbox)
             /\ Waiting # << >> /\ Head(Waiting) = e
  <1> DEFINE e == Head(Upcoming)
             queue == Waiting \o outbox
  <1>1. /\ RelayTypes /\ outbox \in Seq(Client!Events) /\ Chained(produced)
    BY DEF RelayInv, RelayTypes
  <1>2. Waiting \in Seq(Client!Events) /\ Waiting # << >> /\ e = Head(Waiting)
    BY <1>1, UpcomingFirst
  <1>3. /\ e \in Client!Events /\ Tail(Waiting) \in Seq(Client!Events)
    BY <1>2, HeadFirst
  <1>4. queue # << >> /\ Head(queue) = e /\ Tail(queue) = Tail(Waiting) \o outbox
    BY <1>1, <1>2, HeadFirst
  <1>5. queue \in Seq(Client!Events) /\ Tail(queue) \in Seq(Client!Events)
    BY <1>1, <1>2, <1>3, <1>4, ConcatProperties
  <1> HIDE DEF e
  <1>6. After(LastOf(passed), e)
    <2>1. Chained(passed \o queue)
      BY <1>1
    <2> HIDE DEF queue
    <2> QED
      BY <1>4, <1>5, <2>1, ChainJoins
  <1>7. queue = <<e>> \o Tail(queue)
    <2> HIDE DEF queue
    <2> QED
      BY <1>4, <1>5, HeadFirst
  <1>8. /\ Append(passed, e) = passed \o <<e>> /\ Append(passed, e) \in Seq(Client!Events)
        /\ <<e>> \in Seq(Client!Events)
    BY <1>3, AppendIsConcat, AppendProperties, ListedPair
  <1>9. passed \o (<<e>> \o Tail(queue)) = (passed \o <<e>>) \o Tail(queue)
    <2> HIDE DEF queue
    <2> QED
      BY <1>5, <1>8, EventsRegroup
  <1>10. produced = Append(passed, e) \o (Tail(Waiting) \o outbox)
    <2>1. produced = passed \o queue
      OBVIOUS
    <2> HIDE DEF queue
    <2> QED
      BY <1>4, <1>7, <1>8, <1>9, <2>1, Zenon
  <1> QED
    BY <1>2, <1>3, <1>6, <1>8, <1>10 DEF e

LEMMA LastDelta ==
  ASSUME NEW s \in Seq(Client!Events), LastOf(s).type = "delta"
  PROVE  Client!Last(s).type = "delta"
  <1>1. s # << >>
    BY LastOfType
  <1>2. LastOf(s) = Last(s)
    BY <1>1 DEF LastOf
  <1> QED
    BY <1>2 DEF Last, Client!Last

(* An event that is forwarded may be written, and then is what was passed.  *)
LEMMA ForwardShows ==
  ASSUME RelayInv, Forward, listening, NEW passed \in Seq(Client!Events),
         produced = passed \o (Waiting \o outbox), Shown(passed),
         NEW more, more = Append(passed, Head(Upcoming))
  PROVE  LET e == Head(Upcoming)
         IN  /\ WithUsage(e) \in Client!Events /\ Client!Proper(written, WithUsage(e))
             /\ written' = Append(written, WithUsage(e))
             /\ Shown(more)'
  <1> DEFINE e == Head(Upcoming)
             f == WithUsage(e)
             last == LastOf(passed)
             seen == LastOf(written)
  <1>1. /\ Upcoming # << >> /\ ~ LacksUsage(e) /\ Write(f)
        /\ hasDeltaUsage' = (hasDeltaUsage \/ TellsUsage(e))
    BY DEF Forward
  <1>2. /\ e \in Client!Events /\ After(last, e) /\ Append(passed, e) \in Seq(Client!Events)
        /\ Head(Waiting) = e
    BY <1>1, NextEvent
  <1>3. /\ hasDeltaUsage \in BOOLEAN /\ clientGone = FALSE
    BY DEF RelayInv, RelayTypes
  <1>4. written' = Append(written, f)
    BY <1>1, <1>3 DEF Write
  <1>5. e.type = "stop" => hasDeltaUsage
    BY <1>1, <1>3 DEF LacksUsage
  <1>6. written \in Seq(Client!Events) /\ Content(written) = Content(passed)
    BY DEF Shown
  <1>7. /\ f \in Client!Events /\ f.type # "bare" /\ (TellsUsage(f) <=> TellsUsage(e))
        /\ ~ TellsUsage(e) => f = e
        /\ f.type = (IF e.type = "bare" THEN "delta" ELSE e.type)
    BY <1>2, WithUsageFacts
  <1>8. hasDeltaUsage => seen.type \in {"delta", "stop", "fault", "rejected"}
    BY DEF Shown
  <1>9. last \in Client!Events \/ last = Nothing
    BY LastOfType
  <1>10. After(seen, f) /\ (e.type = "stop" => seen.type = "delta")
    <2>1. CASE seen = WithUsage(last)
      <3>1. After(WithUsage(last), f)
        BY <1>2, <1>9, AfterWithUsage
      <3> HIDE DEF e, f, last, seen
      <3>2. After(seen, f)
        BY <2>1, <3>1
      <3>3. e.type = "stop" => f.type = "stop" /\ seen.type \in {"delta", "stop", "fault", "rejected"}
        BY <1>5, <1>7, <1>8
      <3> QED
        BY <3>2, <3>3 DEF After, Client!IsError
    <2>2. CASE seen = Client!Bare("delta") /\ Head(Waiting).type = "stop"
      <3>1. seen.type = "delta" /\ e.type = "stop"
        BY <1>2, <2>2, EventsAre
      <3> HIDE DEF e, f, seen
      <3>2. f.type = "stop"
        BY <1>7, <3>1
      <3> QED
        BY <3>1, <3>2 DEF After
    <2> QED
      BY <2>1, <2>2 DEF Shown
  <1> HIDE DEF e, f, last, seen
  <1>11. Client!Follows(written, f)
    BY <1>6, <1>10, FollowsLast DEF seen
  <1>12. f.type = "stop" => Client!Last(written).type = "delta"
    <2>1. f.type = "stop" => seen.type = "delta"
      BY <1>7, <1>10
    <2> QED
      BY <1>6, <2>1, LastDelta DEF seen
  <1>13. Client!Proper(written, f)
    BY <1>7, <1>11, <1>12 DEF Client!Proper
  <1>14. written' \in Seq(Client!Events) /\ LastOf(written') = f
    BY <1>4, <1>6, <1>7, AppendProperties, LastOfAppend
  <1>15. hasDeltaUsage' => f.type \in {"delta", "stop", "fault", "rejected"}
    <2>1. CASE TellsUsage(e)
      BY <1>7, <2>1 DEF TellsUsage
    <2>2. CASE ~ TellsUsage(e)
      <3>1. hasDeltaUsage' = hasDeltaUsage
        BY <1>1, <1>3, <2>2 DEF e
      <3> QED
        BY <1>7, <1>8, <1>10, <3>1 DEF After, Client!IsError
    <2> QED
      BY <2>1, <2>2
  <1>16. Content(written') = Content(more)
    <2>1. Content(Append(written, f)) = Content(written) \o (IF TellsUsage(f) THEN << >> ELSE <<f>>)
      BY <1>6, <1>7, ContentAppend
    <2>2. Content(Append(passed, e)) = Content(passed) \o (IF TellsUsage(e) THEN << >> ELSE <<e>>)
      BY <1>2, ContentAppend
    <2> QED
      BY <1>4, <1>6, <1>7, <2>1, <2>2 DEF e
  <1>17. LastOf(more) = e
    BY <1>2, LastOfAppend DEF e
  <1>18. Shown(more)'
    <2>1. LastOf(written') = WithUsage(LastOf(more))
      BY <1>14, <1>17 DEF f
    <2>2. hasDeltaUsage' => LastOf(written').type \in {"delta", "stop", "fault", "rejected"}
      BY <1>14, <1>15
    <2> QED
      BY <1>14, <1>16, <2>1, <2>2 DEF Shown
  <1> QED
    BY <1>4, <1>7, <1>13, <1>18 DEF e, f

LEMMA InjectShows ==
  ASSUME RelayInv, InjectUsage, listening, NEW passed \in Seq(Client!Events),
         produced = passed \o (Waiting \o outbox), Shown(passed)
  PROVE  /\ Client!Bare("delta") \in Client!Events /\ Client!Proper(written, Client!Bare("delta"))
         /\ written' = Append(written, Client!Bare("delta"))
         /\ Shown(passed)'
  <1> DEFINE e == Head(Upcoming)
             d == Client!Bare("delta")
             last == LastOf(passed)
             seen == LastOf(written)
  <1>1. /\ Upcoming # << >> /\ LacksUsage(e) /\ Write(d) /\ hasDeltaUsage' = TRUE
        /\ UNCHANGED <<upstreamVars, channelVars, handlerVars, clientGone, listening>>
    BY DEF InjectUsage, Bare
  <1>2. e \in Client!Events /\ After(last, e) /\ Waiting # << >> /\ Head(Waiting) = e
    BY <1>1, NextEvent
  <1>3. e.type = "stop" /\ ~ hasDeltaUsage /\ clientGone = FALSE
    BY <1>1 DEF LacksUsage, RelayInv, RelayTypes
  <1>4. d \in Client!Events /\ d.type = "delta"
    BY EventsAre
  <1>5. written' = Append(written, d)
    BY <1>1, <1>3 DEF Write
  <1>6. /\ written \in Seq(Client!Events) /\ Content(written) = Content(passed)
        /\ seen = WithUsage(last)
    BY <1>3 DEF Shown
  <1>7. last \in Client!Events \/ last = Nothing
    BY LastOfType
  <1> HIDE DEF e, d, last, seen
  <1>8. last.type \in {"start", "close", "delta", "bare"}
    BY <1>2, <1>3 DEF After, Client!IsError
  <1>9. After(last, d)
    BY <1>4, <1>8 DEF After
  <1>10. WithUsage(d) = d
    BY <1>4 DEF WithUsage
  <1>11. After(seen, d)
    BY <1>4, <1>6, <1>7, <1>9, <1>10, AfterWithUsage
  <1>12. Client!Proper(written, d)
    <2>1. Client!Follows(written, d)
      BY <1>6, <1>11, FollowsLast DEF seen
    <2> QED
      BY <1>4, <2>1 DEF Client!Proper
  <1>13. written' \in Seq(Client!Events) /\ LastOf(written') = d
    BY <1>4, <1>5, <1>6, AppendProperties, LastOfAppend
  <1>14. Content(written') = Content(passed)
    <2>1. Content(Append(written, d)) = Content(written) \o << >>
      BY <1>4, <1>6, ContentAppend DEF TellsUsage
    <2>2. Content(written) \in Seq(Client!Events)
      BY <1>6, ContentSeq
    <2> QED
      BY <1>5, <1>6, <2>1, <2>2, ConcatEmptySeq
  <1>15. Waiting' = Waiting
    BY <1>1 DEF Waiting, channelVars, handlerVars
  <1>16. Shown(passed)'
    <2>1. /\ hasDeltaUsage' /\ LastOf(written') = Client!Bare("delta")
          /\ LastOf(passed).type \in {"start", "close", "delta", "bare"}
          /\ Waiting' # << >> /\ Head(Waiting').type = "stop"
      BY <1>1, <1>2, <1>3, <1>8, <1>13, <1>15 DEF d, last
    <2>2. LastOf(written').type = "delta"
      BY <1>4, <1>13
    <2> QED
      BY <1>13, <1>14, <2>1, <2>2 DEF Shown
  <1> QED
    BY <1>4, <1>5, <1>12, <1>16 DEF d

LEMMA ForwardKept == RelayInv /\ Forward => RelayInv'
  <1> SUFFICES ASSUME RelayInv, Forward PROVE RelayInv'
    OBVIOUS
  <1> USE DEF upstreamVars
  <1>1. /\ RelayTypes /\ pc = "relay" /\ Upcoming # << >>
        /\ clientGone' = (clientGone \/ ~ listening)
        /\ UNCHANGED <<upstreamVars, errChan, closed, pc, rejected, result, draining, listening>>
    BY DEF RelayInv, Forward
  <1>2. Waiting' = Tail(Waiting) /\ buffered' \in Seq(Client!Events) /\ eventChan' \in Seq(Client!Events)
    <2>1. CASE buffered # << >>
      <3>1. buffered' = Tail(buffered) /\ eventChan' = eventChan
        BY <2>1 DEF Forward
      <3> QED
        BY <1>1, <2>1, <3>1, UpcomingFirst, HeadFirst DEF Waiting, RelayTypes
    <2>2. CASE buffered = << >>
      <3>1. eventChan' = Tail(eventChan) /\ buffered' = buffered /\ eventChan # << >>
        BY <1>1, <2>2 DEF Forward, Upcoming
      <3> QED
        BY <1>1, <2>2, <3>1, UpcomingFirst, HeadFirst DEF Waiting, RelayTypes
    <2> QED
      BY <2>1, <2>2
  <1>3. PICK passed \in Seq(Client!Events) :
          produced = passed \o (Waiting \o outbox) /\ (listening => Shown(passed))
    BY <1>1 DEF RelayInv, Handling
  <1>4. PICK more : more = Append(passed, Head(Upcoming))
    OBVIOUS
  <1>5. more \in Seq(Client!Events) /\ produced = more \o (Tail(Waiting) \o outbox)
    BY <1>1, <1>3, <1>4, NextEvent
  <1>6. listening => Shown(more)'
    BY <1>3, <1>4, ForwardShows
  <1>7. listening' => Shown(more)'
    BY <1>1, <1>6
  <1>8. produced' = more \o (Waiting' \o outbox')
    BY <1>1, <1>2, <1>5
  <1>9. Handling'
    BY <1>5, <1>7, <1>8 DEF Handling
  <1>10. RelayTypes'
    <2>1. written' \in Seq(Client!Events)
      <3>1. CASE listening
        BY <1>6, <3>1 DEF Shown
      <3>2. CASE ~ listening
        BY <1>1, <3>2 DEF Forward, Write, RelayTypes
      <3> QED
        BY <3>1, <3>2
    <2>2. hasDeltaUsage' \in BOOLEAN /\ clientGone' \in BOOLEAN
      BY <1>1 DEF Forward, TellsUsage, RelayTypes
    <2> QED
      BY <1>1, <1>2, <2>1, <2>2 DEF RelayTypes
  <1>11. clientGone' => ~ listening'
    BY <1>1 DEF RelayInv
  <1> QED
    BY <1>1, <1>9, <1>10, <1>11 DEF RelayInv

LEMMA InjectUsageKept == RelayInv /\ InjectUsage => RelayInv'
  <1> SUFFICES ASSUME RelayInv, InjectUsage PROVE RelayInv'
    OBVIOUS
  <1> USE DEF upstreamVars, channelVars, handlerVars
  <1>1. /\ RelayTypes /\ pc = "relay" /\ Upcoming # << >> /\ hasDeltaUsage' = TRUE
        /\ UNCHANGED <<upstreamVars, channelVars, handlerVars, clientGone, listening>>
    BY DEF RelayInv, InjectUsage
  <1>2. PICK passed \in Seq(Client!Events) :
          produced = passed \o (Waiting \o outbox) /\ (listening => Shown(passed))
    BY <1>1 DEF RelayInv, Handling
  <1>3. listening => Shown(passed)'
    BY <1>2, InjectShows
  <1>4. Waiting' = Waiting
    BY <1>1 DEF Waiting
  <1>5. Handling'
    BY <1>1, <1>2, <1>3, <1>4 DEF Handling
  <1>6. written' \in Seq(Client!Events)
    <2>1. CASE listening
      BY <1>3, <2>1 DEF Shown
    <2>2. CASE ~ listening
      BY <1>1, <2>2 DEF InjectUsage, Write, RelayTypes
    <2> QED
      BY <2>1, <2>2
  <1>7. RelayTypes'
    BY <1>1, <1>6 DEF RelayTypes
  <1> QED
    BY <1>1, <1>5, <1>7 DEF RelayInv

LEMMA RelayClosedKept == RelayInv /\ RelayClosed => RelayInv'
  <1> SUFFICES ASSUME RelayInv, RelayClosed PROVE RelayInv'
    OBVIOUS
  <1> USE DEF upstreamVars, channelVars, handlerVars, clientVars
  <1>1. /\ RelayTypes /\ pc = "relay" /\ Upcoming = << >> /\ closed /\ pc' = "done" /\ result' = "success"
        /\ UNCHANGED <<upstreamVars, channelVars, buffered, rejected, draining, clientVars, listening>>
    BY DEF RelayInv, RelayClosed, Return
  <1>2. PICK passed \in Seq(Client!Events) :
          produced = passed \o (Waiting \o outbox) /\ (listening => Shown(passed))
    BY <1>1 DEF RelayInv, Handling
  <1>3. buffered = << >> /\ eventChan = << >> /\ outbox = << >>
    BY <1>1 DEF Upcoming, RelayInv
  <1>4. produced = passed
    BY <1>2, <1>3, ConcatEmptySeq, EmptySeq DEF Waiting
  <1>5. listening => Content(written) = Content(produced)
    BY <1>2, <1>4 DEF Shown
  <1>6. RelayTypes'
    BY <1>1 DEF RelayTypes
  <1> QED
    BY <1>1, <1>5, <1>6 DEF RelayInv

(* The failure of the upstream is written as an error event.                *)
LEMMA FaultShows ==
  ASSUME RelayInv, RelayError
  PROVE  \/ written' = written
         \/ /\ written' = Append(written, Client!Bare("fault"))
            /\ Client!Bare("fault") \in Client!Events
            /\ Client!Proper(written, Client!Bare("fault"))
  <1> DEFINE f == Client!Bare("fault")
  <1>1. written' = written \/ written' = Append(written, f)
    BY DEF RelayError, Write, Bare
  <1>2. f \in Client!Events /\ f.type = "fault"
    BY EventsAre
  <1> HIDE DEF f
  <1>3. Client!Proper(written, f)
    BY <1>2 DEF Client!Proper, Client!Follows, Client!IsError
  <1> QED
    BY <1>1, <1>2, <1>3 DEF f

LEMMA RelayErrorKept == RelayInv /\ RelayError => RelayInv'
  <1> SUFFICES ASSUME RelayInv, RelayError PROVE RelayInv'
    OBVIOUS
  <1> USE DEF upstreamVars, channelVars, handlerVars
  <1>1. /\ RelayTypes /\ pc' = "done" /\ result' = "error"
        /\ UNCHANGED <<upstreamVars, eventChan, closed, buffered, rejected, draining, clientGone,
                       hasDeltaUsage, listening>>
    BY DEF RelayInv, RelayError, Return
  <1>2. written' \in Seq(Client!Events)
    <2>1. written \in Seq(Client!Events)
      BY <1>1 DEF RelayTypes
    <2>2. \/ written' = written
          \/ /\ written' = Append(written, Client!Bare("fault"))
             /\ Client!Bare("fault") \in Client!Events
      BY FaultShows
    <2>3. Client!Bare("fault") \in Client!Events =>
            Append(written, Client!Bare("fault")) \in Seq(Client!Events)
      BY <2>1, AppendProperties
    <2> QED
      BY <2>1, <2>2, <2>3
  <1>3. RelayTypes'
    BY <1>1, <1>2 DEF RelayTypes
  <1> QED
    BY <1>1, <1>3 DEF RelayInv

LEMMA DrainKept == RelayInv /\ Drain => RelayInv'
  <1> SUFFICES ASSUME RelayInv, Drain PROVE RelayInv'
    OBVIOUS
  <1> USE DEF upstreamVars, handlerVars, clientVars
  <1>1. /\ RelayTypes /\ pc = "done"
        /\ UNCHANGED <<upstreamVars, closed, handlerVars, clientVars, listening>>
    BY DEF RelayInv, Drain
  <1>2. eventChan' \in Seq(Client!Events)
    <2>1. eventChan \in Seq(Client!Events)
      BY <1>1 DEF RelayTypes
    <2>2. eventChan # << >> => Tail(eventChan) \in Seq(Client!Events)
      BY <2>1, HeadFirst
    <2> QED
      BY <2>1, <2>2 DEF Drain
  <1>3. RelayTypes'
    BY <1>1, <1>2 DEF RelayTypes
  <1> QED
    BY <1>1, <1>3 DEF RelayInv

LEMMA ClientLeavesKept == RelayInv /\ ClientLeaves => RelayInv'
  <1> SUFFICES ASSUME RelayInv, ClientLeaves PROVE RelayInv'
    OBVIOUS
  <1> USE DEF upstreamVars, channelVars, handlerVars, clientVars
  <1>1. /\ RelayTypes /\ pc # "done" /\ listening' = FALSE
        /\ UNCHANGED <<upstreamVars, channelVars, handlerVars, clientVars>>
    BY DEF RelayInv, ClientLeaves
  <1>2. Waiting' = Waiting
    BY <1>1 DEF Waiting
  <1>3. Handling'
    BY <1>1, <1>2 DEF RelayInv, Handling
  <1>4. RelayTypes'
    BY <1>1 DEF RelayTypes
  <1> QED
    BY <1>1, <1>3, <1>4 DEF RelayInv

(* No step of the provider, the handler or the client breaks the invariant. *)
LEMMA RelayInvStep == RelayInv /\ [RelayNext]_relayVars => RelayInv'
  <1>1. RelayInv /\ UNCHANGED relayVars => RelayInv'
    <2> SUFFICES ASSUME RelayInv, UNCHANGED relayVars PROVE RelayInv'
      OBVIOUS
    <2> USE DEF relayVars, upstreamVars, channelVars, handlerVars, clientVars
    <2>1. RelayTypes'
      BY DEF RelayInv, RelayTypes
    <2>2. Waiting' = Waiting
      BY DEF Waiting
    <2>3. ASSUME Handling PROVE Handling'
      <3>1. PICK passed \in Seq(Client!Events) :
              produced = passed \o (Waiting \o outbox) /\ (listening => Shown(passed))
        BY <2>3 DEF Handling
      <3>2. listening => Shown(passed)'
        BY <2>2, <3>1 DEF Shown
      <3> QED
        BY <2>2, <3>1, <3>2 DEF Handling
    <2> QED
      BY <2>1, <2>3 DEF RelayInv
  <1> QED
    BY <1>1, ProvideKept, PreflightEventKept, PreflightEndKept, InjectUsageKept, ForwardKept,
       RelayClosedKept, RelayErrorKept, DrainKept, ClientLeavesKept
    DEF RelayNext, Handle

(* Only what is proper is written.                                          *)
LEMMA OnlyProperWritten ==
  RelayInv /\ [RelayNext]_relayVars =>
    [\E e \in Client!Events : Client!Proper(written, e) /\ written' = Append(written, e)]_written
  <1> SUFFICES ASSUME RelayInv, [RelayNext]_relayVars, written' # written
               PROVE  \E e \in Client!Events : Client!Proper(written, e) /\ written' = Append(written, e)
    OBVIOUS
  <1>1. Forward \/ InjectUsage \/ RelayError
    BY DEF RelayNext, Provide, Handle, ReadChunk, ReadCompleted, ReadError, ScanEnds, Send, Report, Close,
           PreflightEvent, PreflightClosed, PreflightError, PreflightTimeout, RelayClosed, Drain,
           ClientLeaves, relayVars, clientVars
  <1>2. CASE RelayError
    BY <1>2, FaultShows
  <1>3. CASE Forward \/ InjectUsage
    <2>1. pc # "done" /\ listening
      BY <1>3 DEF Forward, InjectUsage, Write
    <2>2. PICK passed \in Seq(Client!Events) :
            produced = passed \o (Waiting \o outbox) /\ Shown(passed)
      BY <2>1 DEF RelayInv, Handling
    <2>3. CASE InjectUsage
      BY <2>1, <2>2, <2>3, InjectShows
    <2>4. CASE Forward
      <3>1. PICK more : more = Append(passed, Head(Upcoming))
        OBVIOUS
      <3> QED
        BY <2>1, <2>2, <2>4, <3>1, ForwardShows
    <2> QED
      BY <1>3, <2>3, <2>4
  <1> QED
    BY <1>1, <1>2, <1>3

-----------------------------------------------------------------------------
(* Messages: the theorems *)

LEMMA RelayInvAlways == RelaySpec => []RelayInv
  <1> QED
    BY RelayInvInit, RelayInvStep, PTL DEF RelaySpec

LEMMA RelayWholeOf == RelayInv => StreamWhole
  BY DEF RelayInv, StreamWhole

(* A Messages stream that came to its end reaches the client whole: what the *)
(* preflight held back and the grouping delayed is neither lost nor moved.  *)
THEOREM MessagesWhole == RelaySpec => []StreamWhole
  <1> QED
    BY RelayInvAlways, RelayWholeOf, PTL

(* Whatever the upstream, and whether its events are passed on or converted, *)
(* the client of Messages sees a stream of the Messages API.                *)
THEOREM MessagesProper == RelaySpec => ClientStreamProper
  <1>1. RelayInit => written = << >>
    BY DEF RelayInit
  <1> QED
    BY <1>1, RelayInvAlways, OnlyProperWritten, PTL DEF RelaySpec, ClientStreamProper, Client!MessageSpec

-----------------------------------------------------------------------------
(* Chat and Gemini: the relay's invariant *)

Told(s) == {s[i].type : i \in DOMAIN s}
CallsDone(s) == {i \in DOMAIN s : s[i].type = "done" /\ s[i].kind = "function_call"}

ChunksHeard == [type : {"reasoning", "content", "finish", "usage", "done"}, calls : Nat]
ItemLines == [type : {"created", "added", "delta", "inDelta", "done", "completed"}, item : Nat,
              kind : Items!Kinds \cup {"none"}, output : SUBSET Nat]
FeedLines == Claude!Events \cup {DoneLine} \cup {Choice(parts) : parts \in SUBSET Parts}
               \cup {[type |-> "usage"]} \cup ItemLines \cup ChunksHeard

(* What is said of a step of ChunkSpec, for any two histories.              *)
Extends(s, t) ==
  /\ Len(s) <= Len(t)
  /\ s = SubSeq(t, 1, Len(s))
  /\ \A i \in Len(s) + 1 .. Len(t) : Reading!MayFollow(SubSeq(t, 1, i - 1), t[i])

(* From an upstream that speaks Claude.                                     *)
ClaudeHeard ==
  /\ "usage" \notin Told(heard)
  /\ "finish" \in Told(heard) =>
       /\ feed # << >>
       /\ feed[Len(feed)].type \in {"delta", "bare", "stop", "fault", "rejected", "[DONE]"}
  /\ doneSent => "[DONE]" \in Told(feed)
  /\ reading /\ ~ doneSent => "done" \notin Told(heard)
  /\ doneSent \/ (~ reading /\ path[1] = "chat") => Last(heard) = Chunk("done")

Finishes(s) == \E i \in DOMAIN s : s[i].type = "choice" /\ "finish" \in s[i].parts

(* From OpenAI to Gemini.                                                   *)
OpenAIHeard ==
  /\ "done" \notin Told(heard)
  /\ Told(heard) \cap {"finish", "usage"} # {} => Finishes(feed)
  /\ "usage" \in Told(heard) => "usage" \in Told(feed)

(* From Responses to Gemini: the items have the numbers 1 to n, and only    *)
(* the last of them may be open.                                            *)
ResponsesHeard ==
  /\ Told(heard) \cap {"done", "usage"} = {}
  /\ "finish" \in Told(heard) => "completed" \in Told(feed)
  /\ "completed" \in Told(feed) => Last(heard).calls = functionCalls
  /\ IsFiniteSet(CallsDone(feed)) /\ functionCalls = Cardinality(CallsDone(feed))
  /\ \E n \in Nat : /\ Items!With(feed, "added") = 1..n
                    /\ Items!With(feed, "added") \ Items!With(feed, "done") \subseteq {n}
  /\ \A j \in DOMAIN feed :
       /\ feed[j].type = "added" /\ feed[j].kind = "function_call"
       /\ feed[j].item \notin Items!With(feed, "done")
       => currentFuncName

ChunkTypes ==
  /\ path \in Routes /\ reading \in BOOLEAN /\ doneSent \in BOOLEAN
  /\ currentFuncName \in BOOLEAN /\ functionCalls \in Nat
  /\ feed \in Seq(FeedLines) /\ heard \in Seq(ChunksHeard)

ChunkInv ==
  /\ ChunkTypes /\ Pieces(heard) = Pieces(feed)
  /\ Passed => heard = feed
  /\ path[2] = "claude" => ClaudeHeard
  /\ path = <<"gemini", "openai">> => OpenAIHeard
  /\ path = <<"gemini", "responses">> => ResponsesHeard

-----------------------------------------------------------------------------
(* Chat and Gemini: lines and chunks *)

LEMMA ToldAppend ==
  ASSUME NEW S, NEW s \in Seq(S), NEW e \in S
  PROVE  Told(Append(s, e)) = Told(s) \cup {e.type}
  <1> DEFINE t == Append(s, e)
  <1>1. /\ Len(s) \in Nat /\ DOMAIN s = 1..Len(s) /\ DOMAIN t = 1..(Len(s) + 1)
        /\ \A i \in 1..Len(s) : t[i] = s[i]
        /\ t[Len(s) + 1] = e
    BY LenProperties, AppendProperties
  <1> HIDE DEF t
  <1>2. \A i \in 1..(Len(s) + 1) : i \in 1..Len(s) \/ i = Len(s) + 1
    BY <1>1
  <1>3. 1..Len(s) \subseteq 1..(Len(s) + 1) /\ Len(s) + 1 \in 1..(Len(s) + 1)
    BY <1>1
  <1>4. Told(t) = Told(s) \cup {e.type}
    BY <1>1, <1>2, <1>3 DEF Told
  <1> QED
    BY <1>4 DEF t

LEMMA ItemsAppend ==
  ASSUME NEW S, NEW s \in Seq(S), NEW e \in S, NEW type
  PROVE  Items!With(Append(s, e), type) =
           Items!With(s, type) \cup (IF e.type = type THEN {e.item} ELSE {})
  <1> DEFINE t == Append(s, e)
  <1>1. /\ Len(s) \in Nat /\ DOMAIN s = 1..Len(s) /\ DOMAIN t = 1..(Len(s) + 1)
        /\ \A i \in 1..Len(s) : t[i] = s[i]
        /\ t[Len(s) + 1] = e
    BY LenProperties, AppendProperties
  <1> HIDE DEF t
  <1>2. \A i \in 1..(Len(s) + 1) : i \in 1..Len(s) \/ i = Len(s) + 1
    BY <1>1
  <1>3. 1..Len(s) \subseteq 1..(Len(s) + 1) /\ Len(s) + 1 \in 1..(Len(s) + 1)
    BY <1>1
  <1>4. Items!With(t, type) = Items!With(s, type) \cup (IF e.type = type THEN {e.item} ELSE {})
    BY <1>1, <1>2, <1>3 DEF Items!With
  <1> QED
    BY <1>4 DEF t

LEMMA CallsAppend ==
  ASSUME NEW S, NEW s \in Seq(S), NEW e \in S, IsFiniteSet(CallsDone(s))
  PROVE  /\ IsFiniteSet(CallsDone(Append(s, e)))
         /\ Cardinality(CallsDone(Append(s, e))) =
              IF e.type = "done" /\ e.kind = "function_call" THEN Cardinality(CallsDone(s)) + 1
                                                             ELSE Cardinality(CallsDone(s))
  <1> DEFINE t == Append(s, e)
             n == Len(s) + 1
  <1>1. /\ Len(s) \in Nat /\ DOMAIN s = 1..Len(s) /\ DOMAIN t = 1..n
        /\ \A i \in 1..Len(s) : t[i] = s[i]
        /\ t[n] = e
    BY LenProperties, AppendProperties
  <1> HIDE DEF t
  <1>2. /\ \A i \in 1..n : i \in 1..Len(s) \/ i = n
        /\ 1..Len(s) \subseteq 1..n /\ n \in 1..n /\ n \notin 1..Len(s)
    BY <1>1
  <1> HIDE DEF n
  <1>3. n \notin CallsDone(s)
    BY <1>1, <1>2 DEF CallsDone
  <1>4. CASE e.type = "done" /\ e.kind = "function_call"
    <2>1. CallsDone(t) = CallsDone(s) \cup {n}
      BY <1>1, <1>2, <1>4 DEF CallsDone
    <2> QED
      BY <1>3, <1>4, <2>1, FS_AddElement DEF t
  <1>5. CASE ~(e.type = "done" /\ e.kind = "function_call")
    <2>1. CallsDone(t) = CallsDone(s)
      BY <1>1, <1>2, <1>5 DEF CallsDone
    <2> QED
      BY <1>5, <2>1 DEF t
  <1> QED
    BY <1>4, <1>5

PieceNames == {"reasoning", "content"}

LEMMA PiecesOfType == \A x : PiecesOf(x) \in Seq(PieceNames)
  <1> SUFFICES ASSUME NEW x PROVE PiecesOf(x) \in Seq(PieceNames)
    OBVIOUS
  <1>1. << >> \in Seq(PieceNames) /\ \A n \in PieceNames : <<n>> \in Seq(PieceNames)
    BY EmptySeq
  <1>2. "reasoning" \in PieceNames /\ "content" \in PieceNames
    BY DEF PieceNames
  <1>3. CASE x.type = "choice"
    <2> DEFINE r == IF "reasoning" \in x.parts THEN <<"reasoning">> ELSE << >>
               c == IF "content" \in x.parts THEN <<"content">> ELSE << >>
    <2>1. PiecesOf(x) = r \o c
      BY <1>3 DEF PiecesOf
    <2>2. r \in Seq(PieceNames) /\ c \in Seq(PieceNames)
      BY <1>1, <1>2
    <2> HIDE DEF r, c
    <2> QED
      BY <2>1, <2>2, ConcatProperties
  <1>4. CASE x.type \in {"reasoning", "content"}
    <2>1. PiecesOf(x) = <<x.type>>
      BY <1>4 DEF PiecesOf
    <2> QED
      BY <1>1, <1>4, <2>1 DEF PieceNames
  <1>5. CASE x.type = "delta" /\ "kind" \in DOMAIN x
    <2>1. PiecesOf(x) \in {<<"content">>, <<"reasoning">>, << >>}
      BY <1>5 DEF PiecesOf
    <2> QED
      BY <1>1, <1>2, <2>1
  <1>6. CASE x.type = "piece" /\ x.block # "tool"
    <2>1. PiecesOf(x) \in {<<"content">>, <<"reasoning">>}
      BY <1>6 DEF PiecesOf
    <2> QED
      BY <1>1, <1>2, <2>1
  <1>7. CASE x.type = "blank" /\ x.block = "text"
    <2>1. PiecesOf(x) = <<"content">>
      BY <1>7 DEF PiecesOf
    <2> QED
      BY <1>1, <1>2, <2>1
  <1>8. CASE /\ x.type # "choice" /\ x.type \notin {"reasoning", "content"}
             /\ ~(x.type = "delta" /\ "kind" \in DOMAIN x)
             /\ ~(x.type = "piece" /\ x.block # "tool") /\ ~(x.type = "blank" /\ x.block = "text")
    <2>1. PiecesOf(x) = << >>
      BY <1>8 DEF PiecesOf
    <2> QED
      BY <1>1, <2>1
  <1> QED
    BY <1>3, <1>4, <1>5, <1>6, <1>7, <1>8

LEMMA PiecesAppend ==
  ASSUME NEW S, NEW s \in Seq(S), NEW e \in S
  PROVE  /\ Pieces(s) \in Seq(PieceNames)
         /\ Pieces(Append(s, e)) = Pieces(s) \o PiecesOf(e)
  <1> DEFINE t == Append(s, e)
             parts == [i \in DOMAIN s |-> PiecesOf(s[i])]
             more == [i \in DOMAIN t |-> PiecesOf(t[i])]
  <1>1. /\ Len(s) \in Nat /\ DOMAIN s = 1..Len(s) /\ DOMAIN t = 1..(Len(s) + 1)
        /\ \A i \in 1..Len(s) : t[i] = s[i]
        /\ t[Len(s) + 1] = e
    BY LenProperties, AppendProperties
  <1>2. Pieces(s) = FlattenSeq(parts) /\ Pieces(t) = FlattenSeq(more)
    BY DEF Pieces
  <1> HIDE DEF t
  <1>3. parts \in Seq(Seq(PieceNames)) /\ Len(parts) = Len(s)
    BY <1>1, PiecesOfType
  <1>4. more \in Seq(Seq(PieceNames)) /\ Len(more) = Len(s) + 1
    BY <1>1, PiecesOfType
  <1>5. PiecesOf(e) \in Seq(PieceNames)
    BY PiecesOfType
  <1>6. \A i \in 1..Len(s) : parts[i] = PiecesOf(s[i]) /\ more[i] = PiecesOf(s[i])
    BY <1>1
  <1>7. more[Len(s) + 1] = PiecesOf(e)
    BY <1>1
  <1> HIDE DEF parts, more
  <1>8. more = Append(parts, PiecesOf(e))
    <2>1. /\ Append(parts, PiecesOf(e)) \in Seq(Seq(PieceNames))
          /\ Len(Append(parts, PiecesOf(e))) = Len(s) + 1
          /\ \A i \in 1..Len(s) : Append(parts, PiecesOf(e))[i] = parts[i]
          /\ Append(parts, PiecesOf(e))[Len(s) + 1] = PiecesOf(e)
      BY <1>3, <1>5, AppendProperties
    <2>2. \A i \in 1..(Len(s) + 1) : more[i] = Append(parts, PiecesOf(e))[i]
      BY <1>1, <1>6, <1>7, <2>1
    <2> QED
      BY <1>4, <2>1, <2>2, SeqEqual
  <1>9. /\ FlattenSeq(parts) \in Seq(PieceNames)
        /\ FlattenSeq(Append(parts, PiecesOf(e))) = FlattenSeq(parts) \o PiecesOf(e)
    BY <1>3, <1>5, FlattenAppend
  <1> QED
    BY <1>2, <1>8, <1>9 DEF t

-----------------------------------------------------------------------------
(* Chat and Gemini: what is written grows by what may follow *)

(* t is h and what may follow it, with the pieces p.                        *)
Grown(h, t, p) == t \in Seq(ChunksHeard) /\ Extends(h, t) /\ Pieces(t) = Pieces(h) \o p

LEMMA ExtendsOne ==
  ASSUME NEW S, NEW g \in Seq(S), NEW h \in Seq(S), NEW c \in S,
         Extends(g, h), Reading!MayFollow(h, c)
  PROVE  Extends(g, Append(h, c))
  <1> DEFINE t == Append(h, c)
             m == Len(g)
             n == Len(h)
  <1>1. /\ m \in Nat /\ n \in Nat /\ t \in Seq(S) /\ Len(t) = n + 1
        /\ t[n + 1] = c /\ \A i \in 1..n : t[i] = h[i]
    BY LenProperties, AppendProperties
  <1>2. /\ m <= n /\ g = SubSeq(h, 1, m)
        /\ \A i \in m + 1 .. n : Reading!MayFollow(SubSeq(h, 1, i - 1), h[i])
    BY DEF Extends
  <1>6. h \in Seq(S) /\ Len(h) = n
    OBVIOUS
  <1> HIDE DEF t, m, n
  <1>3. ASSUME NEW k \in 0..n PROVE SubSeq(t, 1, k) = SubSeq(h, 1, k)
    <2>1. /\ SubSeq(t, 1, k) \in Seq(S) /\ Len(SubSeq(t, 1, k)) = k
          /\ \A i \in 1..k : SubSeq(t, 1, k)[i] = t[i]
      <3>1. k \in Nat /\ k <= n + 1 /\ n + 1 \in Nat
        BY <1>1
      <3> QED
        BY <1>1, <3>1, SubSeqProperties
    <2>2. /\ SubSeq(h, 1, k) \in Seq(S) /\ Len(SubSeq(h, 1, k)) = k
          /\ \A i \in 1..k : SubSeq(h, 1, k)[i] = h[i]
      <3>1. k \in Nat /\ k <= n
        BY <1>1
      <3> QED
        BY <1>6, <3>1, SubSeqProperties
    <2>3. \A i \in 1..k : i \in 1..n
      BY <1>1
    <2>4. \A i \in 1..k : SubSeq(t, 1, k)[i] = SubSeq(h, 1, k)[i]
      BY <1>1, <2>1, <2>2, <2>3
    <2> QED
      BY <2>1, <2>2, <2>4, SeqEqual
  <1>4. SubSeq(h, 1, n) = h
    BY <1>6, SubSeqFull
  <1>5. ASSUME NEW i \in m + 1 .. n + 1 PROVE Reading!MayFollow(SubSeq(t, 1, i - 1), t[i])
    <2>1. CASE i = n + 1
      <3>1. i - 1 = n /\ n \in 0..n
        BY <1>1, <2>1
      <3>2. SubSeq(t, 1, i - 1) = h
        BY <1>3, <1>4, <3>1
      <3>3. t[i] = c
        BY <1>1, <2>1
      <3>4. Reading!MayFollow(h, c)
        OBVIOUS
      <3> QED
        BY <3>2, <3>3, <3>4
    <2>2. CASE i # n + 1
      <3>1. i \in m + 1 .. n /\ i - 1 \in 0..n /\ i \in 1..n
        BY <1>1, <2>2
      <3> QED
        BY <1>1, <1>2, <1>3, <3>1
    <2> QED
      BY <2>1, <2>2
  <1> QED
    BY <1>1, <1>2, <1>3, <1>5 DEF Extends, t, m, n

LEMMA GrownNone == ASSUME NEW h \in Seq(ChunksHeard) PROVE Grown(h, h, << >>)
  <1>1. Len(h) \in Nat /\ SubSeq(h, 1, Len(h)) = h
    BY SubSeqFull
  <1>2. \A i \in Len(h) + 1 .. Len(h) : FALSE
    BY <1>1
  <1>3. Extends(h, h)
    BY <1>1, <1>2 DEF Extends
  <1>4. Pieces(h) \in Seq(PieceNames)
    <2>1. Reading!Chunk("done") \in ChunksHeard
      BY DEF Reading!Chunk, ChunksHeard
    <2> QED
      BY <2>1, PiecesAppend
  <1> QED
    BY <1>3, <1>4, ConcatEmptySeq DEF Grown

LEMMA GrownOne ==
  ASSUME NEW h \in Seq(ChunksHeard), NEW t, NEW p \in Seq(PieceNames), Grown(h, t, p),
         NEW c \in ChunksHeard, Reading!MayFollow(t, c)
  PROVE  Grown(h, Append(t, c), p \o PiecesOf(c))
  <1>1. t \in Seq(ChunksHeard) /\ Extends(h, t) /\ Pieces(t) = Pieces(h) \o p
    BY DEF Grown
  <1>2. Append(t, c) \in Seq(ChunksHeard) /\ Extends(h, Append(t, c))
    BY <1>1, ExtendsOne, AppendProperties
  <1>3. Pieces(Append(t, c)) = Pieces(t) \o PiecesOf(c) /\ Pieces(h) \in Seq(PieceNames)
        /\ PiecesOf(c) \in Seq(PieceNames)
    BY <1>1, PiecesAppend, PiecesOfType
  <1>4. (Pieces(h) \o p) \o PiecesOf(c) = Pieces(h) \o (p \o PiecesOf(c))
    BY <1>3, ConcatAssociative
  <1> QED
    BY <1>1, <1>2, <1>3, <1>4 DEF Grown

(* One chunk, or none.                                                      *)
LEMMA GrownBy ==
  ASSUME NEW h \in Seq(ChunksHeard), NEW c \in ChunksHeard, Reading!MayFollow(h, c)
  PROVE  Grown(h, Append(h, c), PiecesOf(c))
  <1>1. << >> \in Seq(PieceNames) /\ PiecesOf(c) \in Seq(PieceNames)
    BY EmptySeq, PiecesOfType
  <1>2. << >> \o PiecesOf(c) = PiecesOf(c)
    BY <1>1, ConcatEmptySeq
  <1>3. Grown(h, h, << >>)
    BY GrownNone
  <1>4. Grown(h, Append(h, c), << >> \o PiecesOf(c))
    BY <1>1, <1>3, GrownOne
  <1> QED
    BY <1>2, <1>4

(* The names of the chunks, and their pieces.                               *)
LEMMA ChunksAre ==
  ASSUME NEW type \in {"reasoning", "content", "finish", "usage", "done"}, NEW n \in Nat
  PROVE  /\ Chunk(type) \in ChunksHeard /\ Chunk(type).type = type
         /\ Chunk(type) = Reading!Chunk(type)
         /\ Reading!ChunkWithCalls(n) \in ChunksHeard /\ Reading!ChunkWithCalls(n).type = "finish"
         /\ Reading!ChunkWithCalls(n).calls = n
         /\ PiecesOf(Chunk(type)) = IF type \in PieceNames THEN <<type>> ELSE << >>
         /\ PiecesOf(Reading!ChunkWithCalls(n)) = << >>
  <1>1. Chunk(type) \in ChunksHeard /\ Chunk(type).type = type /\ Chunk(type) = Reading!Chunk(type)
    BY DEF Chunk, Reading!Chunk, ChunksHeard
  <1>2. /\ Reading!ChunkWithCalls(n) \in ChunksHeard /\ Reading!ChunkWithCalls(n).type = "finish"
        /\ Reading!ChunkWithCalls(n).calls = n
    BY DEF Reading!ChunkWithCalls, ChunksHeard
  <1> QED
    BY <1>1, <1>2 DEF PiecesOf, PieceNames

(* What a line may be is told by its type.                                  *)
LEMMA LineTypes ==
  ASSUME NEW x \in FeedLines
  PROVE  /\ x.type \in {"created", "added", "done", "completed"} /\ x \notin ChunksHeard => x \in ItemLines
         /\ x.type = "choice" => \E parts \in SUBSET Parts : x = Choice(parts)
  <1>1. CASE x \in Claude!Events
    BY <1>1 DEF Claude!Events, Claude!Bare, Claude!Within
  <1>2. CASE x \in {DoneLine, [type |-> "usage"]}
    BY <1>2 DEF DoneLine
  <1>3. CASE x \in {Choice(parts) : parts \in SUBSET Parts}
    BY <1>3 DEF Choice
  <1>4. CASE x \in ItemLines \cup ChunksHeard
    BY <1>4 DEF ItemLines, ChunksHeard
  <1> QED
    BY <1>1, <1>2, <1>3, <1>4 DEF FeedLines

-----------------------------------------------------------------------------
(* Chat and Gemini: one line *)

(* RelayLine, of one line.                                                  *)
Relays(line) ==
  /\ reading /\ line \in Feed \ {DoneLine}
  /\ feed' = Append(feed, line)
  /\ heard' = heard \o Becoming(line)
  /\ CollectCall(line)
  /\ UNCHANGED <<path, reading, doneSent>>

LEMMA LineGrows ==
  ASSUME ChunkTypes, Pieces(heard) = Pieces(feed), NEW line \in FeedLines,
         feed' = Append(feed, line), Grown(heard, heard', PiecesOf(line))
  PROVE  /\ feed' \in Seq(FeedLines) /\ heard' \in Seq(ChunksHeard)
         /\ Pieces(heard') = Pieces(feed') /\ Extends(heard, heard')
  <1>1. feed \in Seq(FeedLines) /\ heard' \in Seq(ChunksHeard) /\ Extends(heard, heard')
        /\ Pieces(heard') = Pieces(heard) \o PiecesOf(line)
    BY DEF ChunkTypes, Grown
  <1>2. Pieces(Append(feed, line)) = Pieces(feed) \o PiecesOf(line)
    BY <1>1, PiecesAppend
  <1>3. Append(feed, line) \in Seq(FeedLines)
    BY <1>1, AppendProperties
  <1> QED
    BY <1>1, <1>2, <1>3

LEMMA PassedLine ==
  ASSUME ChunkInv, Passed, NEW line, Relays(line)
  PROVE  line \in FeedLines /\ heard' = feed' /\ Grown(heard, heard', PiecesOf(line))
  <1>1. heard \in Seq(ChunksHeard) /\ heard = feed /\ line \in OwnFeed /\ Becoming(line) = <<line>>
    BY DEF ChunkInv, ChunkTypes, Relays, Feed, Becoming
  <1>2. line \in ChunksHeard /\ Reading!MayFollow(heard, line)
    BY <1>1, ChunksAre DEF OwnFeed
  <1>3. heard' = Append(heard, line)
    BY <1>1, <1>2, AppendIsConcat DEF Relays
  <1>4. Grown(heard, heard', PiecesOf(line))
    BY <1>1, <1>2, <1>3, GrownBy
  <1> QED
    BY <1>1, <1>2, <1>3, <1>4 DEF Relays, FeedLines

ClaudePath == path \in {<<"chat", "claude">>, <<"gemini", "claude">>}

LEMMA ClaudeBecomes ==
  ASSUME NEW e \in Claude!Events, NEW b \in {ClaudeToChat(e), ClaudeToGemini(e)}
  PROVE  \/ b = << >> /\ PiecesOf(e) = << >>
         \/ \E type \in {"reasoning", "content", "finish"} :
              /\ b = <<Chunk(type)>> /\ PiecesOf(e) = PiecesOf(Chunk(type))
              /\ IF type = "finish" THEN e.type \in {"delta", "bare"} ELSE e.type \in {"piece", "blank"}
  <1>1. /\ "kind" \notin DOMAIN e
        /\ e.type \in {"start", "delta", "bare", "stop", "fault", "rejected", "open", "piece",
                       "blank", "close"}
        /\ e.block \in {"text", "thinking", "tool", "none"}
        /\ e.type = "piece" => e.block \in {"text", "thinking", "tool"}
    BY DEF Claude!Events, Claude!Bare, Claude!Within, Claude!Blocks
  <1>2. CASE e.type = "piece" /\ e.block = "thinking"
    <2>1. b = <<Chunk("reasoning")>> /\ PiecesOf(e) = <<"reasoning">>
      BY <1>2 DEF ClaudeToChat, ClaudeToGemini, PiecesOf
    <2>2. PiecesOf(Chunk("reasoning")) = <<"reasoning">>
      BY ChunksAre DEF PieceNames
    <2> QED
      BY <1>2, <2>1, <2>2
  <1>3. CASE e.type \in {"piece", "blank"} /\ e.block = "text"
    <2>1. b = <<Chunk("content")>> /\ PiecesOf(e) = <<"content">>
      BY <1>3 DEF ClaudeToChat, ClaudeToGemini, PiecesOf
    <2>2. PiecesOf(Chunk("content")) = <<"content">>
      BY ChunksAre DEF PieceNames
    <2> QED
      BY <1>3, <2>1, <2>2
  <1>4. CASE e.type \in {"delta", "bare"}
    <2>1. b \in {<<Chunk("finish")>>, << >>} /\ PiecesOf(e) = << >>
      BY <1>1, <1>4 DEF ClaudeToChat, ClaudeToGemini, PiecesOf
    <2>2. PiecesOf(Chunk("finish")) = << >>
      BY ChunksAre DEF PieceNames
    <2> QED
      BY <1>4, <2>1, <2>2
  <1>5. CASE /\ ~(e.type = "piece" /\ e.block = "thinking")
             /\ ~(e.type \in {"piece", "blank"} /\ e.block = "text")
             /\ e.type \notin {"delta", "bare"}
    BY <1>1, <1>5 DEF ClaudeToChat, ClaudeToGemini, PiecesOf
  <1> QED
    BY <1>2, <1>3, <1>4, <1>5

LEMMA ClaudeLast ==
  ASSUME NEW s \in Seq(FeedLines), NEW e \in Claude!Events, Claude!Follows(s, e), s # << >>,
         s[Len(s)].type \in {"delta", "bare", "stop", "fault", "rejected", "[DONE]"}
  PROVE  e.type \in {"delta", "bare", "stop", "fault", "rejected"}
  BY DEF Claude!Follows, Claude!Last, Claude!IsError

LEMMA ClaudeLineHeard ==
  ASSUME ChunkInv, ClaudePath, NEW line, Relays(line)
  PROVE  line \in FeedLines /\ ClaudeHeard' /\ Grown(heard, heard', PiecesOf(line))
  <1>1. /\ ChunkTypes /\ ClaudeHeard /\ ~ Passed /\ path[2] = "claude" /\ reading
        /\ feed \in Seq(FeedLines) /\ heard \in Seq(ChunksHeard)
    BY DEF ChunkInv, ChunkTypes, ClaudePath, Passed, Relays
  <1>2. "[DONE]" \notin Told(feed) /\ line \in ClaudeFeed
    BY <1>1 DEF Relays, Feed, Told, Fed
  <1>3. line \in Claude!Events /\ Claude!Follows(feed, line)
    BY <1>2 DEF ClaudeFeed, Relays
  <1>4. line \in FeedLines /\ line.type # "[DONE]"
    BY <1>3, EventTypes DEF FeedLines, Claude!Events, Claude!Bare, Claude!Within
  <1>5. ~ doneSent /\ "done" \notin Told(heard) /\ "usage" \notin Told(heard)
    BY <1>1, <1>2 DEF ClaudeHeard
  <1>6. feed' # << >> /\ feed'[Len(feed')] = line
    BY <1>1, <1>4, AppendFacts DEF Relays, Last
  <1>7. "finish" \in Told(heard) => line.type \in {"delta", "bare", "stop", "fault", "rejected"}
    BY <1>1, <1>3, ClaudeLast DEF ClaudeHeard
  <1>8. Becoming(line) \in {ClaudeToChat(line), ClaudeToGemini(line)}
    BY <1>1 DEF ClaudePath, Becoming
  <1>9. heard' = heard \o Becoming(line) /\ reading' = reading /\ doneSent' = doneSent /\ path' = path
        /\ feed' = Append(feed, line)
    BY DEF Relays
  <1>10. CASE Becoming(line) = << >> /\ PiecesOf(line) = << >>
    <2>1. heard' = heard
      BY <1>1, <1>9, <1>10, ConcatEmptySeq
    <2>2. Grown(heard, heard', PiecesOf(line))
      BY <1>1, <1>10, <2>1, GrownNone
    <2>3. ClaudeHeard'
      BY <1>1, <1>5, <1>6, <1>7, <1>9, <2>1 DEF ClaudeHeard
    <2> QED
      BY <1>4, <2>2, <2>3
  <1>11. ASSUME NEW type \in {"reasoning", "content", "finish"}, Becoming(line) = <<Chunk(type)>>,
                PiecesOf(line) = PiecesOf(Chunk(type)),
                IF type = "finish" THEN line.type \in {"delta", "bare"} ELSE line.type \in {"piece", "blank"}
         PROVE  ClaudeHeard' /\ Grown(heard, heard', PiecesOf(line))
    <2> DEFINE c == Chunk(type)
    <2>1. c \in ChunksHeard /\ c.type = type
      BY ChunksAre
    <2>2. Becoming(line) = <<c>> /\ PiecesOf(line) = PiecesOf(c)
      BY <1>11
    <2> HIDE DEF c
    <2>3. heard' = Append(heard, c)
      BY <1>1, <1>9, <2>1, <2>2, AppendIsConcat
    <2>4. Told(heard') = Told(heard) \cup {type}
      BY <1>1, <2>1, <2>3, ToldAppend
    <2>5. Reading!MayFollow(heard, c)
      <3>1. type \in {"reasoning", "content"} => "finish" \notin Told(heard)
        BY <1>7, <1>11
      <3> QED
        BY <1>5, <2>1, <3>1 DEF Reading!MayFollow, Told
    <2>6. Grown(heard, heard', PiecesOf(line))
      BY <1>1, <2>1, <2>2, <2>3, <2>5, GrownBy
    <2>7. ClaudeHeard'
      BY <1>1, <1>5, <1>6, <1>7, <1>9, <1>11, <2>4 DEF ClaudeHeard
    <2> QED
      BY <2>6, <2>7
  <1>12. \/ Becoming(line) = << >> /\ PiecesOf(line) = << >>
         \/ \E type \in {"reasoning", "content", "finish"} :
              /\ Becoming(line) = <<Chunk(type)>> /\ PiecesOf(line) = PiecesOf(Chunk(type))
              /\ IF type = "finish" THEN line.type \in {"delta", "bare"} ELSE line.type \in {"piece", "blank"}
    BY <1>3, <1>8, ClaudeBecomes
  <1> QED
    BY <1>4, <1>10, <1>11, <1>12

LEMMA PartGrown ==
  ASSUME NEW h \in Seq(ChunksHeard), NEW t, NEW p \in Seq(PieceNames), Grown(h, t, p), NEW line,
         NEW type \in {"reasoning", "content", "finish"}, "done" \notin Told(t),
         type \in PieceNames => Told(t) \cap {"finish", "usage"} = {}
  PROVE  LET more == IF type \in line.parts THEN PiecesOf(Chunk(type)) ELSE << >>
         IN  /\ Grown(h, t \o PartOf(line, type), p \o more) /\ p \o more \in Seq(PieceNames)
             /\ Told(t \o PartOf(line, type)) = Told(t) \cup (IF type \in line.parts THEN {type} ELSE {})
  <1>1. t \in Seq(ChunksHeard)
    BY DEF Grown
  <1>2. CASE type \notin line.parts
    <2>1. t \o PartOf(line, type) = t /\ p \o << >> = p
      BY <1>1, <1>2, ConcatEmptySeq DEF PartOf
    <2> QED
      BY <1>2, <2>1
  <1>3. CASE type \in line.parts
    <2> DEFINE c == Chunk(type)
    <2>1. c \in ChunksHeard /\ c.type = type /\ PartOf(line, type) = <<c>>
      BY <1>3, ChunksAre DEF PartOf
    <2> HIDE DEF c
    <2>2. t \o PartOf(line, type) = Append(t, c)
      BY <1>1, <2>1, AppendIsConcat
    <2>3. Reading!MayFollow(t, c)
      BY <2>1 DEF Reading!MayFollow, Told, PieceNames
    <2>4. Grown(h, Append(t, c), p \o PiecesOf(c))
      BY <2>1, <2>3, GrownOne
    <2>5. Told(Append(t, c)) = Told(t) \cup {type}
      BY <1>1, <2>1, ToldAppend
    <2>6. p \o PiecesOf(c) \in Seq(PieceNames)
      BY PiecesOfType, ConcatProperties
    <2> QED
      BY <1>3, <2>2, <2>4, <2>5, <2>6 DEF c
  <1> QED
    BY <1>2, <1>3

LEMMA FinishesAppend ==
  ASSUME NEW S, NEW s \in Seq(S), NEW e \in S
  PROVE  /\ Finishes(s) => Finishes(Append(s, e))
         /\ e.type = "choice" /\ "finish" \in e.parts => Finishes(Append(s, e))
  <1> DEFINE t == Append(s, e)
  <1>1. /\ Len(s) \in Nat /\ DOMAIN s = 1..Len(s) /\ DOMAIN t = 1..(Len(s) + 1)
        /\ \A i \in 1..Len(s) : t[i] = s[i]
        /\ t[Len(s) + 1] = e
    BY LenProperties, AppendProperties
  <1> HIDE DEF t
  <1>2. 1..Len(s) \subseteq 1..(Len(s) + 1) /\ Len(s) + 1 \in 1..(Len(s) + 1)
    BY <1>1
  <1>3. (Finishes(s) => Finishes(t)) /\ (e.type = "choice" /\ "finish" \in e.parts => Finishes(t))
    BY <1>1, <1>2 DEF Finishes
  <1> QED
    BY <1>3 DEF t

LEMMA ChunksRegroup ==
  \A a, b, c \in Seq(ChunksHeard) :
    b \o c \in Seq(ChunksHeard) /\ a \o (b \o c) = (a \o b) \o c
  BY Regroup

LEMMA OpenAILineHeard ==
  ASSUME ChunkInv, path = <<"gemini", "openai">>, NEW line, Relays(line)
  PROVE  line \in FeedLines /\ OpenAIHeard' /\ Grown(heard, heard', PiecesOf(line))
  <1>1. /\ OpenAIHeard /\ ~ Passed /\ path[2] = "openai"
        /\ feed \in Seq(FeedLines) /\ heard \in Seq(ChunksHeard)
    BY DEF ChunkInv, ChunkTypes, Passed
  <1>2. "[DONE]" \notin Told(feed) /\ line \in OpenAIFeed /\ line # DoneLine
    BY <1>1 DEF Relays, Feed, Told, Fed
  <1>3. heard' = heard \o OpenAIToGemini(line) /\ feed' = Append(feed, line) /\ path' = path
    BY <1>1 DEF Relays, Becoming
  <1>4. "done" \notin Told(heard)
    BY <1>1 DEF OpenAIHeard
  <1>5. CASE line = [type |-> "usage"]
    <2> DEFINE c == Chunk("usage")
    <2>1. Finishes(feed) /\ "usage" \notin Told(feed)
      BY <1>2, <1>5 DEF OpenAIFeed, Finishes, Told, Fed, Choice
    <2>2. c \in ChunksHeard /\ c.type = "usage" /\ PiecesOf(c) = << >>
      BY ChunksAre DEF PieceNames
    <2>3. OpenAIToGemini(line) = <<c>> /\ PiecesOf(line) = << >> /\ line \in FeedLines
      BY <1>5 DEF OpenAIToGemini, PiecesOf, FeedLines
    <2> HIDE DEF c
    <2>4. heard' = Append(heard, c)
      BY <1>1, <1>3, <2>2, <2>3, AppendIsConcat
    <2>5. "usage" \notin Told(heard)
      BY <1>1, <2>1 DEF OpenAIHeard
    <2>6. Reading!MayFollow(heard, c)
      BY <1>4, <2>2, <2>5 DEF Reading!MayFollow, Told
    <2>7. Grown(heard, heard', PiecesOf(line))
      BY <1>1, <2>2, <2>3, <2>4, <2>6, GrownBy
    <2>8. Told(heard') = Told(heard) \cup {"usage"}
      BY <1>1, <2>2, <2>4, ToldAppend
    <2>9. Told(feed') = Told(feed) \cup {"usage"}
      BY <1>1, <1>3, <1>5, <2>3, ToldAppend
    <2>10. Finishes(feed')
      BY <1>1, <1>3, <2>1, <2>3, FinishesAppend
    <2> QED
      BY <1>4, <2>3, <2>7, <2>8, <2>9, <2>10 DEF OpenAIHeard
  <1>6. CASE line # [type |-> "usage"]
    <2>1. PICK parts \in SUBSET Parts : line = Choice(parts)
      BY <1>2, <1>6 DEF OpenAIFeed
    <2>2. line.type = "choice" /\ line.parts = parts /\ line \in FeedLines
      BY <2>1 DEF Choice, FeedLines
    <2>3. ~ Finishes(feed)
      BY <1>2, <1>6 DEF OpenAIFeed, Finishes
    <2>4. Told(heard) \cap {"finish", "usage"} = {}
      BY <1>1, <2>3 DEF OpenAIHeard
    <2> DEFINE r == PartOf(line, "reasoning")
               k == PartOf(line, "content")
               f == PartOf(line, "finish")
               pr == IF "reasoning" \in line.parts THEN PiecesOf(Chunk("reasoning")) ELSE << >>
               pk == IF "content" \in line.parts THEN PiecesOf(Chunk("content")) ELSE << >>
               pf == IF "finish" \in line.parts THEN PiecesOf(Chunk("finish")) ELSE << >>
               h1 == heard \o r
               h2 == h1 \o k
               h3 == h2 \o f
               p1 == << >> \o pr
               p2 == p1 \o pk
               p3 == p2 \o pf
    <2>5. << >> \in Seq(PieceNames) /\ Grown(heard, heard, << >>)
      BY <1>1, GrownNone, EmptySeq
    <2>6. /\ Grown(heard, h1, p1) /\ p1 \in Seq(PieceNames)
          /\ Told(h1) = Told(heard) \cup (IF "reasoning" \in line.parts THEN {"reasoning"} ELSE {})
      BY <1>1, <1>4, <2>4, <2>5, PartGrown
    <2> HIDE DEF h1, p1
    <2>7. "done" \notin Told(h1) /\ Told(h1) \cap {"finish", "usage"} = {}
      BY <1>4, <2>4, <2>6
    <2>8. /\ Grown(heard, h2, p2) /\ p2 \in Seq(PieceNames)
          /\ Told(h2) = Told(h1) \cup (IF "content" \in line.parts THEN {"content"} ELSE {})
      BY <1>1, <2>6, <2>7, PartGrown
    <2> HIDE DEF h2, p2
    <2>9. "done" \notin Told(h2) /\ Told(h2) \cap {"finish", "usage"} = {}
      BY <2>7, <2>8
    <2>10. /\ Grown(heard, h3, p3) /\ "finish" \notin PieceNames
           /\ Told(h3) = Told(h2) \cup (IF "finish" \in line.parts THEN {"finish"} ELSE {})
      <3>1. "finish" \notin PieceNames
        BY DEF PieceNames
      <3> QED
        BY <1>1, <2>8, <2>9, <3>1, PartGrown
    <2> HIDE DEF h3, p3
    <2>11. r \in Seq(ChunksHeard) /\ k \in Seq(ChunksHeard) /\ f \in Seq(ChunksHeard)
      <3>1. \A type \in {"reasoning", "content", "finish"} : PartOf(line, type) \in Seq(ChunksHeard)
        <4> SUFFICES ASSUME NEW type \in {"reasoning", "content", "finish"}
                     PROVE  PartOf(line, type) \in Seq(ChunksHeard)
          OBVIOUS
        <4>1. Chunk(type) \in ChunksHeard
          BY ChunksAre
        <4> QED
          BY <4>1, EmptySeq DEF PartOf
      <3> QED
        BY <3>1
    <2>12. OpenAIToGemini(line) = (r \o k) \o f
      BY <2>2 DEF OpenAIToGemini
    <2>13. PiecesOf(line) = p3
      <3>1. /\ PiecesOf(Chunk("reasoning")) = <<"reasoning">> /\ PiecesOf(Chunk("content")) = <<"content">>
            /\ PiecesOf(Chunk("finish")) = << >>
        <4>1. \A type \in {"reasoning", "content", "finish"} :
                PiecesOf(Chunk(type)) = IF type \in PieceNames THEN <<type>> ELSE << >>
          BY ChunksAre
        <4> QED
          BY <4>1 DEF PieceNames
      <3>2. PiecesOf(line) = pr \o pk
        BY <2>2, <3>1, Zenon DEF PiecesOf
      <3>3. pr \in Seq(PieceNames) /\ pf = << >>
        BY <3>1, <2>5, PiecesOfType
      <3> HIDE DEF pr, pk, pf
      <3>4. p1 = pr /\ p3 = p2
        BY <2>8, <3>3, ConcatEmptySeq DEF p1, p3
      <3> QED
        BY <3>2, <3>4 DEF p2
    <2> HIDE DEF r, k, f
    <2>14. heard' = h3
      <3> DEFINE rk == r \o k
      <3>5. heard \in Seq(ChunksHeard) /\ f \in Seq(ChunksHeard)
        BY <1>1, <2>11
      <3>6. r \in Seq(ChunksHeard) /\ k \in Seq(ChunksHeard)
        BY <2>11
      <3>1. rk \in Seq(ChunksHeard)
        BY <3>6, ChunksRegroup
      <3>2. heard \o rk = (heard \o r) \o k
        <4>1. heard \in Seq(ChunksHeard) /\ r \in Seq(ChunksHeard) /\ k \in Seq(ChunksHeard)
          BY <3>5, <3>6
        <4> QED
          BY <4>1, ChunksRegroup
      <3>3. heard' = heard \o (rk \o f)
        BY <1>3, <2>12
      <3> HIDE DEF rk
      <3>4. heard \o (rk \o f) = (heard \o rk) \o f
        BY <3>1, <3>5, ChunksRegroup
      <3> QED
        BY <3>2, <3>3, <3>4 DEF h3, h2, h1
    <2>15. "finish" \in line.parts => Finishes(feed')
      BY <1>1, <1>3, <2>2, FinishesAppend
    <2>16. Told(h3) \cap {"finish", "usage"} # {} => "finish" \in line.parts
      BY <2>9, <2>10
    <2>17. "done" \notin Told(h3) /\ "usage" \notin Told(h3)
      BY <2>9, <2>10
    <2>18. OpenAIHeard'
      BY <2>14, <2>15, <2>16, <2>17 DEF OpenAIHeard
    <2> QED
      BY <2>2, <2>10, <2>13, <2>14, <2>18
  <1> QED
    BY <1>5, <1>6

LEMMA ResponsesLineHeard ==
  ASSUME ChunkInv, path = <<"gemini", "responses">>, NEW line, Relays(line)
  PROVE  line \in FeedLines /\ ResponsesHeard' /\ Grown(heard, heard', PiecesOf(line))
         /\ functionCalls' \in Nat /\ currentFuncName' \in BOOLEAN
  <1> DEFINE added == Items!With(feed, "added")
             finished == Items!With(feed, "done")
  <1>1. /\ ResponsesHeard /\ ~ Passed /\ path[2] = "responses" /\ functionCalls \in Nat
        /\ currentFuncName \in BOOLEAN /\ feed \in Seq(FeedLines) /\ heard \in Seq(ChunksHeard)
    BY DEF ChunkInv, ChunkTypes, Passed
  <1>2. line \in ResponsesFeed /\ "completed" \notin Told(feed)
    <2>1. line \in ResponsesFeed
      BY <1>1 DEF Relays, Feed
    <2>2. Fed("completed") => ResponsesFeed = {}
      BY DEF ResponsesFeed
    <2> QED
      BY <2>1, <2>2 DEF Told, Fed
  <1>3. /\ heard' = heard \o ResponsesToGemini(line) /\ feed' = Append(feed, line) /\ path' = path
        /\ CollectCall(line)
    BY <1>1 DEF Relays, Becoming, Passed
  <1>4. PICK n \in Nat : added = 1..n /\ added \ finished \subseteq {n}
    BY <1>1 DEF ResponsesHeard
  <1>5. Cardinality(added) + 1 = n + 1 /\ Cardinality(added) = n
    BY <1>4, FS_Interval
  <1>6. Told(heard) \cap {"done", "usage", "finish"} = {}
    BY <1>1, <1>2 DEF ResponsesHeard
  <1>7. \A i \in added : \E j \in DOMAIN feed : feed[j].type = "added" /\ feed[j].item = i
    BY DEF Items!With
  <1>8. \A j \in DOMAIN feed : feed[j].type = "added" => feed[j] \in ItemLines
    <2> SUFFICES ASSUME NEW j \in DOMAIN feed, feed[j].type = "added" PROVE feed[j] \in ItemLines
      OBVIOUS
    <2>1. feed[j] \in FeedLines
      BY <1>1
    <2> QED
      BY <2>1, LineTypes DEF ChunksHeard
  (* The kinds of line, and what is known of each.                          *)
  <1>9. \/ line = Items!Plain("created")
        \/ \E i \in added \ finished, j \in DOMAIN feed :
             /\ feed[j].type = "added" /\ feed[j].item = i
             /\ line \in {Items!About(t, i, feed[j].kind) : t \in {"delta", "done"}}
        \/ \E i \in added : line = Items!About("inDelta", i, "reasoning")
        \/ added \subseteq finished /\ \E k \in Items!Kinds : line = Items!About("added", n + 1, k)
        \/ line = Items!Completed("none", added)
    <2>1. CASE feed = << >>
      BY <1>2, <2>1 DEF ResponsesFeed
    <2>2. CASE feed # << >> /\ added \subseteq finished
      <3>1. ~ Fed("completed")
        BY <1>2 DEF Told, Fed
      <3>2. added \ finished = {}
        BY <2>2
      <3>3. line \in {Items!About("added", n + 1, k) : k \in Items!Kinds} \cup {Items!Completed("none", added)}
        BY <1>2, <1>5, <2>2, <3>1, <3>2 DEF ResponsesFeed
      <3> QED
        BY <2>2, <3>3
    <2>3. CASE feed # << >> /\ ~(added \subseteq finished)
      <3> DEFINE J(i) == CHOOSE j \in DOMAIN feed : feed[j].type = "added" /\ feed[j].item = i
      <3>1. ~ Fed("completed") /\ added \ finished # {}
        BY <1>2, <2>3 DEF Told, Fed
      <3>2. \/ line \in {Items!About(t, i, feed[J(i)].kind) : t \in {"delta", "done"}, i \in added \ finished}
            \/ line \in {Items!About("inDelta", i, "reasoning") :
                           i \in {j \in added \ finished : feed[J(j)].kind = "reasoning"}}
        BY <1>2, <2>3, <3>1 DEF ResponsesFeed
      <3>3. ASSUME NEW t \in {"delta", "done"}, NEW i \in added \ finished,
                   line = Items!About(t, i, feed[J(i)].kind)
            PROVE  /\ feed[J(i)].type = "added" /\ feed[J(i)].item = i /\ J(i) \in DOMAIN feed
                   /\ line \in {Items!About(u, i, feed[J(i)].kind) : u \in {"delta", "done"}}
        <4>1. J(i) \in DOMAIN feed /\ feed[J(i)].type = "added" /\ feed[J(i)].item = i
          BY <1>7
        <4> HIDE DEF J
        <4> QED
          BY <3>3, <4>1
      <3> HIDE DEF J
      <3> QED
        BY <3>2, <3>3
    <2> QED
      BY <2>1, <2>2, <2>3
  <1>10. /\ Told(feed') = Told(feed) \cup {line.type}
         /\ \A type : Items!With(feed', type) =
                        Items!With(feed, type) \cup (IF line.type = type THEN {line.item} ELSE {})
         /\ IsFiniteSet(CallsDone(feed'))
         /\ Cardinality(CallsDone(feed')) =
              IF line.type = "done" /\ line.kind = "function_call" THEN functionCalls + 1
                                                                   ELSE functionCalls
         /\ feed' \in Seq(FeedLines \cup {line}) /\ Len(feed') = Len(feed) + 1 /\ DOMAIN feed = 1..Len(feed)
         /\ DOMAIN feed' = 1..Len(feed') /\ Len(feed) \in Nat
         /\ feed'[Len(feed')] = line /\ \A j \in DOMAIN feed : feed'[j] = feed[j]
    <2> DEFINE S == FeedLines \cup {line}
    <2>1. feed \in Seq(S) /\ line \in S
      BY <1>1
    <2> HIDE DEF S
    <2>2. Told(Append(feed, line)) = Told(feed) \cup {line.type}
      BY <2>1, ToldAppend
    <2>3. \A type : Items!With(Append(feed, line), type) =
                        Items!With(feed, type) \cup (IF line.type = type THEN {line.item} ELSE {})
      BY <2>1, ItemsAppend
    <2>4. IsFiniteSet(CallsDone(feed)) /\ functionCalls = Cardinality(CallsDone(feed))
      BY <1>1 DEF ResponsesHeard
    <2>5. /\ IsFiniteSet(CallsDone(Append(feed, line)))
          /\ Cardinality(CallsDone(Append(feed, line))) =
               IF line.type = "done" /\ line.kind = "function_call" THEN functionCalls + 1
                                                                    ELSE functionCalls
      BY <2>1, <2>4, CallsAppend
    <2>6. /\ Append(feed, line) \in Seq(S) /\ Len(Append(feed, line)) = Len(feed) + 1
          /\ DOMAIN feed = 1..Len(feed) /\ Len(feed) \in Nat
          /\ Append(feed, line)[Len(feed) + 1] = line
          /\ \A j \in 1..Len(feed) : Append(feed, line)[j] = feed[j]
      BY <2>1, LenProperties, AppendProperties
    <2>7. DOMAIN Append(feed, line) = 1..Len(Append(feed, line))
      BY <2>6, LenProperties
    <2> QED
      BY <1>3, <2>2, <2>3, <2>5, <2>6, <2>7 DEF S
  <1>11. \A j \in DOMAIN feed' : j \in DOMAIN feed \/ feed'[j] = line
    BY <1>10
  <1>12. \A j \in DOMAIN feed :
           /\ feed[j].type = "added" /\ feed[j].kind = "function_call" /\ feed[j].item \notin finished
           => currentFuncName
    BY <1>1 DEF ResponsesHeard
  <1>13. Told(heard) \cap {"done", "usage"} = {}
    BY <1>6
  <1> HIDE DEF added, finished
  <1>14. CASE line = Items!Plain("created")
    <2>1. line.type = "created" /\ line \in ItemLines /\ "kind" \in DOMAIN line
      BY <1>14 DEF Items!Plain, Items!About, ItemLines
    <2>2. PiecesOf(line) = << >> /\ ResponsesToGemini(line) = << >>
          /\ functionCalls' = functionCalls /\ currentFuncName' = currentFuncName
      BY <1>3, <2>1 DEF PiecesOf, ResponsesToGemini, CollectCall
    <2>3. heard' = heard
      BY <1>1, <1>3, <2>2, ConcatEmptySeq
    <2>4. Grown(heard, heard', PiecesOf(line))
      BY <1>1, <2>2, <2>3, GrownNone
    <2>5. Items!With(feed', "added") = added /\ Items!With(feed', "done") = finished
      BY <1>10, <2>1 DEF added, finished
    <2>6. ResponsesHeard'
      BY <1>2, <1>4, <1>6, <1>10, <1>11, <1>12, <2>1, <2>2, <2>3, <2>5 DEF ResponsesHeard
    <2> QED
      BY <1>1, <2>1, <2>2, <2>4, <2>6 DEF FeedLines
  <1>15. CASE added \subseteq finished /\ \E k \in Items!Kinds : line = Items!About("added", n + 1, k)
    <2>1. PICK k \in Items!Kinds : line = Items!About("added", n + 1, k)
      BY <1>15
    <2>2. line.type = "added" /\ line.item = n + 1 /\ line.kind = k /\ line \in ItemLines
      BY <2>1 DEF Items!About, ItemLines
    <2>3. PiecesOf(line) = << >> /\ ResponsesToGemini(line) = << >>
      BY <2>2 DEF PiecesOf, ResponsesToGemini
    <2>4. /\ functionCalls' = functionCalls /\ currentFuncName' \in BOOLEAN
          /\ k = "function_call" => currentFuncName'
      BY <1>1, <1>3, <2>2 DEF CollectCall
    <2>5. heard' = heard
      BY <1>1, <1>3, <2>3, ConcatEmptySeq
    <2>6. Grown(heard, heard', PiecesOf(line))
      BY <1>1, <2>3, <2>5, GrownNone
    <2>7. Items!With(feed', "added") = added \cup {n + 1} /\ Items!With(feed', "done") = finished
      BY <1>10, <2>2 DEF added, finished
    <2>8. added \cup {n + 1} = 1..(n + 1) /\ n + 1 \in Nat
      BY <1>4
    <2>9. (added \cup {n + 1}) \ finished \subseteq {n + 1}
      BY <1>15
    <2>10. ASSUME NEW j \in DOMAIN feed', feed'[j].type = "added", feed'[j].kind = "function_call",
                  feed'[j].item \notin finished
           PROVE  currentFuncName'
      <3>1. CASE feed'[j] = line
        BY <2>2, <2>4, <2>10, <3>1
      <3>2. CASE j \in DOMAIN feed
        <4>1. feed[j].type = "added" /\ feed[j].item \notin finished
          BY <1>10, <2>10, <3>2
        <4>2. feed[j].item \in added
          BY <3>2, <4>1 DEF added, Items!With
        <4> QED
          BY <1>15, <4>1, <4>2
      <3> QED
        BY <1>11, <3>1, <3>2
    <2>11. ResponsesHeard'
      BY <1>2, <1>6, <1>10, <2>2, <2>4, <2>5, <2>7, <2>8, <2>9, <2>10 DEF ResponsesHeard
    <2> QED
      BY <1>1, <2>2, <2>4, <2>6, <2>11 DEF FeedLines
  <1>16. CASE line = Items!Completed("none", added)
    <2> DEFINE c == Reading!ChunkWithCalls(functionCalls)
    <2>1. line.type = "completed" /\ line.kind = "none" /\ line \in ItemLines
      BY <1>4, <1>16 DEF Items!Completed, ItemLines
    <2>2. c \in ChunksHeard /\ c.type = "finish" /\ PiecesOf(c) = << >> /\ c.calls = functionCalls
      BY <1>1, ChunksAre
    <2>3. PiecesOf(line) = << >> /\ ResponsesToGemini(line) = <<c>>
          /\ functionCalls' = functionCalls /\ currentFuncName' = currentFuncName
      BY <1>3, <2>1 DEF PiecesOf, ResponsesToGemini, CollectCall
    <2> HIDE DEF c
    <2>4. heard' = Append(heard, c) /\ Last(heard') = c
      <3>1. heard \in Seq(ChunksHeard) /\ c \in ChunksHeard /\ heard' = heard \o <<c>>
        BY <1>1, <1>3, <2>2, <2>3
      <3>2. Append(heard, c) = heard \o <<c>> /\ Last(Append(heard, c)) = c
        BY <3>1, AppendFacts
      <3> QED
        BY <3>1, <3>2
    <2>5. Reading!MayFollow(heard, c)
      BY <1>6, <2>2 DEF Reading!MayFollow, Told
    <2>6. Grown(heard, heard', PiecesOf(line))
      BY <1>1, <2>2, <2>3, <2>4, <2>5, GrownBy
    <2>7. Told(heard') = Told(heard) \cup {"finish"}
      BY <1>1, <2>2, <2>4, ToldAppend
    <2>8. Items!With(feed', "added") = added /\ Items!With(feed', "done") = finished
      <3>1. line.type = "completed"
        BY <2>1
      <3>2. \A type : Items!With(feed', type) =
                        Items!With(feed, type) \cup (IF line.type = type THEN {line.item} ELSE {})
        BY <1>10
      <3>3. Items!With(feed', "added") = Items!With(feed, "added") /\ Items!With(feed', "done") = Items!With(feed, "done")
        BY <3>1, <3>2
      <3> QED
        BY <3>3 DEF added, finished
    <2>9. ASSUME NEW j \in DOMAIN feed', feed'[j].type = "added", feed'[j].kind = "function_call",
                 feed'[j].item \notin finished
          PROVE  currentFuncName'
      BY <1>10, <1>11, <1>12, <2>1, <2>3, <2>9
    <2>10. ResponsesHeard'
      BY <1>4, <1>6, <1>10, <2>1, <2>2, <2>3, <2>4, <2>7, <2>8, <2>9 DEF ResponsesHeard
    <2> QED
      BY <1>1, <2>1, <2>3, <2>6, <2>10 DEF FeedLines
  <1>17. CASE \E i \in added \ finished, j \in DOMAIN feed :
                /\ feed[j].type = "added" /\ feed[j].item = i
                /\ line \in {Items!About(t, i, feed[j].kind) : t \in {"delta", "done"}}
    <2>1. PICK i \in added \ finished, j \in DOMAIN feed :
             /\ feed[j].type = "added" /\ feed[j].item = i
             /\ line \in {Items!About(t, i, feed[j].kind) : t \in {"delta", "done"}}
      BY <1>17
    <2>2. i = n /\ feed[j].kind \in Items!Kinds \cup {"none"}
      BY <1>4, <1>8, <2>1 DEF ItemLines
    <2>3. /\ line.type \in {"delta", "done"} /\ line.item = n /\ line.kind = feed[j].kind
          /\ line \in ItemLines /\ "kind" \in DOMAIN line
      BY <2>1, <2>2 DEF Items!About, ItemLines
    <2>4. CASE line.type = "delta"
      <3>1. functionCalls' = functionCalls /\ currentFuncName' = currentFuncName
        BY <1>3, <2>4 DEF CollectCall
      <3>2. Items!With(feed', "added") = added /\ Items!With(feed', "done") = finished
        BY <1>10, <2>4 DEF added, finished
      <3>3. /\ PiecesOf(line) = ( CASE line.kind = "message" -> <<"content">>
                                    [] line.kind = "reasoning" -> <<"reasoning">>
                                    [] OTHER -> << >> )
            /\ ResponsesToGemini(line) = ( CASE line.kind = "reasoning" -> <<Chunk("reasoning")>>
                                             [] line.kind = "message" -> <<Chunk("content")>>
                                             [] OTHER -> << >> )
        BY <2>3, <2>4 DEF PiecesOf, ResponsesToGemini
      <3>4. ASSUME NEW j2 \in DOMAIN feed', feed'[j2].type = "added", feed'[j2].kind = "function_call",
                   feed'[j2].item \notin finished
            PROVE  currentFuncName'
        BY <1>10, <1>11, <1>12, <2>4, <3>1, <3>4
      <3>5. ASSUME NEW type \in PieceNames, ResponsesToGemini(line) = <<Chunk(type)>>, PiecesOf(line) = <<type>>
            PROVE  /\ Grown(heard, heard', PiecesOf(line)) /\ Told(heard') = Told(heard) \cup {type}
        <4> DEFINE c == Chunk(type)
        <4>1. type \in {"reasoning", "content"}
          BY DEF PieceNames
        <4>2. c \in ChunksHeard /\ c.type = type /\ PiecesOf(c) = <<type>>
          BY <4>1, ChunksAre
        <4>3. ResponsesToGemini(line) = <<c>>
          BY <3>5
        <4> HIDE DEF c
        <4>4. heard' = Append(heard, c)
          BY <1>1, <1>3, <4>2, <4>3, AppendIsConcat
        <4>5. Reading!MayFollow(heard, c)
          BY <1>6, <4>1, <4>2 DEF Reading!MayFollow, Told
        <4>6. Grown(heard, Append(heard, c), PiecesOf(c))
          BY <1>1, <4>2, <4>5, GrownBy
        <4> QED
          BY <1>1, <3>5, <4>2, <4>4, <4>6, ToldAppend
      <3>6. /\ Grown(heard, heard', PiecesOf(line))
            /\ Told(heard') \subseteq Told(heard) \cup PieceNames
        <4>1. CASE line.kind = "reasoning"
          BY <3>3, <3>5, <4>1 DEF PieceNames
        <4>2. CASE line.kind = "message"
          BY <3>3, <3>5, <4>2 DEF PieceNames
        <4>3. CASE line.kind \notin {"reasoning", "message"}
          <5>1. PiecesOf(line) = << >> /\ ResponsesToGemini(line) = << >>
            BY <3>3, <4>3
          <5>2. heard' = heard
            BY <1>1, <1>3, <5>1, ConcatEmptySeq
          <5> QED
            BY <1>1, <5>1, <5>2, GrownNone
        <4> QED
          BY <4>1, <4>2, <4>3
      <3>7. Told(heard') \cap {"done", "usage", "finish"} = {}
        BY <1>6, <3>6 DEF PieceNames
      <3>8. ResponsesHeard'
        BY <1>2, <1>4, <1>10, <2>4, <3>1, <3>2, <3>4, <3>7 DEF ResponsesHeard
      <3> QED
        BY <1>1, <2>3, <3>1, <3>6, <3>8 DEF FeedLines
    <2>5. CASE line.type = "done"
      <3>1. /\ line.kind = "function_call" => currentFuncName' = FALSE
            /\ functionCalls' = IF line.kind = "function_call" THEN functionCalls + 1 ELSE functionCalls
            /\ currentFuncName' \in BOOLEAN
        <4>1. line.kind = "function_call" => currentFuncName
          BY <1>12, <2>1, <2>3
        <4> QED
          BY <1>1, <1>3, <2>5, <4>1 DEF CollectCall
      <3>2. PiecesOf(line) = << >> /\ ResponsesToGemini(line) = << >>
        BY <2>5 DEF PiecesOf, ResponsesToGemini
      <3>3. heard' = heard
        BY <1>1, <1>3, <3>2, ConcatEmptySeq
      <3>4. Grown(heard, heard', PiecesOf(line))
        BY <1>1, <3>2, <3>3, GrownNone
      <3>5. Items!With(feed', "added") = added /\ Items!With(feed', "done") = finished \cup {n}
        BY <1>10, <2>3, <2>5 DEF added, finished
      <3>6. added \ (finished \cup {n}) = {}
        BY <1>4
      <3>7. ASSUME NEW j2 \in DOMAIN feed', feed'[j2].type = "added",
                   feed'[j2].item \notin finished \cup {n}
            PROVE  FALSE
        <4>1. j2 \in DOMAIN feed /\ feed[j2].type = "added" /\ feed[j2].item \notin finished \cup {n}
          BY <1>10, <1>11, <2>5, <3>7
        <4>2. feed[j2].item \in added
          BY <4>1 DEF added, Items!With
        <4> QED
          BY <3>6, <4>1, <4>2
      <3>8. \E m \in Nat : added = 1..m /\ added \ (finished \cup {n}) \subseteq {m}
        BY <1>4, <3>6
      <3>9. ResponsesHeard'
        BY <1>2, <1>6, <1>10, <2>5, <3>1, <3>3, <3>5, <3>7, <3>8 DEF ResponsesHeard
      <3>10. functionCalls' \in Nat
        BY <1>1, <3>1
      <3> QED
        BY <1>1, <2>3, <3>1, <3>4, <3>9, <3>10 DEF FeedLines
    <2> QED
      BY <2>3, <2>4, <2>5
  <1>18. CASE \E i \in added : line = Items!About("inDelta", i, "reasoning")
    <2>1. PICK i \in added : line = Items!About("inDelta", i, "reasoning")
      BY <1>18
    <2>2. i \in Nat /\ "reasoning" \in Items!Kinds
      BY <1>4 DEF Items!Kinds
    <2>3. line.type = "inDelta" /\ line.kind = "reasoning" /\ line \in ItemLines
      BY <2>1, <2>2 DEF Items!About, ItemLines
    <2>4. PiecesOf(line) = << >> /\ ResponsesToGemini(line) = << >>
          /\ functionCalls' = functionCalls /\ currentFuncName' = currentFuncName
      <3>1. PiecesOf(line) = << >>
        BY <2>3 DEF PiecesOf
      <3>2. ResponsesToGemini(line) = << >>
        BY <2>3 DEF ResponsesToGemini
      <3>3. functionCalls' = functionCalls /\ currentFuncName' = currentFuncName
        BY <1>3, <2>3 DEF CollectCall
      <3> QED
        BY <3>1, <3>2, <3>3
    <2>5. heard' = heard
      BY <1>1, <1>3, <2>4, ConcatEmptySeq
    <2>6. Grown(heard, heard', PiecesOf(line))
      BY <1>1, <2>4, <2>5, GrownNone
    <2>7. Items!With(feed', "added") = added /\ Items!With(feed', "done") = finished
      <3>1. \A type : Items!With(feed', type) =
                        Items!With(feed, type) \cup (IF line.type = type THEN {line.item} ELSE {})
        BY <1>10
      <3>2. Items!With(feed', "added") = Items!With(feed, "added")
        BY <2>3, <3>1
      <3>3. Items!With(feed', "done") = Items!With(feed, "done")
        BY <2>3, <3>1
      <3> QED
        BY <3>2, <3>3 DEF added, finished
    <2>8. ResponsesHeard'
      BY <1>2, <1>4, <1>6, <1>10, <1>11, <1>12, <2>3, <2>4, <2>5, <2>7 DEF ResponsesHeard
    <2> QED
      BY <1>1, <2>3, <2>4, <2>6, <2>8 DEF FeedLines
  <1> QED
    BY <1>9, <1>14, <1>15, <1>16, <1>17, <1>18

-----------------------------------------------------------------------------
(* Chat and Gemini: the invariant is kept *)

LEMMA PathsAre ==
  ASSUME path \in Routes
  PROVE  /\ ~ Passed => \/ ClaudePath /\ path[2] = "claude"
                        \/ path = <<"gemini", "openai">>
                        \/ path = <<"gemini", "responses">>
         /\ Passed => path[2] # "claude" /\ path # <<"gemini", "openai">> /\ path # <<"gemini", "responses">>
  BY ChunkRelayAssumption DEF Passed, ClaudePath

LEMMA ChunkLast == \A s \in Seq(ChunksHeard), c \in ChunksHeard : Last(Append(s, c)) = c
  <1> SUFFICES ASSUME NEW s \in Seq(ChunksHeard), NEW c \in ChunksHeard PROVE Last(Append(s, c)) = c
    OBVIOUS
  <1> DEFINE t == Append(s, c)
  <1>1. t[Len(t)] = c
    BY AppendProperties
  <1> HIDE DEF t
  <1>2. Last(t) = c
    BY <1>1 DEF Last
  <1> QED
    BY <1>2 DEF t

LEMMA ChunkInvInit == ChunkInit => ChunkInv
  <1> SUFFICES ASSUME ChunkInit PROVE ChunkInv
    OBVIOUS
  <1>1. /\ path \in Routes /\ feed = << >> /\ heard = << >> /\ reading = TRUE /\ doneSent = FALSE
        /\ currentFuncName = FALSE /\ functionCalls = 0
    BY DEF ChunkInit
  <1>2. << >> \in Seq(FeedLines) /\ << >> \in Seq(ChunksHeard) /\ DOMAIN << >> = {}
    BY EmptySeq
  <1>3. Told(<< >>) = {} /\ CallsDone(<< >>) = {}
    BY <1>2 DEF Told, CallsDone
  <1>4. Items!With(<< >>, "added") = {} /\ Items!With(<< >>, "done") = {}
    BY <1>2 DEF Items!With
  <1>5. ChunkTypes
    BY <1>1, <1>2 DEF ChunkTypes
  <1>6. path[2] = "claude" => ClaudeHeard
    BY <1>1, <1>3 DEF ClaudeHeard
  <1>7. path = <<"gemini", "openai">> => OpenAIHeard
    BY <1>1, <1>3 DEF OpenAIHeard
  <1>8. path = <<"gemini", "responses">> => ResponsesHeard
    <2>1. 0 \in Nat /\ 1..0 = {} /\ {} \ {} \subseteq {0}
      OBVIOUS
    <2>2. IsFiniteSet({}) /\ Cardinality({}) = 0
      BY FS_EmptySet
    <2> QED
      BY <1>1, <1>2, <1>3, <1>4, <2>1, <2>2 DEF ResponsesHeard
  <1> QED
    BY <1>1, <1>5, <1>6, <1>7, <1>8 DEF ChunkInv

LEMMA RelayLineKept == ChunkInv /\ RelayLine => ChunkInv' /\ Extends(heard, heard')
  <1> SUFFICES ASSUME ChunkInv, RelayLine PROVE ChunkInv' /\ Extends(heard, heard')
    OBVIOUS
  <1>1. PICK line : Relays(line)
    BY DEF RelayLine, Relays
  <1>2. ChunkTypes /\ Pieces(heard) = Pieces(feed) /\ path \in Routes /\ path' = path /\ reading' = reading
        /\ doneSent' = doneSent /\ feed' = Append(feed, line)
    BY <1>1 DEF ChunkInv, ChunkTypes, Relays
  <1>3. \/ Passed
        \/ ~ Passed /\ ClaudePath /\ path[2] = "claude"
        \/ ~ Passed /\ path = <<"gemini", "openai">>
        \/ ~ Passed /\ path = <<"gemini", "responses">>
    BY <1>2, PathsAre
  <1>4. path # <<"gemini", "responses">> =>
          functionCalls' = functionCalls /\ currentFuncName' = currentFuncName
    BY <1>1 DEF Relays, CollectCall
  <1>5. Passed' <=> Passed
    BY <1>2 DEF Passed
  <1>6. line \in FeedLines /\ Grown(heard, heard', PiecesOf(line))
    BY <1>1, <1>3, PassedLine, ClaudeLineHeard, OpenAILineHeard, ResponsesLineHeard
  <1>7. /\ feed' \in Seq(FeedLines) /\ heard' \in Seq(ChunksHeard)
        /\ Pieces(heard') = Pieces(feed') /\ Extends(heard, heard')
    BY <1>2, <1>6, LineGrows
  <1>8. functionCalls' \in Nat /\ currentFuncName' \in BOOLEAN
    BY <1>1, <1>2, <1>4, ResponsesLineHeard DEF ChunkTypes
  <1>9. ChunkTypes'
    BY <1>2, <1>7, <1>8 DEF ChunkTypes
  <1>10. CASE Passed
    BY <1>1, <1>2, <1>5, <1>7, <1>9, <1>10, PathsAre, PassedLine DEF ChunkInv
  <1>11. CASE ~ Passed /\ ClaudePath /\ path[2] = "claude"
    BY <1>1, <1>2, <1>5, <1>7, <1>9, <1>11, ClaudeLineHeard DEF ChunkInv, ClaudePath
  <1>12. CASE ~ Passed /\ path = <<"gemini", "openai">>
    BY <1>1, <1>2, <1>5, <1>7, <1>9, <1>12, OpenAILineHeard DEF ChunkInv
  <1>13. CASE ~ Passed /\ path = <<"gemini", "responses">>
    BY <1>1, <1>2, <1>5, <1>7, <1>9, <1>13, ResponsesLineHeard DEF ChunkInv
  <1> QED
    BY <1>3, <1>10, <1>11, <1>12, <1>13

(* An upstream that passes through sends no [DONE] of the relay's, and a    *)
(* Responses upstream none at all.                                          *)
LEMMA DoneComes ==
  ASSUME ChunkInv, DoneLine \in Feed
  PROVE  ~ Passed /\ "[DONE]" \notin Told(feed) /\ path # <<"gemini", "responses">>
  <1>1. DoneLine.type = "[DONE]"
    BY DEF DoneLine
  <1>2. ~ Passed
    <2> SUFFICES ASSUME Passed PROVE FALSE
      OBVIOUS
    <2>1. DoneLine \in OwnFeed
      BY DEF Feed
    <2>2. PICK t \in {"reasoning", "content", "finish", "usage", "done"} : DoneLine = Chunk(t)
      BY <2>1 DEF OwnFeed
    <2>3. Chunk(t).type = t
      BY ChunksAre
    <2> QED
      BY <1>1, <2>2, <2>3
  <1>3. "[DONE]" \notin Told(feed)
    BY <1>2 DEF Feed, Told, Fed
  <1>4. path # <<"gemini", "responses">>
    <2> SUFFICES ASSUME path = <<"gemini", "responses">> PROVE FALSE
      OBVIOUS
    <2>1. DoneLine \in ResponsesFeed
      BY <1>2 DEF Feed, Fed
    <2> QED
      BY <1>1, <2>1 DEF ResponsesFeed, Items!Plain, Items!About, Items!Completed
  <1> QED
    BY <1>2, <1>3, <1>4

LEMMA RelayDoneKept == ChunkInv /\ RelayDone => ChunkInv' /\ Extends(heard, heard')
  <1> SUFFICES ASSUME ChunkInv, RelayDone PROVE ChunkInv' /\ Extends(heard, heard')
    OBVIOUS
  <1> DEFINE c == Chunk("done")
  <1>1. /\ ChunkTypes /\ Pieces(heard) = Pieces(feed) /\ path \in Routes /\ reading
        /\ feed \in Seq(FeedLines) /\ heard \in Seq(ChunksHeard)
        /\ feed' = Append(feed, DoneLine) /\ DoneLine \in Feed
        /\ UNCHANGED <<path, currentFuncName, functionCalls>>
    BY DEF ChunkInv, ChunkTypes, RelayDone
  <1>2. ~ Passed /\ "[DONE]" \notin Told(feed) /\ path # <<"gemini", "responses">>
    BY <1>1, DoneComes
  <1>3. DoneLine \in FeedLines /\ DoneLine.type = "[DONE]" /\ PiecesOf(DoneLine) = << >>
    BY DEF DoneLine, FeedLines, PiecesOf
  <1>4. c \in ChunksHeard /\ c.type = "done" /\ PiecesOf(c) = << >>
    BY ChunksAre DEF PieceNames
  <1>5. /\ feed' # << >> /\ feed'[Len(feed')] = DoneLine
        /\ Told(feed') = Told(feed) \cup {"[DONE]"} /\ (Finishes(feed) => Finishes(feed'))
    BY <1>1, <1>3, AppendFacts, ToldAppend, FinishesAppend DEF Last
  <1>6. ~ Passed'
    BY <1>1, <1>2 DEF Passed
  <1> HIDE DEF c
  <1>7. CASE path[1] = "chat"
    <2>1. heard' = Append(heard, c) /\ doneSent' = TRUE /\ reading' = reading
      BY <1>7 DEF RelayDone, c
    <2>2. path = <<"chat", "claude">> /\ path[2] = "claude"
      BY <1>1, <1>2, <1>7, PathsAre DEF ClaudePath
    <2>3. ClaudeHeard
      BY <2>2 DEF ChunkInv
    <2>4. ~ doneSent /\ "done" \notin Told(heard)
      BY <1>1, <1>2, <2>3 DEF ClaudeHeard
    <2>5. Reading!MayFollow(heard, c)
      BY <1>4, <2>4 DEF Reading!MayFollow, Told
    <2>6. Grown(heard, heard', PiecesOf(DoneLine))
      BY <1>1, <1>3, <1>4, <2>1, <2>5, GrownBy
    <2>7. /\ feed' \in Seq(FeedLines) /\ heard' \in Seq(ChunksHeard)
          /\ Pieces(heard') = Pieces(feed') /\ Extends(heard, heard')
      BY <1>1, <1>3, <2>6, LineGrows
    <2>8. Told(heard') = Told(heard) \cup {"done"} /\ Last(heard') = c
      <3>1. heard \in Seq(ChunksHeard) /\ c \in ChunksHeard /\ c.type = "done" /\ heard' = Append(heard, c)
        BY <1>1, <1>4, <2>1
      <3>2. Last(Append(heard, c)) = c
        BY <3>1, ChunkLast
      <3> QED
        BY <3>1, <3>2, ToldAppend
    <2>9. ClaudeHeard'
      BY <1>1, <1>3, <1>5, <2>1, <2>3, <2>8 DEF ClaudeHeard, c
    <2>10. ChunkTypes'
      BY <1>1, <2>1, <2>7 DEF ChunkTypes
    <2> QED
      BY <1>1, <1>6, <2>2, <2>7, <2>9, <2>10 DEF ChunkInv
  <1>8. CASE path[1] # "chat"
    <2>1. heard' = heard /\ doneSent' = doneSent /\ reading' = FALSE
      BY <1>8 DEF RelayDone
    <2>2. Grown(heard, heard', PiecesOf(DoneLine))
      BY <1>1, <1>3, <2>1, GrownNone
    <2>3. /\ feed' \in Seq(FeedLines) /\ heard' \in Seq(ChunksHeard)
          /\ Pieces(heard') = Pieces(feed') /\ Extends(heard, heard')
      BY <1>1, <1>3, <2>2, LineGrows
    <2>4. ChunkTypes'
      BY <1>1, <2>1, <2>3 DEF ChunkTypes
    <2>5. path[2] = "claude" => ClaudeHeard'
      <3> SUFFICES ASSUME path[2] = "claude" PROVE ClaudeHeard'
        OBVIOUS
      <3>1. ClaudeHeard
        BY DEF ChunkInv
      <3> QED
        BY <1>1, <1>2, <1>3, <1>5, <1>8, <2>1, <3>1 DEF ClaudeHeard
    <2>6. path = <<"gemini", "openai">> => OpenAIHeard'
      BY <1>5, <2>1 DEF ChunkInv, OpenAIHeard
    <2> QED
      BY <1>1, <1>2, <1>6, <2>3, <2>4, <2>5, <2>6 DEF ChunkInv
  <1> QED
    BY <1>7, <1>8

LEMMA BodyEndsKept == ChunkInv /\ BodyEnds => ChunkInv' /\ Extends(heard, heard')
  <1> SUFFICES ASSUME ChunkInv, BodyEnds PROVE ChunkInv' /\ Extends(heard, heard')
    OBVIOUS
  <1> DEFINE c == Chunk("done")
             ends == path = <<"chat", "claude">> /\ ~ doneSent
  <1>1. /\ ChunkTypes /\ Pieces(heard) = Pieces(feed) /\ path \in Routes /\ reading /\ reading' = FALSE
        /\ feed \in Seq(FeedLines) /\ heard \in Seq(ChunksHeard)
        /\ UNCHANGED <<path, feed, doneSent, currentFuncName, functionCalls>>
        /\ heard' = IF ends THEN Append(heard, c) ELSE heard
    BY DEF ChunkInv, ChunkTypes, BodyEnds
  <1>2. c \in ChunksHeard /\ c.type = "done" /\ PiecesOf(c) = << >>
    BY ChunksAre DEF PieceNames
  <1>3. Passed' = Passed /\ (Passed => path # <<"chat", "claude">>)
    BY <1>1 DEF Passed
  <1> HIDE DEF c
  <1>4. CASE ends
    <2>1. ClaudeHeard /\ path[2] = "claude" /\ path[1] = "chat" /\ ~ Passed
      BY <1>3, <1>4 DEF ChunkInv
    <2>2. "done" \notin Told(heard)
      BY <1>1, <1>4, <2>1 DEF ClaudeHeard
    <2>3. Reading!MayFollow(heard, c)
      BY <1>2, <2>2 DEF Reading!MayFollow, Told
    <2>4. Grown(heard, heard', << >>)
      BY <1>1, <1>2, <1>4, <2>3, GrownBy
    <2>5. heard' \in Seq(ChunksHeard) /\ Extends(heard, heard') /\ Pieces(heard') = Pieces(heard) \o << >>
      BY <2>4 DEF Grown
    <2>6. Pieces(heard) \in Seq(PieceNames)
      BY <1>1, <1>2, PiecesAppend
    <2>7. Pieces(heard') = Pieces(feed')
      BY <1>1, <2>5, <2>6, ConcatEmptySeq
    <2>8. Told(heard') = Told(heard) \cup {"done"} /\ Last(heard') = c
      <3> HIDE DEF ends
      <3>3. heard' = Append(heard, c)
        BY <1>1, <1>4
      <3>1. heard \in Seq(ChunksHeard) /\ c \in ChunksHeard /\ c.type = "done" /\ heard' = Append(heard, c)
        BY <1>1, <1>2, <3>3
      <3>2. Last(Append(heard, c)) = c
        BY <3>1, ChunkLast
      <3> QED
        BY <3>1, <3>2, ToldAppend
    <2>9. ClaudeHeard'
      BY <1>1, <2>1, <2>8 DEF ClaudeHeard, c
    <2>10. ChunkTypes'
      BY <1>1, <2>5 DEF ChunkTypes
    <2> QED
      BY <1>1, <1>3, <1>4, <2>1, <2>5, <2>7, <2>9, <2>10 DEF ChunkInv
  <1>5. CASE ~ ends
    <2>1. heard' = heard
      BY <1>1, <1>5
    <2>2. Extends(heard, heard')
      BY <1>1, <2>1, GrownNone DEF Grown
    <2>3. ChunkTypes'
      BY <1>1, <2>1 DEF ChunkTypes
    <2>4. path[2] = "claude" => ClaudeHeard'
      <3> SUFFICES ASSUME path[2] = "claude" PROVE ClaudeHeard'
        OBVIOUS
      <3>1. ClaudeHeard
        BY DEF ChunkInv
      <3>2. path[1] = "chat" => doneSent
        <4> SUFFICES ASSUME path[1] = "chat", ~ doneSent PROVE FALSE
          OBVIOUS
        <4>1. path = <<"chat", "claude">>
          BY <1>1, ChunkRelayAssumption
        <4> QED
          BY <1>5, <4>1
      <3> QED
        BY <1>1, <2>1, <3>1, <3>2 DEF ClaudeHeard
    <2>5. path = <<"gemini", "openai">> => OpenAIHeard'
      BY <1>1, <2>1 DEF ChunkInv, OpenAIHeard
    <2>6. path = <<"gemini", "responses">> => ResponsesHeard'
      BY <1>1, <2>1 DEF ChunkInv, ResponsesHeard
    <2> QED
      BY <1>1, <1>3, <2>1, <2>2, <2>3, <2>4, <2>5, <2>6 DEF ChunkInv
  <1> QED
    BY <1>4, <1>5

(* No step breaks the invariant, and each only adds what may follow.        *)
LEMMA ChunkInvStep == ChunkInv /\ [ChunkNext]_chunkVars => ChunkInv' /\ Extends(heard, heard')
  <1>1. ChunkInv /\ UNCHANGED chunkVars => ChunkInv' /\ Extends(heard, heard')
    <2> SUFFICES ASSUME ChunkInv, UNCHANGED chunkVars PROVE ChunkInv' /\ Extends(heard, heard')
      OBVIOUS
    <2>1. UNCHANGED <<path, feed, reading, doneSent, currentFuncName, functionCalls, heard>>
      BY DEF chunkVars
    <2>2. Extends(heard, heard')
      BY <2>1, GrownNone DEF Grown, ChunkInv, ChunkTypes
    <2>3. ChunkTypes' /\ (ClaudeHeard => ClaudeHeard') /\ (OpenAIHeard => OpenAIHeard') /\ Passed' = Passed
      BY <2>1 DEF ChunkInv, ChunkTypes, ClaudeHeard, OpenAIHeard, Passed
    <2>4. ResponsesHeard => ResponsesHeard'
      BY <2>1 DEF ResponsesHeard
    <2> QED
      BY <2>1, <2>2, <2>3, <2>4 DEF ChunkInv
  <1> QED
    BY <1>1, RelayLineKept, RelayDoneKept, BodyEndsKept DEF ChunkNext

-----------------------------------------------------------------------------
(* Chat and Gemini: the theorems *)

LEMMA ChunkInvAlways == ChunkRelaySpec => []ChunkInv
  <1> QED
    BY ChunkInvInit, ChunkInvStep, PTL DEF ChunkRelaySpec

LEMMA ChunksWholeOf == ChunkInv => ChunksWhole
  <1> SUFFICES ASSUME ChunkInv PROVE ChunksWhole
    OBVIOUS
  <1>1. ASSUME path = <<"gemini", "responses">>, Fed("completed")
        PROVE  LET calls == {i \in DOMAIN feed : feed[i].type = "done" /\ feed[i].kind = "function_call"}
               IN  Last(heard).calls = Cardinality(calls)
    <2>1. ResponsesHeard
      BY <1>1 DEF ChunkInv
    <2> QED
      BY <1>1, <2>1 DEF ResponsesHeard, CallsDone, Told, Fed
  <1>2. ASSUME path = <<"chat", "claude">>, ~ reading PROVE Last(heard) = Chunk("done")
    BY <1>2 DEF ChunkInv, ClaudeHeard
  <1> QED
    BY <1>1, <1>2 DEF ChunksWhole, ChunkInv

LEMMA ExtendsFollows ==
  Extends(heard, heard') =>
    [ /\ heard = SubSeq(heard', 1, Len(heard))
      /\ \A i \in Len(heard) + 1 .. Len(heard') :
           Reading!MayFollow(SubSeq(heard', 1, i - 1), heard'[i]) ]_heard
  BY DEF Extends

(* Every piece of text and reasoning the upstream sent has arrived in order, *)
(* with the calls and the [DONE], whatever APIs the relay stands between.   *)
THEOREM ChatGeminiWhole == ChunkRelaySpec => []ChunksWhole
  <1> QED
    BY ChunkInvAlways, ChunksWholeOf, PTL

(* The clients of Chat and Gemini see nothing of an answer after the chunk  *)
(* that finishes it, and nothing at all after [DONE].                       *)
THEOREM ChatGeminiProper == ChunkRelaySpec => ChunkStreamProper
  <1>1. ChunkInit => heard = << >>
    BY DEF ChunkInit
  <1> QED
    BY <1>1, ChunkInvAlways, ChunkInvStep, ExtendsFollows, PTL
    DEF ChunkRelaySpec, ChunkStreamProper, Reading!ChunkSpec

-----------------------------------------------------------------------------
(* Responses: the types of the converters *)

ConvLines ==
  [type : {"start", "open", "piece", "close", "delta", "stop", "fault", "rejected", "thought", "text",
           "call", "bare", "finish", "reasoning", "args", "usage", "[DONE]"},
   block : Upstream!Blocks \cup {"none"}, n : Nat]
Outs ==
  [type : {"created", "progress", "added", "delta", "done", "completed", "fault", "rejected"},
   item : Nat, kind : Shape!Kinds \cup {"none"}, output : SUBSET Nat]
States ==
  [first : BOOLEAN, next : Nat, active : Upstream!Blocks \cup {"none"}, index : Nat, filled : BOOLEAN,
   output : SUBSET Nat, calls : {S \in SUBSET Nat : IsFiniteSet(S)}, called : BOOLEAN,
   reasoning : Nat, inReasoning : BOOLEAN, message : Nat, inText : BOOLEAN]
Results == [st : States, out : Seq(Outs)]

SourceLines == IF source = "responses" THEN Outs ELSE ConvLines

LEMMA FreshTyped == FreshState \in States /\ FreshState.first = TRUE /\ Nowhere \in Nat
  <1>1. IsFiniteSet({})
    BY FS_EmptySet
  <1> QED
    BY <1>1 DEF FreshState, States, Nowhere

LEMMA ResultTyped ==
  ASSUME NEW st \in States, NEW out \in Seq(Outs)
  PROVE  Result(st, out) \in Results /\ Result(st, out).st = st /\ Result(st, out).out = out
  BY DEF Result, Results

(* What comes after, joined to what came before.                            *)
LEMMA JoinTyped ==
  ASSUME NEW r \in Results, NEW next \in Results
  PROVE  Result(next.st, r.out \o next.out) \in Results
  <1>1. next.st \in States /\ r.out \in Seq(Outs) /\ next.out \in Seq(Outs)
    BY DEF Results
  <1>2. r.out \o next.out \in Seq(Outs)
    BY <1>1, ConcatProperties
  <1> QED
    BY <1>1, <1>2, ResultTyped

LEMMA OutsAre ==
  ASSUME NEW item \in Nat, NEW kind \in Shape!Kinds \cup {"none"}, NEW output \in SUBSET Nat
  PROVE  /\ \A type \in {"added", "delta", "done"} :
              /\ About(type, item, kind) \in Outs
              /\ About(type, item, kind).type = type /\ About(type, item, kind).item = item
         /\ Shape!Completed(kind, output) \in Outs
         /\ Shape!Completed(kind, output).type = "completed" /\ Shape!Completed(kind, output).output = output
         /\ Shape!Plain("created") \in Outs /\ Shape!Plain("progress") \in Outs
         /\ Shape!Plain("created").type = "created" /\ Shape!Plain("progress").type = "progress"
  BY DEF About, Shape!About, Shape!Completed, Shape!Plain, Outs, Shape!Kinds

LEMMA NoOut == << >> \in Seq(Outs) /\ \A e \in Outs : <<e>> \in Seq(Outs)
  BY EmptySeq

LEMMA ResultsOf ==
  \A st \in States : /\ Result(st, << >>) \in Results
                     /\ \A e \in Outs : Result(st, <<e>>) \in Results
  BY ResultTyped, NoOut

(* Claude.                                                                  *)
LEMMA ItemKindTyped ==
  \A b : ItemKind(b) \in Shape!Kinds
  BY DEF ItemKind, Shape!Kinds

LEMMA StartItemTyped ==
  ASSUME NEW st \in States, NEW b \in Upstream!Blocks \cup {"none"}
  PROVE  StartItem(st, b) \in Results
  <1> DEFINE next == [st EXCEPT !.active = b, !.index = st.next, !.next = @ + 1, !.filled = FALSE]
             e == About("added", st.next, ItemKind(b))
             m == st.next + 1
  <1>4. st.next \in Nat /\ m \in Nat
    BY DEF States
  <1>5. next = [st EXCEPT !.active = b, !.index = st.next, !.next = m, !.filled = FALSE]
    OBVIOUS
  <1> HIDE DEF m, next
  <1>1. next \in States
    BY <1>4, <1>5 DEF States
  <1> USE DEF next
  <1>2. e \in Outs
    BY OutsAre, ItemKindTyped DEF States
  <1>3. StartItem(st, b) = Result(next, <<e>>)
    BY DEF StartItem
  <1> HIDE DEF next, e
  <1> QED
    BY <1>1, <1>2, <1>3, ResultsOf

LEMMA FillItemTyped ==
  ASSUME NEW st \in States
  PROVE  FillItem(st) \in Results
  <1> DEFINE next == [st EXCEPT !.filled = TRUE]
             e == About("delta", st.index, ItemKind(st.active))
  <1>1. next \in States
    BY DEF States
  <1>2. e \in Outs
    BY OutsAre, ItemKindTyped DEF States
  <1>3. FillItem(st) = Result(next, <<e>>)
    BY DEF FillItem
  <1> HIDE DEF next, e
  <1> QED
    BY <1>1, <1>2, <1>3, ResultsOf

LEMMA CloseItemTyped ==
  ASSUME NEW st \in States
  PROVE  CloseItem(st) \in Results
  <1> DEFINE next == [st EXCEPT !.active = "none",
                         !.output = IF st.filled \/ st.active = "tool" THEN @ \cup {st.index} ELSE @,
                         !.called = @ \/ st.active = "tool" \/ (st.active = "thinking" /\ st.filled)]
             e == About("done", st.index, ItemKind(st.active))
  <1>1. next \in States
    BY DEF States
  <1>2. e \in Outs
    BY OutsAre, ItemKindTyped DEF States
  <1>3. CloseItem(st) = IF st.active = "none" THEN Result(st, << >>) ELSE Result(next, <<e>>)
    BY DEF CloseItem
  <1> HIDE DEF next, e
  <1> QED
    BY <1>1, <1>2, <1>3, ResultsOf

LEMMA CompleteTyped ==
  ASSUME NEW st \in States
  PROVE  Complete(st) \in Results
  <1> DEFINE e == Shape!Completed(IF st.called THEN "function_call" ELSE "none", st.output)
  <1>1. e \in Outs
    BY OutsAre DEF States, Shape!Kinds
  <1>2. Complete(st) = Result(st, <<e>>)
    BY DEF Complete
  <1> HIDE DEF e
  <1> QED
    BY <1>1, <1>2, ResultsOf

LEMMA ClaudeLineTyped ==
  ASSUME NEW st \in States, NEW line \in ConvLines
  PROVE  ClaudeLine(st, line) \in Results
  <1>1. line.block \in Upstream!Blocks \cup {"none"}
    BY DEF ConvLines
  <1>2. CASE line.type = "open"
    BY <1>1, <1>2, StartItemTyped DEF ClaudeLine
  <1>3. CASE line.type = "piece" /\ st.active = line.block
    BY <1>3, FillItemTyped DEF ClaudeLine
  <1>4. CASE line.type = "piece" /\ st.active # line.block /\ line.block # "tool"
    <2> DEFINE r == StartItem(st, line.block)
    <2>1. r \in Results /\ FillItem(r.st) \in Results
      BY <1>1, StartItemTyped, FillItemTyped DEF Results
    <2>2. ClaudeLine(st, line) = Result(FillItem(r.st).st, r.out \o FillItem(r.st).out)
      BY <1>4 DEF ClaudeLine, Then
    <2> HIDE DEF r
    <2> QED
      BY <2>1, <2>2, JoinTyped
  <1>5. CASE line.type = "close"
    BY <1>5, CloseItemTyped DEF ClaudeLine
  <1>6. CASE line.type = "stop"
    <2> DEFINE r == CloseItem(st)
    <2>1. r \in Results /\ Complete(r.st) \in Results
      BY CloseItemTyped, CompleteTyped DEF Results
    <2>2. ClaudeLine(st, line) = Result(Complete(r.st).st, r.out \o Complete(r.st).out)
      BY <1>6 DEF ClaudeLine, Then
    <2> HIDE DEF r
    <2> QED
      BY <2>1, <2>2, JoinTyped
  <1>7. CASE /\ line.type \notin {"open", "close", "stop"}
             /\ ~(line.type = "piece" /\ st.active = line.block)
             /\ ~(line.type = "piece" /\ st.active # line.block /\ line.block # "tool")
    <2>1. ClaudeLine(st, line) = Result(st, << >>)
      BY <1>7 DEF ClaudeLine
    <2> QED
      BY <2>1, ResultsOf
  <1> QED
    BY <1>2, <1>3, <1>4, <1>5, <1>6, <1>7

(* Gemini and Chat.                                                         *)
LEMMA CloseReasoningTyped ==
  ASSUME NEW st \in States
  PROVE  CloseReasoning(st) \in Results
  <1> DEFINE next == [st EXCEPT !.inReasoning = FALSE]
             e == About("done", st.reasoning, "reasoning")
  <1>1. next \in States
    BY DEF States
  <1>2. e \in Outs
    BY OutsAre DEF States, Shape!Kinds
  <1>3. CloseReasoning(st) = IF st.inReasoning THEN Result(next, <<e>>) ELSE Result(st, << >>)
    BY DEF CloseReasoning
  <1> HIDE DEF next, e
  <1> QED
    BY <1>1, <1>2, <1>3, ResultsOf

LEMMA CloseTextTyped ==
  ASSUME NEW st \in States
  PROVE  CloseText(st) \in Results
  <1> DEFINE next == [st EXCEPT !.inText = FALSE]
             e == About("done", st.message, "message")
  <1>1. next \in States
    BY DEF States
  <1>2. e \in Outs
    BY OutsAre DEF States, Shape!Kinds
  <1>3. CloseText(st) = IF st.inText THEN Result(next, <<e>>) ELSE Result(st, << >>)
    BY DEF CloseText
  <1> HIDE DEF next, e
  <1> QED
    BY <1>1, <1>2, <1>3, ResultsOf

LEMMA ReasonTyped ==
  ASSUME NEW st \in States, NEW i \in Nat
  PROVE  Reason(st, i) \in Results
  <1> DEFINE next == [st EXCEPT !.reasoning = i, !.inReasoning = TRUE, !.called = TRUE]
             a == IF st.inReasoning THEN << >> ELSE <<About("added", i, "reasoning")>>
             d == <<About("delta", i, "reasoning")>>
  <1>1. next \in States
    BY DEF States
  <1>2. a \in Seq(Outs) /\ d \in Seq(Outs)
    BY OutsAre, NoOut DEF Shape!Kinds
  <1>3. Reason(st, i) = Result(next, a \o d)
    BY DEF Reason
  <1> HIDE DEF next, a, d
  <1>4. a \o d \in Seq(Outs)
    BY <1>2, ConcatProperties
  <1> QED
    BY <1>1, <1>3, <1>4, ResultTyped

LEMMA SayTyped ==
  ASSUME NEW st \in States, NEW i \in Nat
  PROVE  Say(st, i) \in Results
  <1> DEFINE next == [st EXCEPT !.message = i, !.inText = TRUE]
             a == IF st.inText THEN << >> ELSE <<About("added", i, "message")>>
             d == <<About("delta", i, "message")>>
  <1>1. next \in States
    BY DEF States
  <1>2. a \in Seq(Outs) /\ d \in Seq(Outs)
    BY OutsAre, NoOut DEF Shape!Kinds
  <1>3. Say(st, i) = Result(next, a \o d)
    BY DEF Say
  <1> HIDE DEF next, a, d
  <1>4. a \o d \in Seq(Outs)
    BY <1>2, ConcatProperties
  <1> QED
    BY <1>1, <1>3, <1>4, ResultTyped

LEMMA GiveOutTyped ==
  ASSUME NEW st \in States, NEW i \in Nat
  PROVE  GiveOut(st, i)[1] \in Nat /\ GiveOut(st, i)[2] \in States
  <1> DEFINE m == st.next + 1
             next == [st EXCEPT !.next = m]
  <1>1. st.next \in Nat /\ m \in Nat
    BY DEF States
  <1>2. GiveOut(st, i) = IF i = Nowhere THEN <<st.next, next>> ELSE <<i, st>>
    BY DEF GiveOut
  <1> HIDE DEF m
  <1>3. next \in States
    BY <1>1 DEF States
  <1> HIDE DEF next
  <1> QED
    BY <1>1, <1>2, <1>3

LEMMA GivenTyped ==
  ASSUME NEW st \in States
  PROVE  Given(st) \in SUBSET Nat /\ IsFiniteSet(Given(st)) /\ Cardinality(Given(st)) \in Nat
  <1>1. st.reasoning \in Nat /\ st.message \in Nat
    BY DEF States
  <1>2. IsFiniteSet({st.reasoning, st.message})
    <2>1. IsFiniteSet({st.reasoning}) /\ IsFiniteSet({st.message})
      BY FS_Singleton
    <2>2. {st.reasoning, st.message} = {st.reasoning} \cup {st.message}
      OBVIOUS
    <2>3. IsFiniteSet({st.reasoning} \cup {st.message})
      BY <2>1, FS_Union
    <2> QED
      BY <2>2, <2>3
  <1>3. Given(st) \subseteq {st.reasoning, st.message}
    BY DEF Given
  <1> QED
    BY <1>1, <1>2, <1>3, FS_Subset, FS_CardinalityType

LEMMA GeminiTextIs ==
  ASSUME NEW st
  PROVE  LET r == CloseReasoning(st)
             given == GiveOut(r.st, r.st.message)
             t == Say(given[2], given[1])
         IN  GeminiText(st) = Result(t.st, r.out \o t.out)
  BY DEF GeminiText, Then

LEMMA GeminiTextTyped ==
  ASSUME NEW st \in States
  PROVE  GeminiText(st) \in Results
  <1> DEFINE r == CloseReasoning(st)
             given == GiveOut(r.st, r.st.message)
             t == Say(given[2], given[1])
  <1>1. r \in Results
    BY CloseReasoningTyped
  <1>2. r.st \in States /\ r.st.message \in Nat
    BY <1>1 DEF Results, States
  <1>3. GeminiText(st) = Result(t.st, r.out \o t.out)
    BY GeminiTextIs
  <1> HIDE DEF r
  <1>4. given[1] \in Nat /\ given[2] \in States
    BY <1>2, GiveOutTyped
  <1> HIDE DEF given
  <1>5. t \in Results
    BY <1>4, SayTyped
  <1> HIDE DEF t
  <1> QED
    BY <1>1, <1>3, <1>5, JoinTyped

(* What ends a Gemini answer.                                               *)
Listing(st) == Complete([st EXCEPT !.output = Given(st)])

LEMMA GeminiFinishIs ==
  ASSUME NEW st
  PROVE  LET r == CloseReasoning(st)
             t == CloseText(r.st)
             c == Listing(t.st)
         IN  Then(Then(CloseReasoning(st), CloseText), LAMBDA s : Complete([s EXCEPT !.output = Given(s)])) =
               Result(c.st, (r.out \o t.out) \o c.out)
  BY DEF Then, Listing, Result

LEMMA ListingTyped ==
  ASSUME NEW st \in States, NEW output \in SUBSET Nat
  PROVE  Complete([st EXCEPT !.output = output]) \in Results
  <1> DEFINE next == [st EXCEPT !.output = output]
  <1>1. next \in States
    BY DEF States
  <1> HIDE DEF next
  <1> QED
    BY <1>1, CompleteTyped DEF next

LEMMA GeminiLineTyped ==
  ASSUME NEW st \in States, NEW line \in ConvLines
  PROVE  GeminiLine(st, line) \in Results
  <1>1. CASE line.type = "thought"
    <2> DEFINE given == GiveOut(st, st.reasoning)
    <2>1. given[1] \in Nat /\ given[2] \in States
      BY GiveOutTyped DEF States
    <2>2. GeminiLine(st, line) = Reason(given[2], given[1])
      BY <1>1 DEF GeminiLine
    <2> HIDE DEF given
    <2> QED
      BY <2>1, <2>2, ReasonTyped
  <1>2. CASE line.type = "text"
    BY <1>2, GeminiTextTyped DEF GeminiLine
  <1>3. CASE line.type = "call"
    <2> DEFINE next == [st EXCEPT !.called = TRUE]
    <2>1. next \in States
      BY DEF States
    <2>2. GeminiLine(st, line) = Result(next, << >>)
      BY <1>3 DEF GeminiLine
    <2> HIDE DEF next
    <2> QED
      BY <2>1, <2>2, ResultsOf
  <1>4. CASE line.type = "finish"
    <2> DEFINE r == CloseReasoning(st)
               t == CloseText(r.st)
               c == Listing(t.st)
               rt == Result(t.st, r.out \o t.out)
    <2>1. r \in Results /\ r.st \in States
      BY CloseReasoningTyped DEF Results
    <2>2. GeminiLine(st, line) = Result(c.st, (r.out \o t.out) \o c.out)
      BY <1>4, GeminiFinishIs DEF GeminiLine
    <2> HIDE DEF r
    <2>3. t \in Results /\ t.st \in States
      BY <2>1, CloseTextTyped DEF Results
    <2> HIDE DEF t
    <2>4. c \in Results
      BY <2>3, GivenTyped, ListingTyped DEF Listing
    <2> HIDE DEF c
    <2>5. rt \in Results
      BY <2>1, <2>3, JoinTyped
    <2>6. rt.out = r.out \o t.out
      BY DEF Result
    <2> HIDE DEF rt
    <2>7. Result(c.st, rt.out \o c.out) \in Results
      BY <2>4, <2>5, JoinTyped
    <2> QED
      BY <2>2, <2>6, <2>7
  <1>5. CASE line.type \notin {"thought", "text", "call", "finish"}
    <2>1. GeminiLine(st, line) = Result(st, << >>)
      BY <1>5 DEF GeminiLine
    <2> QED
      BY <2>1, ResultsOf
  <1> QED
    BY <1>1, <1>2, <1>3, <1>4, <1>5

(* Chat.                                                                    *)
LEMMA CallsTyped ==
  ASSUME NEW st \in States
  PROVE  /\ Calls(st) \in Seq(Nat) /\ DOMAIN Calls(st) = 1..Cardinality(st.calls)
         /\ Cardinality(st.calls) \in Nat
         /\ \A i \in 1..Cardinality(st.calls) : Calls(st)[i] = i - 1 + Cardinality(Given(st))
  <1> DEFINE c == Cardinality(st.calls)
             g == Cardinality(Given(st))
  <1>1. c \in Nat /\ g \in Nat
    BY GivenTyped, FS_CardinalityType DEF States
  <1>2. Calls(st) = [i \in 1..c |-> (i - 1) + g]
    BY DEF Calls, CallIndex
  <1> HIDE DEF c, g
  <1>3. \A i \in 1..c : (i - 1) + g \in Nat
    BY <1>1
  <1>4. [i \in 1..c |-> (i - 1) + g] \in Seq(Nat)
    BY <1>1, <1>3
  <1> QED
    BY <1>1, <1>2, <1>4 DEF c, g

LEMMA CloseFuncBlocksTyped ==
  ASSUME NEW st \in States
  PROVE  CloseFuncBlocks(st) \in Results
  <1> DEFINE next == [st EXCEPT !.active = "none"]
             n == Cardinality(st.calls)
             ends == [i \in DOMAIN Calls(st) |-> About("done", Calls(st)[i], "function_call")]
  <1>1. next \in States
    BY DEF States
  <1>2. CloseFuncBlocks(st) = IF st.active # "tool" THEN Result(st, << >>) ELSE Result(next, ends)
    BY DEF CloseFuncBlocks
  <1>3. n \in Nat /\ DOMAIN Calls(st) = 1..n /\ \A i \in 1..n : Calls(st)[i] \in Nat
    BY CallsTyped
  <1> HIDE DEF n
  <1>4. \A i \in 1..n : About("done", Calls(st)[i], "function_call") \in Outs
    BY <1>3, OutsAre DEF Shape!Kinds
  <1>5. ends \in Seq(Outs)
    BY <1>3, <1>4
  <1> HIDE DEF next, ends
  <1>6. Result(next, ends) \in Results
    BY <1>1, <1>5, ResultTyped
  <1>7. Result(st, << >>) \in Results
    BY ResultsOf
  <1> QED
    BY <1>2, <1>6, <1>7

LEMMA AddCallTyped ==
  ASSUME NEW st \in States, NEW n \in Nat
  PROVE  AddCall(st, n) \in Results
  <1> DEFINE more == st.calls \cup {n}
             next == [st EXCEPT !.calls = more, !.active = "tool", !.called = TRUE]
             e == About("added", CallIndex(st, n), "function_call")
  <1>1. more \in {S \in SUBSET Nat : IsFiniteSet(S)}
    BY FS_AddElement DEF States
  <1>2. "tool" \in Upstream!Blocks
    BY DEF Upstream!Blocks
  <1>3. AddCall(st, n) = Result(next, IF n \in st.calls THEN << >> ELSE <<e>>)
    BY DEF AddCall
  <1> HIDE DEF more
  <1>4. next \in States
    BY <1>1, <1>2 DEF States
  <1>5. e \in Outs
    <2>1. CallIndex(st, n) \in Nat
      BY GivenTyped DEF CallIndex
    <2> QED
      BY <2>1, OutsAre DEF Shape!Kinds
  <1> HIDE DEF next, e
  <1> QED
    BY <1>3, <1>4, <1>5, ResultsOf

LEMMA CloseBothIs ==
  ASSUME NEW st
  PROVE  LET r == CloseReasoning(st)
             t == CloseText(r.st)
         IN  Then(CloseReasoning(st), CloseText) = Result(t.st, r.out \o t.out)
  BY DEF Then

LEMMA CloseBothTyped ==
  ASSUME NEW st \in States
  PROVE  Then(CloseReasoning(st), CloseText) \in Results
  <1> DEFINE r == CloseReasoning(st)
             t == CloseText(r.st)
  <1>1. r \in Results /\ r.st \in States
    BY CloseReasoningTyped DEF Results
  <1>2. Then(CloseReasoning(st), CloseText) = Result(t.st, r.out \o t.out)
    BY CloseBothIs
  <1> HIDE DEF r
  <1>3. t \in Results
    BY <1>1, CloseTextTyped
  <1> HIDE DEF t
  <1> QED
    BY <1>1, <1>2, <1>3, JoinTyped

LEMMA CloseAllIs ==
  ASSUME NEW st
  PROVE  LET r == Then(CloseReasoning(st), CloseText)
             c == CloseFuncBlocks(r.st)
         IN  CloseAll(st) = Result(c.st, r.out \o c.out)
  BY DEF CloseAll, Then

LEMMA CloseAllTyped ==
  ASSUME NEW st \in States
  PROVE  CloseAll(st) \in Results
  <1> DEFINE r == Then(CloseReasoning(st), CloseText)
             c == CloseFuncBlocks(r.st)
  <1>1. r \in Results /\ r.st \in States
    BY CloseBothTyped DEF Results
  <1>2. CloseAll(st) = Result(c.st, r.out \o c.out)
    BY CloseAllIs
  <1> HIDE DEF r
  <1>3. c \in Results
    BY <1>1, CloseFuncBlocksTyped
  <1> HIDE DEF c
  <1> QED
    BY <1>1, <1>2, <1>3, JoinTyped

Ending(st) == Complete([st EXCEPT !.output = Given(st) \cup Range(Calls(st))])

LEMMA GenerateCompletedIs ==
  ASSUME NEW st
  PROVE  LET r == CloseAll(st)
             c == Ending(r.st)
         IN  GenerateCompleted(st) = Result(c.st, r.out \o c.out)
  BY DEF GenerateCompleted, Then, Ending

LEMMA GenerateCompletedTyped ==
  ASSUME NEW st \in States
  PROVE  GenerateCompleted(st) \in Results
  <1> DEFINE r == CloseAll(st)
             c == Ending(r.st)
  <1>1. r \in Results /\ r.st \in States
    BY CloseAllTyped DEF Results
  <1>2. GenerateCompleted(st) = Result(c.st, r.out \o c.out)
    BY GenerateCompletedIs
  <1> HIDE DEF r
  <1>3. Range(Calls(r.st)) \subseteq Nat /\ Given(r.st) \subseteq Nat
    BY <1>1, CallsTyped, GivenTyped DEF Range
  <1>4. c \in Results
    BY <1>1, <1>3, ListingTyped DEF Ending
  <1> HIDE DEF c
  <1> QED
    BY <1>1, <1>2, <1>4, JoinTyped

LEMMA MoveMessageTyped ==
  ASSUME NEW st \in States
  PROVE  MoveMessage(st) \in States
  BY DEF MoveMessage, States, Nowhere

LEMMA ChatLineTyped ==
  ASSUME NEW st \in States, NEW line \in ConvLines
  PROVE  ChatLine(st, line) \in Results
  <1> DEFINE b == Then(CloseReasoning(st), CloseText)
             r == CloseReasoning(st)
  <1>1. b \in Results /\ b.st \in States /\ r \in Results /\ r.st \in States /\ line.n \in Nat
    BY CloseBothTyped, CloseReasoningTyped DEF Results, ConvLines
  <1>2. CASE line.type = "reasoning"
    BY <1>2, ReasonTyped, MoveMessageTyped DEF ChatLine
  <1>3. CASE line.type = "text"
    <2> DEFINE i == IF r.st.reasoning = Nowhere THEN 0 ELSE 1
               t == Say(r.st, i)
    <2>1. ChatLine(st, line) = Result(t.st, r.out \o t.out)
      BY <1>3 DEF ChatLine, Then
    <2> HIDE DEF r, b
    <2>2. t \in Results
      <3>1. i \in Nat
        OBVIOUS
      <3> HIDE DEF i
      <3> QED
        BY <1>1, <3>1, SayTyped
    <2> HIDE DEF t
    <2> QED
      BY <1>1, <2>1, <2>2, JoinTyped
  <1>4. CASE line.type = "call"
    <2> DEFINE t == AddCall(b.st, line.n)
    <2>1. ChatLine(st, line) = Result(t.st, b.out \o t.out)
      BY <1>4 DEF ChatLine, Then
    <2> HIDE DEF r, b
    <2>2. t \in Results
      BY <1>1, AddCallTyped
    <2> HIDE DEF t
    <2> QED
      BY <1>1, <2>1, <2>2, JoinTyped
  <1>5. CASE line.type = "args"
    <2> DEFINE e == About("delta", CallIndex(b.st, line.n), "function_call")
               t == Result(b.st, <<e>>)
    <2>1. ChatLine(st, line) = Result(t.st, b.out \o t.out)
      BY <1>5 DEF ChatLine, Then
    <2> HIDE DEF r, b
    <2>2. t \in Results
      <3>1. CallIndex(b.st, line.n) \in Nat
        BY <1>1, GivenTyped DEF CallIndex
      <3>2. e \in Outs
        BY <3>1, OutsAre DEF Shape!Kinds
      <3> HIDE DEF e
      <3> QED
        BY <1>1, <3>2, ResultsOf
    <2> HIDE DEF t
    <2> QED
      BY <1>1, <2>1, <2>2, JoinTyped
  <1>6. CASE line.type = "finish"
    BY <1>6, CloseAllTyped DEF ChatLine
  <1>7. CASE line.type \notin {"reasoning", "text", "call", "args", "finish"}
    <2>1. ChatLine(st, line) = Result(st, << >>)
      BY <1>7 DEF ChatLine
    <2> QED
      BY <2>1, ResultsOf
  <1> QED
    BY <1>2, <1>3, <1>4, <1>5, <1>6, <1>7

(* What a line becomes once the answer was opened.                          *)
Body(st, line) ==
  CASE source = "claude" -> ClaudeLine(st, line)
    [] source = "gemini" -> GeminiLine(st, line)
    [] source = "chat" /\ line.type = "[DONE]" -> GenerateCompleted(st)
    [] source = "chat" /\ line.type # "[DONE]" -> ChatLine(st, line)
    [] source = "responses" -> Result(st, <<line>>)

OpenedState == [FreshState EXCEPT !.first = FALSE]
Opening2 == <<Shape!Plain("created"), Shape!Plain("progress")>>

LEMMA OpeningTyped ==
  /\ OpenedState \in States /\ Opening2 \in Seq(Outs)
  <1>1. Shape!Plain("created") \in Outs /\ Shape!Plain("progress") \in Outs
    <2>1. 0 \in Nat /\ "none" \in Shape!Kinds \cup {"none"} /\ {} \in SUBSET Nat
      OBVIOUS
    <2> QED
      BY <2>1, OutsAre
  <1>2. OpenedState \in States
    BY FreshTyped DEF OpenedState, States
  <1> QED
    BY <1>1, <1>2 DEF Opening2

LEMMA BodyTyped ==
  ASSUME source \in {"claude", "gemini", "chat", "responses"}, NEW st \in States, NEW line \in SourceLines
  PROVE  Body(st, line) \in Results
  <1>1. CASE source = "claude"
    BY <1>1, ClaudeLineTyped DEF Body, SourceLines
  <1>2. CASE source = "gemini"
    BY <1>2, GeminiLineTyped DEF Body, SourceLines
  <1>3. CASE source = "chat"
    BY <1>3, ChatLineTyped, GenerateCompletedTyped DEF Body, SourceLines
  <1>4. CASE source = "responses"
    BY <1>4, ResultsOf DEF Body, SourceLines
  <1> QED
    BY <1>1, <1>2, <1>3, <1>4

(* Opened puts two events before what the first line becomes.               *)
LEMMA ConvertIs ==
  ASSUME source \in {"claude", "gemini", "chat", "responses"}, NEW st \in States, NEW line \in SourceLines
  PROVE  /\ source = "responses" \/ ~ st.first \/ (source = "chat" /\ line.type = "[DONE]") =>
              Convert(st, line) = Body(st, line)
         /\ source # "responses" /\ st = FreshState /\ ~(source = "chat" /\ line.type = "[DONE]") =>
              Convert(st, line) = Result(Body(OpenedState, line).st,
                                         Opening2 \o Body(OpenedState, line).out)
  <1>1. CASE source = "responses"
    BY <1>1 DEF Convert, Body
  <1>2. CASE source = "chat" /\ line.type = "[DONE]"
    BY <1>2 DEF Convert, ConvertLine, Body
  <1>3. CASE source # "responses" /\ ~(source = "chat" /\ line.type = "[DONE]") /\ ~ st.first
    <2> DEFINE x == Body(st, line)
    <2>1. Opened(st) = Result(st, << >>)
      BY <1>3 DEF Opened
    <2>2. x \in Results
      BY BodyTyped
    <2>3. Convert(st, line) = Result(x.st, << >> \o x.out)
      BY <1>3, <2>1 DEF Convert, ConvertLine, Body, Then, Result
    <2> HIDE DEF x
    <2>4. Result(x.st, << >> \o x.out) = x
      <3>1. << >> \o x.out = x.out
        BY <2>2, ConcatEmptySeq DEF Results
      <3>2. x = [st |-> x.st, out |-> x.out]
        BY <2>2 DEF Results
      <3> QED
        BY <3>1, <3>2 DEF Result
    <2>5. st # FreshState
      BY <1>3, FreshTyped
    <2> QED
      BY <1>3, <2>3, <2>4, <2>5 DEF x
  <1>4. CASE source # "responses" /\ ~(source = "chat" /\ line.type = "[DONE]") /\ st.first
    <2>1. st = FreshState => Opened(st) = Result(OpenedState, Opening2)
      BY <1>4 DEF Opened, OpenedState, Opening2
    <2> DEFINE o == Opened(st)
               x == Body(o.st, line)
    <2>2. Convert(st, line) = Result(x.st, o.out \o x.out)
      BY <1>4 DEF Convert, ConvertLine, Body, Then
    <2>3. st = FreshState => o.st = OpenedState /\ o.out = Opening2
      BY <2>1 DEF Result
    <2> HIDE DEF o
    <2> QED
      BY <1>4, <2>2, <2>3
  <1> QED
    BY <1>1, <1>2, <1>3, <1>4

LEMMA OpenedTyped ==
  ASSUME NEW st \in States
  PROVE  Opened(st) \in Results
  <1> DEFINE next == [st EXCEPT !.first = FALSE]
  <1>1. next \in States
    BY DEF States
  <1>2. Opened(st) = IF st.first THEN Result(next, Opening2) ELSE Result(st, << >>)
    BY DEF Opened, Opening2
  <1> HIDE DEF next
  <1>3. Result(next, Opening2) \in Results
    BY <1>1, OpeningTyped, ResultTyped
  <1>4. Result(st, << >>) \in Results
    BY ResultsOf
  <1> QED
    BY <1>2, <1>3, <1>4

LEMMA ConvertTyped ==
  ASSUME source \in {"claude", "gemini", "chat", "responses"}, NEW st \in States, NEW line \in SourceLines
  PROVE  Convert(st, line) \in Results
  <1>1. CASE source = "responses" \/ (source = "chat" /\ line.type = "[DONE]")
    BY <1>1, ConvertIs, BodyTyped
  <1>2. CASE source # "responses" /\ ~(source = "chat" /\ line.type = "[DONE]")
    <2> DEFINE o == Opened(st)
               x == Body(o.st, line)
    <2>1. o \in Results /\ o.st \in States
      BY OpenedTyped DEF Results
    <2>2. Convert(st, line) = Result(x.st, o.out \o x.out)
      BY <1>2 DEF Convert, ConvertLine, Body, Then
    <2> HIDE DEF o
    <2>3. x \in Results
      BY <2>1, BodyTyped
    <2> HIDE DEF x
    <2> QED
      BY <2>1, <2>2, <2>3, JoinTyped
  <1> QED
    BY <1>1, <1>2

-----------------------------------------------------------------------------
(* Responses: what lines convert to, line by line *)

KnownSource == source \in {"claude", "gemini", "chat", "responses"}

Joined(r, line) ==
  LET c == Convert(r.st, line) IN Result(c.st, r.out \o c.out)

LEMMA JoinedTyped ==
  ASSUME KnownSource, NEW r \in Results, NEW line \in SourceLines
  PROVE  Joined(r, line) \in Results
  <1> DEFINE c == Convert(r.st, line)
  <1>1. c \in Results
    BY ConvertTyped DEF Results, KnownSource
  <1>2. Joined(r, line) = Result(c.st, r.out \o c.out)
    BY DEF Joined
  <1> HIDE DEF c
  <1> QED
    BY <1>1, <1>2, JoinTyped

LEMMA FreshResult == Result(FreshState, << >>) \in Results
  BY FreshTyped, ResultsOf

LEMMA ConvertedUnfolds ==
  ASSUME KnownSource, NEW lines \in Seq(SourceLines)
  PROVE  \E f \in [0..Len(lines) -> Results] :
           /\ f[0] = Result(FreshState, << >>) /\ Converted(lines) = f[Len(lines)]
           /\ \A n \in 1..Len(lines) : f[n] = Joined(f[n - 1], lines[n])
  <1> DEFINE N == Len(lines)
             fresh == Result(FreshState, << >>)
             step == [n \in 1..N |-> [r \in Results |-> Joined(r, lines[n])]]
  <1>1. N \in Nat /\ \A n \in 1..N : lines[n] \in SourceLines
    OBVIOUS
  <1>2. step \in [1..N -> [Results -> Results]]
    BY <1>1, JoinedTyped
  <1>3. \A n \in 1..N, r \in Results : step[n][r] = Joined(r, lines[n])
    OBVIOUS
  <1> HIDE DEF step, N
  <1>4. fresh \in Results
    BY FreshResult
  <1> HIDE DEF fresh
  <1>5. PICK f \in [0..N -> Results] : f[0] = fresh /\ \A n \in 1..N : f[n] = step[n][f[n - 1]]
    <2>1. \E f \in [0..N -> Results] : Unfolds(f, N, fresh, step)
      BY <1>1, <1>2, <1>4, StepsMakeFunction
    <2> QED
      BY <2>1 DEF Unfolds
  <1>6. \A n \in 1..N : f[n] = Joined(f[n - 1], lines[n])
    <2>1. \A n \in 1..N : n - 1 \in 0..N
      BY <1>1
    <2>2. \A n \in 1..N : f[n - 1] \in Results
      BY <1>5, <2>1
    <2> QED
      BY <1>3, <1>5, <2>2
  <1> DEFINE More(h) == [n \in 0..N |-> IF n = 0 THEN fresh ELSE Joined(h[n - 1], lines[n])]
             c == CHOOSE h : h = More(h)
  <1>7. Converted(lines) = c[N]
    BY DEF Converted, Then, Joined, N, fresh
  <1>8. f = More(f)
    <2>1. \A n \in 0..N : f[n] = More(f)[n]
      <3> SUFFICES ASSUME NEW n \in 0..N PROVE f[n] = More(f)[n]
        OBVIOUS
      <3>1. CASE n = 0
        BY <1>5, <3>1
      <3>2. CASE n # 0
        <4>1. n \in 1..N
          BY <1>1, <3>2
        <4> QED
          BY <1>6, <3>2, <4>1
      <3> QED
        BY <3>1, <3>2
    <2> QED
      BY <1>5, <2>1
  <1>9. c = More(c)
    BY <1>8
  <1> HIDE DEF c
  <1>10. 0 \in 0..N /\ N \in 0..N
    BY <1>1
  <1>11. c[0] = fresh /\ \A n \in 1..N : c[n] = Joined(c[n - 1], lines[n])
    <2>1. c[0] = More(c)[0] /\ More(c)[0] = fresh
      BY <1>9, <1>10
    <2>2. ASSUME NEW n \in 1..N PROVE c[n] = Joined(c[n - 1], lines[n])
      <3>1. n \in 0..N /\ n # 0
        BY <1>1
      <3>2. c[n] = More(c)[n]
        BY <1>9
      <3> QED
        BY <3>1, <3>2
    <2> QED
      BY <2>1, <2>2
  <1> DEFINE Same == {n \in 0..N : c[n] = f[n]}
  <1>12. 0 \in Same
    BY <1>5, <1>10, <1>11
  <1>13. ASSUME NEW n \in 1..N, n - 1 \in Same PROVE n \in Same
    BY <1>1, <1>6, <1>11, <1>13
  <1>14. \A n \in 0..N : n \in Same
    <2> HIDE DEF Same
    <2> QED
      BY <1>1, <1>12, <1>13, InductionTo
  <1>15. c[N] = f[N]
    BY <1>10, <1>14
  <1> QED
    BY <1>5, <1>6, <1>7, <1>15 DEF N, fresh

LEMMA ConvertedNone == KnownSource => Converted(<< >>) = Result(FreshState, << >>)
  <1> SUFFICES ASSUME KnownSource PROVE Converted(<< >>) = Result(FreshState, << >>)
    OBVIOUS
  <1> DEFINE lines == << >>
  <1>1. lines \in Seq(SourceLines) /\ Len(lines) = 0
    BY EmptySeq
  <1> HIDE DEF lines
  <1>2. PICK f \in [0..Len(lines) -> Results] :
          f[0] = Result(FreshState, << >>) /\ Converted(lines) = f[Len(lines)]
    BY <1>1, ConvertedUnfolds
  <1> QED
    BY <1>1, <1>2 DEF lines

LEMMA ConvertedAppend ==
  ASSUME KnownSource, NEW lines \in Seq(SourceLines), NEW line \in SourceLines
  PROVE  /\ Converted(lines) \in Results
         /\ Converted(Append(lines, line)) = Joined(Converted(lines), line)
  <1> DEFINE more == Append(lines, line)
             N == Len(lines)
             fresh == Result(FreshState, << >>)
  <1>1. /\ more \in Seq(SourceLines) /\ N \in Nat /\ Len(more) = N + 1
        /\ more[N + 1] = line /\ \A n \in 1..N : more[n] = lines[n]
    BY AppendProperties
  <1> HIDE DEF more
  <1>2. PICK f \in [0..N -> Results] :
           /\ f[0] = fresh /\ Converted(lines) = f[N]
           /\ \A n \in 1..N : f[n] = Joined(f[n - 1], lines[n])
    BY ConvertedUnfolds
  <1>3. PICK g \in [0..(N + 1) -> Results] :
           /\ g[0] = fresh /\ Converted(more) = g[N + 1]
           /\ \A n \in 1..(N + 1) : g[n] = Joined(g[n - 1], more[n])
    <2>1. more \in Seq(SourceLines)
      BY <1>1
    <2>2. \E g \in [0..Len(more) -> Results] :
             /\ g[0] = fresh /\ Converted(more) = g[Len(more)]
             /\ \A n \in 1..Len(more) : g[n] = Joined(g[n - 1], more[n])
      BY <2>1, ConvertedUnfolds
    <2> QED
      BY <1>1, <2>2
  <1> HIDE DEF N, fresh
  <1>4. \A n \in 1..N : f[n - 1] = g[n - 1] => f[n] = g[n]
    <2>1. \A n \in 1..N : n \in 1..(N + 1)
      BY <1>1
    <2> QED
      BY <1>1, <1>2, <1>3, <2>1
  <1>5. \A n \in 0..N : f[n] = g[n]
    <2>1. N \in Nat
      BY <1>1
    <2>2. f[0] = g[0]
      BY <1>2, <1>3
    <2> DEFINE Same == {n \in 0..N : f[n] = g[n]}
    <2>3. 0 \in Same
      BY <2>1, <2>2
    <2>4. ASSUME NEW n \in 1..N, n - 1 \in Same PROVE n \in Same
      BY <1>4, <2>4
    <2> HIDE DEF Same
    <2>5. \A n \in 0..N : n \in Same
      BY <2>1, <2>3, <2>4, InductionTo
    <2> QED
      BY <2>5 DEF Same
  <1>6. g[N + 1] = Joined(g[N], line)
    <2>1. N + 1 \in 1..(N + 1) /\ (N + 1) - 1 = N
      BY <1>1
    <2> QED
      BY <1>1, <1>3, <2>1
  <1>7. N \in 0..N
    BY <1>1
  <1> QED
    BY <1>2, <1>3, <1>5, <1>6, <1>7 DEF more

-----------------------------------------------------------------------------
(* Responses: the relay's invariant *)

(* The line that waits in the channel, if it is one of the upstream's.      *)
Scanned == IF lineChan = <<TheEnd>> THEN << >> ELSE lineChan

(* What was written, and is still to be written, is what the lines of       *)
(* passed convert to.                                                       *)
Replayed(passed) ==
  /\ converterState = Converted(passed).st
  /\ present => received \o unwritten = Converted(passed).out

Held ==
  \E passed \in Seq(SourceLines) :
    /\ sent = passed \o (bufferedLines \o Scanned)
    /\ IF phase = "preflight" THEN passed = << >> ELSE Replayed(passed)

StreamTypes ==
  /\ source \in Sources /\ sent \in Seq(SourceLines) /\ bufferedLines \in Seq(SourceLines)
  /\ lineChan \in {<< >>, <<TheEnd>>} \cup {<<line>> : line \in SourceLines}
  /\ phase \in {"preflight", "replay", "done"} /\ present \in BOOLEAN /\ gone \in BOOLEAN
  /\ received \in Seq(Outs) /\ unwritten \in Seq(Outs)

ResponsesInv ==
  /\ StreamTypes
  /\ phase = "preflight" => received = << >> /\ unwritten = << >>
  /\ present => ~ gone
  /\ phase # "done" => Held
  /\ returned = "success" => phase = "done" /\ (present => received = Converted(sent).out)

-----------------------------------------------------------------------------

LEMMA KnownIs == source \in Sources => KnownSource
  BY ResponsesRelayAssumption DEF KnownSource

LEMMA SameSource ==
  ASSUME source' = source, NEW lines
  PROVE  SourceLines' = SourceLines /\ Converted(lines)' = Converted(lines)
  <1>1. SourceLines' = SourceLines
    BY DEF SourceLines
  <1>2. Converted(lines)' = Converted(lines)
    BY DEF Converted, Convert, Then
  <1> QED
    BY <1>1, <1>2

LEMMA SameReplay ==
  ASSUME UNCHANGED <<source, converterState, present, received, unwritten>>, NEW passed
  PROVE  Replayed(passed)' = Replayed(passed)
  <1>1. Converted(passed)' = Converted(passed)
    BY SameSource
  <1> QED
    BY <1>1 DEF Replayed

LEMMA NotTheEnd == \A line \in SourceLines : line # TheEnd
  BY DEF SourceLines, ConvLines, Outs, TheEnd, Line

LEMMA ScannedTyped ==
  ASSUME lineChan \in {<< >>, <<TheEnd>>} \cup {<<line>> : line \in SourceLines}
  PROVE  /\ Scanned \in Seq(SourceLines)
         /\ lineChan # << >> /\ Head(lineChan) # TheEnd =>
              /\ Scanned = lineChan /\ lineChan = <<Head(lineChan)>> /\ Head(lineChan) \in SourceLines
              /\ Tail(lineChan) = << >>
         /\ lineChan \in {<< >>, <<TheEnd>>} => Scanned = << >>
  <1>1. CASE lineChan = << >>
    BY <1>1, EmptySeq DEF Scanned
  <1>2. CASE lineChan = <<TheEnd>>
    BY <1>2, EmptySeq DEF Scanned
  <1>3. CASE \E line \in SourceLines : lineChan = <<line>>
    <2>1. PICK line \in SourceLines : lineChan = <<line>>
      BY <1>3
    <2>2. Head(lineChan) = line /\ Tail(lineChan) = << >> /\ lineChan # << >>
      BY <2>1
    <2>3. lineChan # <<TheEnd>>
      BY <2>1, NotTheEnd
    <2> QED
      BY <2>1, <2>2, <2>3 DEF Scanned
  <1> QED
    BY <1>1, <1>2, <1>3

LEMMA ResponsesInvInit == StreamInit => ResponsesInv
  <1> SUFFICES ASSUME StreamInit PROVE ResponsesInv
    OBVIOUS
  <1> USE DEF StreamInit
  <1>1. << >> \in Seq(SourceLines) /\ << >> \in Seq(Outs) /\ << >> \o (<< >> \o << >>) = << >>
    BY EmptySeq, ConcatEmptySeq
  <1>2. StreamTypes
    BY <1>1 DEF StreamTypes
  <1>3. Scanned = << >>
    BY DEF Scanned
  <1>4. Held
    BY <1>1, <1>3 DEF Held
  <1> QED
    BY <1>2, <1>4 DEF ResponsesInv

(* The lines of an upstream.                                                *)
LEMMA SpokenTyped ==
  ASSUME StreamTypes, NEW line \in Spoken \cup FailureOf
  PROVE  line \in SourceLines
  <1>1. KnownSource /\ 0 \in Nat /\ 0..(MaxItems - 1) \subseteq Nat
    BY KnownIs, ResponsesRelayAssumption DEF StreamTypes
  <1>2. CASE source = "claude"
    <2>1. line \in ClaudeLines \cup Failures
      BY <1>2 DEF Spoken, FailureOf
    <2> QED
      BY <1>1, <1>2, <2>1 DEF ClaudeLines, Failures, Plain, Line, SourceLines, ConvLines
  <1>3. CASE source = "gemini"
    <2>1. line \in GeminiLines \cup Failures
      BY <1>3 DEF Spoken, FailureOf
    <2>2. \E type \in {"call", "text", "bare", "thought", "finish", "fault", "rejected"} : line = Plain(type)
      BY <2>1 DEF GeminiLines, Failures
    <2> QED
      BY <1>1, <1>3, <2>2 DEF Plain, Line, SourceLines, ConvLines
  <1>4. CASE source = "chat"
    <2>1. line \in ChatLines \cup Failures
      BY <1>4 DEF Spoken, FailureOf
    <2> QED
      BY <1>1, <1>4, <2>1 DEF ChatLines, Failures, Plain, Line, SourceLines, ConvLines
  <1>5. CASE source = "responses"
    <2>1. line \in ResponsesLines \cup {Reader!Plain("fault"), Reader!Plain("rejected")}
      BY <1>5 DEF Spoken, FailureOf
    <2>2. sent \in Seq(Outs) /\ SourceLines = Outs
      BY <1>5 DEF StreamTypes, SourceLines
    <2>3. Reader!With(sent, "added") \subseteq Nat
      <3>1. \A i \in DOMAIN sent : sent[i] \in Outs
        BY <2>2
      <3> QED
        BY <3>1 DEF Reader!With, Outs
    <2>4. Reader!Kinds = Shape!Kinds /\ "function_call" \in Shape!Kinds
      BY DEF Reader!Kinds, Shape!Kinds
    <2>5. \/ line \in [type : {"added", "delta", "done"}, item : 0..(MaxItems - 1),
                       kind : Reader!Kinds, output : {{}}]
          \/ \E k \in {"none", "function_call"} : line = Reader!Completed(k, Reader!With(sent, "added"))
          \/ \E type \in {"created", "progress", "fault", "rejected"} : line = Reader!Plain(type)
      BY <2>1 DEF ResponsesLines
    <2>6. CASE line \in [type : {"added", "delta", "done"}, item : 0..(MaxItems - 1),
                         kind : Reader!Kinds, output : {{}}]
      BY <1>1, <2>2, <2>4, <2>6 DEF Outs
    <2>7. CASE \E k \in {"none", "function_call"} : line = Reader!Completed(k, Reader!With(sent, "added"))
      BY <1>1, <2>2, <2>3, <2>4, <2>7 DEF Outs, Reader!Completed
    <2>8. CASE \E type \in {"created", "progress", "fault", "rejected"} : line = Reader!Plain(type)
      BY <1>1, <2>2, <2>8 DEF Outs, Reader!Plain, Reader!About
    <2> QED
      BY <2>5, <2>6, <2>7, <2>8
  <1> QED
    BY <1>1, <1>2, <1>3, <1>4, <1>5 DEF KnownSource

LEMMA ReadLineKept == ResponsesInv /\ ReadLine => ResponsesInv'
  <1> SUFFICES ASSUME ResponsesInv, ReadLine PROVE ResponsesInv'
    OBVIOUS
  <1> USE DEF preflightVars
  <1>1. /\ StreamTypes /\ lineChan = << >> /\ phase # "done" /\ Held
        /\ UNCHANGED <<source, scan, preflightVars, unwritten, present, gone, received>>
    BY DEF ResponsesInv, ReadLine
  <1>2. PICK line \in Spoken \cup FailureOf : sent' = Append(sent, line) /\ lineChan' = <<line>>
    BY DEF ReadLine
  <1>3. line \in SourceLines /\ line # TheEnd /\ <<line>> \in Seq(SourceLines)
    BY <1>1, <1>2, SpokenTyped, NotTheEnd
  <1>4. Scanned = << >> /\ Scanned' = <<line>> /\ SourceLines' = SourceLines
    BY <1>1, <1>2, <1>3 DEF Scanned, TheEnd, SourceLines
  <1>5. StreamTypes'
    BY <1>1, <1>2, <1>3, <1>4, AppendProperties DEF StreamTypes
  <1>6. PICK passed \in Seq(SourceLines) :
          /\ sent = passed \o (bufferedLines \o Scanned)
          /\ IF phase = "preflight" THEN passed = << >> ELSE Replayed(passed)
    BY <1>1 DEF Held
  <1>7. sent' = passed \o (bufferedLines \o <<line>>)
    <2>1. bufferedLines \in Seq(SourceLines) /\ sent \in Seq(SourceLines)
      BY <1>1 DEF StreamTypes
    <2>2. sent = passed \o bufferedLines
      BY <1>4, <1>6, <2>1, ConcatEmptySeq
    <2>3. sent' = (passed \o bufferedLines) \o <<line>>
      BY <1>2, <1>3, <2>1, <2>2, AppendIsConcat
    <2> QED
      BY <1>3, <2>1, <2>3, Regroup
  <1>8. Replayed(passed)' = Replayed(passed)
    BY <1>1, SameReplay
  <1>9. Held'
    BY <1>1, <1>4, <1>6, <1>7, <1>8 DEF Held
  <1> QED
    BY <1>1, <1>5, <1>9 DEF ResponsesInv

LEMMA ScanOverKept == ResponsesInv /\ ScanOver => ResponsesInv'
  <1> SUFFICES ASSUME ResponsesInv, ScanOver PROVE ResponsesInv'
    OBVIOUS
  <1> USE DEF preflightVars
  <1>1. /\ StreamTypes /\ lineChan = << >> /\ lineChan' = <<TheEnd>>
        /\ UNCHANGED <<source, sent, preflightVars, unwritten, present, gone, received>>
    BY DEF ResponsesInv, ScanOver
  <1>2. Scanned = << >> /\ Scanned' = << >> /\ SourceLines' = SourceLines
    BY <1>1 DEF Scanned, TheEnd, SourceLines
  <1>3. StreamTypes'
    BY <1>1, <1>2 DEF StreamTypes
  <1>4. Held => Held'
    <2> SUFFICES ASSUME Held PROVE Held'
      OBVIOUS
    <2>1. PICK passed \in Seq(SourceLines) :
            /\ sent = passed \o (bufferedLines \o Scanned)
            /\ IF phase = "preflight" THEN passed = << >> ELSE Replayed(passed)
      BY DEF Held
    <2>2. Replayed(passed)' = Replayed(passed)
      BY <1>1, SameReplay
    <2> QED
      BY <1>1, <1>2, <2>1, <2>2 DEF Held
  <1>5. Converted(sent)' = Converted(sent)
    BY <1>1, SameSource
  <1> QED
    BY <1>1, <1>3, <1>4, <1>5 DEF ResponsesInv

(* What changes neither the lines nor what became of them.                  *)
LEMMA NothingMoved ==
  ASSUME ResponsesInv, UNCHANGED <<source, sent, lineChan, phase, bufferedLines, converterState, returned,
                                   unwritten, gone, received>>,
         present' \in BOOLEAN, present' => present
  PROVE  ResponsesInv'
  <1>1. StreamTypes /\ Scanned' = Scanned /\ SourceLines' = SourceLines
    BY DEF ResponsesInv, Scanned, TheEnd, SourceLines
  <1>2. StreamTypes'
    BY <1>1 DEF StreamTypes
  <1>3. Held => Held'
    <2> SUFFICES ASSUME Held PROVE Held'
      OBVIOUS
    <2>1. PICK passed \in Seq(SourceLines) :
            /\ sent = passed \o (bufferedLines \o Scanned)
            /\ IF phase = "preflight" THEN passed = << >> ELSE Replayed(passed)
      BY DEF Held
    <2>2. Replayed(passed) => Replayed(passed)'
      BY SameSource DEF Replayed
    <2> QED
      BY <1>1, <2>1, <2>2 DEF Held
  <1>4. Converted(sent)' = Converted(sent)
    BY SameSource
  <1> QED
    BY <1>2, <1>3, <1>4 DEF ResponsesInv

LEMMA StopScanningKept == ResponsesInv /\ StopScanning => ResponsesInv'
  BY NothingMoved DEF StopScanning, preflightVars, ResponsesInv, StreamTypes

LEMMA ReaderLeavesKept == ResponsesInv /\ ReaderLeaves => ResponsesInv'
  BY NothingMoved DEF ReaderLeaves, scannerVars, preflightVars

(* The replay starts with nothing converted.                                *)
LEMMA ReplayStarts ==
  ASSUME ResponsesInv, phase = "preflight", phase' = "replay", converterState' = FreshState,
         UNCHANGED <<source, unwritten, received>>,
         sent' = bufferedLines' \o Scanned',
         bufferedLines' \in Seq(SourceLines), Scanned' \in Seq(SourceLines)
  PROVE  Held'
  <1>1. KnownSource' /\ received = << >> /\ unwritten = << >> /\ SourceLines' = SourceLines
    BY KnownIs, SameSource DEF ResponsesInv, StreamTypes, KnownSource
  <1>2. Converted(<< >>) = Result(FreshState, << >>) /\ Converted(<< >>)' = Converted(<< >>)
    BY <1>1, ConvertedNone, SameSource DEF KnownSource
  <1>3. Replayed(<< >>)'
    BY <1>1, <1>2, ConcatEmptySeq, NoOut DEF Replayed, Result
  <1>4. bufferedLines' \o Scanned' \in Seq(SourceLines)
    BY ConcatProperties
  <1>5. sent' = << >> \o (bufferedLines' \o Scanned') /\ << >> \in Seq(SourceLines)
    BY <1>4, ConcatEmptySeq, EmptySeq
  <1> QED
    BY <1>1, <1>3, <1>5 DEF Held

LEMMA PreflightSent ==
  ASSUME ResponsesInv, phase = "preflight"
  PROVE  sent = bufferedLines \o Scanned /\ Scanned \in Seq(SourceLines) /\ bufferedLines \in Seq(SourceLines)
         /\ returned # "success" /\ received = << >> /\ unwritten = << >>
  <1>1. StreamTypes /\ Held /\ returned # "success" /\ received = << >> /\ unwritten = << >>
    BY DEF ResponsesInv
  <1>2. Scanned \in Seq(SourceLines) /\ bufferedLines \in Seq(SourceLines)
    BY <1>1, ScannedTyped DEF StreamTypes
  <1>3. bufferedLines \o Scanned \in Seq(SourceLines)
    BY <1>2, ConcatProperties
  <1>4. sent = << >> \o (bufferedLines \o Scanned)
    BY <1>1 DEF Held
  <1> QED
    BY <1>1, <1>2, <1>3, <1>4, ConcatEmptySeq

LEMMA PreflightLineKept == ResponsesInv /\ PreflightLine => ResponsesInv'
  <1> SUFFICES ASSUME ResponsesInv, PreflightLine PROVE ResponsesInv'
    OBVIOUS
  <1> DEFINE line == Head(lineChan)
  <1>1. /\ StreamTypes /\ phase = "preflight" /\ lineChan # << >> /\ Head(lineChan) # TheEnd
        /\ bufferedLines' = Append(bufferedLines, line) /\ lineChan' = << >>
        /\ UNCHANGED <<source, sent, scan, unwritten, present, gone, received>>
    BY DEF ResponsesInv, PreflightLine
  <1>2. \/ phase' = "done" /\ returned' \in {"blacklist", "empty"}
        \/ phase' = "replay" /\ converterState' = FreshState /\ returned' = returned
        \/ phase' = "preflight" /\ returned' = returned
    BY <1>1 DEF PreflightLine, LetThrough, TurnDown, GiveUp
  <1>3. /\ line \in SourceLines /\ Scanned = lineChan /\ lineChan = <<line>>
        /\ Scanned' = << >> /\ SourceLines' = SourceLines
    <2>1. line \in SourceLines /\ Scanned = lineChan /\ lineChan = <<line>>
      BY <1>1, ScannedTyped DEF StreamTypes
    <2>2. Scanned' = << >> /\ SourceLines' = SourceLines
      BY <1>1, EmptySeq DEF Scanned, TheEnd, SourceLines
    <2> QED
      BY <2>1, <2>2
  <1>4. /\ sent = bufferedLines \o Scanned /\ bufferedLines \in Seq(SourceLines)
        /\ returned # "success" /\ received = << >> /\ unwritten = << >>
    BY <1>1, PreflightSent
  <1> HIDE DEF line
  <1>5. bufferedLines' \in Seq(SourceLines) /\ bufferedLines' = bufferedLines \o <<line>>
    BY <1>1, <1>3, <1>4, AppendProperties, AppendIsConcat
  <1>6. sent' = bufferedLines' \o Scanned' /\ Scanned' \in Seq(SourceLines)
    <2>1. sent' = bufferedLines'
      BY <1>1, <1>3, <1>4, <1>5
    <2>2. bufferedLines' \o << >> = bufferedLines'
      BY <1>5, ConcatEmptySeq
    <2> QED
      BY <1>3, <2>1, <2>2, EmptySeq
  <1>7. StreamTypes'
    BY <1>1, <1>2, <1>3, <1>5 DEF StreamTypes
  <1>8. phase' = "replay" => Held'
    BY <1>1, <1>2, <1>5, <1>6, ReplayStarts
  <1>9. phase' = "preflight" => Held'
    <2>1. sent' = << >> \o (bufferedLines' \o Scanned') /\ << >> \in Seq(SourceLines)
      <3>1. bufferedLines' \o Scanned' \in Seq(SourceLines)
        BY <1>5, <1>6, ConcatProperties
      <3> QED
        BY <1>6, <3>1, ConcatEmptySeq, EmptySeq
    <2> QED
      BY <1>3, <2>1 DEF Held
  <1> QED
    BY <1>1, <1>2, <1>4, <1>7, <1>8, <1>9 DEF ResponsesInv

LEMMA PreflightOverKept == ResponsesInv /\ PreflightOver => ResponsesInv'
  <1> SUFFICES ASSUME ResponsesInv, PreflightOver PROVE ResponsesInv'
    OBVIOUS
  <1>1. /\ StreamTypes /\ phase = "preflight" /\ phase' = "done" /\ returned' \in {"blacklist", "empty"}
        /\ lineChan' = << >>
        /\ UNCHANGED <<source, sent, bufferedLines, unwritten, present, gone, received>>
    BY DEF ResponsesInv, PreflightOver, TurnDown, GiveUp
  <1>2. StreamTypes'
    BY <1>1 DEF StreamTypes, SourceLines, TheEnd
  <1> QED
    BY <1>1, <1>2 DEF ResponsesInv

LEMMA PreflightExpiresKept == ResponsesInv /\ PreflightExpires => ResponsesInv'
  <1> SUFFICES ASSUME ResponsesInv, PreflightExpires PROVE ResponsesInv'
    OBVIOUS
  <1> USE DEF scannerVars
  <1>1. /\ StreamTypes /\ phase = "preflight"
        /\ UNCHANGED <<scannerVars, bufferedLines, unwritten, present, gone, received>>
    BY DEF ResponsesInv, PreflightExpires
  <1>2. \/ phase' = "done" /\ returned' \in {"blacklist", "empty"}
        \/ phase' = "replay" /\ converterState' = FreshState /\ returned' = returned
    BY DEF PreflightExpires, LetThrough, GiveUp
  <1>3. /\ sent = bufferedLines \o Scanned /\ Scanned \in Seq(SourceLines)
        /\ bufferedLines \in Seq(SourceLines)
        /\ returned # "success" /\ received = << >> /\ unwritten = << >>
    BY <1>1, PreflightSent
  <1>4. Scanned' = Scanned /\ SourceLines' = SourceLines
    BY <1>1 DEF Scanned, TheEnd, SourceLines
  <1>5. StreamTypes'
    BY <1>1, <1>2, <1>4 DEF StreamTypes
  <1>6. phase' = "replay" => Held'
    BY <1>1, <1>2, <1>3, <1>4, ReplayStarts
  <1> QED
    BY <1>1, <1>2, <1>3, <1>5, <1>6 DEF ResponsesInv

LEMMA ResultFields ==
  ASSUME NEW st, NEW out
  PROVE  Result(st, out).st = st /\ Result(st, out).out = out
  BY DEF Result

(* The next line leaves the buffer, or the channel, and is converted.       *)
LEMMA ProcessLineKept == ResponsesInv /\ ProcessLine => ResponsesInv'
  <1> SUFFICES ASSUME ResponsesInv, ProcessLine PROVE ResponsesInv'
    OBVIOUS
  <1> DEFINE line == Head(IF bufferedLines # << >> THEN bufferedLines ELSE lineChan)
             c == Convert(converterState, line)
             rest == bufferedLines \o Scanned
  <1>1. /\ StreamTypes /\ phase = "replay" /\ unwritten = << >> /\ line # TheEnd
        /\ converterState' = c.st /\ unwritten' = c.out
        /\ bufferedLines # << >> \/ lineChan # << >>
        /\ UNCHANGED <<source, sent, scan, scanDone, phase, blacklisted, returned, present, gone, received>>
    BY DEF ResponsesInv, ProcessLine
  <1>2. KnownSource /\ KnownSource' /\ bufferedLines \in Seq(SourceLines) /\ Scanned \in Seq(SourceLines)
        /\ received \in Seq(Outs) /\ SourceLines' = SourceLines
    BY <1>1, KnownIs, ScannedTyped DEF StreamTypes, KnownSource, SourceLines
  <1>3. /\ line \in SourceLines /\ rest = <<line>> \o (bufferedLines' \o Scanned')
        /\ bufferedLines' \in Seq(SourceLines) /\ Scanned' \in Seq(SourceLines)
        /\ lineChan' \in {<< >>, <<TheEnd>>} \cup {<<x>> : x \in SourceLines}
    <2>1. CASE bufferedLines # << >>
      <3>1. bufferedLines' = Tail(bufferedLines) /\ lineChan' = lineChan /\ line = Head(bufferedLines)
        BY <2>1 DEF ProcessLine
      <3>2. /\ line \in SourceLines /\ Tail(bufferedLines) \in Seq(SourceLines)
            /\ bufferedLines = <<line>> \o Tail(bufferedLines)
        BY <1>2, <2>1, <3>1, HeadFirst
      <3>3. Scanned' = Scanned
        BY <3>1 DEF Scanned, TheEnd
      <3>4. <<line>> \in Seq(SourceLines)
        BY <3>2
      <3> DEFINE t == Tail(bufferedLines)
      <3> HIDE DEF line, t
      <3>5. (<<line>> \o t) \o Scanned = <<line>> \o (t \o Scanned)
        BY <1>2, <3>2, <3>4, Regroup DEF t
      <3> QED
        BY <1>1, <1>2, <3>1, <3>2, <3>3, <3>5 DEF t, StreamTypes
    <2>2. CASE bufferedLines = << >>
      <3>1. bufferedLines' = << >> /\ lineChan' = Tail(lineChan) /\ line = Head(lineChan) /\ lineChan # << >>
        BY <1>1, <2>2 DEF ProcessLine
      <3>2. line \in SourceLines /\ Scanned = <<line>> /\ lineChan' = << >>
        BY <1>1, <3>1, ScannedTyped DEF StreamTypes
      <3>3. Scanned' = << >>
        BY <3>2 DEF Scanned, TheEnd
      <3>4. <<line>> \in Seq(SourceLines) /\ << >> \in Seq(SourceLines)
        BY <3>2, EmptySeq
      <3> HIDE DEF line
      <3>5. << >> \o <<line>> = <<line>> /\ << >> \o << >> = << >> /\ <<line>> \o << >> = <<line>>
        BY <3>4, ConcatEmptySeq
      <3> QED
        BY <2>2, <3>1, <3>2, <3>3, <3>4, <3>5
    <2> QED
      BY <2>1, <2>2
  <1>4. PICK passed \in Seq(SourceLines) : sent = passed \o rest /\ Replayed(passed)
    BY <1>1 DEF ResponsesInv, Held
  <1> HIDE DEF line
  <1>5. PICK more : more = Append(passed, line)
    OBVIOUS
  <1>6. /\ more \in Seq(SourceLines) /\ more = passed \o <<line>> /\ <<line>> \in Seq(SourceLines)
        /\ Converted(passed) \in Results /\ Converted(more) = Joined(Converted(passed), line)
    BY <1>2, <1>3, <1>5, AppendProperties, AppendIsConcat, ConvertedAppend
  <1>7. converterState = Converted(passed).st /\ c \in Results
    BY <1>2, <1>3, <1>4, <1>6, ConvertTyped DEF Replayed, Results, KnownSource
  <1>8. /\ Converted(more).st = c.st /\ Converted(more).out = Converted(passed).out \o c.out
    <2>1. Convert(Converted(passed).st, line) = c
      BY <1>7
    <2> HIDE DEF c
    <2>2. Converted(more) = Result(c.st, Converted(passed).out \o c.out)
      BY <1>6, <2>1 DEF Joined
    <2>3. Result(c.st, Converted(passed).out \o c.out).st = c.st
      BY ResultFields
    <2>4. Result(c.st, Converted(passed).out \o c.out).out = Converted(passed).out \o c.out
      BY ResultFields
    <2> QED
      BY <2>2, <2>3, <2>4
  <1> HIDE DEF c, rest
  <1>9. sent' = more \o (bufferedLines' \o Scanned')
    <2> DEFINE after == bufferedLines' \o Scanned'
    <2>1. after \in Seq(SourceLines)
      BY <1>3, ConcatProperties
    <2>2. sent' = passed \o (<<line>> \o after)
      BY <1>1, <1>3, <1>4
    <2> HIDE DEF after
    <2>3. passed \o (<<line>> \o after) = (passed \o <<line>>) \o after
      BY <1>6, <2>1, Regroup
    <2> QED
      BY <1>6, <2>2, <2>3 DEF after
  <1>10. Replayed(more)'
    <2>1. Converted(more)' = Converted(more)
      BY <1>1, SameSource
    <2>2. present => received = Converted(passed).out
      BY <1>1, <1>2, <1>4, ConcatEmptySeq DEF Replayed
    <2>3. present' => received' \o unwritten' = Converted(more).out
      BY <1>1, <1>8, <2>2
    <2> QED
      BY <1>1, <1>8, <2>1, <2>3 DEF Replayed
  <1>11. Held'
    BY <1>1, <1>2, <1>6, <1>9, <1>10 DEF Held
  <1>12. StreamTypes'
    BY <1>1, <1>2, <1>3, <1>7 DEF StreamTypes, Results
  <1> QED
    BY <1>1, <1>11, <1>12 DEF ResponsesInv

LEMMA WriteEventKept == ResponsesInv /\ WriteEvent => ResponsesInv'
  <1> SUFFICES ASSUME ResponsesInv, WriteEvent PROVE ResponsesInv'
    OBVIOUS
  <1> USE DEF scannerVars, preflightVars
  <1>1. /\ StreamTypes /\ phase = "replay" /\ unwritten # << >> /\ unwritten' = Tail(unwritten)
        /\ received' = IF present /\ ~ gone THEN Append(received, Head(unwritten)) ELSE received
        /\ gone' = (gone \/ ~ present)
        /\ UNCHANGED <<scannerVars, preflightVars, present>>
    BY DEF ResponsesInv, WriteEvent
  <1>2. received \in Seq(Outs) /\ unwritten \in Seq(Outs)
    BY <1>1 DEF StreamTypes
  <1>3. /\ Head(unwritten) \in Outs /\ Tail(unwritten) \in Seq(Outs)
        /\ unwritten = <<Head(unwritten)>> \o Tail(unwritten) /\ <<Head(unwritten)>> \in Seq(Outs)
    BY <1>1, <1>2, HeadFirst
  <1>4. received' \in Seq(Outs) /\ (present => received' \o unwritten' = received \o unwritten)
    <2>1. CASE present /\ ~ gone
      <3> DEFINE e == Head(unwritten)
                 t == Tail(unwritten)
      <3>1. e \in Outs /\ t \in Seq(Outs) /\ unwritten = <<e>> \o t /\ <<e>> \in Seq(Outs) /\ unwritten' = t
            /\ received' = Append(received, e)
        BY <1>1, <1>3, <2>1
      <3> HIDE DEF e, t
      <3>2. Append(received, e) \in Seq(Outs) /\ Append(received, e) = received \o <<e>>
        BY <1>2, <3>1, AppendProperties, AppendIsConcat
      <3>3. received \o (<<e>> \o t) = (received \o <<e>>) \o t
        BY <1>2, <3>1, Regroup
      <3> QED
        BY <3>1, <3>2, <3>3
    <2>2. CASE ~(present /\ ~ gone)
      <3>1. ~ present
        BY <2>2 DEF ResponsesInv
      <3> QED
        BY <1>1, <1>2, <2>2, <3>1
    <2> QED
      BY <2>1, <2>2
  <1>5. Scanned' = Scanned /\ SourceLines' = SourceLines
    BY <1>1 DEF Scanned, TheEnd, SourceLines
  <1>6. StreamTypes'
    BY <1>1, <1>3, <1>4, <1>5 DEF StreamTypes
  <1>7. Held'
    <2>1. PICK passed \in Seq(SourceLines) :
            sent = passed \o (bufferedLines \o Scanned) /\ Replayed(passed)
      BY <1>1 DEF ResponsesInv, Held
    <2>2. Converted(passed)' = Converted(passed)
      BY <1>1, SameSource
    <2>3. Replayed(passed)'
      BY <1>1, <1>4, <2>1, <2>2 DEF Replayed
    <2> QED
      BY <1>1, <1>5, <2>1, <2>3 DEF Held
  <1>8. present' => ~ gone'
    BY <1>1 DEF ResponsesInv
  <1> QED
    BY <1>1, <1>6, <1>7, <1>8 DEF ResponsesInv

LEMMA LinesOverKept == ResponsesInv /\ LinesOver => ResponsesInv'
  <1> SUFFICES ASSUME ResponsesInv, LinesOver PROVE ResponsesInv'
    OBVIOUS
  <1>1. /\ StreamTypes /\ phase = "replay" /\ unwritten = << >> /\ bufferedLines = << >>
        /\ lineChan = <<TheEnd>> /\ phase' = "done" /\ returned' = "success" /\ lineChan' = << >>
        /\ UNCHANGED <<source, sent, bufferedLines, unwritten, present, gone, received>>
    BY DEF ResponsesInv, LinesOver
  <1>2. PICK passed \in Seq(SourceLines) :
          sent = passed \o (bufferedLines \o Scanned) /\ Replayed(passed)
    BY <1>1 DEF ResponsesInv, Held
  <1>3. Scanned = << >> /\ received \in Seq(Outs)
    BY <1>1 DEF Scanned, StreamTypes
  <1>4. sent = passed
    BY <1>1, <1>2, <1>3, ConcatEmptySeq, EmptySeq
  <1>5. present => received = Converted(sent).out
    BY <1>1, <1>2, <1>3, <1>4, ConcatEmptySeq DEF Replayed
  <1>6. Converted(sent)' = Converted(sent)
    BY <1>1, SameSource
  <1>7. StreamTypes'
    BY <1>1 DEF StreamTypes, SourceLines, TheEnd
  <1>8. (present => ~ gone)'
    BY <1>1 DEF ResponsesInv
  <1> QED
    BY <1>1, <1>5, <1>6, <1>7, <1>8 DEF ResponsesInv

(* No step of the reader or of the handler breaks the invariant.            *)
LEMMA ResponsesInvStep == ResponsesInv /\ [StreamNext]_streamVars => ResponsesInv'
  <1>1. ResponsesInv /\ UNCHANGED streamVars => ResponsesInv'
    BY NothingMoved DEF streamVars, scannerVars, preflightVars, ResponsesInv, StreamTypes
  <1> QED
    BY <1>1, ReadLineKept, ScanOverKept, StopScanningKept, PreflightLineKept, PreflightOverKept,
       PreflightExpiresKept, ProcessLineKept, WriteEventKept, LinesOverKept, ReaderLeavesKept
    DEF StreamNext, Scan, Answer

LEMMA ResponsesInvAlways == StreamSpec => []ResponsesInv
  <1> QED
    BY ResponsesInvInit, ResponsesInvStep, PTL DEF StreamSpec

LEMMA ConvertedWholeOf == ResponsesInv => ConvertedWhole
  BY DEF ResponsesInv, ConvertedWhole

(* An answer of the Responses API that came to its end is what its lines    *)
(* convert to: the preflight that read some of them before does not show.   *)
THEOREM ResponsesWhole == StreamSpec => []ConvertedWhole
  <1> QED
    BY ResponsesInvAlways, ConvertedWholeOf, PTL
=============================================================================
