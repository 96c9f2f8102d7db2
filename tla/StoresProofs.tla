---------------------------- MODULE StoresProofs ---------------------------
(***************************************************************************)
(* Proofs about the components that share no state: the channel log, the   *)
(* write path of the metrics store, the order of a channel's URLs, the     *)
(* conversations of the Responses API, and the jobs that run beside the    *)
(* requests (recovery, capability tests).                                  *)
(***************************************************************************)
EXTENDS ChannelLog, WriteBuffer, Sessions, UrlOrder, RecoveryClock, Dispatcher,
        CapabilityJobs, SequenceTheorems, FiniteSetTheorems, TLAPS

-----------------------------------------------------------------------------
(* Finite sets *)

(* In a finite set under a strict total order every place from 0 on is      *)
(* taken by exactly one element, which has that many elements before it.    *)
LEMMA Ranking ==
  ASSUME NEW S, IsFiniteSet(S), NEW R,
         \A x \in S : <<x, x>> \notin R,
         \A x, y, z \in S : <<x, y>> \in R /\ <<y, z>> \in R => <<x, z>> \in R,
         \A x, y \in S : x # y => <<x, y>> \in R \/ <<y, x>> \in R
  PROVE  /\ Cardinality(S) \in Nat
         /\ \A x \in S : Cardinality({w \in S : <<w, x>> \in R}) \in 0..(Cardinality(S) - 1)
         /\ \A x, y \in S : <<x, y>> \in R <=>
              Cardinality({w \in S : <<w, x>> \in R}) < Cardinality({w \in S : <<w, y>> \in R})
         /\ \A n \in 0..(Cardinality(S) - 1) :
              \E x \in S : Cardinality({w \in S : <<w, x>> \in R}) = n
  <1> DEFINE before(x) == {w \in S : <<w, x>> \in R}
             size == Cardinality(S)
             rank == [x \in S |-> Cardinality(before(x)) + 1]
  <1>1. \A x \in S : /\ IsFiniteSet(before(x)) /\ Cardinality(before(x)) \in Nat
                     /\ Cardinality(before(x)) < size
    <2> SUFFICES ASSUME NEW x \in S
                 PROVE  /\ IsFiniteSet(before(x)) /\ Cardinality(before(x)) \in Nat
                        /\ Cardinality(before(x)) < size
      OBVIOUS
    <2>1. before(x) \in SUBSET S /\ before(x) # S
      OBVIOUS
    <2>2. /\ IsFiniteSet(before(x))
          /\ Cardinality(before(x)) <= size /\ Cardinality(before(x)) # size
      BY <2>1, FS_Subset
    <2> QED
      BY <2>2, FS_CardinalityType
  <1> HIDE DEF before, size
  <1>2. ASSUME NEW x \in S, NEW y \in S, <<x, y>> \in R
        PROVE  Cardinality(before(x)) < Cardinality(before(y))
    <2>1. before(x) \in SUBSET before(y) /\ before(x) # before(y)
      BY <1>2 DEF before
    <2>2. /\ Cardinality(before(x)) <= Cardinality(before(y))
          /\ Cardinality(before(x)) # Cardinality(before(y))
      BY <1>1, <2>1, FS_Subset
    <2> QED
      BY <1>1, <2>2
  <1>3. size \in Nat
    BY FS_CardinalityType DEF size
  <1>4. \A x, y \in S : <<x, y>> \in R <=> Cardinality(before(x)) < Cardinality(before(y))
    <2> SUFFICES ASSUME NEW x \in S, NEW y \in S,
                        Cardinality(before(x)) < Cardinality(before(y)), <<x, y>> \notin R
                 PROVE  FALSE
      BY <1>2
    <2>1. x = y \/ <<y, x>> \in R
      OBVIOUS
    <2> QED
      BY <1>1, <1>2, <2>1
  <1>5. rank \in Injection(S, 1..size)
    <2>1. rank \in [S -> 1..size]
      BY <1>1, <1>3
    <2>2. ASSUME NEW x \in S, NEW y \in S, rank[x] = rank[y] PROVE x = y
      <3>1. Cardinality(before(x)) = Cardinality(before(y))
        BY <1>1, <2>2
      <3> QED
        BY <1>1, <1>4, <3>1
    <2> QED
      BY <2>1, <2>2 DEF Injection, IsInjective
  <1>6. IsFiniteSet(1..size) /\ Cardinality(1..size) = size
    BY <1>3, FS_Interval
  <1>7. rank \in Surjection(S, 1..size)
    BY <1>5, <1>6, FS_Injection DEF size
  <1>8. ASSUME NEW n \in 0..(size - 1) PROVE \E x \in S : Cardinality(before(x)) = n
    <2>1. n + 1 \in 1..size
      BY <1>3
    <2>2. PICK x \in S : rank[x] = n + 1
      BY <1>7, <2>1 DEF Surjection
    <2> QED
      BY <1>1, <2>2
  <1>9. \A x \in S : Cardinality(before(x)) \in 0..(size - 1)
    BY <1>1, <1>3
  <1> QED
    BY <1>3, <1>4, <1>8, <1>9 DEF before, size
-----------------------------------------------------------------------------
(* The channel log: the inductive invariant *)

Statuses == {"pending", "connecting", "first_byte", "ended"}
Entries  == [request : Requests, index : Indices, status : Statuses]

LogTypes ==
  /\ channels \in 0..MaxChannels
  /\ logs \in [Indices -> Seq(Entries)]
  /\ locations \in [Requests -> 0..MaxChannels]
  /\ pc \in [Requests -> {"idle", "selected", "running", "backfilling", "done"}]
  /\ index \in [Requests -> 0..MaxChannels]
  /\ removing \in [Deleters -> 0..MaxChannels]

(* The ring a request is located in is never empty.                         *)
LocatedInRing ==
  \A r \in Requests : locations[r] # 0 => logs[locations[r]] # << >>

(* An attempt has no entry before it is recorded and while it is about to   *)
(* be written again, and none that is ended while it runs.                  *)
Progress ==
  \A r \in Requests :
    /\ pc[r] \in {"idle", "selected"} => locations[r] = 0
    /\ pc[r] \in {"selected", "backfilling"} => index[r] # 0
    /\ \A i \in Indices : \A p \in DOMAIN logs[i] : logs[i][p].request = r =>
         /\ pc[r] \in {"running", "done"}
         /\ pc[r] = "running" => logs[i][p].status # "ended"

LogInv == LogTypes /\ LocatedInRing /\ Progress /\ RunningFound /\ NothingLeftRunning

-----------------------------------------------------------------------------
(* Rings *)

(* What Newest keeps of a ring that one entry was appended to: that entry   *)
(* at the end, and before it the last entries of the ring in their order.   *)
LEMMA NewestOfAppended ==
  ASSUME NEW ring \in Seq(Entries), NEW e \in Entries
  PROVE  /\ Newest(Append(ring, e)) \in Seq(Entries)
         /\ \E n \in Nat \ {0}, k \in Nat :
              /\ DOMAIN Newest(Append(ring, e)) = 1..n
              /\ Newest(Append(ring, e))[n] = e
              /\ n - 1 + k = Len(ring)
              /\ \A p \in 1..(n - 1) : Newest(Append(ring, e))[p] = ring[p + k]
  <1> DEFINE longer == Append(ring, e)
             l == Len(ring)
  <1>1. /\ l \in Nat /\ DOMAIN ring = 1..l /\ longer \in Seq(Entries)
        /\ Len(longer) = l + 1 /\ DOMAIN longer = 1..(l + 1)
        /\ longer[l + 1] = e
        /\ \A p \in 1..l : longer[p] = ring[p]
    OBVIOUS
  <1> HIDE DEF longer, l
  <1>2. CASE Len(longer) > MaxLogs
    <2>1. /\ Newest(longer) = SubSeq(longer, l + 1 - MaxLogs + 1, l + 1)
          /\ l + 1 - MaxLogs \in Nat /\ MaxLogs \in Nat \ {0}
      BY <1>1, <1>2, ChannelLogAssumption DEF Newest
    <2>2. /\ Newest(longer) \in Seq(Entries)
          /\ DOMAIN Newest(longer) = 1..MaxLogs
          /\ \A p \in 1..MaxLogs : Newest(longer)[p] = longer[p + (l + 1 - MaxLogs)]
      BY <1>1, <2>1
    <2>3. /\ Newest(longer)[MaxLogs] = e
          /\ MaxLogs - 1 + (l + 1 - MaxLogs) = l
          /\ \A p \in 1..(MaxLogs - 1) : Newest(longer)[p] = ring[p + (l + 1 - MaxLogs)]
      BY <1>1, <2>1, <2>2
    <2> QED
      BY <2>1, <2>2, <2>3 DEF longer, l
  <1>3. CASE ~(Len(longer) > MaxLogs)
    <2>1. Newest(longer) = longer
      BY <1>3 DEF Newest
    <2>2. /\ DOMAIN Newest(longer) = 1..(l + 1) /\ Newest(longer)[l + 1] = e
          /\ (l + 1) - 1 + 0 = l
          /\ \A p \in 1..((l + 1) - 1) : Newest(longer)[p] = ring[p + 0]
      BY <1>1, <2>1
    <2> QED
      BY <1>1, <2>1, <2>2 DEF longer, l
  <1> QED
    BY <1>2, <1>3

LEMMA LogInvInit == Init => LogInv
  BY ChannelLogAssumption DEF Init, LogInv, LogTypes, LocatedInRing, Progress,
     RunningFound, NothingLeftRunning, Indices, Entries

(* Recording an attempt that has no entry yet.                              *)
LEMMA RecordInv ==
  ASSUME LogInv, NEW r \in Requests, NEW status \in {"pending", "ended"},
         pc[r] \in {"selected", "backfilling"}, Record(index[r], r, status),
         pc' = [pc EXCEPT ![r] = IF status = "ended" THEN "done" ELSE "running"],
         UNCHANGED <<channels, index, removing>>
  PROVE  /\ LogInv'
         /\ \E i \in Indices : \E p \in DOMAIN logs'[i] :
              logs'[i][p].request = r /\ logs'[i][p].status = status
  <1> DEFINE i == index[r]
             e == [request |-> r, index |-> i, status |-> status]
  <1>1. i \in Indices /\ e \in Entries
    BY DEF LogInv, LogTypes, Progress, Indices, Entries, Statuses
  <1>2. /\ logs' = [logs EXCEPT ![i] = Newest(Append(logs[i], e))]
        /\ locations' = [locations EXCEPT ![r] = IF status = "ended" THEN 0 ELSE i]
    BY DEF Record
  <1> HIDE DEF e
  <1>3. /\ e.request = r /\ e.index = i /\ e.status = status
    BY DEF e
  <1> HIDE DEF i
  <1>14. logs[i] \in Seq(Entries) /\ logs'[i] = Newest(Append(logs[i], e))
    BY <1>1, <1>2 DEF LogInv, LogTypes
  <1>15. \E n \in Nat \ {0}, k \in Nat :
              /\ DOMAIN Newest(Append(logs[i], e)) = 1..n
              /\ Newest(Append(logs[i], e))[n] = e
              /\ n - 1 + k = Len(logs[i])
              /\ \A p \in 1..(n - 1) : Newest(Append(logs[i], e))[p] = logs[i][p + k]
    BY <1>1, <1>14, NewestOfAppended
  <1>4. PICK n \in Nat \ {0}, k \in Nat :
              /\ DOMAIN logs'[i] = 1..n
              /\ logs'[i][n] = e
              /\ n - 1 + k = Len(logs[i])
              /\ \A p \in 1..(n - 1) : logs'[i][p] = logs[i][p + k]
    BY <1>14, <1>15
  <1>5. logs' \in [Indices -> Seq(Entries)] /\ \A j \in Indices \ {i} : logs'[j] = logs[j]
    BY <1>1, <1>2, NewestOfAppended DEF LogInv, LogTypes
  <1>6. DOMAIN logs[i] = 1..(n - 1 + k)
    BY <1>1, <1>4 DEF LogInv, LogTypes
  <1>7. LogTypes'
    <2>1. locations' \in [Requests -> 0..MaxChannels]
      BY <1>1, <1>2, ChannelLogAssumption DEF LogInv, LogTypes, Indices
    <2>2. pc' \in [Requests -> {"idle", "selected", "running", "backfilling", "done"}]
      BY DEF LogInv, LogTypes
    <2> QED
      BY <1>5, <2>1, <2>2 DEF LogInv, LogTypes
  <1>8. LocatedInRing'
    <2> SUFFICES ASSUME NEW q \in Requests, locations'[q] # 0 PROVE logs'[locations'[q]] # << >>
      BY DEF LocatedInRing
    <2>1. logs'[i] # << >>
      BY <1>4
    <2> QED
      BY <1>1, <1>2, <1>5, <2>1 DEF LogInv, LogTypes, LocatedInRing, Indices
  (* Every old entry that is kept has its place, and r had none.            *)
  <1>9. ASSUME NEW j \in Indices, NEW p \in DOMAIN logs'[j], ~(j = i /\ p = n)
        PROVE  \E q \in DOMAIN logs[j] : /\ logs'[j][p] = logs[j][q]
                                          /\ q = IF j = i THEN p + k ELSE p
    BY <1>1, <1>4, <1>5, <1>6, <1>9
  <1>10. \A j \in Indices : \A p \in DOMAIN logs[j] : logs[j][p].request # r
    BY DEF LogInv, Progress
  <1>11. RunningFound'
    <2> SUFFICES ASSUME NEW j \in Indices, NEW p \in DOMAIN logs'[j]
                 PROVE  /\ logs'[j][p].index = j
                        /\ logs'[j][p].status # "ended" => locations'[logs'[j][p].request] = j
                        /\ \A h \in Indices : \A q \in DOMAIN logs'[h] :
                             logs'[h][q].request = logs'[j][p].request => j = h /\ p = q
      BY Zenon DEF RunningFound
    <2>1. CASE j = i /\ p = n
      BY <1>1, <1>2, <1>3, <1>4, <1>9, <1>10, <2>1 DEF LogInv, LogTypes
    <2>2. CASE ~(j = i /\ p = n)
      <3>1. PICK o \in DOMAIN logs[j] : /\ logs'[j][p] = logs[j][o]
                                        /\ o = IF j = i THEN p + k ELSE p
        BY <1>9, <2>2
      <3>2. /\ logs[j][o].index = j
            /\ logs[j][o].status # "ended" => locations[logs[j][o].request] = j
            /\ logs[j][o].request \in Requests \ {r}
        <4>1. logs[j][o] \in Entries
          BY DEF LogInv, LogTypes
        <4> QED
          BY <1>10, <4>1 DEF LogInv, RunningFound, Entries
      <3>3. ASSUME NEW h \in Indices, NEW q \in DOMAIN logs'[h],
                   logs'[h][q].request = logs'[j][p].request
            PROVE  j = h /\ p = q
        <4>1. ~(h = i /\ q = n)
          BY <1>3, <1>4, <3>1, <3>2, <3>3
        <4>2. PICK t \in DOMAIN logs[h] : /\ logs'[h][q] = logs[h][t]
                                          /\ t = IF h = i THEN q + k ELSE q
          BY <1>9, <4>1
        <4>3. j = h /\ o = t
          BY <3>1, <3>3, <4>2 DEF LogInv, RunningFound
        <4>4. DOMAIN logs'[h] \subseteq Nat
          BY <1>5
        <4> QED
          BY <3>1, <4>2, <4>3, <4>4
      <3> QED
        BY <1>2, <3>1, <3>2, <3>3 DEF LogInv, LogTypes
    <2> QED
      BY <2>1, <2>2
  <1>12. Progress'
    <2> SUFFICES ASSUME NEW q \in Requests
                 PROVE  /\ pc'[q] \in {"idle", "selected"} => locations'[q] = 0
                        /\ pc'[q] \in {"selected", "backfilling"} => index'[q] # 0
                        /\ \A j \in Indices : \A p \in DOMAIN logs'[j] : logs'[j][p].request = q =>
                             /\ pc'[q] \in {"running", "done"}
                             /\ pc'[q] = "running" => logs'[j][p].status # "ended"
      BY DEF Progress
    <2>1. /\ pc'[q] \in {"idle", "selected"} => locations'[q] = 0
          /\ pc'[q] \in {"selected", "backfilling"} => index'[q] # 0
      BY <1>1, <1>2 DEF LogInv, LogTypes, Progress, i
    <2>2. ASSUME NEW j \in Indices, NEW p \in DOMAIN logs'[j], logs'[j][p].request = q
          PROVE  /\ pc'[q] \in {"running", "done"}
                 /\ pc'[q] = "running" => logs'[j][p].status # "ended"
      <3>1. CASE q = r
        <4>1. j = i /\ p = n
          BY <1>9, <1>10, <2>2, <3>1
        <4>2. pc'[q] = IF status = "ended" THEN "done" ELSE "running"
          BY <3>1 DEF LogInv, LogTypes
        <4> QED
          BY <1>3, <1>4, <4>1, <4>2
      <3>2. CASE q # r
        <4>1. ~(j = i /\ p = n)
          BY <1>3, <1>4, <2>2, <3>2
        <4>2. pc'[q] = pc[q]
          BY <3>2 DEF LogInv, LogTypes
        <4>3. PICK o \in DOMAIN logs[j] : logs'[j][p] = logs[j][o]
          BY <1>9, <4>1
        <4> QED
          BY <2>2, <4>2, <4>3 DEF LogInv, Progress
      <3> QED
        BY <3>1, <3>2
    <2> QED
      BY <2>1, <2>2
  <1>13. NothingLeftRunning'
    <2> SUFFICES ASSUME NEW q \in Requests, pc'[q] = "done"
                 PROVE  /\ locations'[q] = 0
                        /\ \A j \in Indices : \A p \in DOMAIN logs'[j] :
                             logs'[j][p].request = q => logs'[j][p].status = "ended"
      BY DEF NothingLeftRunning
    <2>1. CASE q = r
      <3>1. status = "ended"
        BY <2>1 DEF LogInv, LogTypes
      <3> QED
        <4>1. locations'[q] = 0
          BY <1>2, <2>1, <3>1 DEF LogInv, LogTypes
        <4>2. ASSUME NEW j \in Indices, NEW p \in DOMAIN logs'[j], logs'[j][p].request = q
              PROVE  logs'[j][p].status = "ended"
          <5>1. j = i /\ p = n
            BY <1>9, <1>10, <2>1, <4>2
          <5> QED
            BY <1>3, <1>4, <3>1, <5>1
        <4> QED
          BY <4>1, <4>2
    <2>2. CASE q # r
      <3>1. pc[q] = "done" /\ locations'[q] = locations[q]
        BY <1>2, <2>2 DEF LogInv, LogTypes
      <3>2. ASSUME NEW j \in Indices, NEW p \in DOMAIN logs'[j], logs'[j][p].request = q
            PROVE  logs'[j][p].status = "ended"
        <4>1. ~(j = i /\ p = n)
          BY <1>3, <1>4, <2>2, <3>2
        <4>2. PICK o \in DOMAIN logs[j] : logs'[j][p] = logs[j][o]
          BY <1>9, <4>1
        <4> QED
          BY <3>1, <3>2, <4>2 DEF LogInv, NothingLeftRunning
      <3> QED
        BY <3>1, <3>2 DEF LogInv, NothingLeftRunning
    <2> QED
      BY <2>1, <2>2
  <1> QED
    BY <1>1, <1>3, <1>4, <1>7, <1>8, <1>11, <1>12, <1>13 DEF LogInv

(* The result of an update is written where the running attempt is, which   *)
(* goes on unless the update ends it.                                       *)
LEMMA FoundInv ==
  ASSUME LogInv, NEW r \in Requests, NEW status \in Statuses \ {"pending"},
         pc[r] \in {"running", "backfilling", "done"}, Found(r), Update(r, status),
         pc' = IF status = "ended" THEN [pc EXCEPT ![r] = "done"] ELSE pc,
         UNCHANGED <<channels, index, removing>>
  PROVE  /\ LogInv'
         /\ status = "ended" => \E i \in Indices : \E p \in DOMAIN logs'[i] :
              logs'[i][p].request = r /\ logs'[i][p].status = "ended"
  <1> DEFINE i == locations[r]
  <1>1. i \in Indices
    BY DEF LogInv, LogTypes, Found, Indices
  <1>2. PICK p \in Positions(r) :
          /\ logs' = [logs EXCEPT ![i][p].status = status]
          /\ locations' = IF status = "ended" THEN [locations EXCEPT ![r] = 0] ELSE locations
    BY DEF Update
  <1>3. p \in DOMAIN logs[i] /\ logs[i][p].request = r
    BY DEF Positions
  <1> HIDE DEF i
  <1>4. pc[r] = "running"
    BY <1>1, <1>3 DEF LogInv, Progress, NothingLeftRunning, Found
  <1>5. logs \in [Indices -> Seq(Entries)] /\ logs[i] \in Seq(Entries) /\ logs[i][p] \in Entries
    BY <1>1, <1>3 DEF LogInv, LogTypes
  <1>6. /\ DOMAIN logs' = Indices
        /\ \A j \in Indices : DOMAIN logs'[j] = DOMAIN logs[j]
        /\ \A j \in Indices \ {i} : logs'[j] = logs[j]
        /\ logs'[i] = [logs[i] EXCEPT ![p].status = status]
    BY <1>1, <1>2, <1>5
  <1>7. \A j \in Indices : \A q \in DOMAIN logs[j] : ~(j = i /\ q = p) => logs'[j][q] = logs[j][q]
    BY <1>5, <1>6
  <1>8. /\ logs'[i][p] \in Entries
        /\ logs'[i][p].request = r
        /\ logs'[i][p].index = logs[i][p].index
        /\ logs'[i][p].status = status
    BY <1>3, <1>5, <1>6 DEF Entries
  <1>9. logs' \in [Indices -> Seq(Entries)]
    <2>1. logs'[i] \in Seq(Entries)
      <3>1. PICK n \in Nat : logs[i] \in [1..n -> Entries]
        BY <1>5
      <3>2. logs'[i] \in [1..n -> Entries]
        BY <1>3, <1>5, <1>6, <1>8, <3>1
      <3> QED
        BY <3>2
    <2>2. \A j \in Indices : logs'[j] \in Seq(Entries)
      BY <1>5, <1>6, <2>1
    <2> QED
      BY <1>2, <1>5, <1>6, <2>2
  <1>10. /\ \A j \in Indices : \A q \in DOMAIN logs'[j] :
              /\ logs'[j][q].request = logs[j][q].request
              /\ logs'[j][q].index = logs[j][q].index
         /\ \A j \in Indices : DOMAIN logs'[j] = DOMAIN logs[j]
    BY <1>3, <1>6, <1>7, <1>8
  <1>11. \A j \in Indices : \A q \in DOMAIN logs[j] : logs[j][q].request = r => j = i /\ q = p
    BY <1>1, <1>3 DEF LogInv, RunningFound
  <1>12. LogTypes'
    <2>1. pc' \in [Requests -> {"idle", "selected", "running", "backfilling", "done"}]
      BY DEF LogInv, LogTypes
    <2>2. locations' \in [Requests -> 0..MaxChannels]
      BY <1>2, ChannelLogAssumption DEF LogInv, LogTypes
    <2> QED
      BY <1>9, <2>1, <2>2 DEF LogInv, LogTypes
  <1>13. LocatedInRing'
    <2> SUFFICES ASSUME NEW q \in Requests, locations'[q] # 0 PROVE logs'[locations'[q]] # << >>
      BY DEF LocatedInRing
    <2>1. locations'[q] = locations[q] /\ locations[q] \in Indices
      BY <1>2 DEF LogInv, LogTypes, Indices
    <2>2. logs[locations[q]] # << >> /\ logs[locations[q]] \in Seq(Entries)
      BY <1>5, <2>1 DEF LogInv, LocatedInRing
    <2>3. DOMAIN logs[locations[q]] # {}
      <3>1. Len(logs[locations[q]]) \in Nat \ {0}
        BY <2>2
      <3>2. Len(logs[locations[q]]) \in DOMAIN logs[locations[q]]
        BY <2>2, <3>1
      <3> QED
        BY <3>2
    <2>4. DOMAIN logs'[locations[q]] # {}
      BY <1>10, <2>1, <2>3
    <2> QED
      BY <2>1, <2>4
  <1>14. RunningFound'
    <2>1. ASSUME NEW j \in Indices, NEW q \in DOMAIN logs'[j]
          PROVE  /\ logs'[j][q].index = j
                 /\ logs'[j][q].status # "ended" => locations'[logs'[j][q].request] = j
      <3>1. CASE j = i /\ q = p
        BY <1>1, <1>2, <1>3, <1>8, <3>1 DEF LogInv, RunningFound, LogTypes, i
      <3>2. CASE ~(j = i /\ q = p)
        <4>1. q \in DOMAIN logs[j] /\ logs'[j][q] = logs[j][q]
          BY <1>6, <1>7, <3>2
        <4>2. logs[j][q] \in Entries /\ logs[j][q].request # r
          BY <1>5, <1>11, <3>2, <4>1
        <4> QED
          <5>1. locations'[logs[j][q].request] = locations[logs[j][q].request]
            BY <1>2, <4>2 DEF LogInv, LogTypes, Entries
          <5>2. /\ logs[j][q].index = j
                /\ logs[j][q].status # "ended" => locations[logs[j][q].request] = j
            BY <4>1 DEF LogInv, RunningFound
          <5> QED
            BY <4>1, <5>1, <5>2
      <3> QED
        BY <3>1, <3>2
    <2>2. ASSUME NEW j \in Indices, NEW q \in DOMAIN logs'[j],
                 NEW h \in Indices, NEW t \in DOMAIN logs'[h],
                 logs'[h][t].request = logs'[j][q].request
          PROVE  j = h /\ q = t
      BY <1>10, <2>2 DEF LogInv, RunningFound
    <2> QED
      BY <2>1, <2>2, Zenon DEF RunningFound
  <1>15. Progress'
    <2> SUFFICES ASSUME NEW q \in Requests
                 PROVE  /\ pc'[q] \in {"idle", "selected"} => locations'[q] = 0
                        /\ pc'[q] \in {"selected", "backfilling"} => index'[q] # 0
                        /\ \A j \in Indices : \A t \in DOMAIN logs'[j] : logs'[j][t].request = q =>
                             /\ pc'[q] \in {"running", "done"}
                             /\ pc'[q] = "running" => logs'[j][t].status # "ended"
      BY DEF Progress
    <2>1. /\ pc'[q] \in {"idle", "selected"} => locations'[q] = 0
          /\ pc'[q] \in {"selected", "backfilling"} => index'[q] # 0
      BY <1>2, <1>4 DEF LogInv, Progress, LogTypes
    <2>2. ASSUME NEW j \in Indices, NEW t \in DOMAIN logs'[j],
                 logs'[j][t].request = q
          PROVE  /\ pc'[q] \in {"running", "done"}
                 /\ pc'[q] = "running" => logs'[j][t].status # "ended"
      <3>1. CASE j = i /\ t = p
        BY <1>4, <1>8, <2>2, <3>1 DEF LogInv, LogTypes
      <3>2. CASE ~(j = i /\ t = p)
        <4>1. t \in DOMAIN logs[j] /\ logs'[j][t] = logs[j][t]
          BY <1>6, <1>7, <3>2
        <4>2. q # r /\ pc'[q] = pc[q]
          BY <1>11, <2>2, <3>2, <4>1 DEF LogInv, LogTypes
        <4> QED
          BY <2>2, <4>1, <4>2 DEF LogInv, Progress
      <3> QED
        BY <3>1, <3>2
    <2> QED
      BY <2>1, <2>2
  <1>16. NothingLeftRunning'
    <2> SUFFICES ASSUME NEW q \in Requests, pc'[q] = "done"
                 PROVE  /\ locations'[q] = 0
                        /\ \A j \in Indices : \A t \in DOMAIN logs'[j] :
                             logs'[j][t].request = q => logs'[j][t].status = "ended"
      BY DEF NothingLeftRunning
    <2>1. CASE q = r
      <3>1. status = "ended"
        BY <1>4, <2>1
      <3>2. locations'[q] = 0
        BY <1>2, <2>1, <3>1 DEF LogInv, LogTypes
      <3> QED
        BY <1>8, <1>10, <1>11, <2>1, <3>1, <3>2
    <2>2. CASE q # r
      <3>1. pc[q] = "done" /\ locations'[q] = locations[q]
        BY <1>2, <2>2 DEF LogInv, LogTypes
      <3>2. ASSUME NEW j \in Indices, NEW t \in DOMAIN logs'[j], logs'[j][t].request = q
            PROVE  logs'[j][t].status = "ended"
        <4>1. ~(j = i /\ t = p)
          BY <1>8, <2>2, <3>2
        <4>2. t \in DOMAIN logs[j] /\ logs'[j][t] = logs[j][t]
          BY <1>6, <1>7, <4>1
        <4> QED
          BY <3>1, <3>2, <4>2 DEF LogInv, NothingLeftRunning
      <3> QED
        BY <3>1, <3>2 DEF LogInv, NothingLeftRunning
    <2> QED
      BY <2>1, <2>2
  <1> QED
    BY <1>1, <1>3, <1>8, <1>10, <1>12, <1>13, <1>14, <1>15, <1>16 DEF LogInv

(* An update that does not find the attempt changes nothing at all.         *)
LEMMA NotFound ==
  ASSUME LogInv, NEW r \in Requests, NEW status, ~Found(r), Update(r, status)
  PROVE  /\ UNCHANGED <<logs, locations>>
         /\ Evicted(r) <=> locations[r] # 0
         /\ pc[r] = "running" =>
              \A i \in Indices : \A p \in DOMAIN logs[i] : logs[i][p].request # r
  <1>1. locations[r] # 0 => Evicted(r)
    BY DEF LogInv, LocatedInRing, Found, Evicted
  <1>2. UNCHANGED <<logs, locations>>
    BY <1>1 DEF Update, Evicted, LogInv, LogTypes
  <1>3. ASSUME pc[r] = "running", NEW i \in Indices, NEW p \in DOMAIN logs[i],
               logs[i][p].request = r
        PROVE  FALSE
    <2>1. locations[r] = i
      BY <1>3 DEF LogInv, Progress, RunningFound
    <2>2. i # 0
      BY DEF Indices
    <2> QED
      BY <1>3, <2>1, <2>2 DEF Found, Positions
  <1> QED
    BY <1>1, <1>2, <1>3 DEF Evicted

(* An attempt that is completed, found or not.                              *)
LEMMA CompleteInv ==
  ASSUME LogInv, NEW r \in Requests, CompleteLog(r) PROVE LogInv'
  <1>1. pc[r] = "running" /\ Update(r, "ended") /\ UNCHANGED <<channels, removing>>
    BY DEF CompleteLog
  <1>2. CASE Found(r)
    <2>1. pc' = [pc EXCEPT ![r] = "done"] /\ UNCHANGED index
      BY <1>2 DEF CompleteLog, Evicted, Found
    <2> QED
      BY <1>1, <1>2, <2>1, FoundInv DEF Statuses
  <1>3. CASE ~Found(r)
    <2>1. /\ UNCHANGED <<logs, locations>>
          /\ Evicted(r) <=> locations[r] # 0
          /\ \A i \in Indices : \A p \in DOMAIN logs[i] : logs[i][p].request # r
      BY <1>1, <1>3, NotFound
    <2>2. \/ /\ locations[r] # 0
             /\ pc' = [pc EXCEPT ![r] = "backfilling"]
             /\ index' = [index EXCEPT ![r] = locations[r]]
          \/ /\ locations[r] = 0
             /\ pc' = [pc EXCEPT ![r] = "done"] /\ index' = index
      BY <2>1 DEF CompleteLog
    <2>3. LogTypes'
      BY <1>1, <2>1, <2>2 DEF LogInv, LogTypes
    <2>4. LocatedInRing'
      BY <2>1 DEF LogInv, LocatedInRing
    <2>5. RunningFound'
      BY <2>1 DEF LogInv, RunningFound
    <2>6. Progress'
      BY <2>1, <2>2 DEF LogInv, Progress, LogTypes
    <2>7. NothingLeftRunning'
      BY <2>1, <2>2 DEF LogInv, NothingLeftRunning, LogTypes
    <2> QED
      BY <2>3, <2>4, <2>5, <2>6, <2>7 DEF LogInv
  <1> QED
    BY <1>2, <1>3

(* The logs and locations of a channel that was deleted: everything behind  *)
(* it moves up together.                                                    *)
LEMMA ShiftInv ==
  ASSUME LogInv, NEW d \in Deleters, RemoveAndShift(d)
  PROVE  LogInv'
  <1> DEFINE i == removing[d]
             from(j) == IF j < i THEN j ELSE j + 1
  <1>1. i \in Indices /\ Indices \subseteq Nat /\ MaxChannels \in Nat
    BY ChannelLogAssumption DEF RemoveAndShift, LogInv, LogTypes, Indices
  <1>2. logs' = LogsShifted(i) /\ locations' = LocationsShifted(i)
    BY DEF RemoveAndShift
  <1>3. UNCHANGED <<channels, pc, index>>
    BY DEF RemoveAndShift
  <1>4. \A j \in Indices : from(j) \notin Indices => logs'[j] = << >>
    BY <1>1, <1>2 DEF LogsShifted, Indices
  <1>5. \A j \in Indices : from(j) \in Indices /\ from(j) = j => logs'[j] = logs[j]
    BY <1>1, <1>2 DEF LogsShifted, Indices
  <1>6. \A j \in Indices : from(j) \in Indices /\ from(j) # j =>
          logs'[j] = Moved(logs[from(j)], j)
    BY <1>1, <1>2 DEF LogsShifted, Indices
  <1>7. \A r \in Requests :
          locations'[r] = IF locations[r] = i THEN 0
                          ELSE IF locations[r] > i THEN locations[r] - 1 ELSE locations[r]
    <2>1. \A r \in Requests : locations[r] \in Nat /\ i \in Nat
      BY <1>1 DEF LogInv, LogTypes
    <2> QED
      BY <1>2, <2>1 DEF LocationsShifted
  <1>8. \A j, h \in Indices : from(j) = from(h) => j = h
    <2> SUFFICES ASSUME NEW j \in Nat, NEW h \in Nat, from(j) = from(h) PROVE j = h
      BY <1>1
    <2>1. i \in Nat
      BY <1>1
    <2> HIDE DEF i
    <2> QED
      BY <2>1
  <1>9. ASSUME NEW j \in Indices, from(j) \in Indices
        PROVE  /\ logs'[j] \in Seq(Entries)
               /\ DOMAIN logs'[j] = DOMAIN logs[from(j)]
               /\ \A p \in DOMAIN logs'[j] :
                    /\ logs'[j][p].request = logs[from(j)][p].request
                    /\ logs'[j][p].status = logs[from(j)][p].status
                    /\ logs'[j][p].index = j
               /\ logs[from(j)] # << >> => logs'[j] # << >>
    <2>1. logs[from(j)] \in Seq(Entries)
      BY <1>9 DEF LogInv, LogTypes
    <2>2. CASE from(j) = j
      BY <1>5, <1>9, <2>1, <2>2 DEF LogInv, RunningFound
    <2>3. CASE from(j) # j
      <3>1. logs'[j] = [p \in DOMAIN logs[from(j)] |-> [logs[from(j)][p] EXCEPT !.index = j]]
        BY <1>6, <1>9, <2>3 DEF Moved
      <3>2. PICK n \in Nat : DOMAIN logs[from(j)] = 1..n /\ logs[from(j)] \in [1..n -> Entries]
        BY <2>1
      <3> DEFINE old == logs[from(j)]
      <3> HIDE DEF from
      <3>3. \A p \in 1..n : /\ [old[p] EXCEPT !.index = j] \in Entries
                            /\ [old[p] EXCEPT !.index = j].request = old[p].request
                            /\ [old[p] EXCEPT !.index = j].status = old[p].status
                            /\ [old[p] EXCEPT !.index = j].index = j
        BY <3>2 DEF Entries
      <3> HIDE DEF old
      <3>4. logs'[j] \in [1..n -> Entries]
        BY <3>1, <3>2, <3>3 DEF old
      <3>5. logs'[j] \in Seq(Entries)
        BY <3>4
      <3>6. logs[from(j)] # << >> => n # 0
        BY <3>2
      <3>7. n # 0 => logs'[j] # << >>
        BY <3>4
      <3> QED
        BY <3>1, <3>2, <3>3, <3>5, <3>6, <3>7 DEF old
    <2> QED
      BY <2>2, <2>3
  <1> HIDE DEF from
  <1>10. \A j \in Indices : from(j) \notin Indices => DOMAIN logs'[j] = {}
    BY <1>4
  <1>11. LogTypes'
    <2>1. DOMAIN logs' = Indices /\ logs' = [j \in Indices |-> logs'[j]]
      BY <1>2 DEF LogsShifted
    <2>2. \A j \in Indices : logs'[j] \in Seq(Entries)
      <3>1. << >> \in Seq(Entries)
        OBVIOUS
      <3> QED
        BY <1>4, <1>9, <3>1
    <2>3. logs' \in [Indices -> Seq(Entries)]
      BY <2>1, <2>2
    <2>4. \A r \in Requests : locations'[r] \in 0..MaxChannels
      BY <1>1, <1>7 DEF LogInv, LogTypes
    <2>5. locations' \in [Requests -> 0..MaxChannels]
      BY <1>2, <2>4 DEF LocationsShifted
    <2>6. removing' \in [Deleters -> 0..MaxChannels]
      BY <1>1 DEF LogInv, LogTypes, RemoveAndShift
    <2> QED
      BY <1>3, <2>3, <2>5, <2>6 DEF LogInv, LogTypes
  <1>12. ASSUME NEW r \in Requests, NEW j \in Indices, locations[r] = from(j), from(j) \in Indices
         PROVE  locations'[r] = j
    BY <1>1, <1>7, <1>12 DEF from, Indices
  <1>13. LocatedInRing'
    <2> SUFFICES ASSUME NEW r \in Requests, locations'[r] # 0
                 PROVE  logs'[locations'[r]] # << >>
      BY DEF LocatedInRing
    <2>1. locations[r] # 0 /\ locations[r] \in Indices /\ locations'[r] \in Indices
          /\ from(locations'[r]) = locations[r]
      BY <1>1, <1>7 DEF from, LogInv, LogTypes, Indices
    <2>2. logs[locations[r]] # << >>
      BY <2>1 DEF LogInv, LocatedInRing
    <2> QED
      BY <1>9, <2>1, <2>2
  <1>14. RunningFound'
    <2>1. ASSUME NEW j \in Indices, NEW p \in DOMAIN logs'[j]
          PROVE  /\ logs'[j][p].index = j
                 /\ logs'[j][p].status # "ended" => locations'[logs'[j][p].request] = j
      <3>1. from(j) \in Indices /\ p \in DOMAIN logs[from(j)]
        BY <1>9, <1>10
      <3>2. logs[from(j)][p].status # "ended" => locations[logs[from(j)][p].request] = from(j)
        BY <3>1 DEF LogInv, RunningFound
      <3>3. logs[from(j)][p].request \in Requests
        <4>1. logs[from(j)] \in Seq(Entries)
          BY <3>1 DEF LogInv, LogTypes
        <4>2. logs[from(j)][p] \in Entries
          BY <3>1, <4>1
        <4> QED
          BY <4>2 DEF Entries
      <3> QED
        BY <1>9, <1>12, <3>1, <3>2, <3>3
    <2>2. ASSUME NEW j \in Indices, NEW p \in DOMAIN logs'[j],
                 NEW h \in Indices, NEW q \in DOMAIN logs'[h],
                 logs'[h][q].request = logs'[j][p].request
          PROVE  j = h /\ p = q
      <3>1. /\ from(j) \in Indices /\ p \in DOMAIN logs[from(j)]
            /\ from(h) \in Indices /\ q \in DOMAIN logs[from(h)]
        BY <1>9, <1>10
      <3>2. logs[from(h)][q].request = logs[from(j)][p].request
        BY <1>9, <2>2, <3>1
      <3>3. from(j) = from(h) /\ p = q
        BY <3>1, <3>2 DEF LogInv, RunningFound
      <3> QED
        BY <1>8, <3>3
    <2> QED
      BY <2>1, <2>2, Zenon DEF RunningFound
  <1>15. \A j \in Indices : \A p \in DOMAIN logs'[j] : \E h \in Indices : \E q \in DOMAIN logs[h] :
           /\ logs'[j][p].request = logs[h][q].request
           /\ logs'[j][p].status = logs[h][q].status
    BY <1>9, <1>10
  <1>16. \A r \in Requests : locations[r] = 0 => locations'[r] = 0
    <2>1. i \in Nat
      BY <1>1
    <2> QED
      BY <1>7, <2>1
  <1>17. Progress'
    BY <1>3, <1>15, <1>16 DEF LogInv, Progress
  <1>18. NothingLeftRunning'
    BY <1>3, <1>15, <1>16 DEF LogInv, NothingLeftRunning
  <1> QED
    BY <1>11, <1>13, <1>14, <1>17, <1>18 DEF LogInv

LEMMA LogInvNext ==
  ASSUME LogInv, [Next]_vars PROVE LogInv'
  <1>1. CASE UNCHANGED vars
    BY <1>1 DEF vars, LogInv, LogTypes, LocatedInRing, Progress, RunningFound,
       NothingLeftRunning
  <1>2. ASSUME NEW r \in Requests, SelectChannel(r) PROVE LogInv'
    <2>1. pc[r] = "idle" /\ UNCHANGED <<channels, logs, locations, removing>>
      BY <1>2 DEF SelectChannel
    <2>2. PICK i \in Indices : /\ index' = [index EXCEPT ![r] = i]
                               /\ pc' = [pc EXCEPT ![r] = "selected"]
      <3>1. 1..channels \subseteq Indices
        BY ChannelLogAssumption DEF Indices, LogInv, LogTypes
      <3> QED
        BY <1>2, <3>1 DEF SelectChannel
    <2>3. i # 0 /\ i \in 0..MaxChannels
      BY DEF Indices
    <2>4. LogTypes'
      BY <2>1, <2>2, <2>3 DEF LogInv, LogTypes
    <2>5. LocatedInRing' /\ RunningFound'
      BY <2>1 DEF LogInv, LocatedInRing, RunningFound
    <2>6. Progress'
      BY <2>1, <2>2, <2>3 DEF LogInv, LogTypes, Progress
    <2>7. NothingLeftRunning'
      BY <2>1, <2>2 DEF LogInv, LogTypes, NothingLeftRunning
    <2> QED
      BY <2>4, <2>5, <2>6, <2>7 DEF LogInv
  <1>3. ASSUME NEW r \in Requests, CreatePendingLog(r) PROVE LogInv'
    BY <1>3, RecordInv DEF CreatePendingLog
  <1>4. ASSUME NEW r \in Requests, RecordChannelLog(r) PROVE LogInv'
    BY <1>4, RecordInv DEF RecordChannelLog
  <1>5. ASSUME NEW r \in Requests, NEW status \in {"connecting", "first_byte"},
               UpdateLogStatus(r, status)
        PROVE  LogInv'
    <2>1. CASE Found(r)
      BY <1>5, <2>1, FoundInv DEF UpdateLogStatus, Statuses
    <2>2. CASE ~Found(r)
      BY <1>5, <2>2, NotFound DEF UpdateLogStatus, LogInv, LogTypes, LocatedInRing,
         Progress, RunningFound, NothingLeftRunning
    <2> QED
      BY <2>1, <2>2
  <1>6. ASSUME NEW r \in Requests, Backfill(r) PROVE LogInv'
    BY <1>6, RecordInv DEF Backfill
  <1>7. ASSUME AddUpstream \/ \E d \in Deleters : RemoveUpstream(d) PROVE LogInv'
    <2>1. UNCHANGED <<logs, locations, pc, index>>
      BY <1>7 DEF AddUpstream, RemoveUpstream
    <2>2. channels' \in 0..MaxChannels /\ removing' \in [Deleters -> 0..MaxChannels]
      BY <1>7, ChannelLogAssumption DEF AddUpstream, RemoveUpstream, LogInv, LogTypes
    <2> QED
      BY <2>1, <2>2 DEF LogInv, LogTypes, LocatedInRing, Progress, RunningFound,
         NothingLeftRunning
  <1> QED
    BY <1>1, <1>2, <1>3, <1>4, <1>5, <1>6, <1>7, CompleteInv, ShiftInv
       DEF Next, Attempt, Administer

(* For any number of channels, attempts and deletions at a time, and any    *)
(* length of the rings: wherever an entry was moved, a running attempt      *)
(* finds its entry, of which there is one.                                  *)
THEOREM LogFound == Spec => []RunningFound
  <1>1. LogInv => RunningFound
    BY DEF LogInv
  <1> QED
    BY <1>1, LogInvInit, LogInvNext, PTL DEF Spec

(* No attempt that is over is shown as running, whatever was evicted, moved *)
(* or called late.                                                          *)
THEOREM LogClosed == Spec => []NothingLeftRunning
  <1>1. LogInv => NothingLeftRunning
    BY DEF LogInv
  <1> QED
    BY <1>1, LogInvInit, LogInvNext, PTL DEF Spec

(* The step that ends an attempt writes its result, unless a deletion took  *)
(* the channel it was logged under.                                         *)
THEOREM ResultsLogged == Spec => ResultLogged
  <1>1. ASSUME LogInv, [Next]_vars, NEW r \in Requests,
               \/ pc[r] = "backfilling" /\ pc'[r] = "done"
               \/ pc[r] = "running" /\ locations[r] # 0 /\ locations'[r] = 0
        PROVE  \/ \E i \in Indices : \E p \in DOMAIN logs'[i] :
                    logs'[i][p].request = r /\ logs'[i][p].status = "ended"
               \/ \E d \in Deleters : removing[d] = locations[r] /\ removing'[d] = 0
    <2> USE DEF LogInv
    <2>0. /\ pc \in [Requests -> {"idle", "selected", "running", "backfilling", "done"}]
          /\ locations \in [Requests -> 0..MaxChannels]
          /\ removing \in [Deleters -> 0..MaxChannels]
      BY <1>1 DEF LogTypes
    <2>1. CASE UNCHANGED <<pc, locations>>
      BY <1>1, <2>1
    <2>2. ASSUME NEW s \in Requests, SelectChannel(s) \/ CreatePendingLog(s) \/ RecordChannelLog(s)
          PROVE  FALSE
      BY <1>1, <2>0, <2>2 DEF SelectChannel, CreatePendingLog, RecordChannelLog, Record
    <2>3. ASSUME NEW s \in Requests, NEW status \in {"connecting", "first_byte"},
                 UpdateLogStatus(s, status)
          PROVE  UNCHANGED <<pc, locations>>
      <3>1. CASE Found(s)
        BY <2>3, <3>1 DEF UpdateLogStatus, Update
      <3>2. CASE ~Found(s)
        BY <1>1, <2>3, <3>2, NotFound DEF UpdateLogStatus
      <3> QED
        BY <3>1, <3>2
    <2>4. ASSUME NEW s \in Requests, CompleteLog(s)
          PROVE  \E i \in Indices : \E p \in DOMAIN logs'[i] :
                   logs'[i][p].request = r /\ logs'[i][p].status = "ended"
      <3>1. pc[s] = "running" /\ Update(s, "ended") /\ UNCHANGED <<channels, removing>>
        BY <2>4 DEF CompleteLog
      <3>2. Found(s)
        BY <1>1, <2>0, <2>4, <3>1, NotFound DEF CompleteLog
      <3>3. pc' = [pc EXCEPT ![s] = "done"] /\ UNCHANGED index
        BY <2>4, <3>2 DEF CompleteLog, Evicted, Found
      <3>4. s = r
        BY <1>1, <2>0, <3>1, <3>2, <3>3 DEF Update
      <3> QED
        BY <1>1, <3>1, <3>2, <3>3, <3>4, FoundInv DEF Statuses
    <2>5. ASSUME NEW s \in Requests, Backfill(s)
          PROVE  \E i \in Indices : \E p \in DOMAIN logs'[i] :
                   logs'[i][p].request = r /\ logs'[i][p].status = "ended"
      <3>1. s = r
        BY <1>1, <2>0, <2>5 DEF Backfill, Record
      <3> QED
        BY <1>1, <2>5, <3>1, RecordInv DEF Backfill
    <2>6. ASSUME NEW d \in Deleters, RemoveAndShift(d)
          PROVE  removing[d] = locations[r] /\ removing'[d] = 0
      <3>1. pc' = pc /\ removing' = [removing EXCEPT ![d] = 0] /\ removing[d] # 0
            /\ locations' = LocationsShifted(removing[d])
        BY <2>6 DEF RemoveAndShift
      <3>2. locations[r] # 0 /\ locations'[r] = 0
        BY <1>1, <2>0, <3>1
      <3>3. locations[r] = removing[d]
        BY <2>0, <3>1, <3>2, ChannelLogAssumption DEF LocationsShifted
      <3> QED
        BY <2>0, <3>1, <3>3
    <2>7. AddUpstream \/ (\E d \in Deleters : RemoveUpstream(d)) \/ UNCHANGED vars
            => UNCHANGED <<pc, locations>>
      BY DEF AddUpstream, RemoveUpstream, vars
    <2> QED
      BY <1>1, <2>1, <2>2, <2>3, <2>4, <2>5, <2>6, <2>7 DEF Next, Attempt, Administer
  <1>2. LogInv /\ [Next]_vars =>
          [\A r \in Requests :
             \/ pc[r] = "backfilling" /\ pc'[r] = "done"
             \/ pc[r] = "running" /\ locations[r] # 0 /\ locations'[r] = 0
             => \/ \E i \in Indices : \E p \in DOMAIN logs'[i] :
                     logs'[i][p].request = r /\ logs'[i][p].status = "ended"
                \/ \E d \in Deleters :
                     removing[d] = locations[r] /\ removing'[d] = 0]_vars
    BY <1>1
  <1> QED
    BY <1>2, LogInvInit, LogInvNext, PTL DEF Spec, ResultLogged
-----------------------------------------------------------------------------
(* The write path.  What is pending is the batch that the holder of flushMu *)
(* has taken, followed by the buffer, and every step is a step of RecordLog *)
(* or changes nothing there.                                                *)

Locked == {"inserting", "requeue", "flushed", "deleted"}

BufferTypes ==
  /\ buffer \in Seq(Records)
  /\ taken \in [Flushers -> Seq(Records)]
  /\ flushMu \in Flushers \cup {Nobody}
  /\ flusher \in [Flushers -> {"idle", "waiting", "after", "done"} \cup Locked]
  /\ deleting \in Keys /\ accepted \in 0..MaxRecords

(* A flusher is between taking the buffer and unlocking iff it holds the    *)
(* lock, and has a batch in its hands iff it has yet to get rid of it.      *)
OneFlush ==
  \A f \in Flushers :
    /\ flusher[f] \in Locked <=> flushMu = f
    /\ taken[f] # << >> <=> flusher[f] \in {"inserting", "requeue"}

(* The flag is set as long as the asynchronous flush runs.                  *)
AsyncOnce == flusher["async"] # "idle" => flushing

TableType == table \in Seq(Records)

BufferInv == BufferTypes /\ OneFlush /\ AsyncOnce /\ TableType

-----------------------------------------------------------------------------
(* Sequences *)

(* The two parts of a sequence.                                             *)
LEMMA Parts ==
  ASSUME NEW s \in Seq(Records), NEW t \in Seq(Records)
  PROVE  /\ SubSeq(s \o t, 1, Len(s)) = s
         /\ SubSeq(s \o t, Len(s) + 1, Len(s \o t)) = t
  <1>1. /\ s \o t \in Seq(Records) /\ Len(s \o t) = Len(s) + Len(t)
        /\ Len(s) \in Nat /\ Len(t) \in Nat
        /\ \A i \in 1..Len(s) : (s \o t)[i] = s[i]
        /\ \A i \in 1..Len(t) : (s \o t)[Len(s) + i] = t[i]
    BY ConcatProperties
  <1>2. SubSeq(s \o t, 1, Len(s)) = s
    BY <1>1
  <1>3. SubSeq(s \o t, Len(s) + 1, Len(s \o t)) = t
    BY <1>1
  <1> QED
    BY <1>2, <1>3

(* Nothing is left behind the end.                                          *)
LEMMA BehindTheEnd ==
  ASSUME NEW s \in Seq(Records)
  PROVE  SubSeq(s, Len(s) + 1, Len(s)) = << >>
  OBVIOUS

(* Appending to the second part.                                            *)
LEMMA AppendToSecond ==
  ASSUME NEW s \in Seq(Records), NEW t \in Seq(Records), NEW x \in Records
  PROVE  Append(s \o t, x) = s \o Append(t, x)
  OBVIOUS

(* An empty part.                                                           *)
LEMMA EmptyPart ==
  ASSUME NEW s \in Seq(Records)
  PROVE  s \o << >> = s /\ << >> \o s = s
  OBVIOUS

(* What a sequence holds.                                                   *)
Held(s) == {s[i] : i \in DOMAIN s}

LEMMA HeldByConcat ==
  ASSUME NEW s \in Seq(Records), NEW t \in Seq(Records)
  PROVE  s \o t \in Seq(Records) /\ Held(s \o t) = Held(s) \cup Held(t)
  <1>1. /\ s \o t \in Seq(Records)
        /\ Len(s \o t) = Len(s) + Len(t) /\ Len(s) \in Nat /\ Len(t) \in Nat
        /\ \A i \in 1..Len(s) : (s \o t)[i] = s[i]
        /\ \A i \in 1..Len(t) : (s \o t)[Len(s) + i] = t[i]
        /\ DOMAIN s = 1..Len(s) /\ DOMAIN t = 1..Len(t)
        /\ DOMAIN (s \o t) = 1..(Len(s) + Len(t))
    BY ConcatProperties
  <1>2. \A i \in DOMAIN (s \o t) : (s \o t)[i] \in Held(s) \cup Held(t)
    <2> SUFFICES ASSUME NEW i \in 1..(Len(s) + Len(t))
                 PROVE  (s \o t)[i] \in Held(s) \cup Held(t)
      BY <1>1
    <2>1. CASE i <= Len(s)
      <3>1. i \in 1..Len(s)
        BY <1>1, <2>1
      <3> QED
        BY <1>1, <3>1 DEF Held
    <2>2. CASE ~(i <= Len(s))
      <3>1. i - Len(s) \in 1..Len(t) /\ Len(s) + (i - Len(s)) = i
        BY <1>1, <2>2
      <3> QED
        BY <1>1, <3>1 DEF Held
    <2> QED
      BY <2>1, <2>2
  <1>3. \A i \in DOMAIN s : s[i] \in Held(s \o t)
    BY <1>1 DEF Held
  <1>4. \A i \in DOMAIN t : t[i] \in Held(s \o t)
    <2> SUFFICES ASSUME NEW i \in 1..Len(t) PROVE t[i] \in Held(s \o t)
      BY <1>1
    <2>1. Len(s) + i \in 1..(Len(s) + Len(t)) /\ t[i] = (s \o t)[Len(s) + i]
      BY <1>1
    <2> QED
      BY <1>1, <2>1 DEF Held
  <1> QED
    BY <1>1, <1>2, <1>3, <1>4 DEF Held

LEMMA HeldByAppend ==
  ASSUME NEW s \in Seq(Records), NEW x \in Records
  PROVE  Held(Append(s, x)) = Held(s) \cup {x}
  <1>1. /\ Len(Append(s, x)) = Len(s) + 1 /\ Len(s) \in Nat
        /\ \A i \in 1..Len(s) : Append(s, x)[i] = s[i]
        /\ Append(s, x)[Len(s) + 1] = x
        /\ DOMAIN s = 1..Len(s) /\ DOMAIN Append(s, x) = 1..(Len(s) + 1)
    OBVIOUS
  <1> QED
    BY <1>1 DEF Held

(* The rows of the other keys: all of them, in the order they had.          *)
LEMMA OtherRows ==
  ASSUME NEW key, NEW rows \in Seq(Records)
  PROVE  /\ Without(key, rows) \in Seq(Records)
         /\ \E n \in 0..Len(rows) : \E place \in [1..n -> DOMAIN rows] :
              /\ \A i, j \in 1..n : i < j => place[i] < place[j]
              /\ {place[i] : i \in 1..n} = {i \in DOMAIN rows : rows[i].key # key}
              /\ Without(key, rows) = [i \in 1..n |-> rows[place[i]]]
         /\ Held(Without(key, rows)) = {x \in Held(rows) : x.key # key}
  <1> DEFINE others == {i \in DOMAIN rows : rows[i].key # key}
             size == Cardinality(others)
             R == {ij \in others \X others : ij[1] < ij[2]}
             before(i) == {j \in others : j < i}
             place == [n \in 1..size |-> CHOOSE i \in others : Cardinality(before(i)) = n - 1]
  <1>1. others \in SUBSET Nat /\ IsFiniteSet(others)
    <2>1. DOMAIN rows = 1..Len(rows) /\ Len(rows) \in Nat
      OBVIOUS
    <2>2. IsFiniteSet(1..Len(rows))
      BY <2>1, FS_Interval
    <2> QED
      BY <2>1, <2>2, FS_Subset
  <1>2. \A i \in others : rows[i] \in Records /\ rows[i].key # key
    OBVIOUS
  <1>3. Without(key, rows) = [n \in 1..size |-> rows[place[n]]]
    BY DEF Without
  <1>4. \A x \in Held(rows) : x.key # key => \E i \in others : x = rows[i]
    BY DEF Held
  <1>5. \A i \in others : rows[i] \in Held(rows)
    BY DEF Held
  <1> HIDE DEF others
  <1>6. \A x, y \in others : <<x, y>> \in R <=> x < y
    OBVIOUS
  <1>7. \A x \in others : {w \in others : <<w, x>> \in R} = before(x)
    BY <1>6
  <1> HIDE DEF R, before
  <1>8. /\ size \in Nat
        /\ \A x, y \in others : <<x, y>> \in R <=> Cardinality(before(x)) < Cardinality(before(y))
        /\ \A n \in 0..(size - 1) : \E x \in others : Cardinality(before(x)) = n
        /\ \A x \in others : Cardinality(before(x)) \in 0..(size - 1)
    <2>1. /\ \A x \in others : <<x, x>> \notin R
          /\ \A x, y, z \in others : <<x, y>> \in R /\ <<y, z>> \in R => <<x, z>> \in R
          /\ \A x, y \in others : x # y => <<x, y>> \in R \/ <<y, x>> \in R
      BY <1>1, <1>6
    <2>2. /\ Cardinality(others) \in Nat
          /\ \A x \in others : Cardinality({w \in others : <<w, x>> \in R}) \in 0..(Cardinality(others) - 1)
          /\ \A x, y \in others : <<x, y>> \in R <=>
               Cardinality({w \in others : <<w, x>> \in R}) < Cardinality({w \in others : <<w, y>> \in R})
          /\ \A n \in 0..(Cardinality(others) - 1) :
               \E x \in others : Cardinality({w \in others : <<w, x>> \in R}) = n
      BY <1>1, <2>1, Ranking
    <2> QED
      BY <1>7, <2>2
  <1> HIDE DEF size
  <1>9. ASSUME NEW n \in 1..size
        PROVE  place[n] \in others /\ Cardinality(before(place[n])) = n - 1
    <2>1. n - 1 \in 0..(size - 1)
      BY <1>8
    <2>2. \E i \in others : Cardinality(before(i)) = n - 1
      BY <1>8, <2>1
    <2> QED
      BY <2>2
  <1>10. DOMAIN place = 1..size /\ place = [n \in 1..size |-> place[n]]
    OBVIOUS
  <1> HIDE DEF place
  <1>11. place \in [1..size -> others]
    BY <1>9, <1>10
  <1>12. \A m, n \in 1..size : m < n => place[m] < place[n]
    <2> SUFFICES ASSUME NEW m \in 1..size, NEW n \in 1..size, m < n
                 PROVE  place[m] < place[n]
      OBVIOUS
    <2>1. Cardinality(before(place[m])) < Cardinality(before(place[n]))
      BY <1>8, <1>9
    <2> QED
      BY <1>6, <1>8, <1>9, <2>1
  <1>13. ASSUME NEW i \in others PROVE \E n \in 1..size : place[n] = i
    <2> DEFINE n == Cardinality(before(i)) + 1
    <2>1. n \in 1..size /\ Cardinality(before(i)) = n - 1
      BY <1>8
    <2> HIDE DEF n
    <2>2. place[n] \in others /\ Cardinality(before(place[n])) = Cardinality(before(i))
      BY <1>9, <2>1
    <2>3. <<place[n], i>> \notin R /\ <<i, place[n]>> \notin R
      <3>1. /\ <<place[n], i>> \in R <=>
                  Cardinality(before(place[n])) < Cardinality(before(i))
            /\ <<i, place[n]>> \in R <=>
                  Cardinality(before(i)) < Cardinality(before(place[n]))
        BY <1>8, <2>2
      <3>2. Cardinality(before(i)) \in Nat
        BY <1>8
      <3> QED
        BY <2>2, <3>1, <3>2
    <2>4. place[n] = i
      <3>1. place[n] \in Nat /\ i \in Nat
        BY <1>1, <2>2
      <3> QED
        BY <1>6, <2>2, <2>3, <3>1
    <2> QED
      BY <2>1, <2>4
  <1>14. Without(key, rows) \in Seq(Records)
    <2>1. Without(key, rows) \in [1..size -> Records]
      BY <1>2, <1>3, <1>9
    <2> QED
      BY <1>8, <2>1
  <1>15. Held(Without(key, rows)) = {x \in Held(rows) : x.key # key}
    <2>1. DOMAIN Without(key, rows) = 1..size
          /\ \A n \in 1..size : Without(key, rows)[n] = rows[place[n]]
      BY <1>3
    <2>2. \A n \in 1..size : /\ Without(key, rows)[n] \in Held(rows)
                              /\ Without(key, rows)[n].key # key
      BY <1>2, <1>5, <1>9, <2>1
    <2>3. \A i \in others : \E n \in 1..size : Without(key, rows)[n] = rows[i]
      BY <1>13, <2>1
    <2>4. Held(Without(key, rows)) = {Without(key, rows)[n] : n \in 1..size}
      BY <2>1 DEF Held
    <2> QED
      BY <1>4, <2>2, <2>3, <2>4
  <1>16. {place[i] : i \in 1..size} = others
    BY <1>9, <1>13
  <1>17. place \in [1..size -> DOMAIN rows]
    BY <1>11 DEF others
  <1>18. size \in 0..Len(rows)
    <2>1. DOMAIN rows = 1..Len(rows) /\ Len(rows) \in Nat
      OBVIOUS
    <2>2. IsFiniteSet(DOMAIN rows) /\ Cardinality(DOMAIN rows) = Len(rows)
      BY <2>1, FS_Interval
    <2>3. size <= Len(rows)
      BY <2>2, FS_Subset DEF size, others
    <2> QED
      BY <1>8, <2>1, <2>3
  <1> HIDE DEF others
  <1>19. \E n \in 0..Len(rows) : \E p \in [1..n -> DOMAIN rows] :
           /\ \A i, j \in 1..n : i < j => p[i] < p[j]
           /\ {p[i] : i \in 1..n} = others
           /\ Without(key, rows) = [i \in 1..n |-> rows[p[i]]]
    BY <1>3, <1>12, <1>16, <1>17, <1>18
  <1> QED
    BY <1>14, <1>15, <1>19 DEF others

-----------------------------------------------------------------------------
(* BufferInv is inductive *)

LEMMA BufferInvInit == BufferInit => BufferInv
  <1> SUFFICES ASSUME BufferInit PROVE BufferInv
    OBVIOUS
  <1>1. << >> \in Seq(Records) /\ 0 \in 0..MaxRecords
    BY WriteBufferAssumption
  <1>2. \A f \in Flushers : f # Nobody
    BY DEF Flushers, Nobody
  <1> QED
    BY <1>1, <1>2 DEF BufferInit, BufferInv, BufferTypes, OneFlush, AsyncOnce, TableType, Locked, Flushers

(* No name of a flusher is the name of nobody.                              *)
LEMMA FlushersAreSomebody == Nobody \notin Flushers
  BY DEF Flushers, Nobody

LEMMA NewRecord ==
  ASSUME BufferTypes, NEW key \in Keys, accepted < MaxRecords
  PROVE  /\ [id |-> accepted + 1, key |-> key] \in Records
         /\ accepted + 1 \in 0..MaxRecords
  BY WriteBufferAssumption DEF BufferTypes, Records

LEMMA StepFlush == BufferInv /\ [BufferNext]_bufferVars => (BufferTypes /\ OneFlush)'
  <1> SUFFICES ASSUME BufferInv, [BufferNext]_bufferVars PROVE (BufferTypes /\ OneFlush)'
    OBVIOUS
  <1> USE FlushersAreSomebody DEF BufferInv
  <1>1. ASSUME NEW key \in Keys, AddRecord(key) PROVE (BufferTypes /\ OneFlush)'
    BY <1>1, NewRecord DEF AddRecord, BufferTypes, OneFlush, Locked
  <1>2. ASSUME NEW key \in Keys, CallDelete(key) PROVE (BufferTypes /\ OneFlush)'
    BY <1>2 DEF CallDelete, Goes, BufferTypes, OneFlush, Locked, Flushers
  <1>3. CASE ScheduleFlush \/ TickFlush \/ StopFlush \/ CallQuery
    <2>1. CASE ScheduleFlush
      <3>1. \/ flusher' = flusher
            \/ flusher["async"] = "idle" /\ flusher' = [flusher EXCEPT !["async"] = "waiting"]
        BY <2>1, Zenon DEF ScheduleFlush, Goes, AsyncOnce
      <3>2. UNCHANGED <<buffer, taken, flushMu, deleting, accepted>>
        BY <2>1 DEF ScheduleFlush
      <3> QED
        BY <3>1, <3>2 DEF BufferTypes, OneFlush, Locked, Flushers
    <2>2. CASE TickFlush
      BY <2>2 DEF TickFlush, Goes, BufferTypes, OneFlush, Locked, Flushers
    <2>3. CASE StopFlush
      BY <2>3 DEF StopFlush, Goes, BufferTypes, OneFlush, Locked, Flushers
    <2>4. CASE CallQuery
      BY <2>4 DEF CallQuery, Goes, BufferTypes, OneFlush, Locked, Flushers
    <2> QED
      BY <1>3, <2>1, <2>2, <2>3, <2>4
  <1>4. ASSUME NEW f \in Flushers, LockAndTake(f) PROVE (BufferTypes /\ OneFlush)'
    <2>1. CASE buffer = << >>
      BY <1>4, <2>1 DEF LockAndTake, Take, Goes, BufferTypes, OneFlush, Locked
    <2>2. CASE buffer # << >>
      <3>1. /\ taken' = [taken EXCEPT ![f] = buffer] /\ buffer' = << >>
            /\ flusher' = [flusher EXCEPT ![f] = "inserting"]
            /\ flushMu = Nobody /\ flushMu' = f /\ UNCHANGED <<deleting, accepted>>
        BY <1>4, <2>2 DEF LockAndTake, Take, Goes
      <3>2. BufferTypes'
        BY <3>1 DEF BufferTypes, Locked
      <3>3. OneFlush'
        BY <2>2, <3>1 DEF BufferTypes, OneFlush, Locked
      <3> QED
        BY <3>2, <3>3
    <2> QED
      BY <2>1, <2>2
  <1>5. ASSUME NEW f \in Flushers, BatchInsertRecords(f) PROVE (BufferTypes /\ OneFlush)'
    <2>1. /\ flusher[f] = "inserting" /\ UNCHANGED <<buffer, flushMu, deleting, accepted>>
          /\ \/ /\ taken' = [taken EXCEPT ![f] = << >>]
                /\ flusher' = [flusher EXCEPT ![f] = "flushed"]
             \/ /\ taken' = taken
                /\ flusher' = [flusher EXCEPT ![f] = "requeue"]
      BY <1>5, Zenon DEF BatchInsertRecords, Goes
    <2>2. BufferTypes'
      <3>1. << >> \in Seq(Records)
        OBVIOUS
      <3>2. taken' \in [Flushers -> Seq(Records)]
        BY <2>1, <3>1 DEF BufferTypes
      <3>3. flusher' \in [Flushers -> {"idle", "waiting", "after", "done"} \cup Locked]
        BY <2>1 DEF BufferTypes, Locked
      <3> QED
        BY <2>1, <3>2, <3>3 DEF BufferTypes
    <2>3. OneFlush'
      BY <2>1 DEF BufferTypes, OneFlush, Locked
    <2> QED
      BY <2>2, <2>3
  <1>6. ASSUME NEW f \in Flushers, RequeueRecords(f) PROVE (BufferTypes /\ OneFlush)'
    <2>1. buffer' \in Seq(Records)
      <3>1. taken[f] \o buffer \in Seq(Records)
        BY DEF BufferTypes
      <3> QED
        BY <1>6, <3>1 DEF RequeueRecords, BufferTypes
    <2> QED
      BY <1>6, <2>1 DEF RequeueRecords, Goes, BufferTypes, OneFlush, Locked
  <1>7. ASSUME NEW f \in Flushers, UnlockFlush(f) PROVE (BufferTypes /\ OneFlush)'
    <2>1. PICK step \in {"after", "done", "idle"} : flusher' = [flusher EXCEPT ![f] = step]
      BY <1>7 DEF UnlockFlush, Goes
    <2>2. flushMu = f
      BY <1>7 DEF UnlockFlush, OneFlush, Locked
    <2> QED
      BY <1>7, <2>1, <2>2 DEF UnlockFlush, BufferTypes, OneFlush, Locked
  <1>8. ASSUME NEW f \in Flushers, AfterFlush(f) PROVE (BufferTypes /\ OneFlush)'
    BY <1>8 DEF AfterFlush, Goes, BufferTypes, OneFlush, Locked
  <1>9. CASE DeleteRows
    <2>1. flusher' = [flusher EXCEPT !["delete"] = "deleted"]
      BY <1>9 DEF DeleteRows, Goes
    <2>2. UNCHANGED <<buffer, taken, flushMu, deleting, accepted>>
      BY <1>9 DEF DeleteRows
    <2>3. flusher["delete"] = "flushed"
      BY <1>9 DEF DeleteRows
    <2> QED
      BY <2>1, <2>2, <2>3 DEF BufferTypes, OneFlush, Locked, Flushers
  <1>10. CASE CleanupOldRecords
    BY <1>10 DEF CleanupOldRecords, BufferTypes, OneFlush, Locked
  <1>11. CASE Close \/ CloseDatabase
    BY <1>11 DEF Close, CloseDatabase, BufferTypes, OneFlush, Locked
  <1>12. CASE RestartStore
    <2>1. << >> \in Seq(Records)
      OBVIOUS
    <2> QED
      BY <1>12, <2>1 DEF RestartStore, BufferTypes, OneFlush, Locked
  <1>13. CASE UNCHANGED bufferVars
    BY <1>13 DEF bufferVars, BufferTypes, OneFlush, Locked
  <1> QED
    BY <1>1, <1>2, <1>3, <1>4, <1>5, <1>6, <1>7, <1>8, <1>9, <1>10, <1>11, <1>12, <1>13
    DEF BufferNext, Flush

LEMMA StepAsync == BufferInv /\ [BufferNext]_bufferVars => AsyncOnce'
  <1> SUFFICES ASSUME BufferInv, [BufferNext]_bufferVars PROVE AsyncOnce'
    OBVIOUS
  <1> USE DEF BufferInv
  <1>a. ASSUME flusher'["async"] = flusher["async"], flushing' = flushing PROVE AsyncOnce'
    BY <1>a, Zenon DEF AsyncOnce
  <1>b. ASSUME NEW f \in Flushers, NEW step, flusher' = [flusher EXCEPT ![f] = step],
               flusher[f] # "idle" \/ f # "async", flushing' = flushing
        PROVE  AsyncOnce'
    <2>1. CASE f = "async"
      <3>1. flushing'
        BY <1>b, <2>1, Zenon DEF AsyncOnce
      <3> QED
        BY <3>1, Zenon DEF AsyncOnce
    <2>2. CASE f # "async"
      <3>1. flusher'["async"] = flusher["async"]
        BY <1>b, <2>2 DEF BufferTypes, Flushers
      <3> QED
        BY <1>a, <1>b, <3>1
    <2> QED
      BY <2>1, <2>2
  <1>1. ASSUME NEW key \in Keys, AddRecord(key) \/ CallDelete(key) PROVE AsyncOnce'
    <2>1. CASE AddRecord(key)
      BY <1>a, <2>1 DEF AddRecord
    <2>2. CASE CallDelete(key)
      BY <1>b, <2>2 DEF CallDelete, Goes, Flushers
    <2> QED
      BY <1>1, <2>1, <2>2
  <1>2. CASE ScheduleFlush
    <2>1. CASE flushing' = TRUE
      BY <2>1, Zenon DEF AsyncOnce
    <2>2. CASE UNCHANGED <<flushing, flusher>>
      BY <1>a, <2>2
    <2> QED
      BY <1>2, <2>1, <2>2, Zenon DEF ScheduleFlush
  <1>3. CASE TickFlush \/ StopFlush \/ CallQuery
    BY <1>b, <1>3 DEF TickFlush, StopFlush, CallQuery, Goes, Flushers
  <1>4. ASSUME NEW f \in Flushers,
               LockAndTake(f) \/ BatchInsertRecords(f) \/ RequeueRecords(f) \/ UnlockFlush(f)
        PROVE  AsyncOnce'
    <2>1. /\ flusher[f] # "idle" /\ flushing' = flushing
          /\ \E step : flusher' = [flusher EXCEPT ![f] = step]
      <3>1. CASE LockAndTake(f)
        BY <3>1, Zenon DEF LockAndTake, Take, Goes
      <3>2. CASE BatchInsertRecords(f)
        BY <3>2, Zenon DEF BatchInsertRecords, Goes
      <3>3. CASE RequeueRecords(f)
        BY <3>3, Zenon DEF RequeueRecords, Goes
      <3>4. CASE UnlockFlush(f)
        <4>1. flusher[f] = IF f = "delete" THEN "deleted" ELSE "flushed"
          BY <3>4, Zenon DEF UnlockFlush
        <4>2. flusher[f] # "idle"
          BY <4>1
        <4> QED
          BY <3>4, <4>2, Zenon DEF UnlockFlush, Goes
      <3> QED
        BY <1>4, <3>1, <3>2, <3>3, <3>4
    <2> QED
      BY <1>b, <2>1
  <1>5. ASSUME NEW f \in Flushers, AfterFlush(f) PROVE AsyncOnce'
    <2>1. CASE f = "async"
      <3>1. flusher'["async"] = "idle"
        BY <1>5, <2>1 DEF AfterFlush, Goes, BufferTypes
      <3> QED
        BY <3>1, Zenon DEF AsyncOnce
    <2>2. CASE f # "async"
      <3>1. flusher'["async"] = flusher["async"]
        BY <1>5, <2>2 DEF AfterFlush, Goes, BufferTypes, Flushers
      <3>2. flushing => flushing'
        BY <1>5, <2>2, Zenon DEF AfterFlush
      <3> QED
        BY <3>1, <3>2, Zenon DEF AsyncOnce
    <2> QED
      BY <2>1, <2>2
  <1>6. CASE DeleteRows
    <2>1. /\ flusher' = [flusher EXCEPT !["delete"] = "deleted"]
          /\ flushing' = flushing
      BY <1>6, Zenon DEF DeleteRows, Goes
    <2> QED
      BY <1>b, <2>1 DEF Flushers
  <1>7. CASE CleanupOldRecords \/ Close \/ CloseDatabase
    BY <1>a, <1>7 DEF CleanupOldRecords, Close, CloseDatabase
  <1>8. CASE RestartStore
    BY <1>8 DEF RestartStore, AsyncOnce, Flushers
  <1>9. CASE UNCHANGED bufferVars
    BY <1>a, <1>9 DEF bufferVars
  <1> QED
    BY <1>1, <1>2, <1>3, <1>4, <1>5, <1>6, <1>7, <1>8, <1>9 DEF BufferNext, Flush

LEMMA StepTable == BufferInv /\ [BufferNext]_bufferVars => TableType'
  <1> SUFFICES ASSUME BufferInv, [BufferNext]_bufferVars PROVE TableType'
    OBVIOUS
  <1>1. ASSUME NEW f \in Flushers, BatchInsertRecords(f) PROVE TableType'
    <2>1. table \o taken[f] \in Seq(Records)
      BY HeldByConcat DEF BufferInv, BufferTypes, TableType
    <2> QED
      BY <1>1, <2>1 DEF BatchInsertRecords, BufferInv, TableType
  <1>2. CASE DeleteRows
    BY <1>2, OtherRows DEF DeleteRows, BufferInv, TableType
  <1>3. CASE CleanupOldRecords
    BY <1>3 DEF CleanupOldRecords, BufferInv, TableType
  <1>4. CASE UNCHANGED table
    BY <1>4 DEF BufferInv, TableType
  <1> QED
    BY <1>1, <1>2, <1>3, <1>4, Zenon
       DEF BufferNext, Flush, bufferVars, AddRecord, CallDelete, ScheduleFlush, TickFlush,
           StopFlush, CallQuery, LockAndTake, RequeueRecords, UnlockFlush, AfterFlush,
           Close, CloseDatabase, RestartStore

LEMMA BufferInvStep == BufferInv /\ [BufferNext]_bufferVars => BufferInv'
  BY StepFlush, StepAsync, StepTable DEF BufferInv

-----------------------------------------------------------------------------
(* Every step is a step of the log *)

LogNext ==
  Log!AcceptRecord \/ Log!StorePending \/ Log!LosePending \/ Log!ForgetKey \/ Log!ForgetOldest

LEMMA StepLog == BufferInv /\ [BufferNext]_bufferVars => [LogNext]_(Log!logVars)
  <1> SUFFICES ASSUME BufferInv, [BufferNext]_bufferVars PROVE [LogNext]_(Log!logVars)
    OBVIOUS
  <1> USE FlushersAreSomebody DEF BufferInv
  <1>0. /\ Pending \in Seq(Records)
        /\ \A f \in Flushers : taken[f] \in Seq(Records)
        /\ buffer \in Seq(Records)
    BY DEF BufferTypes, Pending
  <1>a. ASSUME Pending' = Pending, table' = table PROVE [LogNext]_(Log!logVars)
    BY <1>a DEF Log!logVars
  <1>1. ASSUME NEW key \in Keys, AddRecord(key) PROVE [LogNext]_(Log!logVars)
    <2> DEFINE record == [id |-> accepted + 1, key |-> key]
    <2>1. record \in Records
      BY <1>1, NewRecord DEF AddRecord
    <2>2. Pending' = Append(Pending, record)
      <3>1. CASE flushMu = Nobody
        BY <1>1, <3>1 DEF AddRecord, Pending
      <3>2. CASE flushMu # Nobody
        <4>1. taken[flushMu] \in Seq(Records)
          BY <3>2, <1>0 DEF BufferTypes
        <4>2. Append(taken[flushMu] \o buffer, record) = taken[flushMu] \o Append(buffer, record)
          BY <4>1, <1>0, <2>1, AppendToSecond
        <4> QED
          BY <1>1, <3>2, <4>2 DEF AddRecord, Pending
      <3> QED
        BY <3>1, <3>2
    <2>3. table' = table
      BY <1>1 DEF AddRecord
    <2>4. Log!AcceptRecord
      BY <2>1, <2>2, <2>3 DEF Log!AcceptRecord
    <2> QED
      BY <2>4 DEF LogNext
  <1>2. CASE \/ ScheduleFlush \/ TickFlush \/ StopFlush \/ CallQuery \/ Close \/ CloseDatabase
             \/ \E key \in Keys : CallDelete(key)
             \/ \E f \in Flushers : AfterFlush(f)
             \/ UNCHANGED bufferVars
    BY <1>2, <1>a DEF ScheduleFlush, TickFlush, StopFlush, CallQuery, Close, CloseDatabase,
                      CallDelete, AfterFlush, bufferVars, Pending
  <1>3. ASSUME NEW f \in Flushers, LockAndTake(f) PROVE [LogNext]_(Log!logVars)
    <2>1. taken[f] = << >> /\ flushMu = Nobody /\ flushMu' = f /\ table' = table
      BY <1>3 DEF LockAndTake, OneFlush
    <2>2. taken'[f] \o buffer' = buffer
      <3>1. CASE buffer = << >>
        BY <1>3, <2>1, <3>1, <1>0, EmptyPart DEF LockAndTake, Take
      <3>2. CASE buffer # << >>
        BY <1>3, <3>2, <1>0, EmptyPart DEF LockAndTake, Take, BufferTypes
      <3> QED
        BY <3>1, <3>2
    <2>3. Pending' = Pending
      BY <2>1, <2>2 DEF Pending
    <2> QED
      BY <1>a, <2>1, <2>3
  <1>4. ASSUME NEW f \in Flushers, BatchInsertRecords(f) PROVE [LogNext]_(Log!logVars)
    <2>1. flushMu = f /\ flushMu' = f /\ taken[f] # << >> /\ buffer' = buffer
      BY <1>4 DEF BatchInsertRecords, OneFlush, Locked
    <2>2. Pending = taken[f] \o buffer
      BY <2>1 DEF Pending
    <2>3. CASE table' = table /\ taken' = taken
      BY <1>a, <2>1, <2>3 DEF Pending
    <2>4. CASE table' = table \o taken[f] /\ taken' = [taken EXCEPT ![f] = << >>]
      <3>1. Pending' = buffer
        BY <2>1, <2>4, <1>0, EmptyPart DEF Pending, BufferTypes
      <3>2. Len(taken[f]) \in 1..Len(Pending)
        BY <2>1, <2>2, <1>0
      <3>3. /\ SubSeq(Pending, 1, Len(taken[f])) = taken[f]
            /\ SubSeq(Pending, Len(taken[f]) + 1, Len(Pending)) = buffer
        BY <2>2, <1>0, Parts
      <3>4. Log!StorePending
        BY <2>4, <3>1, <3>2, <3>3 DEF Log!StorePending
      <3> QED
        BY <3>4 DEF LogNext
    <2> QED
      BY <1>4, <2>3, <2>4 DEF BatchInsertRecords
  <1>5. ASSUME NEW f \in Flushers, RequeueRecords(f) PROVE [LogNext]_(Log!logVars)
    <2>1. flushMu = f /\ flushMu' = f /\ taken[f] # << >> /\ table' = table
      BY <1>5 DEF RequeueRecords, OneFlush, Locked
    <2>2. Pending = taken[f] \o buffer
      BY <2>1 DEF Pending
    <2>3. taken'[f] = << >>
      BY <1>5 DEF RequeueRecords, BufferTypes
    <2>4. buffer' \in Seq(Records)
      <3>1. taken[f] \o buffer \in Seq(Records)
        BY <1>0
      <3> QED
        BY <1>0, <1>5, <3>1 DEF RequeueRecords
    <2>5. Pending' = buffer'
      BY <2>1, <2>3, <2>4, EmptyPart DEF Pending
    <2>6. CASE buffer' = taken[f] \o buffer
      BY <1>a, <2>1, <2>2, <2>5, <2>6
    <2>7. CASE buffer' = buffer
      <3>1. Len(taken[f]) \in 1..Len(Pending)
        BY <2>1, <2>2, <1>0
      <3>2. SubSeq(Pending, Len(taken[f]) + 1, Len(Pending)) = buffer
        BY <2>2, <1>0, Parts
      <3>3. Log!LosePending
        BY <2>1, <2>5, <2>7, <3>1, <3>2 DEF Log!LosePending
      <3> QED
        BY <3>3 DEF LogNext
    <2> QED
      BY <1>5, <2>6, <2>7 DEF RequeueRecords
  <1>6. ASSUME NEW f \in Flushers, UnlockFlush(f) PROVE [LogNext]_(Log!logVars)
    <2>1. flushMu = f /\ taken[f] = << >> /\ flushMu' = Nobody
      BY <1>6 DEF UnlockFlush, OneFlush, Locked
    <2>2. Pending = buffer
      BY <2>1, <1>0, EmptyPart DEF Pending
    <2>3. Pending' = Pending /\ table' = table
      BY <1>6, <2>1, <2>2 DEF UnlockFlush, Pending
    <2> QED
      BY <1>a, <2>3
  <1>7. CASE DeleteRows
    <2>1. Pending' = Pending
      BY <1>7 DEF DeleteRows, Pending
    <2>2. CASE table' = table
      BY <1>a, <2>1, <2>2
    <2>3. CASE table' = Without(deleting, table)
      <3>1. deleting \in Keys /\ table \in Seq(Records)
        BY DEF BufferTypes, TableType
      <3>2. Log!ForgetKey
        <4>1. \E n \in 0..Len(table) : \E place \in [1..n -> DOMAIN table] :
                /\ \A i, j \in 1..n : i < j => place[i] < place[j]
                /\ {place[i] : i \in 1..n} = {i \in DOMAIN table : table[i].key # deleting}
                /\ table' = [i \in 1..n |-> table[place[i]]]
                /\ UNCHANGED Pending
          BY <2>1, <2>3, <3>1, OtherRows
        <4> QED
          BY <3>1, <4>1, Zenon DEF Log!ForgetKey
      <3> QED
        BY <3>2 DEF LogNext
    <2> QED
      BY <1>7, <2>2, <2>3 DEF DeleteRows
  <1>8. CASE CleanupOldRecords
    <2>1. Pending' = Pending
      BY <1>8 DEF CleanupOldRecords, Pending
    <2>2. Log!ForgetOldest
      BY <1>8, <2>1 DEF CleanupOldRecords, Log!ForgetOldest
    <2> QED
      BY <2>2 DEF LogNext
  <1>9. CASE RestartStore
    <2>1. Pending' = << >> /\ table' = table
      BY <1>9 DEF RestartStore, Pending
    <2>2. CASE Pending = << >>
      BY <1>a, <2>1, <2>2
    <2>3. CASE Pending # << >>
      <3>1. Len(Pending) \in 1..Len(Pending)
        BY <2>3, <1>0
      <3>2. SubSeq(Pending, Len(Pending) + 1, Len(Pending)) = << >>
        BY <1>0, BehindTheEnd
      <3>3. Log!LosePending
        BY <2>1, <3>1, <3>2 DEF Log!LosePending
      <3> QED
        BY <3>3 DEF LogNext
    <2> QED
      BY <2>2, <2>3
  <1> QED
    BY <1>1, <1>2, <1>3, <1>4, <1>5, <1>6, <1>7, <1>8, <1>9 DEF BufferNext, Flush

LEMMA InitLog == BufferInit => Log!LogInit
  BY DEF BufferInit, Log!LogInit, Pending

-----------------------------------------------------------------------------
(* The write path implements the log: accepted records become durable in    *)
(* the order of their acceptance, each at most once, whoever flushes,       *)
(* whatever fails and whenever the process ends.                            *)
THEOREM ImplementsLog == BufferSpec => StoresInOrder
  <1>1. BufferSpec => []BufferInv
    BY BufferInvInit, BufferInvStep, PTL DEF BufferSpec
  <1>2. BufferSpec => Log!LogInit /\ [][LogNext]_(Log!logVars)
    BY <1>1, InitLog, StepLog, PTL DEF BufferSpec
  <1> QED
    BY <1>2 DEF StoresInOrder, Log!LogSpec, LogNext

-----------------------------------------------------------------------------
(* Shutdown *)

(* The last round of flushLoop takes what is left, and nothing comes after  *)
(* it: no record is accepted and no batch returns unless a write failed.    *)
LastRound ==
  /\ flusher["loop"] # "after"
  /\ \A f \in Flushers : flusher[f] = "requeue" => writeFailed
  /\ store = "closed" => flusher["loop"] = "done"
  /\ store \in {"stopping", "closed"} =>
       /\ flusher["loop"] # "idle"
       /\ flusher["loop"] \in {"inserting", "flushed"} /\ ~writeFailed => buffer = << >>
       /\ flusher["loop"] = "done" /\ ~writeFailed => Pending = << >>

LEMMA InitLastRound == BufferInit => LastRound
  BY DEF BufferInit, LastRound, Flushers

LEMMA StepLastRound == BufferInv /\ LastRound /\ [BufferNext]_bufferVars => LastRound'
  <1> SUFFICES ASSUME BufferInv, LastRound, [BufferNext]_bufferVars PROVE LastRound'
    OBVIOUS
  <1> USE FlushersAreSomebody DEF BufferInv
  <1>0. "loop" \in Flushers
    BY DEF Flushers
  <1>a. ASSUME store' = store \/ store' \in {"open", "closing"},
               flusher'["loop"] = flusher["loop"] \/ flusher'["loop"] = "waiting",
               \A f \in Flushers : flusher'[f] = "requeue" => flusher[f] = "requeue",
               writeFailed' = writeFailed,
               buffer' = buffer \/ store' = "open",
               Pending' = Pending \/ store' = "open",
               flusher'["loop"] = flusher["loop"] \/ store # "closed"
        PROVE  LastRound'
    <2>1. writeFailed' <=> writeFailed
      BY <1>a, Zenon
    <2> HIDE DEF BufferInv
    <2> QED
      BY <1>a, <2>1 DEF LastRound
  <1>1. ASSUME NEW key \in Keys, AddRecord(key) PROVE LastRound'
    BY <1>1, <1>a DEF AddRecord
  <1>2. ASSUME NEW key \in Keys, CallDelete(key) PROVE LastRound'
    <2>1. /\ flusher' = [flusher EXCEPT !["delete"] = "waiting"]
          /\ UNCHANGED <<store, writeFailed, buffer, taken, flushMu>>
      BY <1>2, Zenon DEF CallDelete, Goes
    <2>2. Pending' = Pending
      BY <2>1 DEF Pending
    <2> QED
      BY <1>a, <2>1, <2>2 DEF BufferTypes, Flushers
  <1>3. CASE ScheduleFlush
    <2>1. /\ flusher' = flusher \/ flusher' = [flusher EXCEPT !["async"] = "waiting"]
          /\ UNCHANGED <<store, writeFailed, buffer, taken, flushMu>>
      BY <1>3, Zenon DEF ScheduleFlush, Goes
    <2>2. Pending' = Pending
      BY <2>1 DEF Pending
    <2> QED
      BY <1>a, <2>1, <2>2 DEF BufferTypes, Flushers
  <1>4. CASE TickFlush \/ StopFlush
    <2>1. /\ flusher["loop"] = "idle" /\ flusher' = [flusher EXCEPT !["loop"] = "waiting"]
          /\ store' = store \/ store' = "stopping"
          /\ UNCHANGED <<writeFailed, buffer, taken, flushMu>>
      BY <1>4, Zenon DEF TickFlush, StopFlush, Goes
    <2>2. Pending' = Pending
      BY <2>1 DEF Pending
    <2>3. /\ flusher'["loop"] = "waiting"
          /\ \A f \in Flushers : flusher'[f] = "requeue" => flusher[f] = "requeue"
      BY <2>1 DEF BufferTypes, Flushers
    <2>4. writeFailed' <=> writeFailed
      BY <2>1, Zenon
    <2>5. store # "closed"
      BY <2>1 DEF LastRound
    <2> QED
      BY <2>1, <2>2, <2>3, <2>4, <2>5 DEF LastRound
  <1>5. CASE CallQuery
    <2>1. /\ flusher' = [flusher EXCEPT !["query"] = "waiting"]
          /\ UNCHANGED <<store, writeFailed, buffer, taken, flushMu>>
      BY <1>5, Zenon DEF CallQuery, Goes
    <2>2. Pending' = Pending
      BY <2>1 DEF Pending
    <2> QED
      BY <1>a, <2>1, <2>2 DEF BufferTypes, Flushers
  <1>6. ASSUME NEW f \in Flushers, LockAndTake(f) PROVE LastRound'
    <2>1. /\ flusher[f] = "waiting" /\ flushMu = Nobody /\ flushMu' = f
          /\ taken[f] = << >>
          /\ UNCHANGED <<store, writeFailed>>
      BY <1>6 DEF LockAndTake, OneFlush
    <2>2. PICK step \in {"flushed", "inserting"} : flusher' = [flusher EXCEPT ![f] = step]
      BY <1>6 DEF LockAndTake, Take, Goes
    <2>3. buffer' = << >>
      BY <1>6 DEF LockAndTake, Take
    <2>4. buffer = << >> => taken'[f] = << >>
      BY <1>6, <2>1 DEF LockAndTake, Take
    <2>5. writeFailed' <=> writeFailed
      BY <2>1, Zenon
    <2>6. Pending = << >> => Pending' = << >>
      BY <2>1, <2>3, <2>4 DEF Pending
    <2>7. CASE f = "loop"
      BY <2>1, <2>2, <2>3, <2>5, <2>7 DEF LastRound, BufferTypes
    <2>8. CASE f # "loop"
      BY <2>1, <2>2, <2>3, <2>5, <2>6, <2>8 DEF LastRound, BufferTypes
    <2> QED
      BY <2>7, <2>8
  <1>7. ASSUME NEW f \in Flushers, BatchInsertRecords(f) PROVE LastRound'
    <2>1. flusher[f] = "inserting" /\ flushMu = f /\ UNCHANGED <<store, buffer, flushMu>>
      BY <1>7 DEF BatchInsertRecords, OneFlush, Locked
    <2>2. CASE /\ taken' = [taken EXCEPT ![f] = << >>] /\ UNCHANGED writeFailed
               /\ flusher' = [flusher EXCEPT ![f] = "flushed"]
      <3>1. writeFailed' <=> writeFailed
        BY <2>2, Zenon
      <3>2. taken[f] # << >> /\ taken'[f] = << >>
        BY <2>1, <2>2 DEF OneFlush, BufferTypes
      <3>3. Pending = << >> => Pending' = << >>
        BY <2>1, <3>2 DEF Pending, BufferTypes
      <3>4. CASE f = "loop"
        BY <2>1, <2>2, <3>1, <3>4 DEF LastRound, BufferTypes
      <3>5. CASE f # "loop"
        BY <2>1, <2>2, <3>1, <3>3, <3>5 DEF LastRound, BufferTypes
      <3> QED
        BY <3>4, <3>5
    <2>3. CASE writeFailed' = TRUE /\ flusher' = [flusher EXCEPT ![f] = "requeue"]
      <3>1. writeFailed'
        BY <2>3, Zenon
      <3>2. flusher' = [flusher EXCEPT ![f] = "requeue"]
        BY <2>3
      <3>3. CASE f = "loop"
        BY <2>1, <3>1, <3>2, <3>3 DEF LastRound, BufferTypes
      <3>4. CASE f # "loop"
        BY <2>1, <3>1, <3>2, <3>4 DEF LastRound, BufferTypes
      <3> QED
        BY <3>3, <3>4
    <2> QED
      BY <1>7, <2>2, <2>3, Zenon DEF BatchInsertRecords, Goes
  <1>8. ASSUME NEW f \in Flushers, RequeueRecords(f) PROVE LastRound'
    <2>1. /\ flusher[f] = "requeue" /\ flushMu = f
          /\ flusher' = [flusher EXCEPT ![f] = "flushed"] /\ UNCHANGED <<store, writeFailed>>
      BY <1>8 DEF RequeueRecords, Goes, OneFlush, Locked
    <2>2. writeFailed'
      <3>1. writeFailed
        BY <2>1 DEF LastRound
      <3> QED
        BY <2>1, <3>1, Zenon
    <2> QED
      BY <2>1, <2>2 DEF LastRound, BufferTypes
  <1>9. ASSUME NEW f \in Flushers, UnlockFlush(f) PROVE LastRound'
    <2>1. PICK step \in {"after", "done", "idle"} :
            /\ flusher' = [flusher EXCEPT ![f] = step]
            /\ f = "loop" => IF store = "stopping" THEN step = "done" ELSE step = "idle"
      BY <1>9 DEF UnlockFlush, Goes
    <2>2. /\ flusher[f] \in {"flushed", "deleted"} /\ flushMu = f /\ flushMu' = Nobody
          /\ UNCHANGED <<buffer, taken, store>>
      BY <1>9 DEF UnlockFlush, OneFlush, Locked
    <2>3. writeFailed' <=> writeFailed
      BY <1>9, Zenon DEF UnlockFlush
    <2>4. taken[f] = << >>
      BY <2>2 DEF OneFlush
    <2>5. Pending = buffer /\ Pending' = buffer
      BY <2>2, <2>4, EmptyPart DEF Pending, BufferTypes
    <2>6. CASE f = "loop"
      <3>1. flusher["loop"] = "flushed"
        BY <1>9, <2>6 DEF UnlockFlush
      <3> QED
        BY <2>1, <2>2, <2>3, <2>5, <2>6, <3>1 DEF LastRound, BufferTypes
    <2>7. CASE f # "loop"
      BY <2>1, <2>2, <2>3, <2>5, <2>7 DEF LastRound, BufferTypes
    <2> QED
      BY <2>6, <2>7
  <1>10. ASSUME NEW f \in Flushers, AfterFlush(f) PROVE LastRound'
    <2>1. /\ flusher[f] = "after" /\ flusher' = [flusher EXCEPT ![f] = "idle"]
          /\ UNCHANGED <<store, writeFailed, buffer, taken, flushMu>>
      BY <1>10, Zenon DEF AfterFlush, Goes
    <2>2. f # "loop"
      BY <2>1 DEF LastRound
    <2>3. Pending' = Pending
      BY <2>1 DEF Pending
    <2> QED
      BY <1>a, <2>1, <2>2, <2>3 DEF BufferTypes
  <1>11. CASE DeleteRows
    <2>1. /\ flusher' = [flusher EXCEPT !["delete"] = "deleted"]
          /\ UNCHANGED <<store, buffer, taken, flushMu>>
      BY <1>11, Zenon DEF DeleteRows, Goes
    <2>2. writeFailed => writeFailed'
      BY <1>11, Zenon DEF DeleteRows
    <2>3. Pending' = Pending
      BY <2>1 DEF Pending
    <2> QED
      BY <2>1, <2>2, <2>3 DEF LastRound, BufferTypes, Flushers
  <1>12. CASE CleanupOldRecords \/ UNCHANGED bufferVars
    <2>1. UNCHANGED <<store, writeFailed, buffer, taken, flushMu, flusher>>
      BY <1>12, Zenon DEF CleanupOldRecords, bufferVars
    <2>2. Pending' = Pending
      BY <2>1 DEF Pending
    <2> QED
      BY <1>a, <2>1, <2>2
  <1>13. CASE Close
    BY <1>13, <1>a DEF Close, Pending
  <1>14. CASE CloseDatabase
    <2>1. /\ store = "stopping" /\ flusher["loop"] = "done" /\ store' = "closed"
          /\ UNCHANGED <<writeFailed, buffer, taken, flushMu, flusher>>
      BY <1>14, Zenon DEF CloseDatabase
    <2>2. Pending' = Pending
      BY <2>1 DEF Pending
    <2>3. writeFailed' <=> writeFailed
      BY <2>1, Zenon
    <2> QED
      BY <2>1, <2>2, <2>3 DEF LastRound
  <1>15. CASE RestartStore
    BY <1>15 DEF RestartStore, LastRound, Flushers
  <1> QED
    BY <1>1, <1>2, <1>3, <1>4, <1>5, <1>6, <1>7, <1>8, <1>9, <1>10, <1>11, <1>12, <1>13, <1>14,
       <1>15 DEF BufferNext, Flush

(* Close loses nothing: for any size of the buffer, if no write failed,     *)
(* everything that was accepted is in the database when it is closed.       *)
THEOREM ClosingFlushes == BufferSpec => []CloseFlushes
  <1>1. LastRound => CloseFlushes
    BY DEF LastRound, CloseFlushes
  <1>2. BufferSpec => []BufferInv
    BY BufferInvInit, BufferInvStep, PTL DEF BufferSpec
  <1> QED
    BY <1>1, <1>2, InitLastRound, StepLastRound, PTL DEF BufferSpec

-----------------------------------------------------------------------------
(* Queries and deletions *)

(* The records of the store that have not been lost.                        *)
Contents == Held(Pending) \cup Held(table)

(* An id stands for one record with one key, and is never given again: what *)
(* a deletion has promised to remove are records of its key.                *)
IdsStand ==
  /\ \A x, y \in Contents : x.id = y.id => x.key = y.key
  /\ \A x \in Contents : x.id <= accepted
  /\ promised["delete"] \subseteq 1..accepted /\ gone \subseteq 1..accepted
  /\ \A x \in Contents : x.id \in promised["delete"] => x.key = deleting

(* From the moment a deletion holds the lock nothing it must remove is in   *)
(* the buffer.                                                              *)
DeletionTookAll ==
  ~writeFailed =>
    /\ flusher["delete"] \in {"inserting", "flushed"} =>
         \A x \in Held(buffer) : x.id \notin promised["delete"]
    /\ \A x \in Contents : x.id \notin gone

(* What a query must show is not lost, and from the moment it holds the     *)
(* lock it is in its own batch or in the table.                             *)
QueryTookAll ==
  ~writeFailed =>
    /\ \A n \in promised["query"] : \E x \in Contents : x.id = n
    /\ flusher["query"] \in {"inserting", "flushed", "after"} =>
         \A n \in promised["query"] :
           \E x \in Held(taken["query"]) \cup Held(table) : x.id = n

PromisedType == promised \in [Flushers -> SUBSET Nat]

PromiseInv == PromisedType /\ IdsStand /\ DeletionTookAll /\ QueryTookAll

(* Records are records.                                                     *)
LEMMA HeldType ==
  ASSUME BufferInv
  PROVE  /\ Held(buffer) \subseteq Records /\ Held(table) \subseteq Records
         /\ \A f \in Flushers : Held(taken[f]) \subseteq Records
         /\ Contents \subseteq Records
         /\ \A x \in Contents : x.id \in 1..MaxRecords
         /\ Held(Pending) = Held(buffer) \cup
              (IF flushMu = Nobody THEN {} ELSE Held(taken[flushMu]))
  <1>1. /\ buffer \in Seq(Records) /\ table \in Seq(Records)
        /\ \A f \in Flushers : taken[f] \in Seq(Records)
        /\ flushMu # Nobody => flushMu \in Flushers
    BY DEF BufferInv, BufferTypes, TableType
  <1>2. \A s \in Seq(Records) : Held(s) \subseteq Records
    BY DEF Held
  <1>3. Held(Pending) = Held(buffer) \cup
              (IF flushMu = Nobody THEN {} ELSE Held(taken[flushMu]))
    <2>1. CASE flushMu = Nobody
      BY <2>1 DEF Pending
    <2>2. CASE flushMu # Nobody
      BY <1>1, <2>2, HeldByConcat DEF Pending
    <2> QED
      BY <2>1, <2>2
  <1>4. Contents \subseteq Records
    BY <1>1, <1>2, <1>3 DEF Contents
  <1>5. \A x \in Records : x.id \in 1..MaxRecords
    BY DEF Records
  <1> QED
    BY <1>1, <1>2, <1>3, <1>4, <1>5

(* The sets of ids the model speaks of.                                     *)
LEMMA IdsHeld ==
  ASSUME NEW s \in Seq(Records)
  PROVE  /\ Ids(s) = {x.id : x \in Held(s)}
         /\ \A key : IdsOf(key, s) = {x.id : x \in {y \in Held(s) : y.key = key}}
  BY DEF Ids, IdsOf, Held

LEMMA PromiseInit == BufferInit => PromiseInv
  <1> SUFFICES ASSUME BufferInit PROVE PromiseInv
    OBVIOUS
  <1>1. Held(Pending) = {} /\ Held(table) = {} /\ Held(buffer) = {}
    BY DEF BufferInit, Pending, Held
  <1>2. \A f \in Flushers : promised[f] = {}
    BY DEF BufferInit
  <1>3. PromisedType
    BY DEF PromisedType, BufferInit
  <1> QED
    BY <1>1, <1>2, <1>3
       DEF PromiseInv, IdsStand, DeletionTookAll, QueryTookAll, Contents, BufferInit, Flushers

(* What the flushes, the lock and the end of the process do to the records. *)
LEMMA PromiseStep ==
  ASSUME BufferInv, BufferInv', LastRound, PromiseInv, [BufferNext]_bufferVars
  PROVE  PromiseInv'
  <1> USE FlushersAreSomebody
  <1>0. /\ buffer \in Seq(Records) /\ table \in Seq(Records) /\ Pending \in Seq(Records)
        /\ \A f \in Flushers : taken[f] \in Seq(Records)
        /\ taken \in [Flushers -> Seq(Records)]
        /\ DOMAIN flusher = Flushers
        /\ promised \in [Flushers -> SUBSET Nat]
        /\ accepted \in Nat
        /\ "delete" \in Flushers /\ "query" \in Flushers
    <2>1. Pending \in Seq(Records)
      BY ConcatProperties DEF BufferInv, BufferTypes, Pending
    <2> QED
      BY <2>1, WriteBufferAssumption
         DEF BufferInv, BufferTypes, TableType, PromiseInv, PromisedType, Flushers
  (* Nothing new, and nothing promised but what was.                        *)
  <1>a. ASSUME Contents' \subseteq Contents, accepted' = accepted, deleting' = deleting,
               promised'["delete"] \subseteq promised["delete"],
               gone' \subseteq gone \cup promised["delete"]
        PROVE  IdsStand'
    BY <1>a DEF PromiseInv, IdsStand
  (* The step does not concern deletions ...                                *)
  <1>b. ASSUME Contents' \subseteq Contents, Held(buffer)' \subseteq Held(buffer),
               promised'["delete"] \subseteq promised["delete"],
               flusher'["delete"] = flusher["delete"] \/ flusher'["delete"] \notin {"inserting", "flushed"},
               gone' = gone, writeFailed' <=> writeFailed
        PROVE  DeletionTookAll'
    BY <1>b DEF PromiseInv, DeletionTookAll
  (* ... nor queries.                                                       *)
  <1>c. ASSUME Contents' = Contents, Held(taken["query"])' = Held(taken["query"]),
               Held(table) \subseteq Held(table)', promised'["query"] \subseteq promised["query"],
               flusher'["query"] = flusher["query"]
                 \/ flusher'["query"] \notin {"inserting", "flushed", "after"},
               writeFailed' <=> writeFailed
        PROVE  QueryTookAll'
    BY <1>c DEF PromiseInv, QueryTookAll
  <1>d. ASSUME writeFailed' PROVE DeletionTookAll' /\ QueryTookAll'
    BY <1>d, Zenon DEF DeletionTookAll, QueryTookAll
  (* Everything a step leaves alone.                                        *)
  <1>e. ASSUME UNCHANGED <<buffer, taken, flushMu, table>>
        PROVE  /\ Contents' = Contents /\ Held(buffer)' = Held(buffer)
               /\ Held(taken["query"])' = Held(taken["query"]) /\ Held(table)' = Held(table)
    BY <1>e DEF Contents, Pending, Held
  <1>f. Held(Pending)' = Held(buffer)' \cup
          (IF flushMu' = Nobody THEN {} ELSE Held(taken'[flushMu']))
    <2>1. /\ buffer' \in Seq(Records) /\ \A f \in Flushers : taken'[f] \in Seq(Records)
          /\ flushMu' # Nobody => flushMu' \in Flushers
      BY DEF BufferInv, BufferTypes
    <2>2. Held(Pending)' = Held(Pending') /\ Held(buffer)' = Held(buffer')
      BY DEF Held
    <2>3. CASE flushMu' = Nobody
      BY <2>2, <2>3 DEF Pending
    <2>4. CASE flushMu' # Nobody
      <3>1. Pending' = taken'[flushMu'] \o buffer'
        BY <2>4 DEF Pending
      <3> QED
        BY <2>1, <2>2, <2>4, <3>1, HeldByConcat
    <2> QED
      BY <2>3, <2>4
  <1>1. ASSUME NEW key \in Keys, AddRecord(key) PROVE PromiseInv'
    <2> DEFINE r == [id |-> accepted + 1, key |-> key]
    <2>1. /\ r \in Records /\ r.id = accepted + 1 /\ r.key = key
          /\ buffer' = Append(buffer, r) /\ accepted' = accepted + 1
          /\ UNCHANGED <<table, taken, flushMu, flusher, deleting, promised, gone, writeFailed>>
      BY <1>1, NewRecord DEF AddRecord, BufferInv
    <2> HIDE DEF r
    <2>2. Held(buffer)' = Held(buffer) \cup {r}
      BY <1>0, <2>1, HeldByAppend
    <2>3. Contents' = Contents \cup {r} /\ Held(taken["query"])' = Held(taken["query"])
          /\ Held(table)' = Held(table)
      <3>1. Held(Pending)' = Held(Pending) \cup {r}
        <4>1. Held(Pending)' = Held(buffer)' \cup
                (IF flushMu' = Nobody THEN {} ELSE Held(taken'[flushMu']))
          BY <1>f
        <4>2. Held(Pending) = Held(buffer) \cup
                (IF flushMu = Nobody THEN {} ELSE Held(taken[flushMu]))
          BY HeldType
        <4> QED
          BY <2>1, <2>2, <4>1, <4>2
      <3> QED
        BY <2>1, <3>1 DEF Contents, Held
    <2>4. writeFailed' <=> writeFailed
      BY <2>1, Zenon
    <2>5. \A x \in Contents : x.id \in Nat
      BY HeldType
    <2>6. IdsStand'
      BY <1>0, <2>1, <2>3, <2>5 DEF PromiseInv, IdsStand
    <2>7. DeletionTookAll'
      BY <1>0, <2>1, <2>2, <2>3, <2>4 DEF PromiseInv, DeletionTookAll, IdsStand
    <2>8. QueryTookAll'
      BY <2>1, <2>3, <2>4 DEF PromiseInv, QueryTookAll
    <2> QED
      BY <1>0, <2>1, <2>6, <2>7, <2>8 DEF PromiseInv, PromisedType
  <1>2. ASSUME NEW key \in Keys, CallDelete(key) PROVE PromiseInv'
    <2>1. /\ flusher["delete"] = "idle" /\ flusher' = [flusher EXCEPT !["delete"] = "waiting"]
          /\ deleting' = key
          /\ promised' = [promised EXCEPT !["delete"] = IdsOf(key, Pending) \cup IdsOf(key, table)]
          /\ UNCHANGED <<buffer, table, taken, flushMu, accepted, gone, writeFailed>>
      BY <1>2, Zenon DEF CallDelete, Goes
    <2>2. IdsOf(key, Pending) \cup IdsOf(key, table) = {x.id : x \in {y \in Contents : y.key = key}}
      BY <1>0, IdsHeld DEF Contents
    <2>3. \A x \in Contents : x.id \in Nat \ {0} /\ x.id <= accepted
      BY HeldType DEF PromiseInv, IdsStand
    <2>4. IdsOf(key, Pending) \cup IdsOf(key, table) \subseteq 1..accepted
      BY <1>0, <2>2, <2>3
    <2>5. promised'["delete"] = {x.id : x \in {y \in Contents : y.key = key}}
          /\ promised'["query"] = promised["query"]
      BY <1>0, <2>1, <2>2
    <2>6. promised' \in [Flushers -> SUBSET Nat]
      BY <1>0, <2>1, <2>4
    <2>7. Contents' = Contents /\ Held(buffer)' = Held(buffer)
          /\ Held(taken["query"])' = Held(taken["query"]) /\ Held(table)' = Held(table)
      BY <1>e, <2>1
    <2>8. flusher'["delete"] = "waiting" /\ flusher'["query"] = flusher["query"]
      BY <1>0, <2>1
    <2>9. writeFailed' <=> writeFailed
      BY <2>1, Zenon
    <2>10. IdsStand'
      <3>1. promised'["delete"] \subseteq 1..accepted'
        BY <2>1, <2>2, <2>4, <2>5
      <3>2. \A x \in Contents : x.id \in promised'["delete"] => x.key = key
        BY <2>5 DEF PromiseInv, IdsStand
      <3> QED
        BY <2>1, <2>7, <3>1, <3>2 DEF PromiseInv, IdsStand
    <2>11. DeletionTookAll'
      BY <2>1, <2>7, <2>8, <2>9 DEF PromiseInv, DeletionTookAll
    <2>12. QueryTookAll'
      BY <1>c, <2>5, <2>7, <2>8, <2>9
    <2> QED
      BY <2>6, <2>10, <2>11, <2>12 DEF PromiseInv, PromisedType
  <1>3. CASE CallQuery
    <2>1. /\ flusher["query"] = "idle" /\ flusher' = [flusher EXCEPT !["query"] = "waiting"]
          /\ promised' = [promised EXCEPT !["query"] = Ids(Pending) \cup Ids(table)]
          /\ UNCHANGED <<buffer, table, taken, flushMu, deleting, accepted, gone, writeFailed>>
      BY <1>3, Zenon DEF CallQuery, Goes
    <2>2. Ids(Pending) \cup Ids(table) = {x.id : x \in Contents}
      BY <1>0, IdsHeld DEF Contents
    <2>3. Ids(Pending) \cup Ids(table) \subseteq Nat
      BY <2>2, HeldType
    <2>4. /\ promised'["delete"] = promised["delete"]
          /\ promised'["query"] = {x.id : x \in Contents}
          /\ promised' \in [Flushers -> SUBSET Nat]
      BY <1>0, <2>1, <2>2, <2>3
    <2>5. Contents' = Contents /\ Held(buffer)' = Held(buffer)
          /\ Held(taken["query"])' = Held(taken["query"]) /\ Held(table)' = Held(table)
      BY <1>e, <2>1
    <2>6. flusher'["query"] = "waiting" /\ flusher'["delete"] = flusher["delete"]
      BY <1>0, <2>1
    <2>7. writeFailed' <=> writeFailed
      BY <2>1, Zenon
    <2>8. QueryTookAll'
      BY <2>4, <2>5, <2>6 DEF QueryTookAll
    <2> QED
      BY <1>a, <1>b, <2>1, <2>4, <2>5, <2>6, <2>7, <2>8 DEF PromiseInv, PromisedType
  <1>4. CASE ScheduleFlush \/ TickFlush \/ StopFlush \/ Close \/ CloseDatabase \/ UNCHANGED bufferVars
    <2>1. UNCHANGED <<buffer, table, taken, flushMu, deleting, accepted, promised, gone, writeFailed>>
      BY <1>4, Zenon DEF ScheduleFlush, TickFlush, StopFlush, Close, CloseDatabase, bufferVars
    <2>2. flusher' = flusher \/ \E f \in {"async", "loop"} : flusher' = [flusher EXCEPT ![f] = "waiting"]
      BY <1>4, Zenon DEF ScheduleFlush, TickFlush, StopFlush, Close, CloseDatabase, bufferVars, Goes
    <2>3. flusher'["query"] = flusher["query"] /\ flusher'["delete"] = flusher["delete"]
      BY <1>0, <2>2
    <2>4. writeFailed' <=> writeFailed
      BY <2>1, Zenon
    <2> QED
      BY <1>a, <1>b, <1>c, <1>e, <2>1, <2>3, <2>4 DEF PromiseInv, PromisedType
  <1>5. ASSUME NEW f \in Flushers, LockAndTake(f) PROVE PromiseInv'
    <2>1. /\ flusher[f] = "waiting" /\ flushMu = Nobody /\ flushMu' = f
          /\ taken[f] = << >>
          /\ UNCHANGED <<table, deleting, accepted, promised, gone, writeFailed>>
      BY <1>5 DEF LockAndTake, OneFlush, BufferInv
    <2>2. /\ buffer' = << >> /\ taken' = [taken EXCEPT ![f] = buffer]
          /\ \E step \in {"flushed", "inserting"} : flusher' = [flusher EXCEPT ![f] = step]
      <3>1. CASE buffer = << >>
        <4>1. buffer' = buffer /\ taken' = taken /\ flusher' = [flusher EXCEPT ![f] = "flushed"]
          BY <1>5, <3>1 DEF LockAndTake, Take, Goes
        <4> QED
          BY <1>0, <2>1, <3>1, <4>1
      <3>2. CASE buffer # << >>
        BY <1>5, <3>2 DEF LockAndTake, Take, Goes
      <3> QED
        BY <3>1, <3>2
    <2>3. Held(buffer)' = {} /\ Held(taken'[f]) = Held(buffer) /\ Held(table)' = Held(table)
      BY <1>0, <2>1, <2>2 DEF Held
    <2>4. Held(Pending)' = Held(buffer) /\ Held(Pending) = Held(buffer)
      <3>1. Held(Pending)' = Held(buffer)' \cup
              (IF flushMu' = Nobody THEN {} ELSE Held(taken'[flushMu']))
        BY <1>f
      <3> QED
        BY <2>1, <2>3, <3>1, HeldType
    <2>5. Contents' = Contents
      BY <2>3, <2>4 DEF Contents
    <2>6. writeFailed' <=> writeFailed
      BY <2>1, Zenon
    <2>7. DeletionTookAll'
      BY <2>1, <2>3, <2>5, <2>6 DEF PromiseInv, DeletionTookAll
    <2>8. QueryTookAll'
      <3>1. CASE f = "query"
        <4>1. Held(taken["query"])' = Held(buffer)
          BY <2>3, <3>1 DEF Held
        <4> QED
          BY <2>1, <2>3, <2>4, <2>5, <2>6, <4>1 DEF PromiseInv, QueryTookAll, Contents
      <3>2. CASE f # "query"
        <4>1. flusher'["query"] = flusher["query"] /\ taken'["query"] = taken["query"]
          BY <1>0, <2>2, <3>2
        <4>2. Held(taken["query"])' = Held(taken["query"])
          BY <4>1 DEF Held
        <4> QED
          BY <1>c, <2>1, <2>3, <2>5, <2>6, <4>1, <4>2
      <3> QED
        BY <3>1, <3>2
    <2> QED
      BY <1>a, <2>1, <2>5, <2>7, <2>8 DEF PromiseInv, PromisedType
  <1>6. ASSUME NEW f \in Flushers, BatchInsertRecords(f) PROVE PromiseInv'
    <2>1. /\ flusher[f] = "inserting" /\ flushMu = f
          /\ UNCHANGED <<buffer, flushMu, deleting, accepted, promised, gone>>
      BY <1>6 DEF BatchInsertRecords, OneFlush, Locked, BufferInv
    <2>2. CASE /\ table' = table \o taken[f] /\ taken' = [taken EXCEPT ![f] = << >>]
               /\ flusher' = [flusher EXCEPT ![f] = "flushed"] /\ UNCHANGED writeFailed
      <3>1. /\ Held(table)' = Held(table) \cup Held(taken[f])
            /\ Held(buffer)' = Held(buffer) /\ Held(taken'[f]) = {}
        <4>1. Held(table \o taken[f]) = Held(table) \cup Held(taken[f])
          BY <1>0, HeldByConcat
        <4>2. Held(table)' = Held(table') /\ Held(buffer)' = Held(buffer')
          BY DEF Held
        <4>3. taken'[f] = << >>
          BY <1>0, <2>2
        <4>4. Held(taken'[f]) = {}
          BY <4>3 DEF Held
        <4> QED
          BY <2>1, <2>2, <4>1, <4>2, <4>4
      <3>2. Held(Pending) = Held(buffer) \cup Held(taken[f]) /\ Held(Pending)' = Held(buffer)
        <4>1. Held(Pending)' = Held(buffer)' \cup
                (IF flushMu' = Nobody THEN {} ELSE Held(taken'[flushMu']))
          BY <1>f
        <4> QED
          BY <2>1, <3>1, <4>1, HeldType
      <3>3. Contents' = Contents
        BY <3>1, <3>2 DEF Contents
      <3>4. writeFailed' <=> writeFailed
        BY <2>2, Zenon
      <3>5. DeletionTookAll'
        <4>1. flusher'["delete"] = flusher["delete"] \/ flusher["delete"] = "inserting"
          BY <1>0, <2>1, <2>2
        <4> QED
          BY <2>1, <3>1, <3>3, <3>4, <4>1 DEF PromiseInv, DeletionTookAll
      <3>6. QueryTookAll'
        <4>1. CASE f = "query"
          <5>1. flusher["query"] = "inserting" /\ Held(taken["query"])' = {}
            BY <2>1, <3>1, <4>1 DEF Held
          <5> QED
            BY <2>1, <3>1, <3>3, <3>4, <4>1, <5>1 DEF PromiseInv, QueryTookAll
        <4>2. CASE f # "query"
          <5>1. flusher'["query"] = flusher["query"] /\ taken'["query"] = taken["query"]
            BY <1>0, <2>2, <4>2
          <5>2. Held(taken["query"])' = Held(taken["query"])
            BY <5>1 DEF Held
          <5> QED
            BY <1>c, <2>1, <3>1, <3>3, <3>4, <5>1, <5>2
        <4> QED
          BY <4>1, <4>2
      <3> QED
        BY <1>a, <2>1, <3>3, <3>5, <3>6 DEF PromiseInv, PromisedType
    <2>3. CASE writeFailed' = TRUE /\ UNCHANGED <<table, taken>>
      <3>1. writeFailed'
        BY <2>3, Zenon
      <3> QED
        BY <1>a, <1>d, <1>e, <2>1, <2>3, <3>1 DEF PromiseInv, PromisedType
    <2> QED
      BY <1>6, <2>2, <2>3, Zenon DEF BatchInsertRecords, Goes
  <1>7. ASSUME NEW f \in Flushers, RequeueRecords(f) PROVE PromiseInv'
    <2>1. /\ flusher[f] = "requeue" /\ flushMu = f /\ taken' = [taken EXCEPT ![f] = << >>]
          /\ UNCHANGED <<table, flushMu, deleting, accepted, promised, gone, writeFailed>>
      BY <1>7 DEF RequeueRecords, OneFlush, Locked, BufferInv
    <2>2. writeFailed'
      <3>1. writeFailed
        BY <2>1 DEF LastRound
      <3> QED
        BY <2>1, <3>1, Zenon
    <2>3. Held(buffer)' \subseteq Held(buffer) \cup Held(taken[f]) /\ Held(taken'[f]) = {}
      <3>1. buffer' = buffer \/ buffer' = taken[f] \o buffer
        BY <1>7 DEF RequeueRecords
      <3>2. Held(taken[f] \o buffer) = Held(taken[f]) \cup Held(buffer)
        BY <1>0, HeldByConcat
      <3>3. Held(buffer)' = Held(buffer')
        BY DEF Held
      <3>4. taken'[f] = << >>
        BY <1>0, <2>1
      <3> QED
        <4>1. Held(taken'[f]) = {}
          BY <3>4 DEF Held
        <4> QED
          BY <3>1, <3>2, <3>3, <4>1
    <2>4. Contents' \subseteq Contents
      <3>1. Held(Pending)' = Held(buffer)' \cup
              (IF flushMu' = Nobody THEN {} ELSE Held(taken'[flushMu']))
        BY <1>f
      <3>2. Held(table)' = Held(table)
        BY <2>1 DEF Held
      <3> QED
        BY <2>1, <2>3, <3>1, <3>2, HeldType DEF Contents
    <2> QED
      BY <1>a, <1>d, <2>1, <2>2, <2>4 DEF PromiseInv, PromisedType
  <1>8. ASSUME NEW f \in Flushers, UnlockFlush(f) PROVE PromiseInv'
    <2>1. /\ flusher[f] = (IF f = "delete" THEN "deleted" ELSE "flushed")
          /\ flushMu = f /\ flushMu' = Nobody /\ taken[f] = << >>
          /\ promised' = [promised EXCEPT !["delete"] = IF f = "delete" THEN {} ELSE @]
          /\ UNCHANGED <<buffer, table, taken, deleting, accepted, gone, writeFailed>>
      BY <1>8 DEF UnlockFlush, OneFlush, Locked, BufferInv
    <2>2. \E step \in {"after", "done", "idle"} : flusher' = [flusher EXCEPT ![f] = step]
      BY <1>8 DEF UnlockFlush, Goes
    <2>3. /\ Held(buffer)' = Held(buffer) /\ Held(table)' = Held(table)
          /\ Held(taken["query"])' = Held(taken["query"]) /\ Held(taken[f]) = {}
      BY <2>1 DEF Held
    <2>4. Contents' = Contents
      <3>1. Held(Pending)' = Held(buffer)' \cup
              (IF flushMu' = Nobody THEN {} ELSE Held(taken'[flushMu']))
        BY <1>f
      <3> QED
        BY <2>1, <2>3, <3>1, HeldType DEF Contents
    <2>5. /\ promised'["delete"] \subseteq promised["delete"]
          /\ promised'["query"] = promised["query"]
          /\ promised' \in [Flushers -> SUBSET Nat]
      BY <1>0, <2>1
    <2>6. /\ flusher'["delete"] = flusher["delete"] \/ flusher'["delete"] \notin {"inserting", "flushed"}
          /\ flusher'["query"] = flusher["query"] \/ flusher["query"] = "flushed"
      BY <1>0, <2>1, <2>2
    <2>7. writeFailed' <=> writeFailed
      BY <2>1, Zenon
    <2>8. QueryTookAll'
      BY <2>3, <2>4, <2>5, <2>6, <2>7 DEF PromiseInv, QueryTookAll
    <2> QED
      BY <1>a, <1>b, <2>1, <2>3, <2>4, <2>5, <2>6, <2>7, <2>8 DEF PromiseInv, PromisedType
  <1>9. ASSUME NEW f \in Flushers, AfterFlush(f) PROVE PromiseInv'
    <2>1. /\ flusher' = [flusher EXCEPT ![f] = "idle"]
          /\ promised' = [promised EXCEPT !["query"] = IF f = "query" THEN {} ELSE @]
          /\ UNCHANGED <<buffer, table, taken, flushMu, deleting, accepted, gone, writeFailed>>
      BY <1>9, Zenon DEF AfterFlush, Goes
    <2>2. /\ promised'["delete"] = promised["delete"]
          /\ promised'["query"] \subseteq promised["query"]
          /\ promised' \in [Flushers -> SUBSET Nat]
      BY <1>0, <2>1
    <2>3. /\ flusher'["delete"] = flusher["delete"] \/ flusher'["delete"] = "idle"
          /\ flusher'["query"] = flusher["query"] \/ flusher'["query"] = "idle"
      BY <1>0, <2>1
    <2>4. writeFailed' <=> writeFailed
      BY <2>1, Zenon
    <2> QED
      BY <1>a, <1>b, <1>c, <1>e, <2>1, <2>2, <2>3, <2>4 DEF PromiseInv, PromisedType
  <1>10. CASE DeleteRows
    <2>1. /\ flusher["delete"] = "flushed" /\ flusher' = [flusher EXCEPT !["delete"] = "deleted"]
          /\ UNCHANGED <<buffer, taken, flushMu, deleting, accepted>>
      BY <1>10, Zenon DEF DeleteRows, Goes
    <2>2. flushMu = "delete" /\ taken["delete"] = << >>
      BY <1>0, <2>1 DEF BufferInv, OneFlush, Locked
    <2>3. Held(Pending) = Held(buffer) /\ Held(Pending)' = Held(Pending) /\ Held(buffer)' = Held(buffer)
          /\ Held(taken["query"])' = Held(taken["query"])
      <3>1. Held(taken["delete"]) = {}
        BY <2>2 DEF Held
      <3>2. Held(Pending) = Held(buffer)
        BY <1>0, <2>2, <3>1, HeldType
      <3> QED
        BY <2>1, <3>2 DEF Held, Pending
    <2>4. flusher'["delete"] = "deleted" /\ flusher'["query"] = flusher["query"]
      BY <1>0, <2>1
    <2>5. CASE /\ table' = Without(deleting, table)
               /\ promised' = [promised EXCEPT !["query"] = @ \ IdsOf(deleting, table)]
               /\ gone' = gone \cup promised["delete"] /\ UNCHANGED writeFailed
      <3>1. Held(table)' = {x \in Held(table) : x.key # deleting}
        BY <1>0, <2>5, OtherRows DEF Held
      <3>2. Contents' \subseteq Contents
        BY <2>3, <3>1 DEF Contents
      <3>3. /\ promised'["delete"] = promised["delete"]
            /\ promised'["query"] = promised["query"] \ IdsOf(deleting, table)
            /\ promised' \in [Flushers -> SUBSET Nat]
        BY <1>0, <2>5
      <3>4. writeFailed' <=> writeFailed
        BY <2>5, Zenon
      <3>5. DeletionTookAll'
        <4> SUFFICES ASSUME ~writeFailed, NEW x \in Contents' PROVE x.id \notin gone'
          BY <2>4, <3>4 DEF DeletionTookAll
        <4>1. x.id \notin gone
          BY <3>2 DEF PromiseInv, DeletionTookAll
        <4>2. CASE x \in Held(table)'
          BY <2>5, <3>1, <3>2, <4>1, <4>2 DEF PromiseInv, IdsStand
        <4>3. CASE x \in Held(Pending)'
          BY <2>1, <2>3, <2>5, <4>1, <4>3 DEF PromiseInv, DeletionTookAll
        <4> QED
          BY <4>2, <4>3 DEF Contents
      <3>6. QueryTookAll'
        <4>1. \A x \in Held(table) : x.id \notin IdsOf(deleting, table) => x \in Held(table)'
          BY <1>0, <3>1, IdsHeld
        <4>2. \A x \in Contents : x.id \notin IdsOf(deleting, table) => x \in Contents'
          BY <2>3, <4>1 DEF Contents
        <4> QED
          BY <2>3, <2>4, <3>3, <3>4, <4>1, <4>2 DEF PromiseInv, QueryTookAll
      <3>7. IdsStand'
        BY <1>a, <2>1, <2>5, <3>2, <3>3
      <3> QED
        BY <3>3, <3>5, <3>6, <3>7 DEF PromiseInv, PromisedType
    <2>6. CASE writeFailed' = TRUE /\ UNCHANGED <<table, promised, gone>>
      <3>1. writeFailed'
        BY <2>6, Zenon
      <3> QED
        BY <1>a, <1>d, <1>e, <2>1, <2>6, <3>1 DEF PromiseInv, PromisedType
    <2> QED
      BY <1>10, <2>5, <2>6, Zenon DEF DeleteRows
  <1>11. CASE CleanupOldRecords
    <2>1. PICK n \in 1..Len(table) :
            /\ table' = SubSeq(table, n + 1, Len(table))
            /\ promised' = [promised EXCEPT !["query"] = @ \ Ids(SubSeq(table, 1, n))]
      BY <1>11 DEF CleanupOldRecords
    <2>2. UNCHANGED <<buffer, taken, flushMu, flusher, deleting, accepted, gone, writeFailed>>
      BY <1>11, Zenon DEF CleanupOldRecords
    <2>3. Held(table) = Held(SubSeq(table, 1, n)) \cup Held(SubSeq(table, n + 1, Len(table)))
          /\ SubSeq(table, 1, n) \in Seq(Records)
      <3>1. /\ Len(table) \in Nat /\ n \in 1..Len(table)
            /\ SubSeq(table, 1, n) \in Seq(Records)
            /\ DOMAIN SubSeq(table, 1, n) = 1..n
            /\ \A i \in 1..n : SubSeq(table, 1, n)[i] = table[i]
            /\ DOMAIN SubSeq(table, n + 1, Len(table)) = 1..(Len(table) - n)
            /\ \A i \in 1..(Len(table) - n) :
                 SubSeq(table, n + 1, Len(table))[i] = table[n + i]
            /\ DOMAIN table = 1..Len(table)
        BY <1>0, <2>1
      <3>2. \A i \in 1..Len(table) : i \in 1..n \/ (i - n \in 1..(Len(table) - n) /\ n + (i - n) = i)
        BY <3>1
      <3>3. \A i \in 1..(Len(table) - n) : n + i \in 1..Len(table)
        BY <3>1
      <3>4. 1..n \subseteq 1..Len(table)
        BY <3>1
      <3>5. ASSUME NEW x \in Held(table)
            PROVE  x \in Held(SubSeq(table, 1, n)) \cup Held(SubSeq(table, n + 1, Len(table)))
        <4>1. PICK i \in 1..Len(table) : x = table[i]
          BY <3>1, <3>5 DEF Held
        <4>2. CASE i \in 1..n
          BY <3>1, <4>1, <4>2 DEF Held
        <4>3. CASE i - n \in 1..(Len(table) - n) /\ n + (i - n) = i
          BY <3>1, <4>1, <4>3 DEF Held
        <4> QED
          BY <3>2, <4>2, <4>3
      <3>6. Held(SubSeq(table, 1, n)) \subseteq Held(table)
        BY <3>1, <3>4 DEF Held
      <3>7. Held(SubSeq(table, n + 1, Len(table))) \subseteq Held(table)
        BY <3>1, <3>3 DEF Held
      <3> QED
        BY <3>1, <3>5, <3>6, <3>7
    <2>4. Held(table)' = Held(SubSeq(table, n + 1, Len(table)))
      BY <2>1 DEF Held
    <2>5. /\ promised'["delete"] = promised["delete"]
          /\ promised'["query"] = promised["query"] \ Ids(SubSeq(table, 1, n))
          /\ promised' \in [Flushers -> SUBSET Nat]
      BY <1>0, <2>1
    <2>6. Held(Pending)' = Held(Pending) /\ Held(buffer)' = Held(buffer)
          /\ Held(taken["query"])' = Held(taken["query"])
      BY <2>2 DEF Held, Pending
    <2>7. Contents' \subseteq Contents
      BY <2>3, <2>4, <2>6 DEF Contents
    <2>8. writeFailed' <=> writeFailed
      BY <2>2, Zenon
    <2>9. QueryTookAll'
      <3>1. \A x \in Held(table) : x.id \notin Ids(SubSeq(table, 1, n)) => x \in Held(table)'
        BY <2>3, <2>4, IdsHeld
      <3>2. \A x \in Contents : x.id \notin Ids(SubSeq(table, 1, n)) => x \in Contents'
        BY <2>6, <3>1 DEF Contents
      <3> QED
        BY <2>2, <2>5, <2>6, <2>8, <3>1, <3>2 DEF PromiseInv, QueryTookAll
    <2> QED
      BY <1>a, <1>b, <2>2, <2>5, <2>6, <2>7, <2>8, <2>9 DEF PromiseInv, PromisedType
  <1>12. CASE RestartStore
    <2>1. /\ buffer' = << >> /\ flushMu' = Nobody /\ table' = table
          /\ promised' = [f \in Flushers |-> {}]
          /\ flusher' = [f \in Flushers |-> "idle"]
          /\ gone' = (IF writeFailed THEN {} ELSE gone)
          /\ accepted' = accepted /\ deleting' = deleting
      BY <1>12 DEF RestartStore
    <2>2. Held(table)' = Held(table) /\ Held(Pending)' = {}
      BY <2>1 DEF Held, Pending
    <2>3. Contents' \subseteq Contents
      BY <2>2 DEF Contents
    <2>4. promised'["delete"] = {} /\ promised'["query"] = {}
          /\ promised' \in [Flushers -> SUBSET Nat]
      BY <1>0, <2>1
    <2>5. gone' \subseteq gone
      BY <2>1
    <2>6. \A x \in Contents' : x.id \notin gone'
      <3>1. CASE writeFailed
        BY <2>1, <3>1
      <3>2. CASE ~writeFailed
        BY <2>3, <2>5, <3>2 DEF PromiseInv, DeletionTookAll
      <3> QED
        BY <3>1, <3>2
    <2>7. DeletionTookAll' /\ QueryTookAll'
      BY <2>4, <2>6 DEF DeletionTookAll, QueryTookAll
    <2> QED
      BY <1>a, <2>1, <2>3, <2>4, <2>5, <2>7 DEF PromiseInv, PromisedType
  <1> QED
    BY <1>1, <1>2, <1>3, <1>4, <1>5, <1>6, <1>7, <1>8, <1>9, <1>10, <1>11, <1>12
    DEF BufferNext, Flush

LEMMA PromiseInvariant == BufferSpec => [](BufferInv /\ PromiseInv)
  <1>1. BufferInv /\ LastRound /\ PromiseInv /\ [BufferNext]_bufferVars => PromiseInv'
    BY BufferInvStep, PromiseStep
  <1> QED
    BY <1>1, BufferInvInit, InitLastRound, PromiseInit, BufferInvStep, StepLastRound, PTL
       DEF BufferSpec

(* For any number of records and any sizes: what was accepted before a      *)
(* query is in the rows it reads, whoever had taken it out of the buffer.   *)
THEOREM AllQueried == BufferSpec => []QueriesSeeAll
  <1>1. BufferInv /\ PromiseInv => QueriesSeeAll
    <2> SUFFICES ASSUME BufferInv, PromiseInv, flusher["query"] = "after", ~writeFailed
                 PROVE  promised["query"] \subseteq Ids(table)
      BY DEF QueriesSeeAll
    <2>1. taken["query"] = << >> /\ table \in Seq(Records)
      BY DEF BufferInv, OneFlush, TableType, Flushers
    <2>2. Held(taken["query"]) = {}
      BY <2>1 DEF Held
    <2> QED
      BY <2>1, <2>2, IdsHeld DEF PromiseInv, QueryTookAll
  <1> QED
    BY <1>1, PromiseInvariant, PTL

(* A record whose deletion has succeeded is nowhere in the store and does   *)
(* not come back, wherever it was when the deletion began.                  *)
THEOREM DeletedGone == BufferSpec => []DeletedStayDeleted
  <1>1. BufferInv /\ PromiseInv => DeletedStayDeleted
    <2> SUFFICES ASSUME BufferInv, PromiseInv, ~writeFailed
                 PROVE  gone \cap (Ids(Pending) \cup Ids(table)) = {}
      BY DEF DeletedStayDeleted
    <2>1. table \in Seq(Records) /\ Pending \in Seq(Records)
      BY ConcatProperties, FlushersAreSomebody DEF BufferInv, BufferTypes, TableType, Pending
    <2> QED
      BY <2>1, IdsHeld DEF PromiseInv, DeletionTookAll, Contents
  <1> QED
    BY <1>1, PromiseInvariant, PTL

-----------------------------------------------------------------------------
(* The order of the URLs *)

UrlState == [url : Urls, originalIdx : Nat, failCount : Nat, age : Nat]

EachUrlOnce(states) ==
  \A i, j \in DOMAIN states : states[i].url = states[j].url => i = j

(* UrlsServed of one request. *)
Served(list, order) ==
  /\ Len(order) = Len(list)
  /\ {order[i].url : i \in DOMAIN order} = {list[i] : i \in DOMAIN list}
  /\ \A i, j \in DOMAIN order : i < j /\ order[j].success => order[i].success

UrlTypes ==
  /\ configured \in UrlLists
  /\ urlStates \in Seq(UrlState)
  /\ DOMAIN asked = Askers
  /\ DOMAIN served = Askers

(* What a channel left at the index never lists a URL twice; without that   *)
(* the comparison of two lists as sets would let a wrong one through.       *)
UrlsInv == UrlTypes /\ EachUrlOnce(urlStates) /\ UrlsServed

(* The rules of sortURLs, ties left as they were, are a strict total order. *)
LEMMA LessIsTotal ==
  ASSUME NEW u \in UrlState, NEW v \in UrlState, NEW w \in UrlState
  PROVE  /\ ~Less(u, u)
         /\ Less(u, v) => ~Less(v, u)
         /\ Less(u, v) /\ Less(v, w) => Less(u, w)
         /\ Less(u, v) /\ ~Less(w, v) => Less(u, w)
         /\ ~Less(v, u) /\ Less(v, w) => Less(u, w)
         /\ ~Less(v, u) /\ ~Less(w, v) => ~Less(w, u)
         /\ ~Less(v, u) => Class(u) <= Class(v)
         /\ Class(u) \in 1..3
         /\ Class(u) = 3 <=> Cooling(u)
  <1>1. \A x \in UrlState : Class(x) \in 1..3 /\ (Class(x) = 3 <=> Cooling(x))
    BY DEF Class, Cooling, UrlState
  <1>2. \A x \in UrlState : x.originalIdx \in Int /\ x.failCount \in Int /\ x.age \in Int
    BY DEF UrlState
  <1> QED
    BY <1>1, <1>2, SMTT(60) DEF Less

(* SortURLs only permutes its list, the URLs in their cooldown last.        *)
LEMMA SortURLsPermutes ==
  ASSUME NEW list \in Seq(UrlState)
  PROVE  /\ SortURLs(list) \in Seq(UrlState)
         /\ Len(SortURLs(list)) = Len(list)
         /\ \E f \in Bijection(DOMAIN list, DOMAIN list) :
              \A n \in DOMAIN list : SortURLs(list)[n] = list[f[n]]
         /\ \A m, n \in DOMAIN list :
              m < n /\ ~Cooling(SortURLs(list)[n]) => ~Cooling(SortURLs(list)[m])
  <1> DEFINE S == DOMAIN list
             before(i, j) == Less(list[i], list[j]) \/ (~Less(list[j], list[i]) /\ i < j)
             R == {p \in S \X S : before(p[1], p[2])}
             count == [x \in S |-> Cardinality({w \in S : <<w, x>> \in R})]
             rank(i) == Cardinality({j \in S : before(j, i)}) + 1
             f == [n \in S |-> CHOOSE i \in S : rank(i) = n]
  <1>1. S = 1..Len(list) /\ Len(list) \in Nat /\ \A i \in S : list[i] \in UrlState
    OBVIOUS
  <1>2. IsFiniteSet(S) /\ Cardinality(S) = Len(list)
    BY <1>1, FS_Interval
  <1>3. \A i, j \in S : <<i, j>> \in R <=> before(i, j)
    OBVIOUS
  <1>4. /\ \A x \in S : <<x, x>> \notin R
        /\ \A x, y \in S : x # y => <<x, y>> \in R \/ <<y, x>> \in R
    <2>1. ASSUME NEW x \in S PROVE ~before(x, x)
      BY <1>1, LessIsTotal
    <2>2. ASSUME NEW x \in S, NEW y \in S, x # y PROVE before(x, y) \/ before(y, x)
      BY <1>1, <2>2
    <2> QED
      BY <1>3, <2>1, <2>2
  <1>5. \A x, y, z \in S : <<x, y>> \in R /\ <<y, z>> \in R => <<x, z>> \in R
    <2>1. ASSUME NEW x \in S, NEW y \in S, NEW z \in S, before(x, y), before(y, z)
          PROVE  before(x, z)
      <3>1. x \in Int /\ y \in Int /\ z \in Int
        BY <1>1
      <3>2. /\ Less(list[x], list[y]) /\ Less(list[y], list[z]) => Less(list[x], list[z])
            /\ Less(list[x], list[y]) /\ ~Less(list[z], list[y]) => Less(list[x], list[z])
            /\ ~Less(list[y], list[x]) /\ Less(list[y], list[z]) => Less(list[x], list[z])
            /\ ~Less(list[y], list[x]) /\ ~Less(list[z], list[y]) => ~Less(list[z], list[x])
        BY <1>1, LessIsTotal
      <3> QED
        BY <2>1, <3>1, <3>2
    <2> QED
      BY <1>3, <2>1
  <1>6. \A x \in S : rank(x) = count[x] + 1
    <2>1. ASSUME NEW x \in S
          PROVE  {w \in S : <<w, x>> \in R} = {w \in S : before(w, x)}
      BY <1>3
    <2> QED
      BY <2>1
  <1> HIDE DEF S, R, before
  <1>7. /\ \A x \in S : count[x] \in 0..(Len(list) - 1)
        /\ \A x, y \in S : <<x, y>> \in R <=> count[x] < count[y]
        /\ \A n \in 0..(Len(list) - 1) : \E x \in S : count[x] = n
    <2>1. /\ \A x \in S : Cardinality({w \in S : <<w, x>> \in R}) \in 0..(Len(list) - 1)
          /\ \A x, y \in S : <<x, y>> \in R <=>
               Cardinality({w \in S : <<w, x>> \in R}) < Cardinality({w \in S : <<w, y>> \in R})
          /\ \A n \in 0..(Len(list) - 1) :
               \E x \in S : Cardinality({w \in S : <<w, x>> \in R}) = n
      BY <1>2, <1>4, <1>5, Ranking
    <2>2. \A x \in S : count[x] = Cardinality({w \in S : <<w, x>> \in R})
      OBVIOUS
    <2> HIDE DEF count
    <2> QED
      BY <2>1, <2>2
  <1> HIDE DEF count, rank
  <1>8. /\ \A x \in S : rank(x) \in 1..Len(list)
        /\ \A x, y \in S : before(x, y) <=> rank(x) < rank(y)
        /\ \A n \in S : \E x \in S : rank(x) = n
    <2>1. \A x \in S : rank(x) \in 1..Len(list)
      BY <1>1, <1>6, <1>7
    <2>2. ASSUME NEW x \in S, NEW y \in S PROVE before(x, y) <=> rank(x) < rank(y)
      <3>1. rank(x) = count[x] + 1 /\ rank(y) = count[y] + 1
        BY <1>6
      <3>2. count[x] \in Int /\ count[y] \in Int
        BY <1>1, <1>7
      <3>3. before(x, y) <=> count[x] < count[y]
        BY <1>3, <1>7
      <3> QED
        BY <3>1, <3>2, <3>3
    <2>3. ASSUME NEW n \in S PROVE \E x \in S : rank(x) = n
      <3>1. n - 1 \in 0..(Len(list) - 1)
        BY <1>1
      <3>2. PICK x \in S : count[x] = n - 1
        BY <1>7, <3>1
      <3> QED
        BY <1>1, <1>6, <3>2
    <2> QED
      BY <2>1, <2>2, <2>3
  <1>9. SortURLs(list) = [n \in S |-> list[f[n]]]
    BY DEF SortURLs, S, before, rank
  <1>10. \A n \in S : f[n] \in S /\ rank(f[n]) = n
    BY <1>8
  <1>11. f \in Bijection(S, S)
    <2>1. f \in Injection(S, S)
      BY <1>10 DEF Injection, IsInjective
    <2>2. f \in Surjection(S, S)
      BY <1>2, <2>1, FS_Injection
    <2> QED
      BY <2>1, <2>2 DEF Bijection
  <1> HIDE DEF f
  <1>12. SortURLs(list) \in Seq(UrlState) /\ Len(SortURLs(list)) = Len(list)
    BY <1>1, <1>9, <1>10
  <1>13. ASSUME NEW m \in S, NEW n \in S, m < n, ~Cooling(list[f[n]])
         PROVE  ~Cooling(list[f[m]])
    <2>1. before(f[m], f[n])
      BY <1>8, <1>10, <1>13
    <2>2. list[f[m]] \in UrlState /\ list[f[n]] \in UrlState
      BY <1>1, <1>10
    <2>3. ~Less(list[f[n]], list[f[m]])
      BY <2>1, <2>2, LessIsTotal DEF before
    <2> QED
      BY <1>13, <2>2, <2>3, LessIsTotal
  <1>14. \A n \in S : SortURLs(list)[n] = list[f[n]]
    BY <1>9
  <1> QED
    BY <1>11, <1>12, <1>13, <1>14 DEF S

(* Sorting keeps the URLs of a list, and each once.                         *)
LEMMA SortURLsKeeps ==
  ASSUME NEW list \in Seq(UrlState), EachUrlOnce(list)
  PROVE  /\ EachUrlOnce(SortURLs(list))
         /\ {SortURLs(list)[i].url : i \in DOMAIN SortURLs(list)}
              = {list[i].url : i \in DOMAIN list}
  <1>1. /\ SortURLs(list) \in Seq(UrlState)
        /\ Len(SortURLs(list)) = Len(list)
        /\ \E f \in Bijection(DOMAIN list, DOMAIN list) :
             \A n \in DOMAIN list : SortURLs(list)[n] = list[f[n]]
    BY SortURLsPermutes
  <1>2. PICK f \in Bijection(DOMAIN list, DOMAIN list) :
          \A n \in DOMAIN list : SortURLs(list)[n] = list[f[n]]
    BY <1>1
  <1>3. DOMAIN SortURLs(list) = DOMAIN list
    BY <1>1
  <1>4. /\ \A n \in DOMAIN list : f[n] \in DOMAIN list
        /\ \A m, n \in DOMAIN list : f[m] = f[n] => m = n
        /\ \A k \in DOMAIN list : \E n \in DOMAIN list : f[n] = k
    BY DEF Bijection, Injection, IsInjective, Surjection
  <1> DEFINE sorted == SortURLs(list)
  <1>5. \A n \in DOMAIN list : sorted[n] = list[f[n]]
    BY <1>2
  <1>6. DOMAIN sorted = DOMAIN list
    BY <1>3
  <1> HIDE DEF sorted
  <1>7. EachUrlOnce(sorted)
    <2> SUFFICES ASSUME NEW i \in DOMAIN list, NEW j \in DOMAIN list,
                        sorted[i].url = sorted[j].url
                 PROVE  i = j
      BY <1>6 DEF EachUrlOnce
    <2>1. list[f[i]].url = list[f[j]].url
      BY <1>5
    <2>2. f[i] = f[j]
      <3>1. \A k, l \in DOMAIN list : list[k].url = list[l].url => k = l
        BY DEF EachUrlOnce
      <3>2. f[i] \in DOMAIN list /\ f[j] \in DOMAIN list
        BY <1>4
      <3> QED
        BY <2>1, <3>1, <3>2
    <2> QED
      BY <1>4, <2>2
  <1>8. {sorted[i].url : i \in DOMAIN sorted} = {list[i].url : i \in DOMAIN list}
    <2>1. ASSUME NEW i \in DOMAIN list
          PROVE  \E j \in DOMAIN list : sorted[i].url = list[j].url
      BY <1>4, <1>5
    <2>2. ASSUME NEW j \in DOMAIN list
          PROVE  \E i \in DOMAIN list : list[j].url = sorted[i].url
      <3>1. PICK i \in DOMAIN list : f[i] = j
        BY <1>4
      <3>2. sorted[i] = list[j]
        BY <1>5, <3>1
      <3> QED
        BY <3>2
    <2>3. {sorted[i].url : i \in DOMAIN sorted} = {sorted[i].url : i \in DOMAIN list}
      BY <1>6
    <2>4. {sorted[i].url : i \in DOMAIN list} = {list[i].url : i \in DOMAIN list}
      <3>1. ASSUME NEW x \in {sorted[i].url : i \in DOMAIN list}
            PROVE  x \in {list[i].url : i \in DOMAIN list}
        BY <2>1, Zenon
      <3>2. ASSUME NEW x \in {list[i].url : i \in DOMAIN list}
            PROVE  x \in {sorted[i].url : i \in DOMAIN list}
        BY <2>2, Zenon
      <3> QED
        BY <3>1, <3>2
    <2> QED
      BY <2>3, <2>4, Zenon
  <1> QED
    BY <1>7, <1>8 DEF sorted

(* A configured list has as many URLs as places.                            *)
LEMMA ListsAreShort ==
  ASSUME NEW urls \in UrlLists
  PROVE  /\ urls \in Seq(Urls) /\ Len(urls) \in Nat \ {0}
         /\ IsFiniteSet({urls[i] : i \in DOMAIN urls})
         /\ Cardinality({urls[i] : i \in DOMAIN urls}) = Len(urls)
         /\ \A i, j \in DOMAIN urls : urls[i] = urls[j] => i = j
  <1> DEFINE T == {urls[i] : i \in DOMAIN urls}
  <1>1. PICK n \in 1..MaxUrls : urls \in [1..n -> Urls]
    BY DEF UrlLists
  <1>2. n \in Nat \ {0}
    BY UrlOrderAssumption
  <1>3. urls \in Seq(Urls) /\ Len(urls) = n /\ DOMAIN urls = 1..n
    BY <1>1, <1>2
  <1>4. Cardinality(T) = n
    BY <1>3 DEF UrlLists
  <1>5. urls \in Surjection(1..n, T)
    BY <1>1 DEF Surjection
  <1>6. IsFiniteSet(1..n) /\ Cardinality(1..n) = n
    BY <1>2, FS_Interval
  <1>7. IsFiniteSet(T) /\ urls \in Injection(1..n, T)
    BY <1>4, <1>5, <1>6, FS_Surjection
  <1>8. \A i, j \in DOMAIN urls : urls[i] = urls[j] => i = j
    BY <1>1, <1>7 DEF Injection, IsInjective
  <1> QED
    BY <1>2, <1>3, <1>4, <1>7, <1>8

(* A list of states that matches, or a fresh one, has the URLs configured,  *)
(* for as many distinct URLs of a set as it has are all of them.            *)
LEMMA EnsureChannelStateFits ==
  ASSUME NEW urls \in UrlLists, UrlTypes, EachUrlOnce(urlStates)
  PROVE  /\ EnsureChannelState(urls) \in Seq(UrlState)
         /\ EachUrlOnce(EnsureChannelState(urls))
         /\ Len(EnsureChannelState(urls)) = Len(urls)
         /\ {EnsureChannelState(urls)[i].url : i \in DOMAIN EnsureChannelState(urls)}
              = {urls[i] : i \in DOMAIN urls}
  <1> DEFINE T == {urls[i] : i \in DOMAIN urls}
  <1>1. /\ urls \in Seq(Urls) /\ Len(urls) \in Nat
        /\ IsFiniteSet(T) /\ Cardinality(T) = Len(urls)
        /\ \A i, j \in DOMAIN urls : urls[i] = urls[j] => i = j
    BY ListsAreShort
  <1>2. CASE UrlsMatch(urlStates, urls)
    <2>1. EnsureChannelState(urls) = urlStates
      BY <1>2 DEF EnsureChannelState
    <2>2. urlStates \in Seq(UrlState) /\ Len(urlStates) = Len(urls)
      BY <1>2 DEF UrlsMatch, UrlTypes
    <2>3. DOMAIN urlStates = 1..Len(urls) /\ DOMAIN urls = 1..Len(urls)
      BY <1>1, <2>2
    <2> DEFINE g == [i \in 1..Len(urls) |-> urlStates[i].url]
    <2>4. \A i \in 1..Len(urls) : urlStates[i].url \in T
      BY <1>2, <2>3 DEF UrlsMatch
    <2>5. g \in Injection(1..Len(urls), T)
      BY <2>3, <2>4 DEF Injection, IsInjective, EachUrlOnce
    <2>6. IsFiniteSet(1..Len(urls)) /\ Cardinality(1..Len(urls)) = Len(urls)
      <3>1. ASSUME NEW n \in Nat PROVE IsFiniteSet(1..n) /\ Cardinality(1..n) = n
        BY FS_Interval
      <3> QED
        BY <1>1, <3>1
    <2>7. g \in Surjection(1..Len(urls), T)
      BY <1>1, <2>5, <2>6, FS_Injection
    <2>8. \A t \in T : \E i \in 1..Len(urls) : urlStates[i].url = t
      BY <2>7 DEF Surjection
    <2>9. {urlStates[i].url : i \in DOMAIN urlStates} = T
      BY <2>3, <2>4, <2>8
    <2> QED
      BY <2>1, <2>2, <2>9
  <1>3. CASE ~UrlsMatch(urlStates, urls)
    <2>1. EnsureChannelState(urls) = Fresh(urls)
      BY <1>3 DEF EnsureChannelState
    <2>2. /\ Fresh(urls) \in Seq(UrlState) /\ Len(Fresh(urls)) = Len(urls)
          /\ DOMAIN Fresh(urls) = DOMAIN urls
          /\ \A i \in DOMAIN urls : Fresh(urls)[i].url = urls[i]
      <3>1. \A i \in DOMAIN urls : [url |-> urls[i], originalIdx |-> i, failCount |-> 0,
                                    age |-> Cooldown] \in UrlState
        BY <1>1, UrlOrderAssumption DEF UrlState
      <3> QED
        BY <1>1, <3>1 DEF Fresh
    <2> QED
      BY <1>1, <2>1, <2>2 DEF EachUrlOnce
  <1> QED
    BY <1>2, <1>3

LEMMA UrlsInvInit == UrlsInit => UrlsInv
  <1> SUFFICES ASSUME UrlsInit PROVE UrlsInv
    OBVIOUS
  <1>1. UrlTypes /\ EachUrlOnce(urlStates)
    BY DEF UrlsInit, UrlTypes, EachUrlOnce
  <1>2. UrlsServed
    BY DEF UrlsInit, UrlsServed
  <1> QED
    BY <1>1, <1>2 DEF UrlsInv

(* Whatever a mark writes into the states, it keeps their URLs.             *)
LEMMA MarkKeeps ==
  ASSUME NEW list, UrlTypes, EachUrlOnce(urlStates), DOMAIN list = DOMAIN urlStates,
         \A j \in DOMAIN urlStates : list[j] \in UrlState /\ list[j].url = urlStates[j].url,
         list = [j \in DOMAIN list |-> list[j]]
  PROVE  /\ list \in Seq(UrlState) /\ EachUrlOnce(list)
         /\ SortURLs(list) \in Seq(UrlState) /\ EachUrlOnce(SortURLs(list))
  <1>1. urlStates \in Seq(UrlState)
    BY DEF UrlTypes
  <1>2. list \in Seq(UrlState)
    BY <1>1
  <1>3. EachUrlOnce(list)
    BY DEF EachUrlOnce
  <1> QED
    BY <1>2, <1>3, SortURLsPermutes, SortURLsKeeps

LEMMA GetSortedURLsInv ==
  ASSUME UrlsInv, NEW a \in Askers, GetSortedURLs(a)
  PROVE  UrlsInv'
  <1>1. /\ UrlTypes /\ EachUrlOnce(urlStates) /\ UrlsServed
        /\ configured \in UrlLists /\ configured' = configured
        /\ asked' = [asked EXCEPT ![a] = configured]
    BY DEF UrlsInv, UrlTypes, GetSortedURLs
  <1>2. /\ configured \in Seq(Urls) /\ Len(configured) \in Nat \ {0}
        /\ DOMAIN configured = 1..Len(configured)
    <2>1. configured \in Seq(Urls) /\ Len(configured) \in Nat \ {0}
      BY <1>1, ListsAreShort
    <2> QED
      BY <2>1
  <1> DEFINE order == served'[a]
             Fits == /\ Len(order) = Len(configured)
                     /\ {order[i].url : i \in DOMAIN order}
                          = {configured[i] : i \in DOMAIN configured}
                     /\ \A i, j \in DOMAIN order : i < j /\ order[j].success => order[i].success
  <1>3. ASSUME DOMAIN served' = Askers, \A b \in Askers \ {a} : served'[b] = served[b], Fits
        PROVE  UrlsServed'
    <2>1. asked'[a] = configured /\ \A b \in Askers \ {a} : asked'[b] = asked[b]
      BY <1>1 DEF UrlTypes
    <2>2. ASSUME NEW b \in Askers, b # a PROVE Served(asked'[b], served'[b])
      <3>1. Served(asked[b], served[b])
        BY <1>1 DEF UrlsServed, Served
      <3>2. asked'[b] = asked[b] /\ served'[b] = served[b]
        BY <1>3, <2>1, <2>2
      <3> QED
        BY <3>1, <3>2
    <2>3. Served(asked'[a], served'[a])
      BY <1>3, <2>1 DEF Served
    <2> QED
      BY <2>2, <2>3 DEF UrlsServed, Served
  <1>4. DOMAIN asked' = Askers
    BY <1>1 DEF UrlTypes
  <1>5. CASE Len(configured) = 1
    <2>1. /\ served' = [served EXCEPT ![a] = <<[url |-> configured[1], success |-> TRUE]>>]
          /\ urlStates' = urlStates
      BY <1>5 DEF GetSortedURLs
    <2>2. /\ DOMAIN served' = Askers /\ \A b \in Askers \ {a} : served'[b] = served[b]
          /\ order = <<[url |-> configured[1], success |-> TRUE]>>
      BY <1>1, <2>1 DEF UrlTypes
    <2>3. Len(order) = 1 /\ DOMAIN order = {1} /\ order[1].url = configured[1]
          /\ DOMAIN configured = {1}
      BY <1>2, <1>5, <2>2
    <2>4. Fits
      BY <1>5, <2>3
    <2> QED
      BY <1>1, <1>3, <1>4, <2>1, <2>2, <2>4 DEF UrlsInv, UrlTypes, EachUrlOnce
  <1>6. CASE Len(configured) # 1
    <2> DEFINE states == EnsureChannelState(configured)
    <2>1. /\ urlStates' = SortURLs(states)
          /\ served' = [served EXCEPT ![a] = Results(urlStates')]
      BY <1>6 DEF GetSortedURLs
    <2>2. /\ DOMAIN served' = Askers /\ \A b \in Askers \ {a} : served'[b] = served[b]
          /\ order = Results(urlStates')
      BY <1>1, <2>1 DEF UrlTypes
    <2>3. /\ states \in Seq(UrlState) /\ EachUrlOnce(states) /\ Len(states) = Len(configured)
          /\ {states[i].url : i \in DOMAIN states} = {configured[i] : i \in DOMAIN configured}
      BY <1>1, EnsureChannelStateFits
    <2> HIDE DEF states
    <2>4. /\ urlStates' \in Seq(UrlState) /\ Len(urlStates') = Len(configured)
          /\ EachUrlOnce(urlStates')
          /\ {urlStates'[i].url : i \in DOMAIN urlStates'}
               = {configured[i] : i \in DOMAIN configured}
          /\ \A m, n \in 1..Len(configured) :
               m < n /\ ~Cooling(urlStates'[n]) => ~Cooling(urlStates'[m])
      <3>1. DOMAIN states = 1..Len(configured)
        BY <2>3
      <3> QED
        BY <2>1, <2>3, <3>1, SortURLsPermutes, SortURLsKeeps
    <2>5. /\ DOMAIN urlStates' = 1..Len(configured) /\ DOMAIN order = 1..Len(configured)
          /\ Len(order) = Len(configured)
          /\ \A i \in 1..Len(configured) : /\ order[i].url = urlStates'[i].url
                                           /\ order[i].success <=> ~Cooling(urlStates'[i])
      <3>1. DOMAIN urlStates' = 1..Len(configured)
        BY <2>4
      <3>2. order = [i \in 1..Len(configured) |->
                       [url |-> urlStates'[i].url, success |-> ~Cooling(urlStates'[i])]]
        BY <2>2, <3>1 DEF Results
      <3>3. Len(order) = Len(configured)
        BY <1>2, <3>2
      <3>4. ASSUME NEW i \in 1..Len(configured)
            PROVE  /\ order[i].url = urlStates'[i].url
                   /\ order[i].success <=> ~Cooling(urlStates'[i])
        <4>1. order[i] = [url |-> urlStates'[i].url, success |-> ~Cooling(urlStates'[i])]
          BY <3>2
        <4>2. /\ order[i].url = urlStates'[i].url
              /\ order[i].success = ~Cooling(urlStates'[i])
          BY <4>1
        <4> QED
          BY <4>2
      <3> QED
        BY <3>1, <3>2, <3>3, <3>4
    <2>7. {order[i].url : i \in DOMAIN order} = {configured[i] : i \in DOMAIN configured}
      BY <2>4, <2>5
    <2>8. Fits
      BY <2>4, <2>5, <2>7
    <2> QED
      BY <1>1, <1>3, <1>4, <2>2, <2>4, <2>8 DEF UrlsInv, UrlTypes, EachUrlOnce
  <1> QED
    BY <1>5, <1>6

LEMMA UrlsInvStep == UrlsInv /\ [UrlsNext]_urlVars => UrlsInv'
  <1> SUFFICES ASSUME UrlsInv, [UrlsNext]_urlVars PROVE UrlsInv'
    OBVIOUS
  <1>0. UrlTypes /\ EachUrlOnce(urlStates) /\ UrlsServed
    BY DEF UrlsInv
  <1>1. ASSUME UNCHANGED <<asked, served>>, configured' \in UrlLists,
               urlStates' \in Seq(UrlState), EachUrlOnce(urlStates')
        PROVE  UrlsInv'
    <2>1. UrlTypes' /\ EachUrlOnce(urlStates)'
      BY <1>0, <1>1 DEF UrlTypes, EachUrlOnce
    <2>2. UrlsServed'
      <3>1. UrlsServed <=> \A a \in Askers : Served(asked[a], served[a])
        BY DEF UrlsServed, Served
      <3>2. UrlsServed' <=> \A a \in Askers : Served(asked'[a], served'[a])
        BY DEF UrlsServed, Served
      <3> QED
        BY <1>0, <1>1, <3>1, <3>2
    <2> QED
      BY <2>1, <2>2 DEF UrlsInv
  <1>2. ASSUME NEW a \in Askers, GetSortedURLs(a) PROVE UrlsInv'
    BY <1>2, GetSortedURLsInv
  <1>3. ASSUME NEW a \in Askers, MarkSuccess(a) PROVE UrlsInv'
    <2>1. PICK i \in DOMAIN served[a] :
            urlStates' = SortURLs([j \in DOMAIN urlStates |->
                            IF urlStates[j].url = served[a][i].url
                            THEN [urlStates[j] EXCEPT !.failCount = 0]
                            ELSE urlStates[j]])
      BY <1>3 DEF MarkSuccess, Mark
    <2> DEFINE list == [j \in DOMAIN urlStates |->
                          IF urlStates[j].url = served[a][i].url
                          THEN [urlStates[j] EXCEPT !.failCount = 0]
                          ELSE urlStates[j]]
    <2>2. ASSUME NEW u \in UrlState
          PROVE  [u EXCEPT !.failCount = 0] \in UrlState
                 /\ [u EXCEPT !.failCount = 0].url = u.url
      BY DEF UrlState
    <2>3. \A j \in DOMAIN urlStates : list[j] \in UrlState /\ list[j].url = urlStates[j].url
      <3>1. \A j \in DOMAIN urlStates : urlStates[j] \in UrlState
        BY <1>0 DEF UrlTypes
      <3> QED
        BY <2>2, <3>1
    <2>4. urlStates' = SortURLs(list) /\ DOMAIN list = DOMAIN urlStates
      BY <2>1
    <2>5. list = [j \in DOMAIN list |-> list[j]]
      OBVIOUS
    <2> HIDE DEF list
    <2>6. urlStates' \in Seq(UrlState) /\ EachUrlOnce(urlStates')
      BY <1>0, <2>3, <2>4, <2>5, MarkKeeps
    <2>7. configured' = configured /\ asked' = asked /\ served' = served
      BY <1>3 DEF MarkSuccess, Mark
    <2> QED
      BY <1>0, <1>1, <2>6, <2>7 DEF UrlTypes
  <1>4. ASSUME NEW a \in Askers, MarkFailure(a) PROVE UrlsInv'
    <2> DEFINE fails(u) == IF u.failCount < MaxFails THEN u.failCount + 1 ELSE u.failCount
               Bad(u) == [u EXCEPT !.failCount = fails(u), !.age = 0]
    <2>1. PICK i \in DOMAIN served[a] :
            urlStates' = SortURLs([j \in DOMAIN urlStates |->
                            IF urlStates[j].url = served[a][i].url THEN Bad(urlStates[j])
                                                                   ELSE urlStates[j]])
      BY <1>4 DEF MarkFailure, Mark
    <2>2. ASSUME NEW u \in UrlState PROVE Bad(u) \in UrlState /\ Bad(u).url = u.url
      <3>1. fails(u) \in Nat
        BY DEF UrlState
      <3> HIDE DEF fails
      <3> QED
        BY <3>1 DEF UrlState
    <2> DEFINE list == [j \in DOMAIN urlStates |->
                          IF urlStates[j].url = served[a][i].url THEN Bad(urlStates[j])
                                                                 ELSE urlStates[j]]
    <2>3. urlStates' = SortURLs(list) /\ DOMAIN list = DOMAIN urlStates
      BY <2>1
    <2> HIDE DEF Bad
    <2>4. \A j \in DOMAIN urlStates : list[j] \in UrlState /\ list[j].url = urlStates[j].url
      <3>1. \A j \in DOMAIN urlStates : urlStates[j] \in UrlState
        BY <1>0 DEF UrlTypes
      <3> QED
        BY <2>2, <3>1
    <2>5. list = [j \in DOMAIN list |-> list[j]]
      OBVIOUS
    <2> HIDE DEF list
    <2>6. urlStates' \in Seq(UrlState) /\ EachUrlOnce(urlStates')
      BY <1>0, <2>3, <2>4, <2>5, MarkKeeps
    <2>7. configured' = configured /\ asked' = asked /\ served' = served
      BY <1>4 DEF MarkFailure, Mark
    <2> QED
      BY <1>0, <1>1, <2>6, <2>7 DEF UrlTypes
  <1>5. ASSUME NEW a \in Askers, RequestEnds(a) PROVE UrlsInv'
    <2>1. /\ asked' = [asked EXCEPT ![a] = << >>] /\ served' = [served EXCEPT ![a] = << >>]
          /\ UNCHANGED <<configured, urlStates>>
      BY <1>5 DEF RequestEnds
    <2>2. ASSUME NEW b \in Askers PROVE Served(asked'[b], served'[b])
      <3>1. CASE b = a
        <4>1. asked'[b] = << >> /\ served'[b] = << >>
          BY <1>0, <2>1, <3>1 DEF UrlTypes
        <4> QED
          BY <4>1 DEF Served
      <3>2. CASE b # a
        <4>1. asked'[b] = asked[b] /\ served'[b] = served[b]
          BY <1>0, <2>1, <3>2 DEF UrlTypes
        <4>2. Served(asked[b], served[b])
          BY <1>0 DEF Served, UrlsServed
        <4> QED
          BY <4>1, <4>2
      <3> QED
        BY <3>1, <3>2
    <2>3. UrlsServed'
      BY <2>2 DEF UrlsServed, Served
    <2> QED
      BY <1>0, <2>1, <2>3 DEF UrlsInv, UrlTypes, EachUrlOnce
  <1>6. CASE Reconfigure
    BY <1>0, <1>1, <1>6 DEF Reconfigure, UrlTypes
  <1>7. CASE UrlTick
    <2>1. urlStates' = [i \in DOMAIN urlStates |->
                          [urlStates[i] EXCEPT !.age = IF @ < Cooldown THEN @ + 1 ELSE @]]
      BY <1>7 DEF UrlTick
    <2>2. urlStates \in Seq(UrlState) /\ DOMAIN urlStates' = DOMAIN urlStates
      BY <1>0, <2>1 DEF UrlTypes
    <2>3. ASSUME NEW u \in UrlState
          PROVE  /\ [u EXCEPT !.age = IF @ < Cooldown THEN @ + 1 ELSE @] \in UrlState
                 /\ [u EXCEPT !.age = IF @ < Cooldown THEN @ + 1 ELSE @].url = u.url
      BY DEF UrlState
    <2>4. \A i \in DOMAIN urlStates : /\ urlStates'[i] \in UrlState
                                      /\ urlStates'[i].url = urlStates[i].url
      <3>1. \A i \in DOMAIN urlStates : urlStates[i] \in UrlState
        BY <2>2
      <3>2. \A i \in DOMAIN urlStates : urlStates'[i] =
              [urlStates[i] EXCEPT !.age = IF @ < Cooldown THEN @ + 1 ELSE @]
        BY <2>1
      <3> QED
        BY <2>3, <3>1, <3>2
    <2>5. urlStates' \in Seq(UrlState) /\ EachUrlOnce(urlStates')
      <3>1. urlStates' = [j \in DOMAIN urlStates' |-> urlStates'[j]]
        BY <2>1
      <3> QED
        BY <1>0, <2>2, <2>4, <3>1, MarkKeeps
    <2> QED
      BY <1>0, <1>1, <1>7, <2>5 DEF UrlTick, UrlTypes
  <1>8. CASE UNCHANGED urlVars
    BY <1>0, <1>1, <1>8 DEF urlVars, UrlTypes
  <1> QED
    BY <1>2, <1>3, <1>4, <1>5, <1>6, <1>7, <1>8 DEF UrlsNext

(* For any number of URLs and requests: a request tries exactly the URLs    *)
(* its channel has, each once, those in their cooldown last, although the   *)
(* states of the index may be another channel's.                            *)
THEOREM UrlsInOrder == UrlsSpec => []UrlsServed
  <1>1. UrlsInv => UrlsServed
    BY DEF UrlsInv
  <1> QED
    BY <1>1, UrlsInvInit, UrlsInvStep, PTL DEF UrlsSpec

-----------------------------------------------------------------------------
(* The conversations *)

Unanswered == {"idle", "convert", "sent", "failed"}
Recording == {"input", "output", "map", "done"}

SessionTypes ==
  /\ sessions \subseteq Calls
  /\ messages \in [Calls -> Seq(Items)]
  /\ mapping \in [Calls -> Calls \cup {NoSession}]
  /\ call \in [Calls -> Unanswered \cup Recording]
  /\ previous \in [Calls -> Calls \cup {NoResponse}]
  /\ session \in [Calls -> Calls \cup {NoSession}]
  /\ history \in [Calls -> SUBSET Calls]
  /\ answered \subseteq Calls

(* A session is created once, by the request it is named after: what has    *)
(* been removed does not come back empty under the same name.               *)
CreatedOnce ==
  /\ \A s \in sessions : call[s] \in Recording
  /\ \A c \in Calls : session[c] # NoSession => call[session[c]] \in Recording
  /\ \A c \in Calls : mapping[c] # NoSession => call[mapping[c]] \in Recording
  /\ \A s \in Calls \ sessions : Turns(s) = {}

Continued(turns) ==
  \A d \in turns : call[d] # "idle" /\ previous[d] \in turns \cup {NoResponse}

(* A handler that holds a session which still exists has its turn's past in *)
(* it, and from the first append on the turn itself.                        *)
HeldWhole ==
  \A c \in Calls :
    /\ session[c] # NoSession => call[c] \in Recording
    /\ session[c] \in sessions =>
         /\ previous[c] \in Turns(session[c]) \cup {NoResponse}
         /\ call[c] # "input" => c \in Turns(session[c])

MappedWhole == \A c \in Calls : mapping[c] \in sessions => c \in Turns(mapping[c])

Carried ==
  \A c \in Calls \ PassThrough :
    call[c] \notin {"idle", "convert", "failed"} => previous[c] \in history[c] \cup {NoResponse}

SessionInv ==
  /\ SessionTypes /\ CreatedOnce /\ HeldWhole /\ MappedWhole /\ Carried
  /\ \A s \in Calls : Continued(Turns(s))
  /\ \A c \in Calls : Continued(history[c])

LEMMA SessionInvInit == SessionsInit => SessionInv
  <1> SUFFICES ASSUME SessionsInit PROVE SessionInv
    OBVIOUS
  <1>1. SessionTypes
    BY DEF SessionsInit, SessionTypes, Unanswered
  <1>2. \A s \in Calls : Turns(s) = {}
    BY DEF SessionsInit, Turns
  <1>3. CreatedOnce /\ HeldWhole /\ MappedWhole /\ Carried
    BY <1>2 DEF SessionsInit, CreatedOnce, HeldWhole, MappedWhole, Carried
  <1>4. /\ \A s \in Calls : Continued(Turns(s))
        /\ \A c \in Calls : Continued(history[c])
    BY <1>2 DEF SessionsInit, Continued
  <1> QED
    BY <1>1, <1>3, <1>4 DEF SessionInv

(* The turns of a session after an append.                                  *)
LEMMA AppendedTurns ==
  ASSUME NEW c \in Calls, NEW part \in {"input", "output"}, SessionTypes,
         AppendMessage(session[c], [call |-> c, part |-> part])
  PROVE  /\ messages' \in [Calls -> Seq(Items)]
         /\ \A s \in Calls : Turns(s)' = IF s = session[c] /\ s \in sessions
                                         THEN Turns(s) \cup {c} ELSE Turns(s)
  <1> DEFINE item == [call |-> c, part |-> part]
  <1>1. CASE session[c] \in sessions
    <2>1. session[c] \in Calls /\ item \in Items
      BY <1>1 DEF SessionTypes, Items
    <2>2. messages' = [messages EXCEPT ![session[c]] = Append(@, item)]
      BY <1>1 DEF AppendMessage
    <2>3. /\ messages[session[c]] \in Seq(Items)
          /\ messages'[session[c]] = Append(messages[session[c]], item)
      BY <2>1, <2>2 DEF SessionTypes
    <2>4. messages' \in [Calls -> Seq(Items)]
      BY <2>1, <2>2 DEF SessionTypes
    <2>5. \A s \in Calls : s # session[c] => messages'[s] = messages[s]
      BY <2>2 DEF SessionTypes
    <2>6. ASSUME NEW s \in Calls, s = session[c] PROVE Turns(s)' = Turns(s) \cup {c}
      <3> DEFINE old == messages[s]
                 new == Append(old, item)
      <3>1. /\ DOMAIN new = DOMAIN old \cup {Len(old) + 1} /\ new[Len(old) + 1] = item
            /\ \A i \in DOMAIN old : new[i] = old[i]
        BY <2>1, <2>3, <2>6
      <3>2. messages'[s] = new
        BY <2>3, <2>6
      <3> HIDE DEF old, new
      <3>3. {new[i].call : i \in DOMAIN new} = {old[i].call : i \in DOMAIN old} \cup {c}
        BY <3>1
      <3>4. Turns(s) = {old[i].call : i \in DOMAIN old}
        BY DEF Turns, old
      <3>5. Turns(s)' = {new[i].call : i \in DOMAIN new}
        BY <3>2 DEF Turns
      <3> QED
        BY <3>3, <3>4, <3>5
    <2>7. ASSUME NEW s \in Calls, s # session[c] PROVE Turns(s)' = Turns(s)
      BY <2>5, <2>7 DEF Turns
    <2> QED
      BY <1>1, <2>4, <2>6, <2>7
  <1>2. CASE session[c] \notin sessions
    BY <1>2 DEF AppendMessage, SessionTypes, Turns
  <1> QED
    BY <1>1, <1>2

LEMMA TurnsAreCalls ==
  ASSUME SessionTypes, NEW s \in Calls PROVE Turns(s) \in SUBSET Calls
  <1>1. messages[s] \in Seq(Items)
    BY DEF SessionTypes
  <1>2. \A i \in DOMAIN messages[s] : messages[s][i] \in Items
    BY <1>1
  <1>3. \A item \in Items : item.call \in Calls
    BY DEF Items
  <1> QED
    BY <1>2, <1>3 DEF Turns

LEMMA SessionInvStep == SessionInv /\ [SessionsNext]_sessionVars => SessionInv'
  <1> SUFFICES ASSUME SessionInv, [SessionsNext]_sessionVars PROVE SessionInv'
    OBVIOUS
  <1>0. /\ SessionTypes /\ CreatedOnce /\ HeldWhole /\ MappedWhole /\ Carried
        /\ \A s \in Calls : Continued(Turns(s))
        /\ \A c \in Calls : Continued(history[c])
        /\ NoSession \notin Calls /\ NoResponse \notin Calls
    BY SessionsAssumption DEF SessionInv, NoSession, NoResponse
  <1>1. ASSUME messages' = messages
        PROVE  \A s \in Calls : Turns(s)' = Turns(s)
    BY <1>1 DEF Turns
  <1>2. ASSUME NEW c \in Calls, Arrive(c) PROVE SessionInv'
    <2>1. /\ call[c] = "idle" /\ call' = [call EXCEPT ![c] = "convert"]
          /\ UNCHANGED <<sessions, messages, stale, mapping, session, history, answered>>
      BY <1>2 DEF Arrive
    <2>2. PICK response \in answered \cup {NoResponse} :
            previous' = [previous EXCEPT ![c] = response]
      BY <1>2 DEF Arrive
    <2>3. \A s \in Calls : Turns(s)' = Turns(s)
      BY <1>1, <2>1
    <2>4. SessionTypes'
      BY <1>0, <2>1, <2>2 DEF SessionTypes, Unanswered
    <2>5. CreatedOnce' /\ HeldWhole' /\ MappedWhole' /\ Carried'
      BY <1>0, <2>1, <2>2, <2>3
      DEF SessionTypes, CreatedOnce, HeldWhole, MappedWhole, Carried, Recording
    <2>6. ASSUME NEW turns \in SUBSET Calls, Continued(turns) PROVE Continued(turns)'
      <3>1. \A d \in turns : d # c /\ call'[d] = call[d] /\ previous'[d] = previous[d]
        BY <1>0, <2>1, <2>2, <2>6 DEF Continued, SessionTypes
      <3> QED
        BY <2>6, <3>1 DEF Continued
    <2>7. \A s \in Calls : Continued(Turns(s))'
      <3>1. \A s \in Calls : Turns(s) \in SUBSET Calls
        BY <1>0, TurnsAreCalls
      <3>2. ASSUME NEW s \in Calls PROVE Continued(Turns(s))'
        <4>1. PICK turns \in SUBSET Calls : turns = Turns(s)
          BY <3>1
        <4>2. turns = Turns(s)'
          BY <2>3, <4>1
        <4> QED
          BY <1>0, <2>6, <4>1, <4>2 DEF Continued
      <3> QED
        BY <3>2
    <2>8. \A d \in Calls : Continued(history[d])'
      BY <1>0, <2>1, <2>6 DEF Continued, SessionTypes
    <2> QED
      BY <2>4, <2>5, <2>7, <2>8 DEF SessionInv
  (* The other steps move no call to idle and change no previous response. *)
  <1>3. ASSUME NEW turns \in SUBSET Calls, Continued(turns), previous' = previous,
               \A d \in Calls : call[d] # "idle" => call'[d] # "idle"
        PROVE  \A d \in turns : call'[d] # "idle" /\ previous'[d] \in turns \cup {NoResponse}
    BY <1>3 DEF Continued
  <1>4. \A s \in Calls : Turns(s) \in SUBSET Calls
    BY <1>0, TurnsAreCalls
  <1>5. ASSUME NEW c \in Calls, Convert(c) PROVE SessionInv'
    <2>1. /\ call[c] = "convert" /\ call' \in [Calls -> Unanswered \cup Recording]
          /\ call'[c] \in {"sent", "failed"} /\ \A d \in Calls : d # c => call'[d] = call[d]
          /\ UNCHANGED <<sessions, messages, mapping, previous, session, answered>>
      <3>1. \/ call' = [call EXCEPT ![c] = "sent"]
            \/ call' = [call EXCEPT ![c] = "failed"]
        BY <1>5 DEF Convert
      <3>2. call \in [Calls -> Unanswered \cup Recording]
        BY <1>0 DEF SessionTypes
      <3>3. /\ call' \in [Calls -> Unanswered \cup Recording]
            /\ call'[c] \in {"sent", "failed"} /\ \A d \in Calls : d # c => call'[d] = call[d]
        BY <3>1, <3>2 DEF Unanswered
      <3> QED
        BY <1>5, <3>3 DEF Convert
    <2>2. \/ history' = history /\ (c \in PassThrough \/ previous[c] = NoResponse \/ call'[c] = "failed")
          \/ /\ previous[c] # NoResponse /\ SessionOf(previous[c]) # NoSession
             /\ history' = [history EXCEPT ![c] = Turns(SessionOf(previous[c]))]
      BY <1>0, <1>5 DEF Convert, SessionTypes
    <2>3. \A s \in Calls : Turns(s)' = Turns(s)
      BY <1>1, <2>1
    <2>4. ASSUME previous[c] # NoResponse, SessionOf(previous[c]) # NoSession
          PROVE  /\ SessionOf(previous[c]) \in Calls
                 /\ previous[c] \in Turns(SessionOf(previous[c]))
      BY <1>0, <2>4 DEF SessionOf, SessionTypes, MappedWhole
    <2>5. SessionTypes'
      <3>1. history' \in [Calls -> SUBSET Calls]
        <4>1. history \in [Calls -> SUBSET Calls]
          BY <1>0 DEF SessionTypes
        <4>2. ASSUME history' = [history EXCEPT ![c] = Turns(SessionOf(previous[c]))],
                     previous[c] # NoResponse, SessionOf(previous[c]) # NoSession
              PROVE  history' \in [Calls -> SUBSET Calls]
          <5>1. Turns(SessionOf(previous[c])) \in SUBSET Calls
            BY <1>4, <2>4, <4>2
          <5> QED
            BY <4>1, <4>2, <5>1
        <4> QED
          BY <2>2, <4>1, <4>2
      <3> QED
        BY <1>0, <2>1, <3>1 DEF SessionTypes
    <2>6. CreatedOnce' /\ HeldWhole' /\ MappedWhole'
      <3>1. /\ call[c] \notin Recording
            /\ \A d \in Calls : call[d] \in Recording => call'[d] = call[d]
        BY <2>1 DEF Recording
      <3>2. CreatedOnce'
        BY <1>0, <2>1, <2>3, <3>1 DEF SessionTypes, CreatedOnce
      <3>3. \A d \in Calls : session[d] # NoSession => call[d] \in Recording
        BY <1>0 DEF HeldWhole
      <3>4. HeldWhole'
        <4>1. \A d \in Calls : session[d] \in sessions =>
                 session[d] \in Calls /\ session[d] # NoSession /\ call'[d] = call[d]
          BY <1>0, <3>1, <3>3 DEF SessionTypes
        <4>2. \A d \in Calls : session'[d] # NoSession => call'[d] \in Recording
          BY <2>1, <3>1, <3>3
        <4> QED
          BY <1>0, <2>1, <2>3, <4>1, <4>2 DEF HeldWhole
      <3>5. MappedWhole'
        BY <1>0, <2>1, <2>3 DEF SessionTypes, MappedWhole
      <3> QED
        BY <3>2, <3>4, <3>5
    <2>7. Carried'
      BY <1>0, <2>1, <2>2, <2>4 DEF SessionTypes, Carried
    <2>8. \A d \in Calls : call[d] # "idle" => call'[d] # "idle"
      BY <1>0, <2>1 DEF SessionTypes
    <2>9. \A s \in Calls : Continued(Turns(s))'
      BY <1>0, <1>3, <1>4, <2>1, <2>3, <2>8 DEF Continued
    <2>10. \A d \in Calls : Continued(history[d])'
      <3>1. \A d \in Calls : \/ history'[d] = history[d]
                             \/ \E s \in Calls : history'[d] = Turns(s)
        BY <1>0, <2>2, <2>4 DEF SessionTypes
      <3>2. \A d \in Calls : history[d] \in SUBSET Calls
        BY <1>0 DEF SessionTypes
      <3> QED
        BY <1>0, <1>3, <1>4, <2>1, <2>8, <3>1, <3>2 DEF Continued
    <2> QED
      BY <2>5, <2>6, <2>7, <2>9, <2>10 DEF SessionInv
  <1>6. ASSUME NEW c \in Calls, AnswerUnrecorded(c) PROVE SessionInv'
    <2>1. /\ call[c] = "sent" /\ call' = [call EXCEPT ![c] = "done"]
          /\ answered' = answered \cup {c}
          /\ UNCHANGED <<sessions, messages, mapping, previous, session, history>>
      BY <1>6 DEF AnswerUnrecorded
    <2>2. \A s \in Calls : Turns(s)' = Turns(s)
      BY <1>1, <2>1
    <2>3. SessionTypes'
      BY <1>0, <2>1 DEF SessionTypes, Recording
    <2>4. CreatedOnce' /\ HeldWhole' /\ MappedWhole' /\ Carried'
      BY <1>0, <2>1, <2>2
      DEF SessionTypes, CreatedOnce, HeldWhole, MappedWhole, Carried, Recording
    <2>5. \A d \in Calls : call[d] # "idle" => call'[d] # "idle"
      BY <1>0, <2>1 DEF SessionTypes
    <2>6. \A d \in Calls : Continued(Turns(d))' /\ Continued(history[d])'
      BY <1>0, <1>3, <1>4, <2>1, <2>2, <2>5 DEF Continued, SessionTypes
    <2> QED
      BY <2>3, <2>4, <2>6 DEF SessionInv
  <1>7. ASSUME NEW c \in Calls, GetOrCreateSession(c) PROVE SessionInv'
    <2> DEFINE s == IF previous[c] = NoResponse THEN c ELSE SessionOf(previous[c])
    <2>1. /\ call[c] = "sent" /\ call' = [call EXCEPT ![c] = "input"]
          /\ session' = [session EXCEPT ![c] = s] /\ sessions' = sessions \cup {s}
          /\ UNCHANGED <<messages, mapping, previous, history, answered>>
      BY <1>7 DEF GetOrCreateSession
    <2>2. /\ previous[c] = NoResponse => s = c
          /\ previous[c] # NoResponse => s \in sessions /\ previous[c] \in Turns(s)
      BY <1>0, <1>7 DEF GetOrCreateSession, SessionOf, SessionTypes, MappedWhole
    <2> HIDE DEF s
    <2>3. s \in Calls /\ (s = c \/ s \in sessions) /\ previous[c] \in Turns(s) \cup {NoResponse}
      BY <1>0, <2>2 DEF SessionTypes
    <2>4. \A d \in Calls : Turns(d)' = Turns(d)
      BY <1>1, <2>1
    <2>5. SessionTypes'
      BY <1>0, <2>1, <2>3 DEF SessionTypes, Recording
    <2>6. CreatedOnce'
      BY <1>0, <2>1, <2>3, <2>4 DEF SessionTypes, CreatedOnce, Recording
    <2>7. HeldWhole'
      <3> SUFFICES ASSUME NEW d \in Calls
                   PROVE  /\ session'[d] # NoSession => call'[d] \in Recording
                          /\ session'[d] \in sessions' =>
                               /\ previous'[d] \in Turns(session[d])' \cup {NoResponse}
                               /\ call'[d] # "input" => d \in Turns(session[d])'
        BY DEF HeldWhole
      <3>1. CASE d = c
        <4>1. session'[d] = s /\ call'[d] = "input" /\ previous'[d] = previous[c]
          BY <1>0, <2>1, <3>1 DEF SessionTypes
        <4> QED
          BY <2>3, <2>4, <4>1 DEF Recording
      <3>2. CASE d # c
        <4>1. session'[d] = session[d] /\ call'[d] = call[d] /\ previous'[d] = previous[d]
          BY <1>0, <2>1, <3>2 DEF SessionTypes
        <4>2. session[d] \in sessions' => session[d] \in sessions
          BY <1>0, <2>1, <2>3 DEF CreatedOnce, SessionTypes, Recording
        <4>3. session[d] \in sessions => session[d] \in Calls
          BY <1>0 DEF SessionTypes
        <4> QED
          BY <1>0, <2>4, <4>1, <4>2, <4>3 DEF HeldWhole
      <3> QED
        BY <3>1, <3>2
    <2>8. MappedWhole'
      <3>1. \A d \in Calls : mapping[d] \in sessions' => mapping[d] \in sessions
        BY <1>0, <2>1, <2>3 DEF CreatedOnce, SessionTypes, Recording
      <3> QED
        BY <1>0, <2>1, <2>4, <3>1 DEF MappedWhole, SessionTypes
    <2>9. Carried'
      BY <1>0, <2>1 DEF SessionTypes, Carried
    <2>10. \A d \in Calls : call[d] # "idle" => call'[d] # "idle"
      BY <1>0, <2>1 DEF SessionTypes
    <2>11. \A d \in Calls : Continued(Turns(d))' /\ Continued(history[d])'
      BY <1>0, <1>3, <1>4, <2>1, <2>4, <2>10 DEF Continued, SessionTypes
    <2> QED
      BY <2>5, <2>6, <2>7, <2>8, <2>9, <2>11 DEF SessionInv
  <1>8. ASSUME NEW c \in Calls, AppendInput(c) \/ AppendOutput(c) PROVE SessionInv'
    <2>1. PICK part \in {"input", "output"} :
            AppendMessage(session[c], [call |-> c, part |-> part])
      BY <1>8 DEF AppendInput, AppendOutput
    <2>2. /\ call[c] \in {"input", "output"} /\ call' \in [Calls -> Unanswered \cup Recording]
          /\ call'[c] \in {"output", "map"} /\ \A d \in Calls : d # c => call'[d] = call[d]
          /\ UNCHANGED <<sessions, mapping, previous, session, history, answered>>
      BY <1>0, <1>8 DEF AppendInput, AppendOutput, SessionTypes, Recording
    <2>3. /\ messages' \in [Calls -> Seq(Items)]
          /\ \A s \in Calls : Turns(s)' = IF s = session[c] /\ s \in sessions
                                           THEN Turns(s) \cup {c} ELSE Turns(s)
      BY <1>0, <2>1, AppendedTurns
    <2>4. SessionTypes'
      BY <1>0, <2>2, <2>3 DEF SessionTypes, Recording
    <2>5. CreatedOnce'
      BY <1>0, <2>2, <2>3 DEF SessionTypes, CreatedOnce, Recording
    <2>6. HeldWhole'
      <3> SUFFICES ASSUME NEW d \in Calls
                   PROVE  /\ session[d] # NoSession => call'[d] \in Recording
                          /\ session[d] \in sessions =>
                               /\ previous[d] \in Turns(session[d])' \cup {NoResponse}
                               /\ call'[d] # "input" => d \in Turns(session[d])'
        BY <2>2 DEF HeldWhole
      <3>1. session[d] # NoSession => call'[d] \in Recording
        BY <1>0, <2>2 DEF HeldWhole, Recording
      <3>2. ASSUME session[d] \in sessions
            PROVE  /\ previous[d] \in Turns(session[d])' \cup {NoResponse}
                   /\ call'[d] # "input" => d \in Turns(session[d])'
        <4>1. PICK s \in Calls : s = session[d] /\ s = session'[d]
          BY <1>0, <2>2, <3>2 DEF SessionTypes
        <4>2. Turns(s) \subseteq Turns(s)' /\ (d = c => d \in Turns(s)')
          BY <2>3, <3>2, <4>1
        <4>3. /\ previous[d] \in Turns(s) \cup {NoResponse}
              /\ call[d] # "input" => d \in Turns(s)
          BY <1>0, <3>2, <4>1 DEF HeldWhole
        <4>4. /\ previous[d] \in Turns(s)' \cup {NoResponse}
              /\ call'[d] # "input" => d \in Turns(s)'
          BY <2>2, <4>2, <4>3
        <4> QED
          BY <4>1, <4>4
      <3> QED
        BY <3>1, <3>2
    <2>7. MappedWhole' /\ Carried'
      <3>1. ASSUME NEW d \in Calls, mapping[d] \in sessions PROVE d \in Turns(mapping[d])'
        <4>1. PICK s \in Calls : s = mapping[d] /\ s = mapping'[d]
          BY <1>0, <2>2, <3>1 DEF SessionTypes
        <4>2. d \in Turns(s)'
          BY <1>0, <2>3, <3>1, <4>1 DEF MappedWhole
        <4> QED
          BY <4>1, <4>2
      <3>2. Carried'
        BY <1>0, <2>2 DEF Carried
      <3> QED
        BY <2>2, <3>1, <3>2 DEF MappedWhole
    <2>8. \A d \in Calls : call[d] # "idle" => call'[d] # "idle"
      BY <1>0, <2>2 DEF SessionTypes
    <2>9. \A d \in Calls : Continued(history[d])'
      BY <1>0, <1>3, <2>2, <2>8 DEF Continued, SessionTypes
    <2>10. ASSUME NEW s \in Calls PROVE Continued(Turns(s))'
      <3>1. CASE s = session[c] /\ s \in sessions
        <4>1. Turns(s)' = Turns(s) \cup {c} /\ previous[c] \in Turns(s) \cup {NoResponse}
          BY <1>0, <2>3, <3>1 DEF HeldWhole
        <4>2. call'[c] # "idle" /\ previous' = previous
          BY <1>0, <2>2 DEF SessionTypes
        <4>3. \A d \in Turns(s) : call'[d] # "idle" /\ previous'[d] \in Turns(s) \cup {NoResponse}
          BY <1>0, <1>3, <1>4, <2>2, <2>8
        <4> QED
          BY <4>1, <4>2, <4>3 DEF Continued
      <3>2. CASE ~(s = session[c] /\ s \in sessions)
        BY <1>0, <1>3, <1>4, <2>2, <2>3, <2>8, <3>2 DEF Continued
      <3> QED
        BY <3>1, <3>2
    <2> QED
      BY <2>4, <2>5, <2>6, <2>7, <2>9, <2>10 DEF SessionInv
  <1>9. ASSUME NEW c \in Calls, RecordResponseMapping(c) PROVE SessionInv'
    <2>1. /\ call[c] = "map" /\ call' = [call EXCEPT ![c] = "done"]
          /\ mapping' = [mapping EXCEPT ![c] = session[c]] /\ answered' = answered \cup {c}
          /\ UNCHANGED <<sessions, messages, previous, session, history>>
      BY <1>9 DEF RecordResponseMapping
    <2>2. \A s \in Calls : Turns(s)' = Turns(s)
      BY <1>1, <2>1
    <2>3. SessionTypes'
      BY <1>0, <2>1 DEF SessionTypes, Recording
    <2>4. CreatedOnce' /\ HeldWhole' /\ Carried'
      BY <1>0, <2>1, <2>2 DEF SessionTypes, CreatedOnce, HeldWhole, Carried, Recording
    <2>5. MappedWhole'
      BY <1>0, <2>1, <2>2 DEF SessionTypes, MappedWhole, HeldWhole
    <2>6. \A d \in Calls : call[d] # "idle" => call'[d] # "idle"
      BY <1>0, <2>1 DEF SessionTypes
    <2>7. \A d \in Calls : Continued(Turns(d))' /\ Continued(history[d])'
      BY <1>0, <1>3, <1>4, <2>1, <2>2, <2>6 DEF Continued, SessionTypes
    <2> QED
      BY <2>3, <2>4, <2>5, <2>7 DEF SessionInv
  <1>10. CASE Cleanup
    <2> DEFINE kept == {s \in sessions : ~ShouldRemove(s)}
    <2>1. /\ sessions' = kept
          /\ messages' = [s \in Calls |-> IF s \in kept THEN messages[s] ELSE << >>]
          /\ mapping' = [c \in Calls |-> IF mapping[c] \in kept THEN mapping[c] ELSE NoSession]
          /\ UNCHANGED <<call, previous, session, history, answered>>
      BY <1>10 DEF Cleanup
    <2>2. kept \subseteq sessions
      OBVIOUS
    <2> HIDE DEF kept
    <2>3. \A s \in Calls : Turns(s)' = IF s \in kept THEN Turns(s) ELSE {}
      BY <2>1 DEF Turns
    <2>4. SessionTypes'
      BY <1>0, <2>1, <2>2 DEF SessionTypes
    <2>5. CreatedOnce' /\ HeldWhole' /\ MappedWhole' /\ Carried'
      BY <1>0, <2>1, <2>2, <2>3
      DEF SessionTypes, CreatedOnce, HeldWhole, MappedWhole, Carried
    <2>6. \A d \in Calls : Continued(Turns(d))' /\ Continued(history[d])'
      BY <1>0, <2>1, <2>3 DEF Continued
    <2> QED
      BY <2>4, <2>5, <2>6 DEF SessionInv
  <1>11. ASSUME UNCHANGED <<sessions, messages, mapping, call, previous, session, history, answered>>
         PROVE  SessionInv'
    <2>1. \A s \in Calls : Turns(s)' = Turns(s)
      BY <1>1, <1>11
    <2>2. SessionTypes'
      BY <1>0, <1>11 DEF SessionTypes
    <2>3. CreatedOnce' /\ HeldWhole' /\ MappedWhole' /\ Carried'
      BY <1>0, <1>11, <2>1, <2>2
      DEF SessionTypes, CreatedOnce, HeldWhole, MappedWhole, Carried
    <2>4. \A d \in Calls : Continued(Turns(d))' /\ Continued(history[d])'
      BY <1>0, <1>11, <2>1 DEF Continued
    <2> QED
      BY <2>2, <2>3, <2>4 DEF SessionInv
  <1>12. ASSUME NEW c \in Calls, GrowStale(c) PROVE SessionInv'
    BY <1>11, <1>12 DEF GrowStale
  <1>13. CASE UNCHANGED sessionVars
    BY <1>11, <1>13 DEF sessionVars
  <1> QED
    BY <1>2, <1>5, <1>6, <1>7, <1>8, <1>9, <1>10, <1>12, <1>13 DEF SessionsNext, Handle

(* For any number of requests: a request that continues a response carries  *)
(* every turn that led to it, whatever the cleanup does between the lookup  *)
(* of a session, the appends to it and the mapping of the new response.     *)
THEOREM HistoryCarried == SessionsSpec => []HistoryWhole
  <1>1. SessionInv => HistoryWhole
    <2> SUFFICES ASSUME SessionInv, NEW c \in Calls, call[c] \in {"sent", "done"},
                        previous[c] # NoResponse, c \notin PassThrough,
                        NEW d \in Ancestors(previous[c])
                 PROVE  d \in history[c]
      BY DEF HistoryWhole
    <2>1. history[c] \in SUBSET Calls
      BY DEF SessionInv, SessionTypes
    <2>2. previous[c] \in history[c]
      BY DEF SessionInv, Carried
    <2>3. \A e \in history[c] : previous[e] \in history[c] \cup {NoResponse}
      BY DEF SessionInv, Continued
    <2> QED
      BY <2>1, <2>2, <2>3 DEF Ancestors
  <1> QED
    BY <1>1, SessionInvInit, SessionInvStep, PTL DEF SessionsSpec

-----------------------------------------------------------------------------
(* The slots of the scheduled recovery, for every period and every horizon *)

(* The slot of a time is the last one that is not after it.                 *)
LEMMA SlotOfTime ==
  ASSUME NEW t \in Nat
  PROVE  /\ LastScheduledRecoveryTime(t) \in Nat
         /\ LastScheduledRecoveryTime(t) <= t
         /\ t < LastScheduledRecoveryTime(t) + Period
  <1>1. t \div Period \in Nat
    BY RecoveryClockAssumption
  <1>2. (t \div Period) * Period <= t
    BY RecoveryClockAssumption
  <1>3. t < (t \div Period) * Period + Period
    BY RecoveryClockAssumption
  <1>4. (t \div Period) * Period \in Nat
    BY <1>1, RecoveryClockAssumption
  <1> QED
    BY <1>2, <1>3, <1>4 DEF LastScheduledRecoveryTime

(* A time whose slot lies before another time has no later slot than that.  *)
LEMMA SlotNotLater ==
  ASSUME NEW a \in Nat, NEW b \in Nat, LastScheduledRecoveryTime(a) <= b
  PROVE  LastScheduledRecoveryTime(a) <= LastScheduledRecoveryTime(b)
  <1> DEFINE p == a \div Period
             q == b \div Period
  <1>1. p \in Nat /\ q \in Nat
    BY RecoveryClockAssumption
  <1>2. p * Period <= b
    BY DEF LastScheduledRecoveryTime
  <1>3. b < q * Period + Period
    BY RecoveryClockAssumption
  <1> HIDE DEF p, q
  <1>4. p * Period < q * Period + Period
    BY <1>1, <1>2, <1>3, RecoveryClockAssumption
  <1>5. p <= q
    BY <1>1, <1>4, RecoveryClockAssumption
  <1>6. p * Period <= q * Period
    BY <1>1, <1>5, RecoveryClockAssumption
  <1> QED
    BY <1>6 DEF LastScheduledRecoveryTime, p, q

-----------------------------------------------------------------------------
(* The inductive invariant *)

ClockTypes ==
  /\ clock \in Nat \ {0} /\ running \in BOOLEAN
  /\ checkpoint \in Nat /\ file \in Nat
  /\ next \in Nat /\ tickAt \in Nat /\ begun \in Nat
  /\ scanned \subseteq Nat

(* Nothing lies in the future, and only a goroutine that has not started    *)
(* has no checkpoint.                                                       *)
InThePast ==
  /\ checkpoint <= clock /\ file <= clock /\ begun <= clock /\ tickAt <= clock
  /\ running => checkpoint # NeverChecked

(* The slot of time t was recovered, or a later one, or it lies before the  *)
(* start that had no checkpoint.                                            *)
Covered(t, start, recovered) ==
  \/ t = NeverChecked
  \/ LastScheduledRecoveryTime(t) <= start
  \/ \E later \in recovered : later >= LastScheduledRecoveryTime(t)

ClockInv ==
  /\ ClockTypes /\ InThePast
  /\ Covered(checkpoint, begun, scanned)
  /\ Covered(file, begun, scanned)

(* What is covered stays so, and so does what has no later slot.            *)
LEMMA CoveredKept ==
  ASSUME NEW a \in Nat, NEW b \in Nat \ {NeverChecked}, NEW start \in Nat, NEW newer \in Nat,
         NEW recovered \in SUBSET Nat, NEW more \in SUBSET Nat,
         start <= newer, recovered \subseteq more,
         Covered(b, start, recovered), LastScheduledRecoveryTime(a) <= b
  PROVE  Covered(a, newer, more)
  <1>1. /\ LastScheduledRecoveryTime(a) \in Nat /\ LastScheduledRecoveryTime(b) \in Nat
        /\ LastScheduledRecoveryTime(a) <= LastScheduledRecoveryTime(b)
    BY SlotOfTime, SlotNotLater
  <1> QED
    BY <1>1 DEF Covered

(* The same for one time.                                                   *)
LEMMA CoveredStays ==
  ASSUME NEW a \in Nat, NEW start \in Nat, NEW newer \in Nat,
         NEW recovered \in SUBSET Nat, NEW more \in SUBSET Nat,
         start <= newer, recovered \subseteq more, Covered(a, start, recovered)
  PROVE  Covered(a, newer, more)
  BY SlotOfTime DEF Covered

(* Nothing has been checked.                                                *)
LEMMA ClockInvInit == ClockInit => ClockInv
  <1> SUFFICES ASSUME ClockInit PROVE ClockInv
    OBVIOUS
  <1>1. ClockTypes
    <2>1. running \in BOOLEAN
      BY DEF ClockInit
    <2> QED
      BY <2>1 DEF ClockInit, ClockTypes, NeverChecked
  <1>2. clock = 1 /\ checkpoint = 0 /\ file = 0 /\ begun = 0 /\ tickAt = 0 /\ ~ running
    BY DEF ClockInit, NeverChecked
  <1>3. InThePast
    BY <1>2 DEF InThePast
  <1>4. Covered(checkpoint, begun, scanned) /\ Covered(file, begun, scanned)
    BY DEF ClockInit, Covered
  <1> QED
    BY <1>1, <1>3, <1>4 DEF ClockInv

(* A recovery of a slot that covers the time it is committed with.          *)
LEMMA RecoverKept ==
  ASSUME ClockInv, NEW slot \in Nat, NEW at \in Nat, at <= clock, at # NeverChecked,
         Recover(slot, at), UNCHANGED begun,
         LastScheduledRecoveryTime(at) <= slot \/ Covered(at, begun, scanned)
  PROVE  /\ scanned' \subseteq Nat /\ checkpoint' \in Nat /\ file' \in Nat
         /\ checkpoint' <= clock /\ file' <= clock
         /\ running => checkpoint' # NeverChecked
         /\ Covered(checkpoint', begun', scanned') /\ Covered(file', begun', scanned')
  <1>1. /\ ClockTypes /\ InThePast
        /\ Covered(checkpoint, begun, scanned) /\ Covered(file, begun, scanned)
    BY DEF ClockInv
  <1>2. CASE UNCHANGED <<scanned, checkpoint, file>>
    BY <1>1, <1>2 DEF ClockTypes, InThePast
  <1>3. CASE scanned' = scanned \cup {slot} /\ checkpoint' = at /\ file' \in {file, at}
    <2>1. scanned' \in SUBSET Nat /\ scanned \in SUBSET Nat /\ begun \in Nat /\ file \in Nat
      BY <1>1, <1>3 DEF ClockTypes
    <2>2. LastScheduledRecoveryTime(at) \in Nat
      BY SlotOfTime
    <2>3. Covered(at, begun, scanned')
      <3>1. CASE LastScheduledRecoveryTime(at) <= slot
        BY <1>3, <2>1, <2>2, <3>1 DEF Covered
      <3>2. CASE Covered(at, begun, scanned)
        BY <1>3, <2>1, <3>2, CoveredStays
      <3> QED
        BY <3>1, <3>2
    <2>4. Covered(file, begun, scanned')
      BY <1>1, <1>3, <2>1, CoveredStays
    <2> QED
      BY <1>1, <1>3, <2>1, <2>3, <2>4 DEF InThePast
  <1> QED
    BY <1>2, <1>3 DEF Recover, Commit

(* A check, on time or late: whether or not a slot was missed.              *)
LEMMA CheckKept ==
  ASSUME ClockInv, NEW now \in Nat \ {NeverChecked}, now <= clock,
         checkpoint # NeverChecked, Check(now), UNCHANGED begun
  PROVE  /\ scanned' \subseteq Nat /\ checkpoint' \in Nat /\ file' \in Nat
         /\ checkpoint' <= clock /\ file' <= clock
         /\ running => checkpoint' # NeverChecked
         /\ Covered(checkpoint', begun', scanned') /\ Covered(file', begun', scanned')
  <1>1. /\ ClockTypes /\ InThePast
        /\ Covered(checkpoint, begun, scanned) /\ Covered(file, begun, scanned)
    BY DEF ClockInv
  <1>2. LastScheduledRecoveryTime(now) \in Nat /\ LastScheduledRecoveryTime(now) <= now
    BY SlotOfTime
  <1>3. CASE Missed(checkpoint, now)
    <2>1. Recover(LastScheduledRecoveryTime(now), now)
      BY <1>3 DEF Check
    <2> QED
      BY <1>2, <2>1, RecoverKept
  <1>4. CASE ~ Missed(checkpoint, now)
    <2>1. checkpoint' = now /\ file' \in {file, now} /\ scanned' = scanned
      BY <1>4 DEF Check, Commit
    <2>2. checkpoint \in Nat \ {NeverChecked} /\ begun \in Nat /\ scanned \in SUBSET Nat
      BY <1>1 DEF ClockTypes
    <2>3. LastScheduledRecoveryTime(now) <= checkpoint
      BY <1>2, <1>4, <2>2 DEF Missed
    <2>4. Covered(now, begun, scanned)
      BY <1>1, <2>2, <2>3, CoveredKept
    <2> QED
      BY <1>1, <2>1, <2>4 DEF ClockTypes, InThePast
  <1> QED
    BY <1>3, <1>4

-----------------------------------------------------------------------------
(* Each action *)

(* Startup: with a checkpoint a check, without one the first.               *)
LEMMA StartupKept ==
  ASSUME ClockInv, Startup
  PROVE  ClockInv'
  <1>1. /\ ClockTypes /\ InThePast
        /\ Covered(checkpoint, begun, scanned) /\ Covered(file, begun, scanned)
    BY DEF ClockInv
  <1>2. /\ clock \in Nat \ {NeverChecked} /\ clock <= clock
        /\ LastScheduledRecoveryTime(clock) \in Nat /\ LastScheduledRecoveryTime(clock) <= clock
        /\ NextScheduledRecoveryTime(clock) \in Nat
    BY <1>1, SlotOfTime, RecoveryClockAssumption DEF ClockTypes, NeverChecked, NextScheduledRecoveryTime
  <1>3. CASE checkpoint = NeverChecked
    <2>1. /\ checkpoint' = clock /\ file' \in {file, clock} /\ begun' = clock
          /\ scanned' = scanned /\ running' = TRUE
          /\ next' = NextScheduledRecoveryTime(clock) /\ UNCHANGED <<clock, tickAt>>
      BY <1>3 DEF Startup, Commit
    <2>2. Covered(clock, clock, scanned)
      BY <1>2 DEF Covered
    <2>3. Covered(file, clock, scanned)
      BY <1>1, <1>2, CoveredStays DEF ClockTypes, InThePast
    <2> QED
      BY <1>1, <1>2, <2>1, <2>2, <2>3 DEF ClockInv, ClockTypes, InThePast
  <1>4. CASE checkpoint # NeverChecked
    <2>1. /\ Check(clock) /\ begun' = begun /\ running' = TRUE
          /\ next' = NextScheduledRecoveryTime(clock) /\ UNCHANGED <<clock, tickAt>>
      BY <1>4 DEF Startup
    <2>2. /\ scanned' \subseteq Nat /\ checkpoint' \in Nat /\ file' \in Nat
          /\ checkpoint' <= clock /\ file' <= clock
          /\ Covered(checkpoint', begun', scanned') /\ Covered(file', begun', scanned')
      BY <1>2, <1>4, <2>1, CheckKept
    <2>3. checkpoint' # NeverChecked
      BY <1>1, <1>2, <1>4, <2>1 DEF Check, Recover, Commit
    <2> QED
      BY <1>1, <1>2, <2>1, <2>2, <2>3 DEF ClockInv, ClockTypes, InThePast
  <1> QED
    BY <1>3, <1>4

(* The timer, on time or late.                                              *)
LEMMA TimerKept ==
  ASSUME ClockInv, TimerFires
  PROVE  ClockInv'
  <1> DEFINE slot == IF clock > next /\ Missed(checkpoint, clock)
                     THEN LastScheduledRecoveryTime(clock) ELSE next
  <1>1. /\ ClockTypes /\ InThePast /\ Covered(checkpoint, begun, scanned)
    BY DEF ClockInv
  <1>2. /\ clock \in Nat \ {NeverChecked} /\ next \in Nat /\ clock <= clock
        /\ LastScheduledRecoveryTime(clock) \in Nat /\ LastScheduledRecoveryTime(clock) <= clock
        /\ NextScheduledRecoveryTime(clock) \in Nat
    BY <1>1, SlotOfTime, RecoveryClockAssumption DEF ClockTypes, NeverChecked, NextScheduledRecoveryTime
  <1>3. /\ running /\ clock >= next /\ Recover(slot, clock)
        /\ next' = NextScheduledRecoveryTime(clock) /\ UNCHANGED <<clock, running, tickAt, begun>>
    BY DEF TimerFires
  <1>4. checkpoint \in Nat \ {NeverChecked}
    BY <1>1, <1>3 DEF ClockTypes, InThePast
  <1>5. slot \in Nat
    BY <1>2
  <1>6. LastScheduledRecoveryTime(clock) <= slot \/ Covered(clock, begun, scanned)
    <2>1. CASE clock > next /\ ~ Missed(checkpoint, clock)
      <3>1. LastScheduledRecoveryTime(clock) <= checkpoint
        BY <1>2, <1>4, <2>1 DEF Missed
      <3> QED
        BY <1>1, <1>2, <1>4, <3>1, CoveredKept DEF ClockTypes
    <2>2. CASE ~ (clock > next) \/ Missed(checkpoint, clock)
      BY <1>2, <1>3, <2>2
    <2> QED
      BY <2>1, <2>2
  <1> HIDE DEF slot
  <1>7. /\ scanned' \subseteq Nat /\ checkpoint' \in Nat /\ file' \in Nat
        /\ checkpoint' <= clock /\ file' <= clock
        /\ running => checkpoint' # NeverChecked
        /\ Covered(checkpoint', begun', scanned') /\ Covered(file', begun', scanned')
    BY <1>2, <1>3, <1>5, <1>6, RecoverKept
  <1> QED
    BY <1>1, <1>2, <1>3, <1>7 DEF ClockInv, ClockTypes, InThePast

(* The fallback tick, which may have waited.                                *)
LEMMA TickKept ==
  ASSUME ClockInv, FallbackTick
  PROVE  ClockInv'
  <1>1. ClockTypes /\ InThePast
    BY DEF ClockInv
  <1>2. /\ running /\ tickAt # 0 /\ Check(tickAt) /\ tickAt' = 0
        /\ next' = NextScheduledRecoveryTime(clock) /\ UNCHANGED <<clock, running, begun>>
    BY DEF FallbackTick
  <1>3. /\ tickAt \in Nat \ {NeverChecked} /\ tickAt <= clock /\ checkpoint # NeverChecked
        /\ NextScheduledRecoveryTime(clock) \in Nat
    BY <1>1, <1>2, SlotOfTime, RecoveryClockAssumption
    DEF ClockTypes, InThePast, NeverChecked, NextScheduledRecoveryTime
  <1>4. /\ scanned' \subseteq Nat /\ checkpoint' \in Nat /\ file' \in Nat
        /\ checkpoint' <= clock /\ file' <= clock
        /\ running => checkpoint' # NeverChecked
        /\ Covered(checkpoint', begun', scanned') /\ Covered(file', begun', scanned')
    BY <1>2, <1>3, CheckKept
  <1> QED
    BY <1>1, <1>2, <1>3, <1>4 DEF ClockInv, ClockTypes, InThePast

(* Time, and the end of the process.                                        *)
LEMMA ClockOutsideKept ==
  ASSUME ClockInv, TimePasses \/ ProcessEnds
  PROVE  ClockInv'
  <1>1. CASE TimePasses
    BY <1>1 DEF TimePasses, ClockInv, ClockTypes, InThePast
  <1>2. CASE ProcessEnds
    <2>1. Covered(NeverChecked, begun, scanned)
      BY DEF Covered
    <2>2. /\ running' = FALSE /\ checkpoint' \in {file, NeverChecked}
          /\ next' = 0 /\ tickAt' = 0
          /\ UNCHANGED <<clock, file, begun, scanned>>
      BY <1>2 DEF ProcessEnds
    <2>3. ClockTypes'
      <3>1. running' \in BOOLEAN
        BY <2>2
      <3>2. checkpoint' \in Nat /\ next' \in Nat /\ tickAt' \in Nat
        BY <2>2 DEF ClockInv, ClockTypes, NeverChecked
      <3> QED
        BY <2>2, <3>1, <3>2 DEF ClockInv, ClockTypes
    <2>4. checkpoint' <= clock' /\ ~ running'
      BY <2>2 DEF ClockInv, ClockTypes, InThePast, NeverChecked
    <2>5. InThePast'
      BY <2>2, <2>4 DEF ClockInv, ClockTypes, InThePast
    <2>6. Covered(checkpoint', begun', scanned') /\ Covered(file', begun', scanned')
      BY <2>1, <2>2 DEF ClockInv
    <2> QED
      BY <2>3, <2>5, <2>6 DEF ClockInv
  <1> QED
    BY <1>1, <1>2

-----------------------------------------------------------------------------
(* Theorem *)

(* Every step keeps the invariant.                                          *)
LEMMA ClockInvStep == ClockInv /\ [ClockNext]_clockVars => ClockInv'
  <1> SUFFICES ASSUME ClockInv, [ClockNext]_clockVars PROVE ClockInv'
    OBVIOUS
  <1>1. CASE UNCHANGED clockVars
    BY <1>1 DEF clockVars, ClockInv, ClockTypes, InThePast
  <1>2. CASE ClockNext
    BY <1>2, StartupKept, TimerKept, TickKept, ClockOutsideKept DEF ClockNext
  <1> QED
    BY <1>1, <1>2

(* For every length of the period: late timers, late ticks, failed          *)
(* recoveries, unwritable files and restarts leave no slot out that lies    *)
(* after the first start.                                                   *)
THEOREM SlotsAlwaysRecovered == ClockSpec => []SlotRecovered
  <1>1. ClockInv => SlotRecovered
    <2> SUFFICES ASSUME ClockInv, NEW check \in {checkpoint, file} \ {NeverChecked},
                        LastScheduledRecoveryTime(check) > begun
                 PROVE  \E later \in scanned : later >= LastScheduledRecoveryTime(check)
      BY DEF SlotRecovered
    <2>1. LastScheduledRecoveryTime(check) \in Nat /\ begun \in Nat
      BY SlotOfTime DEF ClockInv, ClockTypes
    <2> QED
      BY <2>1 DEF ClockInv, Covered
  <1> QED
    BY <1>1, ClockInvInit, ClockInvStep, PTL DEF ClockSpec

-----------------------------------------------------------------------------
(* The dispatchers of capability tests, for any number of requests and      *)
(* dispatchers                                                              *)

(* The requests that wait in a pair of queues.                              *)
Waiting(pair) == ToSet(pair.priority) \cup ToSet(pair.normal)

DispatcherTypes ==
  /\ pool \in 0..made /\ made \in 0..MaxMade /\ closed \subseteq Made
  /\ queues \in [Made -> [priority : Seq(Asks), normal : Seq(Asks)]]
  /\ ask \in [Asks -> [at : {"new", "holding", "inside", "queued", "granted", "refused"},
                       with : 0..MaxMade]]

(* A request that has found a dispatcher keeps to it; one that is inside    *)
(* the read lock keeps it open.                                             *)
InsideOpen ==
  \A a \in Asks :
    /\ ask[a].at \in {"holding", "inside", "queued"} => ask[a].with \in Made
    /\ ask[a].at = "inside" => ask[a].with \notin closed

QueuedServed ==
  \A a \in Asks : ask[a].at = "queued" /\ a \notin ctxDone =>
    ask[a].with \notin closed /\ a \in Waiting(queues[ask[a].with])

DispatcherInv == DispatcherTypes /\ InsideOpen /\ QueuedServed

-----------------------------------------------------------------------------
(* Queues *)

(* Appending adds one request.                                              *)
LEMMA ToSetAppend ==
  ASSUME NEW s \in Seq(Asks), NEW a \in Asks
  PROVE  /\ Append(s, a) \in Seq(Asks)
         /\ a \in ToSet(Append(s, a)) /\ ToSet(s) \subseteq ToSet(Append(s, a))
  <1>1. /\ Append(s, a) \in Seq(Asks) /\ Len(Append(s, a)) = Len(s) + 1
        /\ \A i \in 1..Len(s) : Append(s, a)[i] = s[i]
        /\ Append(s, a)[Len(s) + 1] = a
        /\ DOMAIN s = 1..Len(s) /\ DOMAIN Append(s, a) = 1..Len(Append(s, a))
        /\ Len(s) \in Nat
    OBVIOUS
  <1>2. 1..Len(s) \subseteq 1..(Len(s) + 1) /\ Len(s) + 1 \in 1..(Len(s) + 1)
    BY <1>1
  <1>3. a \in ToSet(Append(s, a))
    BY <1>1, <1>2 DEF ToSet
  <1>4. ToSet(s) \subseteq ToSet(Append(s, a))
    BY <1>1, <1>2, Zenon DEF ToSet
  <1> QED
    BY <1>1, <1>3, <1>4

(* Taking the first request leaves the others.                              *)
LEMMA ToSetTail ==
  ASSUME NEW s \in Seq(Asks), s # << >>
  PROVE  /\ Head(s) \in Asks /\ Tail(s) \in Seq(Asks)
         /\ ToSet(s) \subseteq ToSet(Tail(s)) \cup {Head(s)}
  <1>1. /\ Head(s) \in Asks /\ Tail(s) \in Seq(Asks) /\ Head(s) = s[1]
        /\ Len(s) \in Nat \ {0} /\ Len(Tail(s)) = Len(s) - 1
        /\ \A i \in 1..(Len(s) - 1) : Tail(s)[i] = s[i + 1]
        /\ DOMAIN s = 1..Len(s) /\ DOMAIN Tail(s) = 1..(Len(s) - 1)
    OBVIOUS
  <1>2. ASSUME NEW i \in DOMAIN s
        PROVE  s[i] \in ToSet(Tail(s)) \cup {Head(s)}
    <2>1. CASE i = 1
      BY <1>1, <2>1
    <2>2. CASE i # 1
      <3>1. i - 1 \in 1..(Len(s) - 1) /\ s[(i - 1) + 1] = s[i]
        BY <1>1, <1>2, <2>2
      <3>2. i - 1 \in DOMAIN Tail(s) /\ Tail(s)[i - 1] = s[i]
        BY <1>1, <3>1
      <3> QED
        BY <3>2 DEF ToSet
    <2> QED
      BY <2>1, <2>2
  <1> QED
    BY <1>1, <1>2 DEF ToSet

-----------------------------------------------------------------------------
(* Each action *)

(* Nothing has been asked for.                                              *)
LEMMA DispatcherInvInit == DispatcherInit => DispatcherInv
  <1> SUFFICES ASSUME DispatcherInit PROVE DispatcherInv
    OBVIOUS
  <1>1. MaxMade \in Nat /\ << >> \in Seq(Asks)
    BY DispatcherAssumption
  <1>2. DispatcherTypes
    BY <1>1 DEF DispatcherInit, DispatcherTypes, NoDispatcher, Made
  <1>3. InsideOpen /\ QueuedServed
    BY DEF DispatcherInit, InsideOpen, QueuedServed
  <1> QED
    BY <1>2, <1>3 DEF DispatcherInv

(* A request gets its dispatcher, or finds it closed, or gives up.          *)
LEMMA GetKept ==
  ASSUME DispatcherInv, NEW a \in Asks, Get(a)
  PROVE  DispatcherInv'
  <1>1. MaxMade \in Nat
    BY DispatcherAssumption
  <1>2. /\ pool' \in 1..made' /\ made' \in 0..MaxMade
        /\ ask' = [ask EXCEPT ![a] = [at |-> "holding", with |-> pool']]
        /\ UNCHANGED <<closed, queues, ctxDone>>
    BY <1>1 DEF Get, DispatcherInv, DispatcherTypes, NoDispatcher
  <1>3. pool' \in Made /\ pool' \in 0..MaxMade
    BY <1>1, <1>2 DEF Made
  <1>4. DispatcherTypes'
    BY <1>1, <1>2, <1>3 DEF DispatcherInv, DispatcherTypes
  <1>5. InsideOpen'
    BY <1>2, <1>3 DEF DispatcherInv, DispatcherTypes, InsideOpen
  <1>6. QueuedServed'
    BY <1>2 DEF DispatcherInv, DispatcherTypes, QueuedServed, Waiting
  <1> QED
    BY <1>4, <1>5, <1>6 DEF DispatcherInv

(* The read lock is taken of an open dispatcher only.                       *)
LEMMA EnterKept ==
  ASSUME DispatcherInv, NEW a \in Asks, Enter(a) \/ GiveUp(a)
  PROVE  DispatcherInv'
  <1>1. PICK place \in {"refused", "inside"} :
          /\ Reaches(a, place) /\ UNCHANGED <<pool, made, closed, queues, ctxDone>>
          /\ place = "inside" => ask[a].at = "holding" /\ ask[a].with \notin closed
    BY DEF Enter, GiveUp
  <1>2. DispatcherTypes'
    BY <1>1 DEF DispatcherInv, DispatcherTypes, Reaches
  <1>3. InsideOpen'
    BY <1>1 DEF DispatcherInv, DispatcherTypes, InsideOpen, Reaches
  <1>4. QueuedServed'
    BY <1>1 DEF DispatcherInv, DispatcherTypes, QueuedServed, Waiting, Reaches
  <1> QED
    BY <1>2, <1>3, <1>4 DEF DispatcherInv

(* The queue of an open dispatcher grows.                                   *)
LEMMA EnqueueKept ==
  ASSUME DispatcherInv, NEW a \in Asks, Enqueue(a)
  PROVE  DispatcherInv'
  <1> DEFINE d == ask[a].with
  <1>1. /\ ask[a].at = "inside" /\ d \in Made /\ d \notin closed
        /\ UNCHANGED <<pool, made, closed, ctxDone>>
    BY DEF Enqueue, DispatcherInv, InsideOpen
  <1>2. CASE Reaches(a, "refused") /\ UNCHANGED queues
    <2>1. DispatcherTypes'
      BY <1>1, <1>2 DEF DispatcherInv, DispatcherTypes, Reaches
    <2>2. InsideOpen'
      BY <1>1, <1>2 DEF DispatcherInv, DispatcherTypes, InsideOpen, Reaches
    <2>3. QueuedServed'
      BY <1>1, <1>2 DEF DispatcherInv, DispatcherTypes, QueuedServed, Waiting, Reaches
    <2> QED
      BY <2>1, <2>2, <2>3 DEF DispatcherInv
  <1>3. CASE /\ Reaches(a, "queued")
             /\ queues' = IF a \in Priority THEN [queues EXCEPT ![d].priority = Append(@, a)]
                                            ELSE [queues EXCEPT ![d].normal = Append(@, a)]
    <2>1. queues[d].priority \in Seq(Asks) /\ queues[d].normal \in Seq(Asks)
      BY <1>1 DEF DispatcherInv, DispatcherTypes
    <2>2. /\ queues' \in [Made -> [priority : Seq(Asks), normal : Seq(Asks)]]
          /\ a \in Waiting(queues'[d])
          /\ \A e \in Made : Waiting(queues[e]) \subseteq Waiting(queues'[e])
      <3>1. CASE a \in Priority
        <4>1. queues' = [queues EXCEPT ![d].priority = Append(@, a)]
          BY <1>3, <3>1
        <4>2. /\ queues' \in [Made -> [priority : Seq(Asks), normal : Seq(Asks)]]
              /\ \A e \in Made : queues'[e].normal = queues[e].normal
              /\ \A e \in Made : queues'[e].priority =
                   IF e = d THEN Append(queues[d].priority, a) ELSE queues[e].priority
          BY <1>1, <2>1, <4>1, ToSetAppend DEF DispatcherInv, DispatcherTypes
        <4> QED
          BY <1>1, <2>1, <4>2, ToSetAppend DEF Waiting
      <3>2. CASE a \notin Priority
        <4>1. queues' = [queues EXCEPT ![d].normal = Append(@, a)]
          BY <1>3, <3>2
        <4>2. /\ queues' \in [Made -> [priority : Seq(Asks), normal : Seq(Asks)]]
              /\ \A e \in Made : queues'[e].priority = queues[e].priority
              /\ \A e \in Made : queues'[e].normal =
                   IF e = d THEN Append(queues[d].normal, a) ELSE queues[e].normal
          BY <1>1, <2>1, <4>1, ToSetAppend DEF DispatcherInv, DispatcherTypes
        <4> QED
          BY <1>1, <2>1, <4>2, ToSetAppend DEF Waiting
      <3> QED
        BY <3>1, <3>2
    <2>3. /\ ask'[a].at = "queued" /\ ask'[a].with = d
          /\ \A b \in Asks \ {a} : ask'[b] = ask[b]
          /\ ask' \in [Asks -> [at : {"new", "holding", "inside", "queued", "granted", "refused"},
                                with : 0..MaxMade]]
      BY <1>3 DEF DispatcherInv, DispatcherTypes, Reaches
    <2>4. DispatcherTypes'
      BY <1>1, <2>2, <2>3 DEF DispatcherInv, DispatcherTypes
    <2>5. InsideOpen'
      BY <1>1, <2>3 DEF DispatcherInv, InsideOpen
    <2>6. QueuedServed'
      <3> SUFFICES ASSUME NEW b \in Asks, ask'[b].at = "queued", b \notin ctxDone'
                   PROVE  ask'[b].with \notin closed' /\ b \in Waiting(queues'[ask'[b].with])
        BY DEF QueuedServed
      <3>1. CASE b = a
        BY <1>1, <2>2, <2>3, <3>1
      <3>2. CASE b # a
        <4>1. ask'[b] = ask[b] /\ ask[b].with \in Made
          BY <2>3, <3>2 DEF DispatcherInv, InsideOpen
        <4>2. ask[b].with \notin closed /\ b \in Waiting(queues[ask[b].with])
          BY <1>1, <4>1 DEF DispatcherInv, QueuedServed
        <4> QED
          BY <1>1, <2>2, <4>1, <4>2
      <3> QED
        BY <3>1, <3>2
    <2> QED
      BY <2>4, <2>5, <2>6 DEF DispatcherInv
  <1> QED
    BY <1>1, <1>2, <1>3 DEF Enqueue

(* The first request of a queue gets its slot, or its context is done; the  *)
(* others stay.                                                             *)
LEMMA DispatchKept ==
  ASSUME DispatcherInv, NEW d \in Made, Dispatch(d)
  PROVE  DispatcherInv'
  <1> DEFINE first == IF queues[d].priority # << >> THEN "priority" ELSE "normal"
             a == Head(queues[d][first])
  <1>1. queues[d].priority \in Seq(Asks) /\ queues[d].normal \in Seq(Asks)
    BY DEF DispatcherInv, DispatcherTypes
  <1>2. /\ a \in Asks
        /\ queues' \in [Made -> [priority : Seq(Asks), normal : Seq(Asks)]]
        /\ \A e \in Made : Waiting(queues[e]) \subseteq Waiting(queues'[e]) \cup {a}
    <2>1. CASE queues[d].priority # << >>
      <3>1. first = "priority" /\ a = Head(queues[d].priority)
        BY <2>1
      <3>2. queues' = [queues EXCEPT ![d].priority = Tail(@)]
        BY <3>1 DEF Dispatch
      <3> HIDE DEF first, a
      <3>3. /\ queues' \in [Made -> [priority : Seq(Asks), normal : Seq(Asks)]]
            /\ \A e \in Made : queues'[e].normal = queues[e].normal
            /\ \A e \in Made : queues'[e].priority =
                 IF e = d THEN Tail(queues[d].priority) ELSE queues[e].priority
        BY <1>1, <2>1, <3>2, ToSetTail DEF DispatcherInv, DispatcherTypes
      <3> QED
        BY <1>1, <2>1, <3>1, <3>3, ToSetTail DEF Waiting
    <2>2. CASE queues[d].priority = << >>
      <3>1. first = "normal" /\ a = Head(queues[d].normal) /\ queues[d].normal # << >>
        BY <2>2 DEF Dispatch, Empty
      <3>2. queues' = [queues EXCEPT ![d].normal = Tail(@)]
        BY <3>1 DEF Dispatch
      <3> HIDE DEF first, a
      <3>3. /\ queues' \in [Made -> [priority : Seq(Asks), normal : Seq(Asks)]]
            /\ \A e \in Made : queues'[e].priority = queues[e].priority
            /\ \A e \in Made : queues'[e].normal =
                 IF e = d THEN Tail(queues[d].normal) ELSE queues[e].normal
        BY <1>1, <3>1, <3>2, ToSetTail DEF DispatcherInv, DispatcherTypes
      <3> QED
        BY <1>1, <3>1, <3>3, ToSetTail DEF Waiting
    <2> QED
      BY <2>1, <2>2
  <1>3. /\ UNCHANGED <<pool, made, closed, ctxDone>>
        /\ \/ a \in ctxDone /\ UNCHANGED ask
           \/ Reaches(a, IF ask[a].at = "queued" THEN "granted" ELSE ask[a].at)
    BY DEF Dispatch
  <1> HIDE DEF first, a
  <1>4. /\ ask' \in [Asks -> [at : {"new", "holding", "inside", "queued", "granted", "refused"},
                              with : 0..MaxMade]]
        /\ \A b \in Asks \ {a} : ask'[b] = ask[b]
        /\ ask'[a].with = ask[a].with
        /\ a \in ctxDone \/ ask'[a].at # "queued"
        /\ ask'[a].at = ask[a].at \/ ask'[a].at = "granted"
    <2>1. CASE a \in ctxDone /\ UNCHANGED ask
      BY <2>1 DEF DispatcherInv, DispatcherTypes
    <2>2. CASE Reaches(a, IF ask[a].at = "queued" THEN "granted" ELSE ask[a].at)
      <3>1. PICK place \in {"granted", ask[a].at} :
              Reaches(a, place) /\ place # "queued"
        BY <2>2
      <3> QED
        BY <1>2, <3>1 DEF DispatcherInv, DispatcherTypes, Reaches
    <2> QED
      BY <1>3, <2>1, <2>2
  <1>5. DispatcherTypes'
    BY <1>2, <1>3, <1>4 DEF DispatcherInv, DispatcherTypes
  <1>6. InsideOpen'
    BY <1>2, <1>3, <1>4 DEF DispatcherInv, InsideOpen
  <1>7. QueuedServed'
    <2> SUFFICES ASSUME NEW b \in Asks, ask'[b].at = "queued", b \notin ctxDone'
                 PROVE  ask'[b].with \notin closed' /\ b \in Waiting(queues'[ask'[b].with])
      BY DEF QueuedServed
    <2>1. b # a /\ ask'[b] = ask[b] /\ ask[b].with \in Made
      BY <1>3, <1>4 DEF DispatcherInv, InsideOpen
    <2>2. ask[b].with \notin closed /\ b \in Waiting(queues[ask[b].with])
      BY <1>3, <2>1 DEF DispatcherInv, QueuedServed
    <2> QED
      BY <1>2, <1>3, <2>1, <2>2
  <1> QED
    BY <1>5, <1>6, <1>7 DEF DispatcherInv

(* A dispatcher is closed when nobody is inside and nobody waits.           *)
LEMMA CloseKept ==
  ASSUME DispatcherInv, NEW d \in Made, CloseIdle(d)
  PROVE  DispatcherInv'
  <1>1. /\ closed' = closed \cup {d} /\ UNCHANGED <<pool, made, queues, ask, ctxDone>>
        /\ \A a \in Asks : ask[a] # [at |-> "inside", with |-> d]
        /\ queues[d].priority = << >> /\ queues[d].normal = << >>
    BY DEF CloseIdle, Empty
  <1>2. Waiting(queues[d]) = {}
    BY <1>1 DEF Waiting, ToSet
  <1>3. DispatcherTypes'
    BY <1>1 DEF DispatcherInv, DispatcherTypes
  <1>4. InsideOpen'
    BY <1>1 DEF DispatcherInv, DispatcherTypes, InsideOpen
  <1>5. QueuedServed'
    BY <1>1, <1>2 DEF DispatcherInv, QueuedServed, Waiting
  <1> QED
    BY <1>3, <1>4, <1>5 DEF DispatcherInv

(* The pool drops a dispatcher, contexts end and time passes.               *)
LEMMA DispatcherOutsideKept ==
  ASSUME DispatcherInv, Gc \/ TickPasses \/ (\E a \in Asks : ContextEnds(a))
  PROVE  DispatcherInv'
  <1>1. /\ UNCHANGED <<made, closed, queues, ask>> /\ pool' \in {pool, NoDispatcher}
        /\ ctxDone \subseteq ctxDone'
    BY DEF Gc, TickPasses, ContextEnds
  <1>2. DispatcherTypes'
    BY <1>1, DispatcherAssumption DEF DispatcherInv, DispatcherTypes, NoDispatcher
  <1>3. InsideOpen' /\ QueuedServed'
    BY <1>1 DEF DispatcherInv, InsideOpen, QueuedServed, Waiting
  <1> QED
    BY <1>2, <1>3 DEF DispatcherInv

-----------------------------------------------------------------------------
(* Theorem *)

(* Every step keeps the invariant.                                          *)
LEMMA DispatcherInvStep == DispatcherInv /\ [DispatcherNext]_dispatcherVars => DispatcherInv'
  <1> SUFFICES ASSUME DispatcherInv, [DispatcherNext]_dispatcherVars PROVE DispatcherInv'
    OBVIOUS
  <1>1. CASE UNCHANGED dispatcherVars
    BY <1>1 DEF dispatcherVars, DispatcherInv, DispatcherTypes, InsideOpen, QueuedServed, Waiting
  <1>2. CASE DispatcherNext
    BY <1>2, GetKept, EnterKept, EnqueueKept, DispatchKept, CloseKept, DispatcherOutsideKept
    DEF DispatcherNext
  <1> QED
    BY <1>1, <1>2

(* For any number of requests and dispatchers: whoever waits for a slot     *)
(* waits where a goroutine hands slots out.                                 *)
THEOREM NobodyStranded == DispatcherSpec => []NoneStranded
  <1>1. DispatcherInv => NoneStranded
    BY DEF DispatcherInv, QueuedServed, Waiting, NoneStranded
  <1> QED
    BY <1>1, DispatcherInvInit, DispatcherInvStep, PTL DEF DispatcherSpec
-----------------------------------------------------------------------------
(* The jobs *)

Lives == {"pending", "active", "done", "cancelled"}

(* What the result of a model may be: queued and running ones are open, and *)
(* only those.                                                              *)
Open == {[status |-> "queued", life |-> "pending"], [status |-> "running", life |-> "active"]}
Closed == [status : {"success", "failed", "skipped"}, life : Terminal]

Result == [status : {"queued", "running", "success", "failed", "skipped"}, life : Lives]

JobType == [life : Lives, tests : [Protocols -> Lives], models : [Pairs -> Result]]

Places == {"none", "spawned", "activating", "starting", "testing", "granted", "sent", "closing",
           "over"}
Unbegun == {"none", "spawned", "activating", "starting"}

RunnerType ==
  [at : Places, todo : Seq(Pairs), doing : Pairs \cup {<< >>},
   found : [Pairs -> {"untested", "success", "failed", "closed"}]]

RetryType == {Idle} \cup [stage : {"checked", "queued", "sent"}, job : JobIds, item : Pairs]

JobTypes ==
  /\ requested \subseteq Models
  /\ jobs \in [JobIds -> JobType]
  /\ context \in [JobIds -> {"none", "live", "cancelled"}]
  /\ runner \in [JobIds -> RunnerType]
  /\ created \in 0..MaxJobs
  /\ cancelling \subseteq JobIds
  /\ retry \in [Retries -> RetryType]
  /\ disturbed \subseteq JobIds
  /\ \A j \in JobIds : /\ j > created <=> runner[j].at = "none"
                       /\ runner[j].at \in {"granted", "sent"} => runner[j].doing \in Pairs

(* A retest of an undisturbed job began after its runner had ended.         *)
RetestsAfter ==
  \A w \in Retries :
    retry[w].stage \in {"queued", "sent"} =>
      runner[retry[w].job].at = "over" \/ retry[w].job \in disturbed

(* Before its runner ends nothing but CancelJob makes anything of an        *)
(* undisturbed job cancelled, and its context has been cancelled before.    *)
CancelledByCall(j) ==
  /\ jobs[j].life = "cancelled" \/ j \in cancelling => context[j] = "cancelled"
  /\ context[j] = "cancelled" => j \in cancelling \/ jobs[j].life = "cancelled"
  /\ jobs[j].life # "cancelled" =>
       /\ \A protocol \in Protocols : jobs[j].tests[protocol] # "cancelled"
       /\ \A i \in Pairs : jobs[j].models[i].life # "cancelled"

(* Before the models are queued their contexts may be missing and what was  *)
(* found is what another job had found.                                     *)
NotBegun(j) ==
  /\ runner[j].at \in {"none", "spawned"} => context[j] = "none" /\ j \notin cancelling
  /\ \A i \in Pairs : runner[j].found[i] \in {"untested", "success"}
  /\ runner[j].at = "activating" /\ jobs[j].life = "cancelled" =>
       \A i \in Pairs : jobs[j].models[i] \in Closed

(* What the runner has found of a model, that model says; the model it is   *)
(* testing when the job is cancelled is closed by CancelJob.  It tests no   *)
(* model twice.                                                             *)
Begun(j) ==
  /\ \A m, n \in DOMAIN runner[j].todo : runner[j].todo[m] = runner[j].todo[n] => m = n
  /\ \A n \in DOMAIN runner[j].todo : runner[j].found[runner[j].todo[n]] = "untested"
  /\ runner[j].at \in {"granted", "sent"} =>
       /\ runner[j].found[runner[j].doing] = "untested"
       /\ \A n \in DOMAIN runner[j].todo : runner[j].todo[n] # runner[j].doing
  /\ runner[j].at = "closing" => runner[j].todo = << >>
  /\ \A i \in Pairs : runner[j].found[i] # "untested" => jobs[j].models[i] \in Closed
  /\ runner[j].at \in {"granted", "sent"} /\ jobs[j].life = "cancelled" =>
       jobs[j].models[runner[j].doing] \in Closed

(* Afterwards an open model is being retested, or CancelJob will close it;  *)
(* in a cancelled job only CancelJob is left.                               *)
Over(j) ==
  \A i \in Pairs : jobs[j].models[i] \notin Closed /\ j \notin cancelling =>
    /\ jobs[j].life # "cancelled" /\ jobs[j].models[i].status = "running"
    /\ \E w \in Retries : retry[w].stage \in {"queued", "sent"} /\ retry[w].job = j /\ retry[w].item = i

JobInv(j) ==
  /\ \A i \in Pairs : jobs[j].models[i] \in Open \cup Closed
  /\ runner[j].at # "over" => CancelledByCall(j)
  /\ runner[j].at \in Unbegun => NotBegun(j)
  /\ runner[j].at \notin Unbegun \cup {"over"} => Begun(j)
  /\ runner[j].at = "over" => Over(j)

CapabilityInv == JobTypes /\ RetestsAfter /\ \A j \in JobIds \ disturbed : JobInv(j)

-----------------------------------------------------------------------------
(* What the update of a job computes *)

(* The computed lives are lives, the models stay as they are, a cancelled   *)
(* job stays altogether, and a job is not cancelled by being computed while *)
(* a model runs or while nothing of it is cancelled.                        *)
LEMMA RecomputeFacts ==
  ASSUME NEW job \in JobType
  PROVE  /\ Recompute(job) \in JobType
         /\ Recompute(job).models = job.models
         /\ job.life = "cancelled" => Recompute(job) = job
         /\ job.life # "cancelled" /\ Recompute(job).life = "cancelled" =>
              \A i \in Pairs : job.models[i].status # "running"
         /\ /\ job.life # "cancelled"
            /\ \A protocol \in Protocols : job.tests[protocol] # "cancelled"
            /\ \A i \in Pairs : job.models[i].life # "cancelled"
            => /\ Recompute(job).life # "cancelled"
               /\ \A protocol \in Protocols : Recompute(job).tests[protocol] # "cancelled"
  <1>1. CASE job.life = "cancelled"
    BY <1>1 DEF Recompute
  <1>2. CASE job.life # "cancelled"
    <2> DEFINE tests == [protocol \in Protocols |-> RecomputeProtocol(job, protocol)]
    <2>1. Recompute(job) = [job EXCEPT !.tests = tests, !.life = RecomputeLife(job, tests)]
      BY <1>2 DEF Recompute
    <2>2. \A protocol \in Protocols : RecomputeProtocol(job, protocol) \in Lives
      BY DEF RecomputeProtocol, Lives
    <2>3. RecomputeLife(job, tests) \in Lives
      BY DEF RecomputeLife, Lives
    <2>4. tests \in [Protocols -> Lives]
      BY <2>2
    <2>5. RecomputeLife(job, tests) = "cancelled" =>
            \A i \in Pairs : job.models[i].status # "running"
      BY DEF RecomputeLife
    <2>6. ASSUME \A protocol \in Protocols : job.tests[protocol] # "cancelled",
                 \A i \in Pairs : job.models[i].life # "cancelled"
          PROVE  /\ RecomputeLife(job, tests) # "cancelled"
                 /\ \A protocol \in Protocols : tests[protocol] # "cancelled"
      <3>1. ASSUME NEW protocol \in Protocols
            PROVE  RecomputeProtocol(job, protocol) # "cancelled"
        <4>1. \A model \in requested : job.models[<<protocol, model>>].life # "cancelled"
          BY <2>6 DEF Pairs
        <4>2. "cancelled" \notin {r.life : r \in {job.models[<<protocol, model>>] :
                                                    model \in requested}}
          BY <4>1
        <4>3. {r.life : r \in {job.models[<<protocol, model>>] : model \in requested}}
                # {"cancelled"}
          BY <4>2
        <4> QED
          BY <2>6, <4>2, <4>3 DEF RecomputeProtocol
      <3>2. \A protocol \in Protocols : tests[protocol] # "cancelled"
        BY <3>1
      <3>3. {tests[protocol] : protocol \in Protocols} # {"cancelled"}
        BY <3>2
      <3> QED
        BY <3>2, <3>3 DEF RecomputeLife
    <2> HIDE DEF tests
    <2>7. job.life \in Lives /\ job.models \in [Pairs -> Result]
          /\ job = [life |-> job.life, tests |-> job.tests, models |-> job.models]
      BY DEF JobType
    <2>8. Recompute(job) = [life |-> RecomputeLife(job, tests), tests |-> tests,
                            models |-> job.models]
      BY <2>1, <2>7
    <2>9. Recompute(job) \in JobType
      BY <2>3, <2>4, <2>7, <2>8 DEF JobType
    <2> QED
      BY <1>2, <2>5, <2>6, <2>8, <2>9
  <1> QED
    BY <1>1, <1>2

(* One locked update.                                                       *)
LEMMA UpdateFacts ==
  ASSUME NEW j \in JobIds, NEW job \in JobType, jobs \in [JobIds -> JobType], UpdateJob(j, job)
  PROVE  /\ jobs' \in [JobIds -> JobType]
         /\ jobs'[j] = Recompute(job)
         /\ jobs'[j].models = job.models
         /\ \A k \in JobIds \ {j} : jobs'[k] = jobs[k]
         /\ job.life = "cancelled" => jobs'[j].life = "cancelled"
         /\ job.life # "cancelled" /\ jobs'[j].life = "cancelled" =>
              \A i \in Pairs : job.models[i].status # "running"
         /\ /\ job.life # "cancelled"
            /\ \A protocol \in Protocols : job.tests[protocol] # "cancelled"
            /\ \A i \in Pairs : job.models[i].life # "cancelled"
            => /\ jobs'[j].life # "cancelled"
               /\ \A protocol \in Protocols : jobs'[j].tests[protocol] # "cancelled"
  <1>1. jobs' = [jobs EXCEPT ![j] = Recompute(job)]
    BY DEF UpdateJob
  <1>2. jobs'[j] = Recompute(job) /\ \A k \in JobIds \ {j} : jobs'[k] = jobs[k]
    BY <1>1
  <1>3. Recompute(job) \in JobType
    BY RecomputeFacts
  <1>4. jobs' \in [JobIds -> JobType]
    BY <1>1, <1>3
  <1> QED
    BY <1>2, <1>4, RecomputeFacts

(* Writing the result of one model.                                         *)
LEMMA WithModelFacts ==
  ASSUME NEW job \in JobType, NEW item \in Pairs,
         NEW status \in {"running", "success", "failed"}
  PROVE  /\ WithModel(job, item, status) \in JobType
         /\ WithModel(job, item, status).life = job.life
         /\ WithModel(job, item, status).tests = job.tests
         /\ \A i \in Pairs \ {item} : WithModel(job, item, status).models[i] = job.models[i]
         /\ WithModel(job, item, status).models[item] \in Open \cup Closed
         /\ WithModel(job, item, status).models[item].life # "cancelled"
         /\ status = "running" => WithModel(job, item, status).models[item].status = "running"
         /\ status # "running" => WithModel(job, item, status).models[item] \in Closed
  <1> DEFINE result == [status |-> status, life |-> LifeOf(status)]
  <1>1. /\ result \in Result /\ result \in Open \cup Closed /\ result.life # "cancelled"
        /\ status = "running" => result.status = "running"
        /\ status # "running" => result \in Closed
    BY DEF LifeOf, Result, Open, Closed, Lives, Terminal
  <1>2. WithModel(job, item, status) = [job EXCEPT !.models[item] = result]
    BY DEF WithModel
  <1> HIDE DEF result
  <1>3. /\ job.life \in Lives /\ job.models \in [Pairs -> Result] /\ job.tests \in [Protocols -> Lives]
        /\ job = [life |-> job.life, tests |-> job.tests, models |-> job.models]
    BY DEF JobType
  <1>4. WithModel(job, item, status) =
          [life |-> job.life, tests |-> job.tests, models |-> [job.models EXCEPT ![item] = result]]
    BY <1>2, <1>3
  <1> QED
    BY <1>1, <1>3, <1>4 DEF JobType

-----------------------------------------------------------------------------
(* Steps of one job *)

LEMMA PairsKept == requested' = requested => Pairs' = Pairs /\ JobType' = JobType
                                             /\ RunnerType' = RunnerType /\ RetryType' = RetryType
  BY DEF Pairs, JobType, RunnerType, RetryType

(* A job is as it was when nothing of it has changed.                       *)
LEMMA SameJob ==
  ASSUME NEW j \in JobIds, JobInv(j), requested' = requested,
         jobs'[j] = jobs[j], context'[j] = context[j], runner'[j] = runner[j],
         j \in cancelling' <=> j \in cancelling,
         \A w \in Retries : retry[w].stage \in {"queued", "sent"} /\ retry[w].job = j =>
           retry'[w] = retry[w]
  PROVE  JobInv(j)'
  <1>1. Pairs' = Pairs
    BY PairsKept
  <1>2. CancelledByCall(j)' <=> CancelledByCall(j)
    BY <1>1 DEF CancelledByCall
  <1>3. NotBegun(j)' <=> NotBegun(j)
    BY <1>1 DEF NotBegun
  <1>4. Begun(j)' <=> Begun(j)
    BY <1>1 DEF Begun
  <1>5. Over(j) => Over(j)'
    <2> SUFFICES ASSUME Over(j), NEW i \in Pairs,
                        jobs[j].models[i] \notin Closed, j \notin cancelling
                 PROVE  /\ jobs[j].life # "cancelled" /\ jobs[j].models[i].status = "running"
                        /\ \E w \in Retries : /\ retry'[w].stage \in {"queued", "sent"}
                                              /\ retry'[w].job = j /\ retry'[w].item = i
      BY <1>1 DEF Over
    <2>1. PICK w \in Retries :
            retry[w].stage \in {"queued", "sent"} /\ retry[w].job = j /\ retry[w].item = i
      BY DEF Over
    <2> QED
      BY <2>1 DEF Over
  <1> QED
    BY <1>1, <1>2, <1>3, <1>4, <1>5 DEF JobInv

(* A step of one job leaves the others as they were.                        *)
LEMMA OneJob ==
  ASSUME CapabilityInv, NEW j \in JobIds, requested' = requested, JobTypes', RetestsAfter',
         disturbed \subseteq disturbed',
         \A k \in JobIds \ {j} :
           /\ jobs'[k] = jobs[k] /\ context'[k] = context[k] /\ runner'[k] = runner[k]
           /\ k \in cancelling' <=> k \in cancelling
           /\ \A w \in Retries : retry[w].stage \in {"queued", "sent"} /\ retry[w].job = k =>
                retry'[w] = retry[w],
         j \notin disturbed' => JobInv(j)'
  PROVE  CapabilityInv'
  <1>1. ASSUME NEW k \in JobIds, k \notin disturbed', k # j PROVE JobInv(k)'
    BY <1>1, SameJob DEF CapabilityInv
  <1> QED
    BY <1>1 DEF CapabilityInv, JobIds

(* A step of the runner of a job.                                           *)
LEMMA RunnerOnly ==
  ASSUME CapabilityInv, NEW j \in JobIds, runner[j].at \notin {"none", "over"},
         UNCHANGED <<requested, created, retry, disturbed, cancelling>>,
         \A k \in JobIds \ {j} : context'[k] = context[k] /\ jobs'[k] = jobs[k],
         jobs' \in [JobIds -> JobType],
         context' \in [JobIds -> {"none", "live", "cancelled"}],
         NEW r \in RunnerType, runner' = [runner EXCEPT ![j] = r],
         r.at # "none", r.at \in {"granted", "sent"} => r.doing \in Pairs,
         j \notin disturbed => JobInv(j)'
  PROVE  CapabilityInv'
  <1>1. /\ JobTypes /\ RetestsAfter /\ runner \in [JobIds -> RunnerType]
    BY DEF CapabilityInv, JobTypes
  <1>2. /\ runner' \in [JobIds -> RunnerType] /\ runner'[j] = r
        /\ \A k \in JobIds \ {j} : runner'[k] = runner[k]
    BY <1>1
  <1>3. JobTypes'
    <2>1. \A k \in JobIds : /\ k > created <=> runner'[k].at = "none"
                            /\ runner'[k].at \in {"granted", "sent"} => runner'[k].doing \in Pairs
      BY <1>1, <1>2 DEF JobTypes
    <2> QED
      BY <1>1, <1>2, <2>1, PairsKept DEF JobTypes
  <1>4. RetestsAfter'
    <2> SUFFICES ASSUME NEW w \in Retries, retry[w].stage \in {"queued", "sent"}
                 PROVE  runner'[retry[w].job].at = "over" \/ retry[w].job \in disturbed
      BY DEF RetestsAfter
    <2>1. retry[w].job \in JobIds
      BY <1>1 DEF JobTypes, RetryType, Idle
    <2>2. runner[retry[w].job].at = "over" \/ retry[w].job \in disturbed
      BY <1>1 DEF RetestsAfter
    <2> QED
      BY <1>2, <2>1, <2>2
  <1> QED
    BY <1>2, <1>3, <1>4, OneJob

(* Moving on, the rest of the runner unchanged.                             *)
LEMMA AtFacts ==
  ASSUME NEW j \in JobIds, runner \in [JobIds -> RunnerType], NEW place \in Places, At(j, place)
  PROVE  \E r \in RunnerType :
           /\ runner' = [runner EXCEPT ![j] = r]
           /\ r.at = place /\ r.todo = runner[j].todo /\ r.doing = runner[j].doing
           /\ r.found = runner[j].found
  <1> DEFINE r == [runner[j] EXCEPT !.at = place]
  <1>1. runner[j] \in RunnerType
    OBVIOUS
  <1>2. /\ r \in RunnerType /\ r.at = place /\ r.todo = runner[j].todo
        /\ r.doing = runner[j].doing /\ r.found = runner[j].found
    BY <1>1 DEF RunnerType
  <1>3. runner' = [runner EXCEPT ![j] = r]
    BY DEF At
  <1> QED
    BY <1>2, <1>3

LEMMA SetCancelFuncKept ==
  ASSUME CapabilityInv, NEW j \in JobIds, SetCancelFunc(j) PROVE CapabilityInv'
  <1>1. /\ runner[j].at = "spawned" /\ context' = [context EXCEPT ![j] = "live"]
        /\ At(j, "activating")
        /\ UNCHANGED <<requested, jobs, created, retry, disturbed, cancelling>>
    BY DEF SetCancelFunc
  <1>2. JobTypes /\ runner \in [JobIds -> RunnerType] /\ jobs \in [JobIds -> JobType]
        /\ context \in [JobIds -> {"none", "live", "cancelled"}]
    BY DEF CapabilityInv, JobTypes
  <1>3. PICK r \in RunnerType :
          /\ runner' = [runner EXCEPT ![j] = r]
          /\ r.at = "activating" /\ r.found = runner[j].found
    BY <1>1, <1>2, AtFacts DEF Places
  <1>4. /\ runner'[j] = r /\ context'[j] = "live"
        /\ context' \in [JobIds -> {"none", "live", "cancelled"}]
        /\ \A k \in JobIds \ {j} : context'[k] = context[k]
    BY <1>1, <1>2, <1>3
  <1>5. ASSUME j \notin disturbed PROVE JobInv(j)'
    <2>1. JobInv(j) /\ CancelledByCall(j) /\ NotBegun(j)
      BY <1>1, <1>5 DEF CapabilityInv, JobInv, Unbegun
    <2>2. context[j] = "none" /\ j \notin cancelling /\ jobs[j].life # "cancelled"
      BY <1>1, <2>1 DEF NotBegun, CancelledByCall
    <2>3. CancelledByCall(j)' /\ NotBegun(j)'
      BY <1>1, <1>3, <1>4, <2>1, <2>2, PairsKept DEF NotBegun, CancelledByCall
    <2> QED
      BY <1>1, <1>3, <1>4, <2>1, <2>3, PairsKept DEF JobInv, Unbegun
  <1> QED
    BY <1>1, <1>2, <1>3, <1>4, <1>5, RunnerOnly

LEMMA ActivateKept ==
  ASSUME CapabilityInv, NEW j \in JobIds, Activate(j) PROVE CapabilityInv'
  <1>1. /\ runner[j].at = "activating"
        /\ UNCHANGED <<requested, context, created, retry, disturbed, cancelling>>
    BY DEF Activate
  <1>2. JobTypes /\ runner \in [JobIds -> RunnerType] /\ jobs \in [JobIds -> JobType]
        /\ context \in [JobIds -> {"none", "live", "cancelled"}]
    BY DEF CapabilityInv, JobTypes
  <1>3. ASSUME j \notin disturbed PROVE JobInv(j) /\ CancelledByCall(j) /\ NotBegun(j)
    BY <1>1, <1>3 DEF CapabilityInv, JobInv, Unbegun
  <1>4. CASE context[j] = "cancelled" \/ jobs[j].life = "cancelled"
    <2>1. At(j, "over") /\ jobs' = jobs
      BY <1>4 DEF Activate
    <2>2. PICK r \in RunnerType : runner' = [runner EXCEPT ![j] = r] /\ r.at = "over"
      BY <1>2, <2>1, AtFacts DEF Places
    <2>3. runner'[j] = r
      BY <1>2, <2>2
    <2>4. ASSUME j \notin disturbed PROVE JobInv(j)'
      <3>1. j \in cancelling \/ \A i \in Pairs : jobs[j].models[i] \in Closed
        BY <1>1, <1>3, <1>4, <2>4 DEF CancelledByCall, NotBegun
      <3>2. Over(j)'
        BY <1>1, <2>1, <3>1, PairsKept DEF Over
      <3> QED
        BY <1>1, <1>3, <2>1, <2>2, <2>3, <2>4, <3>2, PairsKept DEF JobInv, Unbegun
    <2> QED
      BY <1>1, <1>2, <2>1, <2>2, <2>4, RunnerOnly
  <1>5. CASE ~ (context[j] = "cancelled" \/ jobs[j].life = "cancelled")
    <2> DEFINE job == [jobs[j] EXCEPT !.life = "active"]
    <2>1. UpdateJob(j, job) /\ At(j, "starting")
      BY <1>5 DEF Activate
    <2>2. PICK r \in RunnerType :
            runner' = [runner EXCEPT ![j] = r] /\ r.at = "starting" /\ r.found = runner[j].found
      BY <1>2, <2>1, AtFacts DEF Places
    <2>3. runner'[j] = r
      BY <1>2, <2>2
    <2>4. /\ job \in JobType /\ job.life = "active" /\ job.tests = jobs[j].tests
          /\ job.models = jobs[j].models
      BY <1>2 DEF JobType, Lives
    <2> HIDE DEF job
    <2>5. /\ jobs' \in [JobIds -> JobType] /\ jobs'[j].models = jobs[j].models
          /\ \A k \in JobIds \ {j} : jobs'[k] = jobs[k]
          /\ /\ \A protocol \in Protocols : jobs[j].tests[protocol] # "cancelled"
             /\ \A i \in Pairs : jobs[j].models[i].life # "cancelled"
             => /\ jobs'[j].life # "cancelled"
                /\ \A protocol \in Protocols : jobs'[j].tests[protocol] # "cancelled"
      BY <1>2, <2>1, <2>4, UpdateFacts
    <2>6. ASSUME j \notin disturbed PROVE JobInv(j)'
      <3>1. JobInv(j) /\ CancelledByCall(j) /\ NotBegun(j)
        BY <1>3, <2>6
      <3>2. /\ jobs'[j].life # "cancelled"
            /\ \A protocol \in Protocols : jobs'[j].tests[protocol] # "cancelled"
        BY <1>5, <2>5, <3>1 DEF CancelledByCall
      <3>3. CancelledByCall(j)'
        BY <1>1, <1>5, <2>5, <3>1, <3>2, PairsKept DEF CancelledByCall
      <3>4. NotBegun(j)'
        BY <1>1, <2>2, <2>3, <3>1, PairsKept DEF NotBegun
      <3> QED
        BY <1>1, <2>2, <2>3, <2>5, <3>1, <3>3, <3>4, PairsKept DEF JobInv, Unbegun
    <2> QED
      BY <1>1, <1>2, <2>2, <2>5, <2>6, RunnerOnly
  <1> QED
    BY <1>4, <1>5

LEMMA InitializeTestsKept ==
  ASSUME CapabilityInv, NEW j \in JobIds, InitializeTests(j) PROVE CapabilityInv'
  <1> DEFINE reused == {i \in Pairs : runner[j].found[i] = "success"}
             models == [i \in Pairs |->
                          IF i \in reused THEN [status |-> "success", life |-> "done"]
                                          ELSE [status |-> "queued", life |-> "pending"]]
             tests == [protocol \in Protocols |-> "pending"]
             job == [jobs[j] EXCEPT !.tests = tests, !.models = models]
  <1>1. /\ runner[j].at = "starting" /\ UpdateJob(j, job)
        /\ UNCHANGED <<requested, context, created, retry, disturbed, cancelling>>
    BY DEF InitializeTests
  <1>2. PICK order \in SetToSeqs(Pairs \ reused) :
          runner' = [runner EXCEPT ![j].at = "testing", ![j].todo = order]
    BY DEF InitializeTests
  <1>3. JobTypes /\ runner \in [JobIds -> RunnerType] /\ jobs \in [JobIds -> JobType]
        /\ context \in [JobIds -> {"none", "live", "cancelled"}]
        /\ runner[j] \in RunnerType /\ jobs[j] \in JobType
    BY DEF CapabilityInv, JobTypes
  <1>4. /\ models \in [Pairs -> Result] /\ tests \in [Protocols -> Lives]
        /\ \A i \in Pairs : /\ models[i] \in Open \cup Closed /\ models[i].life # "cancelled"
                            /\ i \in reused => models[i] \in Closed
        /\ \A protocol \in Protocols : tests[protocol] # "cancelled"
    BY DEF Result, Lives, Open, Closed, Terminal
  <1> HIDE DEF models, tests
  <1>5. job \in JobType /\ job.life = jobs[j].life /\ job.tests = tests /\ job.models = models
    BY <1>3, <1>4 DEF JobType
  <1> HIDE DEF job
  <1>6. /\ jobs' \in [JobIds -> JobType] /\ jobs'[j].models = models
        /\ \A k \in JobIds \ {j} : jobs'[k] = jobs[k]
        /\ jobs[j].life = "cancelled" => jobs'[j].life = "cancelled"
        /\ jobs[j].life # "cancelled" =>
             /\ jobs'[j].life # "cancelled"
             /\ \A protocol \in Protocols : jobs'[j].tests[protocol] # "cancelled"
    BY <1>1, <1>3, <1>4, <1>5, UpdateFacts
  <1>7. PICK n \in Nat : /\ order \in [1..n -> Pairs \ reused]
                         /\ \A a, b \in 1..n : order[a] = order[b] => a = b
    <2>1. IsFiniteSet(Pairs \ reused)
      <3>1. IsFiniteSet(requested)
        BY <1>3, CapabilityAssumption, FS_Subset DEF JobTypes
      <3>2. IsFiniteSet(Pairs)
        BY <3>1, CapabilityAssumption, FS_Product DEF Pairs
      <3> QED
        BY <3>2, FS_Difference
    <2>2. Cardinality(Pairs \ reused) \in Nat
      BY <2>1, FS_CardinalityType
    <2> QED
      BY <2>2 DEF SetToSeqs
  <1>8. order \in Seq(Pairs) /\ DOMAIN order = 1..n
    BY <1>7
  <1> DEFINE r == [runner[j] EXCEPT !.at = "testing", !.todo = order]
  <1>9. /\ r \in RunnerType /\ r.at = "testing" /\ r.todo = order /\ r.found = runner[j].found
    BY <1>3, <1>8 DEF RunnerType, Places
  <1>10. runner' = [runner EXCEPT ![j] = r]
    BY <1>2, <1>3
  <1> HIDE DEF r
  <1>11. runner'[j] = r
    BY <1>3, <1>10
  <1>12. ASSUME j \notin disturbed PROVE JobInv(j)'
    <2>1. JobInv(j) /\ CancelledByCall(j) /\ NotBegun(j)
      BY <1>1, <1>12 DEF CapabilityInv, JobInv, Unbegun
    <2>2. CancelledByCall(j)'
      BY <1>1, <1>4, <1>6, <2>1, PairsKept DEF CancelledByCall
    <2>3. \A i \in Pairs : r.found[i] # "untested" => i \in reused
      BY <1>9, <2>1 DEF NotBegun
    <2>4. /\ \A a, b \in DOMAIN order : order[a] = order[b] => a = b
          /\ \A a \in DOMAIN order : r.found[order[a]] = "untested"
      BY <1>7, <1>8, <2>3
    <2>5. Begun(j)'
      BY <1>1, <1>4, <1>6, <1>9, <1>11, <2>3, <2>4, PairsKept DEF Begun
    <2> QED
      BY <1>1, <1>4, <1>6, <1>9, <1>11, <2>2, <2>5, PairsKept DEF JobInv, Unbegun
  <1> QED
    BY <1>1, <1>3, <1>6, <1>9, <1>10, <1>12, RunnerOnly

(* The next model is granted while the context lives, so no cancellation    *)
(* has reached the job.                                                     *)
LEMMA AcquireSendSlotKept ==
  ASSUME CapabilityInv, NEW j \in JobIds, AcquireSendSlot(j) PROVE CapabilityInv'
  <1> DEFINE todo == runner[j].todo
             r == [runner[j] EXCEPT !.at = "granted", !.doing = Head(todo), !.todo = Tail(todo)]
  <1>1. /\ runner[j].at = "testing" /\ todo # << >> /\ context[j] = "live"
        /\ runner' = [runner EXCEPT ![j].at = "granted", ![j].doing = Head(todo),
                                    ![j].todo = Tail(todo)]
        /\ UNCHANGED <<requested, jobs, context, created, retry, disturbed, cancelling>>
    BY DEF AcquireSendSlot
  <1>2. JobTypes /\ runner \in [JobIds -> RunnerType] /\ jobs \in [JobIds -> JobType]
        /\ context \in [JobIds -> {"none", "live", "cancelled"}] /\ runner[j] \in RunnerType
    BY DEF CapabilityInv, JobTypes
  <1>3. todo \in Seq(Pairs)
    BY <1>2 DEF RunnerType
  <1>4. /\ Head(todo) \in Pairs /\ Head(todo) = todo[1] /\ Tail(todo) \in Seq(Pairs)
        /\ 1 \in DOMAIN todo
        /\ \A n \in DOMAIN Tail(todo) : n + 1 \in DOMAIN todo /\ Tail(todo)[n] = todo[n + 1]
        /\ \A n \in DOMAIN Tail(todo) : n \in Nat \ {0}
    BY <1>1, <1>3
  <1>5. /\ r \in RunnerType /\ r.at = "granted" /\ r.doing = Head(todo) /\ r.todo = Tail(todo)
        /\ r.found = runner[j].found
    BY <1>2, <1>4 DEF RunnerType, Places
  <1>6. runner' = [runner EXCEPT ![j] = r]
    BY <1>1, <1>2
  <1> HIDE DEF r
  <1>7. runner'[j] = r
    BY <1>2, <1>6
  <1>8. ASSUME j \notin disturbed PROVE JobInv(j)'
    <2>1. JobInv(j) /\ CancelledByCall(j) /\ Begun(j)
      BY <1>1, <1>8 DEF CapabilityInv, JobInv, Unbegun
    <2>2. jobs[j].life # "cancelled"
      BY <1>1, <2>1 DEF CancelledByCall
    <2>3. CancelledByCall(j)'
      BY <1>1, <2>1, PairsKept DEF CancelledByCall
    <2>4. /\ \A m, n \in DOMAIN todo : todo[m] = todo[n] => m = n
          /\ \A n \in DOMAIN todo : runner[j].found[todo[n]] = "untested"
      BY <2>1 DEF Begun
    <2>5. /\ \A m, n \in DOMAIN Tail(todo) : Tail(todo)[m] = Tail(todo)[n] => m = n
          /\ \A n \in DOMAIN Tail(todo) : /\ runner[j].found[Tail(todo)[n]] = "untested"
                                          /\ Tail(todo)[n] # Head(todo)
          /\ runner[j].found[Head(todo)] = "untested"
      BY <1>4, <2>4
    <2>6. /\ runner'[j].at = "granted" /\ runner'[j].doing = Head(todo)
          /\ runner'[j].todo = Tail(todo) /\ runner'[j].found = runner[j].found
          /\ jobs' = jobs /\ Pairs' = Pairs
      BY <1>1, <1>5, <1>7, PairsKept
    <2>7. \A i \in Pairs : runner[j].found[i] # "untested" => jobs[j].models[i] \in Closed
      BY <2>1 DEF Begun
    <2> DEFINE head == Head(todo)
               tail == Tail(todo)
    <2> HIDE DEF head, tail
    <2>8. /\ \A m, n \in DOMAIN tail : tail[m] = tail[n] => m = n
          /\ \A n \in DOMAIN tail : runner[j].found[tail[n]] = "untested" /\ tail[n] # head
          /\ runner[j].found[head] = "untested"
          /\ runner'[j].doing = head /\ runner'[j].todo = tail
      BY <2>5, <2>6 DEF head, tail
    <2>9. Begun(j)'
      BY <2>2, <2>6, <2>7, <2>8 DEF Begun
    <2> QED
      BY <1>1, <1>5, <1>7, <2>1, <2>3, <2>9, PairsKept DEF JobInv, Unbegun
  <1> QED
    BY <1>1, <1>2, <1>4, <1>5, <1>6, <1>8, RunnerOnly

LEMMA StopTestingKept ==
  ASSUME CapabilityInv, NEW j \in JobIds, StopTesting(j) PROVE CapabilityInv'
  <1> DEFINE r == [runner[j] EXCEPT !.at = "closing", !.todo = << >>]
  <1>1. /\ runner[j].at = "testing"
        /\ runner' = [runner EXCEPT ![j].at = "closing", ![j].todo = << >>]
        /\ UNCHANGED <<requested, jobs, context, created, retry, disturbed, cancelling>>
    BY DEF StopTesting
  <1>2. JobTypes /\ runner \in [JobIds -> RunnerType] /\ jobs \in [JobIds -> JobType]
        /\ context \in [JobIds -> {"none", "live", "cancelled"}] /\ runner[j] \in RunnerType
    BY DEF CapabilityInv, JobTypes
  <1>3. /\ r \in RunnerType /\ r.at = "closing" /\ r.todo = << >> /\ r.found = runner[j].found
        /\ DOMAIN r.todo = {}
    <2>1. << >> \in Seq(Pairs) /\ DOMAIN << >> = {}
      OBVIOUS
    <2> QED
      BY <1>2, <2>1 DEF RunnerType, Places
  <1>4. runner' = [runner EXCEPT ![j] = r]
    BY <1>1, <1>2
  <1> HIDE DEF r
  <1>5. runner'[j] = r
    BY <1>2, <1>4
  <1>6. ASSUME j \notin disturbed PROVE JobInv(j)'
    <2>1. JobInv(j) /\ CancelledByCall(j) /\ Begun(j)
      BY <1>1, <1>6 DEF CapabilityInv, JobInv, Unbegun
    <2>2. CancelledByCall(j)'
      BY <1>1, <1>3, <1>5, <2>1, PairsKept DEF CancelledByCall
    <2>3. Begun(j)'
      BY <1>1, <1>3, <1>5, <2>1, PairsKept DEF Begun
    <2> QED
      BY <1>1, <1>3, <1>5, <2>1, <2>2, <2>3, PairsKept DEF JobInv, Unbegun
  <1> QED
    BY <1>1, <1>2, <1>3, <1>4, <1>6, RunnerOnly

(* What a step of the test of a model writes.  A step that goes back to the *)
(* queue has found something and closes the model, or the job is cancelled  *)
(* and the model has been closed.                                           *)
LEMMA TestStepKept ==
  ASSUME CapabilityInv, NEW j \in JobIds, runner[j].at \in {"granted", "sent"},
         UNCHANGED <<requested, context, created, retry, disturbed, cancelling>>,
         NEW status \in {"running", "success", "failed"},
         \/ /\ UpdateJob(j, WithModel(jobs[j], runner[j].doing, status))
            /\ status # "running" \/ jobs[j].life # "cancelled"
         \/ jobs[j].life = "cancelled" /\ jobs' = jobs,
         NEW result \in {"success", "failed"},
         \/ At(j, "sent")
         \/ Finds(j, runner[j].doing, result) /\ status # "running"
  PROVE  CapabilityInv'
  <1> DEFINE item == runner[j].doing
  <1>1. JobTypes /\ runner \in [JobIds -> RunnerType] /\ jobs \in [JobIds -> JobType]
        /\ context \in [JobIds -> {"none", "live", "cancelled"}] /\ runner[j] \in RunnerType
        /\ item \in Pairs /\ jobs[j] \in JobType
    BY DEF CapabilityInv, JobTypes
  <1>2. \E r \in RunnerType :
          /\ runner' = [runner EXCEPT ![j] = r] /\ r.todo = runner[j].todo
          /\ \/ r.at = "sent" /\ r.doing = item /\ r.found = runner[j].found
             \/ /\ r.at = "testing" /\ r.doing = << >> /\ status # "running"
                /\ r.found = [runner[j].found EXCEPT ![item] = result]
    <2>1. CASE At(j, "sent")
      BY <1>1, <2>1, AtFacts DEF Places
    <2>2. CASE Finds(j, item, result) /\ status # "running"
      <3> DEFINE r == [runner[j] EXCEPT !.at = "testing", !.doing = << >>,
                                        !.found = [runner[j].found EXCEPT ![item] = result]]
      <3>1. /\ r \in RunnerType /\ r.todo = runner[j].todo /\ r.at = "testing" /\ r.doing = << >>
            /\ r.found = [runner[j].found EXCEPT ![item] = result]
        BY <1>1 DEF RunnerType, Places
      <3>2. runner' = [runner EXCEPT ![j].at = "testing", ![j].doing = << >>,
                                     ![j].found[item] = result]
        BY <2>2 DEF Finds
      <3> HIDE DEF item
      <3>3. runner' = [runner EXCEPT ![j] = r]
        BY <1>1, <3>2
      <3> QED
        BY <2>2, <3>1, <3>3
    <2> QED
      BY <2>1, <2>2
  <1>3. PICK r \in RunnerType :
          /\ runner' = [runner EXCEPT ![j] = r] /\ r.todo = runner[j].todo
          /\ \/ r.at = "sent" /\ r.doing = item /\ r.found = runner[j].found
             \/ /\ r.at = "testing" /\ r.doing = << >> /\ status # "running"
                /\ r.found = [runner[j].found EXCEPT ![item] = result]
    BY <1>2
  <1>4. runner'[j] = r
    BY <1>1, <1>3
  <1>5. /\ jobs' \in [JobIds -> JobType]
        /\ \A k \in JobIds \ {j} : jobs'[k] = jobs[k]
        /\ \A i \in Pairs \ {item} : jobs'[j].models[i] = jobs[j].models[i]
        /\ jobs[j].life = "cancelled" => jobs'[j].life = "cancelled"
        /\ \/ jobs[j].life = "cancelled" /\ jobs' = jobs
           \/ /\ jobs'[j].models[item] \in Open \cup Closed
              /\ jobs'[j].models[item].life # "cancelled"
              /\ status # "running" => jobs'[j].models[item] \in Closed
              /\ status # "running" \/ jobs[j].life # "cancelled"
        /\ /\ jobs[j].life # "cancelled"
           /\ \A protocol \in Protocols : jobs[j].tests[protocol] # "cancelled"
           /\ \A i \in Pairs : jobs[j].models[i].life # "cancelled"
           => /\ jobs'[j].life # "cancelled"
              /\ \A protocol \in Protocols : jobs'[j].tests[protocol] # "cancelled"
    <2>1. CASE jobs[j].life = "cancelled" /\ jobs' = jobs
      BY <1>1, <2>1
    <2>2. CASE /\ UpdateJob(j, WithModel(jobs[j], item, status))
               /\ status # "running" \/ jobs[j].life # "cancelled"
      <3> DEFINE job == WithModel(jobs[j], item, status)
      <3>1. /\ job \in JobType /\ job.life = jobs[j].life /\ job.tests = jobs[j].tests
            /\ \A i \in Pairs \ {item} : job.models[i] = jobs[j].models[i]
            /\ job.models[item] \in Open \cup Closed /\ job.models[item].life # "cancelled"
            /\ status # "running" => job.models[item] \in Closed
        BY <1>1, WithModelFacts
      <3> HIDE DEF job
      <3>2. UpdateJob(j, job)
        BY <2>2 DEF job
      <3> QED
        BY <1>1, <2>2, <3>1, <3>2, UpdateFacts
    <2> QED
      BY <2>1, <2>2
  <1>6. ASSUME j \notin disturbed PROVE JobInv(j)'
    <2>1. JobInv(j) /\ CancelledByCall(j) /\ Begun(j)
      BY <1>6 DEF CapabilityInv, JobInv, Unbegun
    <2>2. jobs[j].life # "cancelled" => jobs'[j].life # "cancelled"
      BY <1>5, <2>1 DEF CancelledByCall
    <2>3. CancelledByCall(j)'
      BY <1>5, <2>1, <2>2, PairsKept DEF CancelledByCall
    <2>4. jobs[j].life = "cancelled" => jobs[j].models[item] \in Closed
      BY <2>1 DEF Begun
    <2>5. /\ runner[j].found[item] = "untested"
          /\ \A n \in DOMAIN r.todo : r.todo[n] # item
          /\ \A m, n \in DOMAIN r.todo : r.todo[m] = r.todo[n] => m = n
          /\ \A n \in DOMAIN r.todo : r.todo[n] \in Pairs /\ r.found[r.todo[n]] = "untested"
      <3>1. \A n \in DOMAIN r.todo : r.todo[n] \in Pairs
        BY DEF RunnerType
      <3> QED
        BY <1>1, <1>3, <2>1, <3>1 DEF Begun, RunnerType
    <2>6. \A i \in Pairs : r.found[i] # "untested" => jobs'[j].models[i] \in Closed
      <3> SUFFICES ASSUME NEW i \in Pairs, r.found[i] # "untested"
                   PROVE  jobs'[j].models[i] \in Closed
        OBVIOUS
      <3>1. CASE i = item
        BY <1>1, <1>3, <1>5, <2>4, <2>5, <3>1 DEF RunnerType
      <3>2. CASE i # item
        BY <1>1, <1>3, <1>5, <2>1, <3>2 DEF Begun, RunnerType
      <3> QED
        BY <3>1, <3>2
    <2>7. r.at = "sent" /\ jobs'[j].life = "cancelled" => jobs'[j].models[item] \in Closed
      BY <1>5, <2>2, <2>4
    <2>8. Begun(j)'
      BY <1>3, <1>4, <2>5, <2>6, <2>7, PairsKept DEF Begun
    <2> QED
      BY <1>3, <1>4, <1>5, <2>1, <2>3, <2>8, PairsKept DEF JobInv, Unbegun
  <1> QED
    BY <1>1, <1>3, <1>5, <1>6, RunnerOnly

LEMMA SendTestKept ==
  ASSUME CapabilityInv, NEW j \in JobIds, SendTest(j) PROVE CapabilityInv'
  <1>1. /\ runner[j].at \in {"granted", "sent"}
        /\ UNCHANGED <<requested, context, created, retry, disturbed, cancelling>>
    BY DEF SendTest
  <1>2. CASE At(j, "sent") /\ jobs[j].life = "cancelled" /\ jobs' = jobs
    BY <1>1, <1>2, TestStepKept
  <1>3. CASE /\ At(j, "sent") /\ jobs[j].life # "cancelled"
             /\ UpdateJob(j, WithModel(jobs[j], runner[j].doing, "running"))
    BY <1>1, <1>3, TestStepKept
  <1>4. CASE /\ Finds(j, runner[j].doing, "failed")
             /\ UpdateJob(j, WithModel(jobs[j], runner[j].doing, "failed"))
    <2>1. "failed" \in {"success", "failed"} /\ "failed" # "running"
      OBVIOUS
    <2> QED
      BY <1>1, <1>4, <2>1, TestStepKept
  <1> QED
    BY <1>2, <1>3, <1>4 DEF SendTest

LEMMA FinishTestKept ==
  ASSUME CapabilityInv, NEW j \in JobIds, FinishTest(j) PROVE CapabilityInv'
  <1>1. /\ runner[j].at \in {"granted", "sent"}
        /\ UNCHANGED <<requested, context, created, retry, disturbed, cancelling>>
    BY DEF FinishTest
  <1>2. CASE /\ Finds(j, runner[j].doing, "success")
             /\ UpdateJob(j, WithModel(jobs[j], runner[j].doing, "success"))
    <2>1. "success" # "running"
      OBVIOUS
    <2> QED
      BY <1>1, <1>2, <2>1, TestStepKept
  <1>3. CASE Finds(j, runner[j].doing, "failed") /\ jobs[j].life = "cancelled" /\ jobs' = jobs
    <2>1. "failed" # "running"
      OBVIOUS
    <2> QED
      BY <1>1, <1>3, <2>1, TestStepKept
  <1>4. CASE /\ Finds(j, runner[j].doing, "failed")
             /\ UpdateJob(j, WithModel(jobs[j], runner[j].doing, "failed"))
    <2>1. "failed" # "running"
      OBVIOUS
    <2> QED
      BY <1>1, <1>4, <2>1, TestStepKept
  <1> QED
    BY <1>2, <1>3, <1>4 DEF FinishTest

(* The models that were not reached are closed; those of which something    *)
(* was found are closed already, so that none keeps its life.               *)
LEMMA CloseProtocolKept ==
  ASSUME CapabilityInv, NEW j \in JobIds, NEW protocol \in Protocols, CloseProtocol(j, protocol)
  PROVE  CapabilityInv'
  <1> DEFINE was == runner[j].found
             failed == \A i \in Of(protocol) : was[i] # "success"
             skipped == [i \in Pairs |->
                           IF i \in Of(protocol) /\ was[i] = "untested"
                           THEN [status |-> "skipped", life |-> "done"]
                           ELSE IF i \in Of(protocol) /\ failed
                                   /\ jobs[j].models[i].status \in {"queued", "running"}
                           THEN [jobs[j].models[i] EXCEPT !.status = "skipped"]
                           ELSE jobs[j].models[i]]
             job == [jobs[j] EXCEPT !.models = skipped]
             found == [i \in Pairs |-> IF i \in Of(protocol) THEN "closed" ELSE was[i]]
             r == [runner[j] EXCEPT !.found = found]
  <1>1. /\ runner[j].at = "closing" /\ UpdateJob(j, job)
        /\ UNCHANGED <<requested, context, created, retry, disturbed, cancelling>>
    BY DEF CloseProtocol
  <1>2. runner' = [runner EXCEPT ![j].found =
                     [i \in Pairs |-> IF i \in Of(protocol) THEN "closed" ELSE @[i]]]
    BY DEF CloseProtocol
  <1>3. JobTypes /\ runner \in [JobIds -> RunnerType] /\ jobs \in [JobIds -> JobType]
        /\ context \in [JobIds -> {"none", "live", "cancelled"}]
        /\ runner[j] \in RunnerType /\ jobs[j] \in JobType
    BY DEF CapabilityInv, JobTypes
  <1>4. /\ found \in [Pairs -> {"untested", "success", "failed", "closed"}]
        /\ \A i \in Pairs : found[i] = IF i \in Of(protocol) THEN "closed" ELSE was[i]
    BY <1>3 DEF RunnerType
  <1>5. runner' = [runner EXCEPT ![j] = r]
    BY <1>2, <1>3
  <1>6. /\ skipped \in [Pairs -> Result]
        /\ \A i \in Pairs :
             /\ i \in Of(protocol) /\ was[i] = "untested" => skipped[i] \in Closed
             /\ jobs[j].models[i] \in Closed => skipped[i] \in Closed
             /\ i \notin Of(protocol) => skipped[i] = jobs[j].models[i]
             /\ jobs[j].models[i].life # "cancelled" => skipped[i].life # "cancelled"
    <2> SUFFICES ASSUME NEW i \in Pairs
                 PROVE  /\ skipped[i] \in Result
                        /\ i \in Of(protocol) /\ was[i] = "untested" => skipped[i] \in Closed
                        /\ jobs[j].models[i] \in Closed => skipped[i] \in Closed
                        /\ i \notin Of(protocol) => skipped[i] = jobs[j].models[i]
                        /\ jobs[j].models[i].life # "cancelled" => skipped[i].life # "cancelled"
      OBVIOUS
    <2>1. jobs[j].models[i] \in Result
      BY <1>3 DEF JobType
    <2>2. CASE i \in Of(protocol) /\ was[i] = "untested"
      <3>1. skipped[i] = [status |-> "skipped", life |-> "done"]
        BY <2>2
      <3> HIDE DEF skipped
      <3> QED
        BY <2>2, <3>1 DEF Result, Closed, Lives, Terminal
    <2>3. CASE /\ ~ (i \in Of(protocol) /\ was[i] = "untested")
               /\ i \in Of(protocol) /\ failed
               /\ jobs[j].models[i].status \in {"queued", "running"}
      <3>1. skipped[i] = [jobs[j].models[i] EXCEPT !.status = "skipped"]
        BY <2>3
      <3>2. jobs[j].models[i] \notin Closed
        BY <2>3 DEF Closed
      <3> HIDE DEF skipped
      <3> QED
        BY <2>1, <2>3, <3>1, <3>2 DEF Result
    <2>4. CASE /\ ~ (i \in Of(protocol) /\ was[i] = "untested")
               /\ ~ (/\ i \in Of(protocol) /\ failed
                     /\ jobs[j].models[i].status \in {"queued", "running"})
      <3>1. skipped[i] = jobs[j].models[i]
        BY <2>4
      <3> HIDE DEF skipped
      <3> QED
        BY <2>1, <2>4, <3>1
    <2> QED
      BY <2>2, <2>3, <2>4
  <1> HIDE DEF skipped, found
  <1>7. /\ r \in RunnerType /\ r.at = "closing" /\ r.todo = runner[j].todo /\ r.found = found
    BY <1>1, <1>3, <1>4 DEF RunnerType
  <1> HIDE DEF r
  <1>8. runner'[j] = r
    BY <1>3, <1>5
  <1>9. job \in JobType /\ job.life = jobs[j].life /\ job.tests = jobs[j].tests /\ job.models = skipped
    BY <1>3, <1>6 DEF JobType
  <1> HIDE DEF job
  <1>10. /\ jobs' \in [JobIds -> JobType] /\ jobs'[j].models = skipped
         /\ \A k \in JobIds \ {j} : jobs'[k] = jobs[k]
         /\ jobs[j].life = "cancelled" => jobs'[j].life = "cancelled"
         /\ /\ jobs[j].life # "cancelled"
            /\ \A p \in Protocols : jobs[j].tests[p] # "cancelled"
            /\ \A i \in Pairs : skipped[i].life # "cancelled"
            => /\ jobs'[j].life # "cancelled"
               /\ \A p \in Protocols : jobs'[j].tests[p] # "cancelled"
    BY <1>1, <1>3, <1>9, UpdateFacts
  <1>11. ASSUME j \notin disturbed PROVE JobInv(j)'
    <2>1. JobInv(j) /\ CancelledByCall(j) /\ Begun(j)
      BY <1>1, <1>11 DEF CapabilityInv, JobInv, Unbegun
    <2>2. \A i \in Pairs : was[i] # "untested" => jobs[j].models[i] \in Closed
      BY <2>1 DEF Begun
    <2>3. \A i \in Pairs : found[i] # "untested" => skipped[i] \in Closed
      BY <1>4, <1>6, <2>2
    <2>4. \A i \in Pairs : skipped[i] \in Open \cup Closed
      BY <1>6, <2>1, <2>2 DEF JobInv
    <2>5. CancelledByCall(j)'
      BY <1>1, <1>6, <1>10, <2>1, PairsKept DEF CancelledByCall
    <2>6. /\ runner[j].todo = << >> /\ DOMAIN runner[j].todo = {}
      BY <1>1, <2>1 DEF Begun
    <2>7. Begun(j)'
      BY <1>7, <1>8, <1>10, <1>1, <2>3, <2>6, PairsKept DEF Begun
    <2> QED
      BY <1>1, <1>7, <1>8, <1>10, <2>4, <2>5, <2>7, PairsKept DEF JobInv, Unbegun
  <1> QED
    BY <1>1, <1>3, <1>5, <1>7, <1>10, <1>11, RunnerOnly

LEMMA FinishJobKept ==
  ASSUME CapabilityInv, NEW j \in JobIds, FinishJob(j) PROVE CapabilityInv'
  <1>1. /\ runner[j].at = "closing" /\ UpdateJob(j, jobs[j]) /\ At(j, "over")
        /\ \A i \in Pairs : runner[j].found[i] = "closed"
        /\ UNCHANGED <<requested, context, created, retry, disturbed, cancelling>>
    BY DEF FinishJob
  <1>2. JobTypes /\ runner \in [JobIds -> RunnerType] /\ jobs \in [JobIds -> JobType]
        /\ context \in [JobIds -> {"none", "live", "cancelled"}] /\ jobs[j] \in JobType
    BY DEF CapabilityInv, JobTypes
  <1>3. PICK r \in RunnerType : runner' = [runner EXCEPT ![j] = r] /\ r.at = "over"
    BY <1>1, <1>2, AtFacts DEF Places
  <1>4. runner'[j] = r
    BY <1>2, <1>3
  <1>5. /\ jobs' \in [JobIds -> JobType] /\ jobs'[j].models = jobs[j].models
        /\ \A k \in JobIds \ {j} : jobs'[k] = jobs[k]
    BY <1>1, <1>2, UpdateFacts
  <1>6. ASSUME j \notin disturbed PROVE JobInv(j)'
    <2>1. Begun(j)
      BY <1>1, <1>6 DEF CapabilityInv, JobInv, Unbegun
    <2>2. \A i \in Pairs : jobs'[j].models[i] \in Closed
      BY <1>1, <1>5, <2>1 DEF Begun
    <2>3. Over(j)'
      BY <1>1, <2>2, PairsKept DEF Over
    <2> QED
      BY <1>1, <1>3, <1>4, <2>2, <2>3, PairsKept DEF JobInv, Unbegun
  <1> QED
    BY <1>1, <1>2, <1>3, <1>5, <1>6, RunnerOnly

(* A new job begins with nothing but what an earlier job had found.         *)
LEMMA CreateJobKept ==
  ASSUME CapabilityInv, CreateJob,
         UNCHANGED <<requested, jobs, context, cancelling, retry, disturbed>>
  PROVE  CapabilityInv'
  <1>0. PICK j \in JobIds : j = created'
    BY CapabilityAssumption DEF CapabilityInv, JobTypes, CreateJob, JobIds
  <1>1. /\ JobTypes /\ RetestsAfter /\ runner \in [JobIds -> RunnerType]
        /\ created \in Nat /\ created < MaxJobs /\ created' = created + 1 /\ j = created + 1
        /\ \A k \in JobIds : k > created <=> runner[k].at = "none"
    BY <1>0, CapabilityAssumption DEF CapabilityInv, JobTypes, CreateJob, JobIds
  <1>2. PICK reused \in {{}} \cup {Successes(k) : k \in 1..created} :
          runner' = [runner EXCEPT ![j] =
                       [@ EXCEPT !.at = "spawned",
                                 !.found = [i \in Pairs |-> IF i \in reused THEN "success"
                                                                            ELSE "untested"]]]
    BY <1>0 DEF CreateJob
  <1> DEFINE found == [i \in Pairs |-> IF i \in reused THEN "success" ELSE "untested"]
             r == [runner[j] EXCEPT !.at = "spawned", !.found = found]
  <1>3. /\ found \in [Pairs -> {"untested", "success", "failed", "closed"}]
        /\ \A i \in Pairs : found[i] \in {"untested", "success"}
    OBVIOUS
  <1>4. runner' = [runner EXCEPT ![j] = r]
    BY <1>1, <1>2
  <1> HIDE DEF found
  <1>5. r \in RunnerType /\ r.at = "spawned" /\ r.found = found
    BY <1>1, <1>3 DEF RunnerType, Places
  <1> HIDE DEF r
  <1>6. /\ runner' \in [JobIds -> RunnerType] /\ runner'[j] = r
        /\ \A k \in JobIds \ {j} : runner'[k] = runner[k]
    BY <1>1, <1>4, <1>5
  <1>7. runner[j].at = "none"
    BY <1>1
  <1>8. JobTypes'
    <2>1. \A k \in JobIds : /\ k > j <=> runner'[k].at = "none"
                            /\ runner'[k].at \in {"granted", "sent"} => runner'[k].doing \in Pairs
      BY <1>1, <1>5, <1>6 DEF JobTypes, JobIds
    <2>2. created' \in 0..MaxJobs
      BY <1>1 DEF JobIds
    <2> QED
      BY <1>1, <1>6, <2>1, <2>2, PairsKept DEF JobTypes
  <1>9. RetestsAfter'
    <2> SUFFICES ASSUME NEW w \in Retries, retry[w].stage \in {"queued", "sent"}
                 PROVE  runner'[retry[w].job].at = "over" \/ retry[w].job \in disturbed
      BY DEF RetestsAfter
    <2>1. retry[w].job \in JobIds
      BY <1>1 DEF JobTypes, RetryType, Idle
    <2>2. runner[retry[w].job].at = "over" \/ retry[w].job \in disturbed
      BY <1>1 DEF RetestsAfter
    <2> QED
      BY <1>6, <1>7, <2>1, <2>2
  <1>10. ASSUME j \notin disturbed' PROVE JobInv(j)'
    <2>1. JobInv(j) /\ CancelledByCall(j) /\ NotBegun(j)
      BY <1>1, <1>7, <1>10 DEF CapabilityInv, JobInv, Unbegun
    <2>2. CancelledByCall(j)'
      BY <2>1, PairsKept DEF CancelledByCall
    <2>3. NotBegun(j)'
      BY <1>3, <1>5, <1>6, <1>7, <2>1, PairsKept DEF NotBegun
    <2> QED
      BY <1>5, <1>6, <2>1, <2>2, <2>3, PairsKept DEF JobInv, Unbegun
  <1> QED
    BY <1>1, <1>6, <1>8, <1>9, <1>10, OneJob

(* A start that finds a cancelled job only remembers it.                    *)
LEMMA NothingOfJobs ==
  ASSUME CapabilityInv,
         UNCHANGED <<requested, jobs, context, runner, created, cancelling, retry, disturbed>>
  PROVE  CapabilityInv'
  <1>1. JobTypes' /\ RetestsAfter'
    BY PairsKept DEF CapabilityInv, JobTypes, RetestsAfter
  <1>2. ASSUME NEW k \in JobIds, k \notin disturbed' PROVE JobInv(k)'
    BY <1>2, SameJob DEF CapabilityInv
  <1> QED
    BY <1>1, <1>2 DEF CapabilityInv, JobIds

-----------------------------------------------------------------------------
(* Cancellation *)

LEMMA CancelContextKept ==
  ASSUME CapabilityInv, NEW j \in JobIds, CancelContext(j) PROVE CapabilityInv'
  <1>1. /\ j <= created /\ jobs[j].life \notin Terminal
        /\ cancelling' = cancelling \cup {j}
        /\ context' = [context EXCEPT ![j] = IF @ = "live" THEN "cancelled" ELSE @]
        /\ disturbed' = IF context[j] = "none" THEN disturbed \cup {j} ELSE disturbed
        /\ UNCHANGED <<requested, jobs, runner, created, retry>>
    BY DEF CancelContext
  <1>2. /\ JobTypes /\ RetestsAfter /\ context \in [JobIds -> {"none", "live", "cancelled"}]
        /\ disturbed \subseteq JobIds
    BY DEF CapabilityInv, JobTypes
  <1>3. /\ context' \in [JobIds -> {"none", "live", "cancelled"}]
        /\ \A k \in JobIds \ {j} : context'[k] = context[k]
        /\ context[j] # "none" => context'[j] = "cancelled"
    BY <1>1, <1>2
  <1>4. disturbed \subseteq disturbed' /\ disturbed' \subseteq JobIds
    BY <1>1, <1>2
  <1>5. JobTypes'
    BY <1>1, <1>2, <1>3, <1>4, PairsKept DEF JobTypes
  <1>6. RetestsAfter'
    BY <1>1, <1>2, <1>4 DEF RetestsAfter
  <1>7. ASSUME j \notin disturbed' PROVE JobInv(j)'
    <2>1. context'[j] = "cancelled" /\ context[j] # "none" /\ JobInv(j)
      BY <1>1, <1>3, <1>7 DEF CapabilityInv
    <2>2. runner[j].at # "over" => CancelledByCall(j)'
      BY <1>1, <2>1, PairsKept DEF JobInv, CancelledByCall
    <2>3. runner[j].at \in Unbegun => NotBegun(j)'
      BY <1>1, <2>1, PairsKept DEF JobInv, NotBegun
    <2>4. runner[j].at \notin Unbegun \cup {"over"} => Begun(j)'
      BY <1>1, <2>1, PairsKept DEF JobInv, Begun
    <2>5. Over(j)'
      BY <1>1 DEF Over
    <2> QED
      BY <1>1, <2>1, <2>2, <2>3, <2>4, <2>5, PairsKept DEF JobInv
  <1> QED
    BY <1>1, <1>3, <1>4, <1>5, <1>6, <1>7, OneJob

(* Cancelling the job closes every model of it.                             *)
LEMMA CancelJobKept ==
  ASSUME CapabilityInv, NEW j \in JobIds, CancelJob(j) PROVE CapabilityInv'
  <1> DEFINE Cancelled(result) ==
               CASE result.status = "queued"  -> [status |-> "skipped", life |-> "done"]
                 [] result.status = "running" -> [status |-> "skipped", life |-> "cancelled"]
                 [] OTHER                     -> result
             models == [i \in Pairs |-> Cancelled(jobs[j].models[i])]
             tests == [protocol \in Protocols |-> "cancelled"]
             job == [life |-> "cancelled", tests |-> tests, models |-> models]
  <1>1. /\ j \in cancelling /\ cancelling' = cancelling \ {j} /\ UpdateJob(j, job)
        /\ UNCHANGED <<requested, context, runner, created, retry, disturbed>>
    BY DEF CancelJob
  <1>2. /\ JobTypes /\ RetestsAfter /\ jobs \in [JobIds -> JobType] /\ jobs[j] \in JobType
    BY DEF CapabilityInv, JobTypes
  <1>3. ASSUME NEW i \in Pairs
        PROVE  /\ models[i] \in Result
               /\ jobs[j].models[i] \in Open \cup Closed => models[i] \in Closed
    <2>1. jobs[j].models[i] \in Result /\ models[i] = Cancelled(jobs[j].models[i])
      BY <1>2 DEF JobType
    <2>2. CASE jobs[j].models[i].status = "queued"
      <3>1. models[i] = [status |-> "skipped", life |-> "done"]
        BY <2>1, <2>2
      <3> HIDE DEF models
      <3> QED
        BY <3>1 DEF Result, Closed, Lives, Terminal
    <2>3. CASE jobs[j].models[i].status = "running"
      <3>1. models[i] = [status |-> "skipped", life |-> "cancelled"]
        BY <2>1, <2>3
      <3> HIDE DEF models
      <3> QED
        BY <3>1 DEF Result, Closed, Lives, Terminal
    <2>4. CASE jobs[j].models[i].status \notin {"queued", "running"}
      <3>1. models[i] = jobs[j].models[i]
        BY <2>1, <2>4
      <3> HIDE DEF models
      <3> QED
        BY <2>1, <2>4, <3>1 DEF Open
    <2> QED
      BY <2>2, <2>3, <2>4
  <1>4. /\ models \in [Pairs -> Result] /\ tests \in [Protocols -> Lives]
    BY <1>3 DEF Lives
  <1> HIDE DEF models, tests
  <1>5. job \in JobType /\ job.life = "cancelled" /\ job.models = models
    BY <1>4 DEF JobType, Lives
  <1> HIDE DEF job
  <1>6. /\ jobs' \in [JobIds -> JobType] /\ jobs'[j].models = models
        /\ jobs'[j].life = "cancelled"
        /\ \A k \in JobIds \ {j} : jobs'[k] = jobs[k]
    BY <1>1, <1>2, <1>5, UpdateFacts
  <1>7. JobTypes'
    BY <1>1, <1>2, <1>6, PairsKept DEF JobTypes
  <1>8. RetestsAfter'
    BY <1>1, <1>2 DEF RetestsAfter
  <1>9. ASSUME j \notin disturbed' PROVE JobInv(j)'
    <2>1. JobInv(j)
      BY <1>1, <1>9 DEF CapabilityInv
    <2>2. \A i \in Pairs : jobs'[j].models[i] \in Closed
      BY <1>3, <1>6, <2>1 DEF JobInv
    <2>3. runner[j].at # "over" => CancelledByCall(j)'
      BY <1>1, <1>6, <2>1, PairsKept DEF JobInv, CancelledByCall
    <2>4. runner[j].at \in Unbegun => NotBegun(j)'
      BY <1>1, <2>1, <2>2, PairsKept DEF JobInv, NotBegun
    <2>5. runner[j].at \notin Unbegun \cup {"over"} => Begun(j)'
      <3> SUFFICES ASSUME runner[j].at \notin Unbegun \cup {"over"} PROVE Begun(j)'
        OBVIOUS
      <3>1. Begun(j)
        BY <2>1 DEF JobInv
      <3>2. runner[j].at \in {"granted", "sent"} => runner[j].doing \in Pairs
        BY <1>2 DEF JobTypes
      <3> QED
        BY <1>1, <2>2, <3>1, <3>2, PairsKept DEF Begun
    <2>6. Over(j)'
      BY <1>1, <2>2, PairsKept DEF Over
    <2> QED
      BY <1>1, <2>2, <2>3, <2>4, <2>5, <2>6, PairsKept DEF JobInv
  <1> QED
    BY <1>1, <1>6, <1>7, <1>8, <1>9, OneJob

-----------------------------------------------------------------------------
(* Retests *)

(* What a step of retest w writes: it opens its model only as its own, and  *)
(* never in a job that stays cancelled.                                     *)
RetestWrites(w, j, item, job, u) ==
  /\ retry[w].stage \in {"checked", "queued", "sent"}
  /\ retry[w].job = j /\ retry[w].item = item
  /\ UNCHANGED <<requested, context, runner, created, cancelling>>
  /\ \/ /\ UpdateJob(j, job)
        /\ \A i \in Pairs \ {item} : job.models[i] = jobs[j].models[i]
        /\ job.models[item] \in Open \cup Closed
        /\ job.life = "cancelled" => jobs[j].life = "cancelled" /\ job.models[item] \in Closed
        /\ job.models[item] \in Closed \/ job.models[item].status = "running"
     \/ jobs[j].life = "cancelled" /\ jobs' = jobs /\ job = jobs[j]
  /\ retry' = [retry EXCEPT ![w] = u]
  /\ u.stage \in {"queued", "sent"} => u.job = j /\ u.item = item
  /\ \/ u.stage \in {"queued", "sent"}
     \/ job.models[item] \in Closed
     \/ jobs[j].life = "cancelled" /\ jobs' = jobs
  /\ disturbed \subseteq disturbed' /\ disturbed' \subseteq JobIds
  /\ j \notin disturbed' => runner[j].at = "over"

LEMMA RetestKept ==
  ASSUME CapabilityInv, NEW w \in Retries, NEW j \in JobIds, NEW item \in Pairs,
         NEW job \in JobType, NEW u \in RetryType, RetestWrites(w, j, item, job, u)
  PROVE  CapabilityInv'
  <1> USE DEF RetestWrites
  <1>1. /\ JobTypes /\ RetestsAfter /\ jobs \in [JobIds -> JobType]
        /\ retry \in [Retries -> RetryType]
    BY DEF CapabilityInv, JobTypes
  <1>2. /\ jobs' \in [JobIds -> JobType] /\ jobs'[j].models = job.models
        /\ \A k \in JobIds \ {j} : jobs'[k] = jobs[k]
        /\ \/ jobs[j].life = "cancelled" /\ jobs' = jobs
           \/ job.life # "cancelled" /\ jobs'[j].life = "cancelled" =>
                \A i \in Pairs : job.models[i].status # "running"
    <2>1. CASE UpdateJob(j, job)
      BY <1>1, <2>1, UpdateFacts
    <2>2. CASE jobs[j].life = "cancelled" /\ jobs' = jobs /\ job = jobs[j]
      BY <1>1, <2>2
    <2> QED
      BY <2>1, <2>2
  <1>3. /\ retry' \in [Retries -> RetryType] /\ retry'[w] = u
        /\ \A v \in Retries \ {w} : retry'[v] = retry[v]
    BY <1>1
  <1>4. JobTypes'
    BY <1>1, <1>2, <1>3, PairsKept DEF JobTypes
  <1>5. RetestsAfter'
    BY <1>1, <1>3 DEF RetestsAfter
  <1>6. ASSUME j \notin disturbed' PROVE JobInv(j)'
    <2>1. JobInv(j) /\ Over(j) /\ runner[j].at = "over"
      BY <1>6 DEF CapabilityInv, JobInv
    <2>2. \A i \in Pairs : job.models[i] \in Open \cup Closed
      BY <2>1 DEF JobInv
    <2>3. ASSUME NEW i \in Pairs, job.models[i] \notin Closed, j \notin cancelling
          PROVE  /\ jobs'[j].life # "cancelled" /\ job.models[i].status = "running"
                 /\ \E v \in Retries : /\ retry'[v].stage \in {"queued", "sent"}
                                       /\ retry'[v].job = j /\ retry'[v].item = i
      <3>1. jobs[j].life = "cancelled" => \A k \in Pairs : jobs[j].models[k] \in Closed
        BY <2>1, <2>3 DEF Over
      <3>2. ~ (jobs[j].life = "cancelled" /\ jobs' = jobs)
        BY <1>2, <2>3, <3>1
      <3>3. job.life # "cancelled"
        BY <2>3, <3>1, <3>2
      <3>4. job.models[i].status = "running"
        BY <2>1, <2>3, <3>2 DEF Over
      <3>5. \E v \in Retries : /\ retry'[v].stage \in {"queued", "sent"}
                               /\ retry'[v].job = j /\ retry'[v].item = i
        <4>1. CASE i = item
          BY <1>3, <2>3, <3>2, <4>1
        <4>2. CASE i # item
          <5>1. jobs[j].models[i] \notin Closed
            BY <2>3, <3>2, <4>2
          <5>2. PICK v \in Retries :
                  retry[v].stage \in {"queued", "sent"} /\ retry[v].job = j /\ retry[v].item = i
            BY <2>1, <2>3, <5>1 DEF Over
          <5> QED
            BY <1>3, <4>2, <5>2
        <4> QED
          BY <4>1, <4>2
      <3> QED
        BY <1>2, <3>2, <3>3, <3>4, <3>5
    <2>4. Over(j)'
      BY <1>2, <2>3, PairsKept DEF Over
    <2> QED
      BY <1>2, <2>1, <2>2, <2>4, PairsKept DEF JobInv, Unbegun
  <1>7. \A k \in JobIds \ {j} : \A v \in Retries :
          retry[v].stage \in {"queued", "sent"} /\ retry[v].job = k => retry'[v] = retry[v]
    BY <1>3
  <1> QED
    BY <1>2, <1>4, <1>5, <1>6, <1>7, OneJob

LEMMA CheckRetryKept ==
  ASSUME CapabilityInv, NEW w \in Retries, NEW j \in JobIds, NEW item \in Pairs,
         CheckRetry(w, j, item)
  PROVE  CapabilityInv'
  <1> DEFINE u == [stage |-> "checked", job |-> j, item |-> item]
  <1>1. /\ retry[w].stage = "idle" /\ retry' = [retry EXCEPT ![w] = u]
        /\ UNCHANGED <<requested, jobs, context, runner, created, cancelling, disturbed>>
    BY DEF CheckRetry
  <1>2. JobTypes /\ RetestsAfter /\ retry \in [Retries -> RetryType]
    BY DEF CapabilityInv, JobTypes
  <1>3. u \in RetryType /\ u.stage = "checked"
    BY DEF RetryType
  <1> HIDE DEF u
  <1>4. /\ retry' \in [Retries -> RetryType]
        /\ \A v \in Retries : retry[v].stage \in {"queued", "sent"} => retry'[v] = retry[v]
        /\ \A v \in Retries : retry'[v].stage \in {"queued", "sent"} => retry'[v] = retry[v]
    BY <1>1, <1>2, <1>3
  <1>5. JobTypes'
    BY <1>1, <1>2, <1>4, PairsKept DEF JobTypes
  <1>6. RetestsAfter'
    BY <1>1, <1>2, <1>4 DEF RetestsAfter
  <1>7. ASSUME NEW k \in JobIds, k \notin disturbed' PROVE JobInv(k)'
    BY <1>1, <1>4, <1>7, SameJob DEF CapabilityInv
  <1> QED
    BY <1>1, <1>5, <1>6, <1>7 DEF CapabilityInv, JobIds

(* A retest that is under way names its job and its model.                  *)
LEMMA RetryNames ==
  ASSUME JobTypes, NEW w \in Retries, retry[w].stage # "idle"
  PROVE  /\ retry[w].job \in JobIds /\ retry[w].item \in Pairs
         /\ retry[w].stage \in {"checked", "queued", "sent"}
         /\ jobs[retry[w].job] \in JobType
         /\ Idle \in RetryType /\ Idle.stage = "idle"
         /\ \A stage \in {"queued", "sent"} :
              Retest(w, stage) =>
                \E u \in RetryType : /\ retry' = [retry EXCEPT ![w] = u] /\ u.stage = stage
                                     /\ u.job = retry[w].job /\ u.item = retry[w].item
  <1>1. retry \in [Retries -> RetryType]
    BY DEF JobTypes
  <1>2. retry[w] \in [stage : {"checked", "queued", "sent"}, job : JobIds, item : Pairs]
    BY <1>1 DEF RetryType, Idle
  <1>3. Idle \in RetryType /\ Idle.stage = "idle"
    BY DEF RetryType, Idle
  <1>4. ASSUME NEW stage \in {"queued", "sent"}, Retest(w, stage)
        PROVE  \E u \in RetryType : /\ retry' = [retry EXCEPT ![w] = u] /\ u.stage = stage
                                    /\ u.job = retry[w].job /\ u.item = retry[w].item
    <2> DEFINE u == [retry[w] EXCEPT !.stage = stage]
    <2>1. u \in RetryType /\ u.stage = stage /\ u.job = retry[w].job /\ u.item = retry[w].item
      BY <1>2 DEF RetryType
    <2>2. retry' = [retry EXCEPT ![w] = u]
      BY <1>1, <1>4 DEF Retest
    <2> QED
      BY <2>1, <2>2
  <1> QED
    BY <1>2, <1>3, <1>4 DEF JobTypes

(* A retest accepted while the runner still works disturbs the job.         *)
LEMMA AcceptRetryKept ==
  ASSUME CapabilityInv, NEW w \in Retries, AcceptRetry(w) PROVE CapabilityInv'
  <1>1. JobTypes /\ retry[w].stage = "checked"
    BY DEF CapabilityInv, AcceptRetry
  <1>2. PICK j \in JobIds : j = retry[w].job
    BY <1>1, RetryNames
  <1>3. PICK item \in Pairs : item = retry[w].item
    BY <1>1, RetryNames
  <1> DEFINE written == WithModel(jobs[j], item, "running")
             tests == [jobs[j].tests EXCEPT ![item[1]] = "active"]
             job == [written EXCEPT !.tests[item[1]] = "active", !.life = "active"]
             whole == [life |-> "active", tests |-> tests, models |-> written.models]
  <1>4. jobs[j] \in JobType
    BY <1>1, <1>2, RetryNames
  <1>5. /\ written \in JobType /\ written.tests = jobs[j].tests
        /\ \A i \in Pairs \ {item} : written.models[i] = jobs[j].models[i]
        /\ written.models[item] \in Open \cup Closed
        /\ written.models[item].status = "running"
    BY <1>4, WithModelFacts
  <1>6. /\ UpdateJob(j, job) /\ Retest(w, "queued")
        /\ disturbed' = IF runner[j].at = "over" THEN disturbed ELSE disturbed \cup {j}
        /\ UNCHANGED <<requested, context, runner, created, cancelling>>
    BY <1>2, <1>3 DEF AcceptRetry
  <1> HIDE DEF written
  <1>7. job = whole
    <2>1. /\ written = [life |-> written.life, tests |-> jobs[j].tests, models |-> written.models]
          /\ jobs[j].tests \in [Protocols -> Lives]
      BY <1>4, <1>5 DEF JobType
    <2>2. [written EXCEPT !.tests[item[1]] = "active"] =
          [life |-> written.life, tests |-> tests, models |-> written.models]
      BY <2>1
    <2>3. job = [[written EXCEPT !.tests[item[1]] = "active"] EXCEPT !.life = "active"]
      OBVIOUS
    <2> HIDE DEF job, tests
    <2>4. job = [[life |-> written.life, tests |-> tests, models |-> written.models]
                   EXCEPT !.life = "active"]
      BY <2>2, <2>3
    <2> QED
      BY <2>4
  <1>8. tests \in [Protocols -> Lives]
    BY <1>4 DEF JobType, Lives
  <1>9. /\ whole \in JobType /\ whole.life = "active" /\ whole.models = written.models
    BY <1>5, <1>8 DEF JobType, Lives
  <1>10. UpdateJob(j, whole)
    BY <1>6, <1>7
  <1> HIDE DEF whole, job
  <1>11. PICK u \in RetryType : /\ retry' = [retry EXCEPT ![w] = u] /\ u.stage = "queued"
                                /\ u.job = j /\ u.item = item
    BY <1>1, <1>2, <1>3, <1>6, RetryNames
  <1>12. /\ disturbed \subseteq disturbed' /\ disturbed' \subseteq JobIds
         /\ j \notin disturbed' => runner[j].at = "over"
    BY <1>1, <1>6 DEF JobTypes
  <1>13. /\ \A i \in Pairs \ {item} : whole.models[i] = jobs[j].models[i]
         /\ whole.models[item] \in Open \cup Closed /\ whole.life # "cancelled"
         /\ whole.models[item].status = "running"
    BY <1>5, <1>9
  <1> QED
    <2>1. u.stage \in {"queued", "sent"}
      BY <1>11
    <2>2. /\ retry[w].stage \in {"checked", "queued", "sent"} /\ retry[w].job = j
          /\ retry[w].item = item
      BY <1>1, <1>2, <1>3
    <2>3. UNCHANGED <<requested, context, runner, created, cancelling>>
      BY <1>6
    <2>4. PICK new \in JobType : new = whole
      BY <1>9
    <2>5. /\ UpdateJob(j, new)
          /\ \A i \in Pairs \ {item} : new.models[i] = jobs[j].models[i]
          /\ new.models[item] \in Open \cup Closed
          /\ new.life # "cancelled"
          /\ new.models[item].status = "running"
      BY <1>10, <1>13, <2>4
    <2>6. u.stage \in {"queued", "sent"} => u.job = j /\ u.item = item
      BY <1>11
    <2>7. retry' = [retry EXCEPT ![w] = u]
      BY <1>11
    <2> QED
      <3>1. RetestWrites(w, j, item, new, u)
        BY <1>12, <2>1, <2>2, <2>3, <2>5, <2>6, <2>7 DEF RetestWrites
      <3> QED
        BY <3>1, RetestKept

LEMMA SendRetryKept ==
  ASSUME CapabilityInv, NEW w \in Retries, SendRetry(w) \/ FinishRetry(w) PROVE CapabilityInv'
  <1>1. JobTypes /\ RetestsAfter /\ retry[w].stage \in {"queued", "sent"}
    BY DEF CapabilityInv, SendRetry, FinishRetry
  <1>2. PICK j \in JobIds : j = retry[w].job
    BY <1>1, RetryNames
  <1>3. PICK item \in Pairs : item = retry[w].item
    BY <1>1, RetryNames
  <1>4. jobs[j] \in JobType
    BY <1>1, <1>2, RetryNames
  <1>5. /\ UNCHANGED <<requested, context, runner, created, cancelling, disturbed>>
        /\ disturbed \subseteq JobIds
        /\ j \notin disturbed => runner[j].at = "over"
    BY <1>1, <1>2 DEF SendRetry, FinishRetry, RetestsAfter, JobTypes
  <1>6. PICK u \in RetryType :
          /\ retry' = [retry EXCEPT ![w] = u]
          /\ \/ u.stage = "sent" /\ u.job = j /\ u.item = item
             \/ u.stage = "idle"
          /\ \/ jobs[j].life = "cancelled" /\ jobs' = jobs
             \/ /\ jobs[j].life # "cancelled" /\ u.stage = "sent"
                /\ UpdateJob(j, WithModel(jobs[j], item, "running"))
             \/ UpdateJob(j, WithModel(jobs[j], item, "failed"))
             \/ UpdateJob(j, WithModel(jobs[j], item, "success"))
    <2>1. CASE SendRetry(w) /\ Retest(w, "sent")
      <3>1. PICK u \in RetryType : /\ retry' = [retry EXCEPT ![w] = u] /\ u.stage = "sent"
                                   /\ u.job = j /\ u.item = item
        BY <1>1, <1>2, <1>3, <2>1, RetryNames
      <3>2. retry[w].stage = "queued" /\ u # Idle
        BY <2>1, <3>1 DEF SendRetry, Idle
      <3>3. ~ (retry' = [retry EXCEPT ![w] = Idle])
        BY <1>1, <3>1, <3>2 DEF JobTypes
      <3>4. \/ jobs[j].life = "cancelled" /\ jobs' = jobs
            \/ /\ jobs[j].life # "cancelled"
               /\ UpdateJob(j, WithModel(jobs[j], item, "running"))
        BY <1>2, <1>3, <2>1, <3>3 DEF SendRetry
      <3> QED
        BY <3>1, <3>4
    <2>2. CASE retry' = [retry EXCEPT ![w] = Idle]
      <3>1. Idle \in RetryType /\ Idle.stage = "idle"
        BY DEF RetryType, Idle
      <3>2. ~ Retest(w, "sent")
        BY <1>1, <2>2, <3>1 DEF Retest, JobTypes, RetryType
      <3>3. \/ jobs[j].life = "cancelled" /\ jobs' = jobs
            \/ UpdateJob(j, WithModel(jobs[j], item, "failed"))
            \/ UpdateJob(j, WithModel(jobs[j], item, "success"))
        BY <1>2, <1>3, <3>2 DEF SendRetry, FinishRetry
      <3> QED
        BY <2>2, <3>1, <3>3
    <2> QED
      BY <2>1, <2>2 DEF SendRetry, FinishRetry
  <1>7. CASE jobs[j].life = "cancelled" /\ jobs' = jobs
    <2>1. RetestWrites(w, j, item, jobs[j], u)
      BY <1>1, <1>2, <1>3, <1>5, <1>6, <1>7 DEF RetestWrites
    <2> QED
      BY <1>4, <2>1, RetestKept
  <1>8. ASSUME NEW status \in {"running", "success", "failed"},
               UpdateJob(j, WithModel(jobs[j], item, status)),
               status = "running" => jobs[j].life # "cancelled" /\ u.stage = "sent"
        PROVE  CapabilityInv'
    <2> DEFINE job == WithModel(jobs[j], item, status)
    <2>1. /\ job \in JobType /\ job.life = jobs[j].life
          /\ \A i \in Pairs \ {item} : job.models[i] = jobs[j].models[i]
          /\ job.models[item] \in Open \cup Closed
          /\ status = "running" => job.models[item].status = "running"
          /\ status # "running" => job.models[item] \in Closed
      BY <1>4, WithModelFacts
    <2>2. UpdateJob(j, job)
      BY <1>8
    <2> HIDE DEF job
    <2> QED
      <3>1. RetestWrites(w, j, item, job, u)
        BY <1>1, <1>2, <1>3, <1>5, <1>6, <1>8, <2>1, <2>2 DEF RetestWrites
      <3> QED
        BY <2>1, <3>1, RetestKept
  <1> QED
    BY <1>6, <1>7, <1>8

-----------------------------------------------------------------------------
(* The invariant *)

LEMMA CapabilityInvInit == CapabilityInit => CapabilityInv
  <1> SUFFICES ASSUME CapabilityInit PROVE CapabilityInv
    OBVIOUS
  <1> DEFINE queued == [status |-> "queued", life |-> "pending"]
             models == [i \in Pairs |-> queued]
             tests == [protocol \in Protocols |-> "pending"]
             found == [i \in Pairs |-> "untested"]
             first == [at |-> "none", todo |-> << >>, doing |-> << >>, found |-> found]
  <1>1. /\ jobs = [j \in JobIds |-> NewJob] /\ requested \subseteq Models
        /\ context = [j \in JobIds |-> "none"]
        /\ runner = [j \in JobIds |-> first]
        /\ created = 0 /\ cancelling = {} /\ disturbed = {}
        /\ retry = [w \in Retries |-> Idle]
    BY DEF CapabilityInit
  <1>2. queued \in Result /\ queued \in Open /\ queued.life # "cancelled"
    BY DEF Result, Open, Lives
  <1> HIDE DEF queued
  <1>3. /\ models \in [Pairs -> Result] /\ tests \in [Protocols -> Lives]
        /\ \A i \in Pairs : models[i] \in Open /\ models[i].life # "cancelled"
        /\ \A protocol \in Protocols : tests[protocol] # "cancelled"
    BY <1>2 DEF Lives
  <1>4. NewJob = [life |-> "pending", tests |-> tests, models |-> models]
    BY DEF NewJob, queued
  <1> HIDE DEF models, tests
  <1>5. NewJob \in JobType /\ NewJob.life = "pending" /\ NewJob.models = models /\ NewJob.tests = tests
    BY <1>3, <1>4 DEF JobType, Lives
  <1>6. << >> \in Seq(Pairs)
    OBVIOUS
  <1>7. /\ found \in [Pairs -> {"untested", "success", "failed", "closed"}]
        /\ \A i \in Pairs : found[i] = "untested"
    OBVIOUS
  <1> HIDE DEF found
  <1>8. first \in RunnerType /\ first.at = "none" /\ first.found = found
    BY <1>6, <1>7 DEF RunnerType, Places
  <1> HIDE DEF first
  <1>9. Idle \in RetryType /\ Idle.stage = "idle"
    BY DEF RetryType, Idle
  <1>10. JobTypes
    <2>1. 0 \in 0..MaxJobs /\ \A j \in JobIds : j > 0
      BY CapabilityAssumption DEF JobIds
    <2> QED
      BY <1>1, <1>5, <1>8, <1>9, <2>1 DEF JobTypes
  <1>11. RetestsAfter
    BY <1>1, <1>9 DEF RetestsAfter
  <1>12. ASSUME NEW j \in JobIds PROVE JobInv(j)
    <2>1. CancelledByCall(j)
      BY <1>1, <1>3, <1>5 DEF CancelledByCall
    <2>2. NotBegun(j)
      BY <1>1, <1>7, <1>8 DEF NotBegun
    <2> QED
      BY <1>1, <1>3, <1>5, <1>8, <2>1, <2>2 DEF JobInv, Unbegun
  <1> QED
    BY <1>10, <1>11, <1>12 DEF CapabilityInv

LEMMA CapabilityInvStep == CapabilityInv /\ [CapabilityNext]_capabilityVars => CapabilityInv'
  <1> SUFFICES ASSUME CapabilityInv, [CapabilityNext]_capabilityVars PROVE CapabilityInv'
    OBVIOUS
  <1>1. CASE Start \/ ReplaceCancelled
    BY <1>1, CreateJobKept DEF Start, ReplaceCancelled
  <1>2. CASE StartOnCancelled
    BY <1>2, NothingOfJobs DEF StartOnCancelled
  <1>3. ASSUME NEW j \in JobIds, Run(j) PROVE CapabilityInv'
    <2>1. CASE SetCancelFunc(j)
      BY <2>1, SetCancelFuncKept
    <2>2. CASE Activate(j)
      BY <2>2, ActivateKept
    <2>3. CASE InitializeTests(j)
      BY <2>3, InitializeTestsKept
    <2>4. CASE AcquireSendSlot(j)
      BY <2>4, AcquireSendSlotKept
    <2>5. CASE StopTesting(j)
      BY <2>5, StopTestingKept
    <2>6. CASE SendTest(j)
      BY <2>6, SendTestKept
    <2>7. CASE FinishTest(j)
      BY <2>7, FinishTestKept
    <2>8. ASSUME NEW protocol \in Protocols, CloseProtocol(j, protocol) PROVE CapabilityInv'
      BY <2>8, CloseProtocolKept
    <2>9. CASE FinishJob(j)
      BY <2>9, FinishJobKept
    <2> QED
      BY <1>3, <2>1, <2>2, <2>3, <2>4, <2>5, <2>6, <2>7, <2>8, <2>9 DEF Run
  <1>4. ASSUME NEW j \in JobIds, CancelContext(j) PROVE CapabilityInv'
    BY <1>4, CancelContextKept
  <1>5. ASSUME NEW j \in JobIds, CancelJob(j) PROVE CapabilityInv'
    BY <1>5, CancelJobKept
  <1>6. ASSUME NEW w \in Retries, RetryStep(w) PROVE CapabilityInv'
    <2>1. ASSUME NEW j \in JobIds, NEW item \in Pairs, CheckRetry(w, j, item) PROVE CapabilityInv'
      BY <2>1, CheckRetryKept
    <2>2. CASE AcceptRetry(w)
      BY <2>2, AcceptRetryKept
    <2>3. CASE SendRetry(w) \/ FinishRetry(w)
      BY <2>3, SendRetryKept
    <2> QED
      BY <1>6, <2>1, <2>2, <2>3 DEF RetryStep
  <1>7. CASE UNCHANGED capabilityVars
    BY <1>7, NothingOfJobs DEF capabilityVars
  <1> QED
    BY <1>1, <1>2, <1>3, <1>4, <1>5, <1>6, <1>7 DEF CapabilityNext

LEMMA CapabilityInvAlways == CapabilitySpec => []CapabilityInv
  BY CapabilityInvInit, CapabilityInvStep, PTL DEF CapabilitySpec

(* However a job that nobody cancelled too early or retested while it ran   *)
(* ends, no model of it is left queued or running when nobody works on it   *)
(* any more, whatever was tested, cancelled and retested in which order.    *)
THEOREM NoModelStaysOpen == CapabilitySpec => []NoModelLeftOpenUndisturbed
  <1>1. CapabilityInv => NoModelLeftOpenUndisturbed
    <2> SUFFICES ASSUME CapabilityInv, NEW j \in JobIds \ disturbed, AtRest(j), NEW i \in Pairs
                 PROVE  jobs[j].models[i].life \in Terminal
      BY DEF NoModelLeftOpenUndisturbed
    <2>1. Over(j)
      BY DEF CapabilityInv, JobInv, AtRest
    <2>2. jobs[j].models[i] \in Closed
      BY <2>1 DEF Over, AtRest
    <2> QED
      BY <2>2 DEF Closed
  <1> QED
    BY <1>1, CapabilityInvAlways, PTL

-----------------------------------------------------------------------------
(* Cancelled jobs *)

(* An update of a cancelled job that does not change its life changes       *)
(* nothing of the job's state.                                              *)
LEMMA CancelledUpdate ==
  ASSUME JobTypes, NEW j \in JobIds, NEW k \in JobIds, jobs[j].life = "cancelled",
         NEW job, UpdateJob(k, job), k = j => job.life = "cancelled"
  PROVE  jobs'[j].life = "cancelled"
  BY DEF JobTypes, UpdateJob, Recompute

LEMMA CancelledStep ==
  ASSUME JobTypes, JobTypes', CapabilityNext, NEW j \in JobIds, jobs[j].life = "cancelled",
         \A w \in Retries : ~ (retry[w].stage = "checked" /\ retry'[w].stage = "queued")
  PROVE  jobs'[j].life = "cancelled"
  <1>1. ASSUME NEW k \in JobIds, Run(k) PROVE jobs'[j].life = "cancelled"
    <2>1. jobs[k] \in JobType
      BY DEF JobTypes
    <2>2. CASE Activate(k)
      BY <2>1, <2>2, CancelledUpdate DEF Activate
    <2>3. CASE InitializeTests(k)
      <3> DEFINE tests == [protocol \in Protocols |-> "pending"]
                 models == [i \in Pairs |-> IF i \in {n \in Pairs : runner[k].found[n] = "success"}
                                            THEN [status |-> "success", life |-> "done"]
                                            ELSE [status |-> "queued", life |-> "pending"]]
                 job == [jobs[k] EXCEPT !.tests = tests, !.models = models]
      <3>1. UpdateJob(k, job)
        BY <2>3 DEF InitializeTests
      <3> HIDE DEF tests, models
      <3>2. job.life = jobs[k].life
        BY <2>1 DEF JobType
      <3> HIDE DEF job
      <3> QED
        BY <3>1, <3>2, CancelledUpdate
    <2>4. ASSUME NEW item, NEW status, UpdateJob(k, WithModel(jobs[k], item, status))
          PROVE  jobs'[j].life = "cancelled"
      <3>1. WithModel(jobs[k], item, status).life = jobs[k].life
        BY <2>1 DEF WithModel, JobType
      <3> QED
        BY <2>4, <3>1, CancelledUpdate
    <2>5. CASE SendTest(k) \/ FinishTest(k)
      BY <2>4, <2>5 DEF SendTest, FinishTest
    <2>6. ASSUME NEW protocol \in Protocols, CloseProtocol(k, protocol)
          PROVE  jobs'[j].life = "cancelled"
      <3>1. PICK models : UpdateJob(k, [jobs[k] EXCEPT !.models = models])
        BY <2>6 DEF CloseProtocol
      <3>2. [jobs[k] EXCEPT !.models = models].life = jobs[k].life
        BY <2>1 DEF JobType
      <3> QED
        BY <3>1, <3>2, CancelledUpdate
    <2>7. CASE FinishJob(k)
      BY <2>7, CancelledUpdate DEF FinishJob
    <2>8. CASE SetCancelFunc(k) \/ AcquireSendSlot(k) \/ StopTesting(k)
      BY <2>8 DEF SetCancelFunc, AcquireSendSlot, StopTesting
    <2> QED
      BY <1>1, <2>2, <2>3, <2>5, <2>6, <2>7, <2>8 DEF Run
  <1>2. ASSUME NEW k \in JobIds, CancelJob(k) PROVE jobs'[j].life = "cancelled"
    <2>1. PICK tests, models :
            UpdateJob(k, [life |-> "cancelled", tests |-> tests, models |-> models])
      BY <1>2 DEF CancelJob
    <2>2. [life |-> "cancelled", tests |-> tests, models |-> models].life = "cancelled"
      OBVIOUS
    <2> QED
      BY <2>1, <2>2, CancelledUpdate
  <1>3. ASSUME NEW w \in Retries, RetryStep(w) PROVE jobs'[j].life = "cancelled"
    <2>1. CASE \E k \in JobIds, item \in Pairs : CheckRetry(w, k, item)
      BY <2>1 DEF CheckRetry
    <2>2. ~ AcceptRetry(w)
      BY DEF AcceptRetry, Retest, JobTypes, RetryType, Idle
    <2>3. CASE SendRetry(w) \/ FinishRetry(w)
      <3>1. PICK k \in JobIds : k = retry[w].job /\ jobs[k] \in JobType
        BY <2>3, RetryNames DEF SendRetry, FinishRetry, JobTypes
      <3>2. ASSUME NEW status, UpdateJob(k, WithModel(jobs[k], retry[w].item, status))
            PROVE  jobs'[j].life = "cancelled"
        <4>1. WithModel(jobs[k], retry[w].item, status).life = jobs[k].life
          BY <3>1 DEF WithModel, JobType
        <4> QED
          BY <3>2, <4>1, CancelledUpdate
      <3> QED
        BY <2>3, <3>1, <3>2 DEF SendRetry, FinishRetry
    <2> QED
      BY <1>3, <2>1, <2>2, <2>3 DEF RetryStep
  <1>4. CASE Start \/ StartOnCancelled \/ ReplaceCancelled
    BY <1>4 DEF Start, StartOnCancelled, ReplaceCancelled
  <1>5. ASSUME NEW k \in JobIds, CancelContext(k) PROVE jobs'[j].life = "cancelled"
    BY <1>5 DEF CancelContext
  <1> QED
    BY <1>1, <1>2, <1>3, <1>4, <1>5 DEF CapabilityNext

(* No result that comes in late, of the runner or of a retest, brings a     *)
(* cancelled job back; only a retest that is accepted does.                 *)
THEOREM CancelledJobsStay == CapabilitySpec => CancelledStays
  <1>1. CapabilityInv /\ CapabilityInv' /\ [CapabilityNext]_capabilityVars =>
          [\A j \in JobIds :
             jobs[j].life = "cancelled" =>
               \/ jobs'[j].life = "cancelled"
               \/ \E w \in Retries :
                    retry[w].stage = "checked" /\ retry'[w].stage = "queued"]_capabilityVars
    BY CancelledStep DEF CapabilityInv
  <1> QED
    BY <1>1, CapabilityInvAlways, PTL DEF CapabilitySpec, CancelledStays
=============================================================================
