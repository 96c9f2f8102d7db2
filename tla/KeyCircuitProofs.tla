-------------------------- MODULE KeyCircuitProofs --------------------------
(***************************************************************************)
(* Proofs about KeyCircuit for every set of keys and every value of the    *)
(* breaker's parameters: what BreakerProofs says of a record, carried over *)
(* to the rows of the store, then the inductive invariant, one step per    *)
(* action.                                                                 *)
(***************************************************************************)
EXTENDS KeyCircuit, BreakerProofs, FiniteSetTheorems, SequenceTheorems

(* A row some running manager wrote.                                        *)
RowSound(r) ==
  /\ r \in CircuitRow
  /\ r.state = Open <=> r.retryIn # NoRetry
  /\ r.state = Open => r.brokenAt
  /\ r.state = HalfOpen <=> r.halfOpenAt
  /\ r.state = Closed => ~r.brokenAt /\ r.backoff = 0
  /\ r.state # HalfOpen => r.successes = 0
  /\ r.successes < HalfOpenTarget

(* A tick keeps a stored row sound.                                         *)
LEMMA ElapseRowSound ==
  ASSUME NEW r, RowSound(r)
  PROVE  RowSound(Elapse(r))
  <1> DEFINE n == [r EXCEPT !.retryIn = @ - 1]
  <1>1. /\ r \in CircuitRow
        /\ r.retryIn \in 0..BackoffMax \cup {NoRetry}
    BY DEF RowSound, CircuitRow
  <1>2. CASE r.retryIn > 0
    <2>1. r.retryIn - 1 \in 0..BackoffMax /\ r.retryIn # NoRetry /\ r.retryIn - 1 # NoRetry
      BY <1>1, <1>2, BreakerAssumption DEF NoRetry
    <2>2. n \in CircuitRow
      BY <1>1, <2>1 DEF CircuitRow
    <2>3. /\ n.state = r.state /\ n.brokenAt = r.brokenAt /\ n.halfOpenAt = r.halfOpenAt
          /\ n.retryIn = r.retryIn - 1 /\ n.backoff = r.backoff
          /\ n.successes = r.successes
      BY <1>1 DEF CircuitRow
    <2> HIDE DEF n
    <2>4. RowSound(n)
      BY <2>1, <2>2, <2>3 DEF RowSound
    <2> QED
      BY <1>2, <2>4 DEF Elapse, n
  <1>3. CASE ~(r.retryIn > 0)
    BY <1>3 DEF Elapse
  <1> QED
    BY <1>2, <1>3

(* What persistCircuitStateLocked writes is sound when the record is.       *)
LEMMA RowOfSound ==
  ASSUME NEW m, Sound(m)
  PROVE  RowSound(RowOf(m))
  <1>1. m \in KeyMetrics /\ CircuitShape(m)
    BY DEF Sound
  <1>2. RowOf(m) \in CircuitRow
    BY <1>1 DEF RowOf, CircuitRow, KeyMetrics
  <1> DEFINE r == RowOf(m)
  <1>3. /\ r.state = m.state /\ r.brokenAt = m.brokenAt /\ r.halfOpenAt = m.halfOpenAt
        /\ r.retryIn = m.retryIn /\ r.backoff = m.backoff /\ r.successes = m.successes
    BY DEF RowOf
  <1> HIDE DEF r
  <1>4. RowSound(r)
    <2>1. r \in CircuitRow
      BY <1>2 DEF r
    <2> QED
      BY <1>1, <1>3, <2>1 DEF RowSound, CircuitShape
  <1> QED
    BY <1>4 DEF r

(* The number of trailing failures of a list of results is a number.        *)
LEMMA TrailingFailuresType ==
  ASSUME NEW results \in Seq(BOOLEAN)
  PROVE  TrailingFailures(results) \in Nat
  <1> DEFINE S == {i \in 1..Len(results) : \A j \in i..Len(results) : ~results[j]}
  <1>1. IsFiniteSet(1..Len(results)) /\ S \in SUBSET (1..Len(results))
    BY FS_Interval
  <1>2. IsFiniteSet(S)
    BY <1>1, FS_Subset
  <1> HIDE DEF S
  <1>3. Cardinality(S) \in Nat
    BY <1>2, FS_CardinalityType
  <1> QED
    BY <1>3 DEF TrailingFailures, S

(* Newest keeps at most n results.                                          *)
LEMMA NewestBounded ==
  ASSUME NEW results \in Seq(BOOLEAN), NEW n \in Nat
  PROVE  Newest(results, n) \in Seq(BOOLEAN) /\ Len(Newest(results, n)) <= n
  <1>1. Len(results) \in Nat /\ \A i \in 1..Len(results) : results[i] \in BOOLEAN
    OBVIOUS
  <1>2. CASE Len(results) > n
    <2>1. Len(results) - n + 1 \in Int /\ \A i \in (Len(results) - n + 1)..Len(results) : results[i] \in BOOLEAN
      BY <1>1, <1>2
    <2>2. /\ SubSeq(results, Len(results) - n + 1, Len(results)) \in Seq(BOOLEAN)
          /\ Len(SubSeq(results, Len(results) - n + 1, Len(results)))
               = IF Len(results) - n + 1 <= Len(results)
                 THEN Len(results) - (Len(results) - n + 1) + 1 ELSE 0
      BY <1>1, <2>1, SubSeqProperties
    <2>3. Len(SubSeq(results, Len(results) - n + 1, Len(results))) <= n
      BY <1>1, <2>2
    <2> QED
      BY <1>2, <2>2, <2>3 DEF Newest
  <1>3. CASE ~(Len(results) > n)
    <2>1. SubSeq(results, 1, Len(results)) = results
      BY SubSeqFull
    <2> QED
      BY <1>1, <1>3, <2>1 DEF Newest
  <1> QED
    BY <1>2, <1>3

(* A record rebuilt by loadFromStore is sound when the row is.              *)
LEMMA LoadedSound ==
  ASSUME NEW k, RowSound(stored[k]),
         NEW kept \in Seq(BOOLEAN), NEW recent \in Seq(BOOLEAN)
  PROVE  /\ Sound(Loaded(k, kept, recent))
         /\ k \notin rows => Loaded(k, kept, recent).state = Closed
         /\ k \in rows => RowOf(Loaded(k, kept, recent)) = stored[k]
  <1> DEFINE c == TrailingFailures(kept)
             w == Newest(recent, WindowSize)
             rebuilt == [NewKeyMetrics EXCEPT !.consecutive = c, !.window = w]
             row == stored[k]
             full == [rebuilt EXCEPT
                        !.state = row.state, !.brokenAt = row.brokenAt,
                        !.halfOpenAt = row.halfOpenAt, !.retryIn = row.retryIn,
                        !.backoff = row.backoff, !.successes = row.successes,
                        !.consecutive = row.consecutive]
  <1>1. c \in Nat
    BY TrailingFailuresType
  <1>2. w \in Seq(BOOLEAN) /\ Len(w) <= WindowSize
    BY NewestBounded, BreakerAssumption
  <1>3. Loaded(k, kept, recent) = IF k \notin rows THEN rebuilt ELSE full
    BY DEF Loaded
  <1> HIDE DEF c, w
  <1>4. rebuilt \in KeyMetrics
    BY <1>1, <1>2 DEF NewKeyMetrics, KeyMetrics, CircuitStates
  <1>5. /\ rebuilt.state = Closed /\ rebuilt.brokenAt = FALSE /\ rebuilt.halfOpenAt = FALSE
        /\ rebuilt.retryIn = NoRetry /\ rebuilt.backoff = 0 /\ rebuilt.successes = 0
        /\ rebuilt.probe = FALSE /\ rebuilt.window = w
    BY DEF NewKeyMetrics
  <1> HIDE DEF rebuilt
  <1>6. Sound(rebuilt)
    BY <1>2, <1>4, <1>5, BreakerAssumption
    DEF Sound, CircuitShape, Closed, Open, HalfOpen
  <1>7. row \in CircuitRow
    BY DEF RowSound
  <1> HIDE DEF row
  <1>8. full \in KeyMetrics
    BY <1>4, <1>7 DEF KeyMetrics, CircuitRow
  <1>9. /\ full.state = row.state /\ full.brokenAt = row.brokenAt
        /\ full.halfOpenAt = row.halfOpenAt /\ full.retryIn = row.retryIn
        /\ full.backoff = row.backoff /\ full.successes = row.successes
        /\ full.consecutive = row.consecutive
        /\ full.probe = FALSE /\ full.window = w
    BY <1>4, <1>5 DEF KeyMetrics
  <1> HIDE DEF full
  <1>10. RowSound(row)
    BY DEF row
  <1>11. CircuitShape(full)
    BY <1>2, <1>9, <1>10 DEF CircuitShape, RowSound
  <1>12. RowOf(full) = row
    BY <1>7, <1>9 DEF RowOf, CircuitRow
  <1>13. Sound(full)
    BY <1>8, <1>11 DEF Sound
  <1> QED
    BY <1>3, <1>5, <1>6, <1>12, <1>13 DEF row

-----------------------------------------------------------------------------
(* The inductive invariant: the circuits are shaped, and so is everything a *)
(* restart may read back, whether or not the last write reached the table.  *)
IInv == TypeOK /\ CircuitsShaped /\ \A k \in Keys : RowSound(stored[k])

(* The invariant gives every record and every row separately.               *)
LEMMA IInvSound ==
  ASSUME IInv, NEW k \in Keys
  PROVE  Sound(metrics[k]) /\ RowSound(stored[k])
  BY DEF IInv, TypeOK, CircuitsShaped, Sound

(* The parts of the next state, one variable at a time.                     *)
LEMMA MetricsKept ==
  ASSUME IInv, NEW k \in Keys, NEW next, Sound(next),
         metrics' = [metrics EXCEPT ![k] = next]
  PROVE  metrics' \in [Keys -> KeyMetrics] /\ CircuitsShaped'
  BY DEF IInv, TypeOK, CircuitsShaped, Sound

(* A write to circuit_states, or a lost one, leaves sound rows.             *)
LEMMA UpsertKept ==
  ASSUME IInv, NEW k \in Keys, NEW next, Sound(next), Upsert(k, next)
  PROVE  /\ stored' \in [Keys -> CircuitRow]
         /\ rows' \subseteq Keys
         /\ \A j \in Keys : RowSound(stored'[j])
  <1>1. RowSound(RowOf(next)) /\ RowSound(RowOf(MoveCircuitToHalfOpen(metrics[k])))
    BY IInvSound, HalfOpenSound, RowOfSound
  <1>2. ASSUME NEW r, RowSound(r), stored' = [stored EXCEPT ![k] = r]
        PROVE  stored' \in [Keys -> CircuitRow] /\ \A j \in Keys : RowSound(stored'[j])
    <2>1. r \in CircuitRow
      BY <1>2 DEF RowSound
    <2>2. stored' \in [Keys -> CircuitRow]
      BY <1>2, <2>1 DEF IInv, TypeOK
    <2>3. ASSUME NEW j \in Keys PROVE RowSound(stored'[j])
      BY <1>2, IInvSound DEF IInv, TypeOK
    <2> QED
      BY <2>2, <2>3
  <1> QED
    BY <1>1, <1>2 DEF Upsert, IInv, TypeOK

(* A committed record leaves sound records and rows.                        *)
LEMMA CommitKept ==
  ASSUME IInv, NEW k \in Keys, NEW next, Sound(next), Commit(k, next)
  PROVE  /\ metrics' \in [Keys -> KeyMetrics] /\ CircuitsShaped'
         /\ tracked' \subseteq Keys
         /\ stored' \in [Keys -> CircuitRow]
         /\ rows' \subseteq Keys
         /\ \A j \in Keys : RowSound(stored'[j])
  <1>1. metrics' \in [Keys -> KeyMetrics] /\ CircuitsShaped' /\ tracked' \subseteq Keys
    BY MetricsKept DEF Commit, IInv, TypeOK
  <1>2. CASE Upsert(k, next)
    BY <1>1, <1>2, UpsertKept
  <1>3. CASE UNCHANGED <<stored, rows>>
    BY <1>1, <1>3 DEF IInv, TypeOK
  <1> QED
    BY <1>2, <1>3 DEF Commit

(* AddRecord leaves lists of outcomes.                                      *)
LEMMA AddRecordKept ==
  ASSUME TypeOK, NEW k \in Keys, NEW b \in BOOLEAN, AddRecord(k, b)
  PROVE  records' \in [Keys -> Seq(BOOLEAN)]
  <1>1. records \in [Keys -> Seq(BOOLEAN)] /\ records[k] \in Seq(BOOLEAN)
    BY DEF TypeOK
  <1> DEFINE longer == Append(records[k], b)
  <1>2. longer \in Seq(BOOLEAN) /\ longer # << >>
    BY <1>1
  <1>3. Tail(longer) \in Seq(BOOLEAN)
    BY <1>2
  <1> HIDE DEF longer
  <1>4. records' = [records EXCEPT ![k] =
                      IF Len(longer) > MaxRecords THEN Tail(longer) ELSE longer]
    BY DEF AddRecord, longer
  <1> QED
    BY <1>1, <1>2, <1>3, <1>4

(* An empty manager satisfies the invariant.                                *)
LEMMA IInvInit == Init => IInv
  <1> SUFFICES ASSUME Init PROVE IInv
    OBVIOUS
  <1>1. Sound(NewKeyMetrics) /\ RowSound(RowOf(NewKeyMetrics))
    BY NewSound, RowOfSound
  <1>2. NewKeyMetrics \in KeyMetrics /\ CircuitShape(NewKeyMetrics)
        /\ RowOf(NewKeyMetrics) \in CircuitRow
    BY <1>1 DEF Sound, RowSound
  <1>3. TypeOK
    <2>1. << >> \in Seq(BOOLEAN)
      OBVIOUS
    <2> QED
      BY <1>2, <2>1 DEF Init, TypeOK
  <1>4. CircuitsShaped /\ \A k \in Keys : RowSound(stored[k])
    BY <1>1, <1>2 DEF Init, CircuitsShaped
  <1> QED
    BY <1>3, <1>4 DEF IInv

(* Every operation on one key keeps the invariant.                          *)
LEMMA OperationKept ==
  ASSUME IInv, NEW k \in Keys, Operation(k)
  PROVE  IInv'
  <1>0. Sound(metrics[k]) /\ RowSound(stored[k]) /\ TypeOK
    BY IInvSound DEF IInv
  <1>1. CASE RecordSuccess(k)
    <2>1. Sound(HandleBreakerSuccess(metrics[k]))
      BY <1>0, SuccessSound
    <2>2. records' \in [Keys -> Seq(BOOLEAN)]
      BY <1>0, <1>1, AddRecordKept DEF RecordSuccess
    <2> QED
      BY <1>0, <1>1, <2>1, <2>2, CommitKept DEF RecordSuccess, IInv, TypeOK
  <1>2. ASSUME NEW class \in FailureClasses, RecordFailure(k, class)
        PROVE  IInv'
    <2>1. Sound(HandleBreakerFailure(metrics[k], class))
      BY <1>0, FailureSound
    <2>2. records' \in [Keys -> Seq(BOOLEAN)]
      BY <1>0, <1>2, AddRecordKept DEF RecordFailure, TypeOK
    <2> QED
      BY <1>0, <1>2, <2>1, <2>2, CommitKept DEF RecordFailure, IInv, TypeOK
  <1>3. CASE RecordRequestConnected(k) \/ GetKeyCircuitState(k)
    <2>1. Sound(AdvanceCircuitStateIfDue(metrics[k]))
      BY <1>0, AdvanceSound
    <2> QED
      BY <1>0, <1>3, <2>1, CommitKept
      DEF RecordRequestConnected, GetKeyCircuitState, IInv, TypeOK
  <1>4. CASE TryAcquireProbe(k)
    <2> DEFINE due == AdvanceCircuitStateIfDue(metrics[k])
               next == IF ProbeFree(due) THEN [due EXCEPT !.probe = TRUE] ELSE due
    <2>1. Sound(due)
      BY <1>0, AdvanceSound
    <2>2. Sound(next)
      BY <2>1, ProbeSound DEF ProbeFree
    <2>3. Commit(k, next) /\ UNCHANGED <<records, deleting>>
      BY <1>4 DEF TryAcquireProbe
    <2> HIDE DEF next
    <2> QED
      BY <1>0, <2>2, <2>3, CommitKept DEF IInv, TypeOK
  <1>5. CASE ReleaseProbe(k)
    <2>1. Sound([metrics[k] EXCEPT !.probe = FALSE])
      BY <1>0, ProbeSound
    <2>2. metrics' = [metrics EXCEPT ![k] = [metrics[k] EXCEPT !.probe = FALSE]]
      BY <1>0, <1>5 DEF ReleaseProbe, TypeOK
    <2> QED
      BY <1>0, <1>5, <2>1, <2>2, MetricsKept DEF ReleaseProbe, IInv, TypeOK
  <1>6. CASE MoveKeyToHalfOpen(k)
    <2>1. Sound(MoveCircuitToHalfOpen(metrics[k]))
      BY <1>0, HalfOpenSound
    <2> QED
      BY <1>0, <1>6, <2>1, MetricsKept, UpsertKept DEF MoveKeyToHalfOpen, IInv, TypeOK
  <1>7. CASE ResetKey(k)
    <2>1. Sound(ResetCircuitState(metrics[k]))
      BY <1>0, ResetSound
    <2> QED
      BY <1>0, <1>7, <2>1, MetricsKept, UpsertKept DEF ResetKey, IInv, TypeOK
  <1>8. CASE CleanupStaleKey(k)
    BY <1>0, <1>8, NewSound, MetricsKept DEF CleanupStaleKey, IInv, TypeOK
  <1>9. CASE DeleteFromMemory(k)
    BY <1>0, <1>9, NewSound, MetricsKept DEF DeleteFromMemory, IInv, TypeOK
  <1>10. CASE DeleteRecords(k)
    <2>1. << >> \in Seq(BOOLEAN)
      OBVIOUS
    <2>2. records' \in [Keys -> Seq(BOOLEAN)]
      BY <1>0, <1>10, <2>1 DEF DeleteRecords, TypeOK
    <2> QED
      BY <1>0, <1>10, <2>2 DEF DeleteRecords, IInv, TypeOK, CircuitsShaped
  <1>11. CASE DeleteCircuitState(k)
    BY <1>0, <1>11 DEF DeleteCircuitState, IInv, TypeOK, CircuitsShaped
  <1> QED
    BY <1>1, <1>2, <1>3, <1>4, <1>5, <1>6, <1>7, <1>8, <1>9, <1>10, <1>11
    DEF Operation

(* The recovery ticker keeps the invariant.                                 *)
LEMMA RecoverExpiredKept ==
  ASSUME IInv, RecoverExpired
  PROVE  IInv'
  <1> DEFINE due == {k \in tracked : Due(metrics[k])}
  <1>1. due \subseteq Keys
    BY DEF IInv, TypeOK
  <1>2. metrics' = [k \in Keys |-> IF k \in due THEN MoveCircuitToHalfOpen(metrics[k])
                                    ELSE metrics[k]]
    BY DEF RecoverExpired
  <1>3. PICK lost \in SUBSET due :
          /\ stored' = [k \in Keys |-> IF k \in due \ lost
                                        THEN RowOf(MoveCircuitToHalfOpen(metrics[k]))
                                        ELSE stored[k]]
          /\ rows' = rows \cup (due \ lost)
    BY DEF RecoverExpired
  <1>4. UNCHANGED <<tracked, records, deleting>>
    BY DEF RecoverExpired
  <1> HIDE DEF due
  <1>5. ASSUME NEW k \in Keys
        PROVE  Sound(metrics'[k]) /\ RowSound(stored'[k])
    <2>1. /\ Sound(metrics[k]) /\ RowSound(stored[k])
          /\ Sound(MoveCircuitToHalfOpen(metrics[k]))
          /\ RowSound(RowOf(MoveCircuitToHalfOpen(metrics[k])))
      BY IInvSound, HalfOpenSound, RowOfSound
    <2> QED
      BY <1>2, <1>3, <2>1
  <1>6. /\ metrics' \in [Keys -> KeyMetrics]
        /\ stored' \in [Keys -> CircuitRow]
        /\ CircuitsShaped'
    <2>1. \A k \in Keys : metrics'[k] \in KeyMetrics /\ CircuitShape(metrics'[k])
                          /\ stored'[k] \in CircuitRow
      BY <1>5 DEF Sound, RowSound
    <2> QED
      BY <1>2, <1>3, <2>1 DEF CircuitsShaped
  <1>7. rows' \subseteq Keys
    BY <1>1, <1>3 DEF IInv, TypeOK
  <1> QED
    BY <1>4, <1>5, <1>6, <1>7 DEF IInv, TypeOK

(* The passing of time keeps the invariant.                                 *)
LEMMA TickKept ==
  ASSUME IInv, Tick
  PROVE  IInv'
  <1>1. /\ metrics' = [k \in Keys |-> Elapse(metrics[k])]
        /\ stored' = [k \in Keys |-> Elapse(stored[k])]
        /\ UNCHANGED <<tracked, rows, records, deleting>>
    BY DEF Tick
  <1>2. ASSUME NEW k \in Keys
        PROVE  Sound(metrics'[k]) /\ RowSound(stored'[k])
    BY <1>1, IInvSound, ElapseSound, ElapseRowSound
  <1>3. \A k \in Keys : metrics'[k] \in KeyMetrics /\ CircuitShape(metrics'[k])
                        /\ stored'[k] \in CircuitRow
    BY <1>2 DEF Sound, RowSound
  <1> QED
    BY <1>1, <1>2, <1>3 DEF IInv, TypeOK, CircuitsShaped

(* The facts about a restart that the invariants need.                      *)
LEMMA RestartFacts ==
  ASSUME IInv, Restart
  PROVE  \E kept, recent \in [Keys -> Seq(BOOLEAN)] :
           /\ metrics' = [k \in Keys |-> Loaded(k, kept[k], recent[k])]
           /\ tracked' = rows \cup {k \in Keys : kept[k] # << >>}
           /\ records' = kept
  <1>1. PICK first \in [Keys -> 0..MaxRecords],
             cut   \in [Keys -> 0..MaxRecords],
             last  \in [Keys -> 0..MaxRecords] :
          /\ \A k \in Keys : first[k] <= cut[k] /\ cut[k] <= last[k]
                              /\ last[k] <= Len(records[k])
          /\ metrics' = [k \in Keys |->
                Loaded(k, SubSeq(records[k], first[k] + 1, last[k]),
                          SubSeq(records[k], cut[k] + 1, last[k]))]
          /\ tracked' = rows \cup
                {k \in Keys : SubSeq(records[k], first[k] + 1, last[k]) # << >>}
          /\ records' = [k \in Keys |-> SubSeq(records[k], first[k] + 1, last[k])]
    BY DEF Restart
  <1> DEFINE kept == [k \in Keys |-> SubSeq(records[k], first[k] + 1, last[k])]
             recent == [k \in Keys |-> SubSeq(records[k], cut[k] + 1, last[k])]
  <1>2. ASSUME NEW k \in Keys
        PROVE  /\ SubSeq(records[k], first[k] + 1, last[k]) \in Seq(BOOLEAN)
               /\ SubSeq(records[k], cut[k] + 1, last[k]) \in Seq(BOOLEAN)
    <2>1. /\ records[k] \in Seq(BOOLEAN)
          /\ first[k] + 1 \in Int /\ cut[k] + 1 \in Int /\ last[k] \in Int
          /\ first[k] + 1 >= 1 /\ cut[k] + 1 >= 1 /\ last[k] <= Len(records[k])
      BY <1>1, KeyCircuitAssumption DEF IInv, TypeOK
    <2>2. /\ \A i \in (first[k] + 1)..last[k] : records[k][i] \in BOOLEAN
          /\ \A i \in (cut[k] + 1)..last[k] : records[k][i] \in BOOLEAN
      <3>1. \A i \in 1..Len(records[k]) : records[k][i] \in BOOLEAN
        BY <2>1
      <3> QED
        BY <2>1, <3>1
    <2> QED
      BY <2>1, <2>2, SubSeqProperties
  <1>3. kept \in [Keys -> Seq(BOOLEAN)] /\ recent \in [Keys -> Seq(BOOLEAN)]
    BY <1>2
  <1>4. /\ metrics' = [k \in Keys |-> Loaded(k, kept[k], recent[k])]
        /\ tracked' = rows \cup {k \in Keys : kept[k] # << >>}
        /\ records' = kept
    BY <1>1
  <1> QED
    BY <1>3, <1>4

(* A restart rebuilds a manager that satisfies the invariant.               *)
LEMMA RestartKept ==
  ASSUME IInv, Restart
  PROVE  IInv'
  <1>1. PICK kept \in [Keys -> Seq(BOOLEAN)], recent \in [Keys -> Seq(BOOLEAN)] :
          /\ metrics' = [k \in Keys |-> Loaded(k, kept[k], recent[k])]
          /\ tracked' = rows \cup {k \in Keys : kept[k] # << >>}
          /\ records' = kept
    BY RestartFacts
  <1>2. /\ UNCHANGED <<stored, rows>>
        /\ deleting' = [k \in Keys |-> "nothing"]
    BY DEF Restart
  <1>3. ASSUME NEW k \in Keys PROVE Sound(metrics'[k])
    <2>1. kept[k] \in Seq(BOOLEAN) /\ recent[k] \in Seq(BOOLEAN) /\ RowSound(stored[k])
      BY IInvSound
    <2>2. Sound(Loaded(k, kept[k], recent[k]))
      BY <2>1, LoadedSound
    <2> QED
      BY <1>1, <2>2
  <1>4. \A k \in Keys : metrics'[k] \in KeyMetrics /\ CircuitShape(metrics'[k])
    BY <1>3 DEF Sound
  <1>5. metrics' \in [Keys -> KeyMetrics]
    BY <1>1, <1>4
  <1>6. tracked' \subseteq Keys
    BY <1>1 DEF IInv, TypeOK
  <1> QED
    BY <1>1, <1>2, <1>4, <1>5, <1>6 DEF IInv, TypeOK, CircuitsShaped

(* The invariant is inductive.                                              *)
LEMMA IInvNext == IInv /\ [Next]_vars => IInv'
  <1> SUFFICES ASSUME IInv, [Next]_vars PROVE IInv'
    OBVIOUS
  <1>1. CASE UNCHANGED vars
    BY <1>1 DEF vars, IInv, TypeOK, CircuitsShaped
  <1>2. CASE Next
    BY <1>2, OperationKept, RecoverExpiredKept, TickKept, RestartKept DEF Next
  <1> QED
    BY <1>1, <1>2

(* Type correctness: no sequence of operations, ticks, lost writes and      *)
(* restarts leaves the types, for any keys and any breaker parameters.      *)
THEOREM TypeCorrect == Spec => []TypeOK
  <1>1. IInv => TypeOK
    BY DEF IInv
  <1> QED
    BY <1>1, IInvInit, IInvNext, PTL DEF Spec

(* State and fields of every circuit agree in every reachable state; an     *)
(* open circuit can always be recovered by the ticker.                      *)
THEOREM CircuitsAlwaysShaped == Spec => []CircuitsShaped
  <1>1. IInv => CircuitsShaped
    BY DEF IInv
  <1> QED
    BY <1>1, IInvInit, IInvNext, PTL DEF Spec

-----------------------------------------------------------------------------
(* Agreement of memory and table.  StoreAgrees alone is not inductive: a    *)
(* row that outlives its key would disagree with the fresh record of the    *)
(* next request, so the invariant also says that rows belong to tracked     *)
(* keys and that untracked keys are closed.  While a key is being deleted   *)
(* an old row may still be there, but a circuit that is not closed has      *)
(* written its own.                                                         *)
Agreement ==
  ~StoreFaults =>
    \A k \in Keys :
      /\ k \notin tracked => metrics[k].state = Closed
      /\ k \in rows /\ metrics[k].state # Closed => Matches(metrics[k], stored[k])
      /\ deleting[k] # "nothing" => Deletions
      /\ deleting[k] = "nothing" =>
           /\ k \in rows => k \in tracked /\ Matches(metrics[k], stored[k])
           /\ k \in tracked /\ k \notin rows => metrics[k].state = Closed \/ Deletions

(* The row of a record matches it.                                          *)
LEMMA RowOfMatches ==
  ASSUME NEW m PROVE Matches(m, RowOf(m))
  BY DEF Matches, RowOf

(* A step of the breaker that writes no row changes no field of the row     *)
(* except the run of failures.                                              *)
SameRow(m, n) ==
  /\ n.state = m.state /\ n.brokenAt = m.brokenAt /\ n.halfOpenAt = m.halfOpenAt
  /\ n.retryIn = m.retryIn /\ n.backoff = m.backoff /\ n.successes = m.successes

(* A success that is not a transition leaves the persisted fields alone.    *)
LEMMA QuietSuccess ==
  ASSUME NEW m, Sound(m), ~Transitioned(m, HandleBreakerSuccess(m))
  PROVE  SameRow(m, HandleBreakerSuccess(m))
  <1> DEFINE w == AppendToBreakerWindow(m.window, TRUE)
             n == [m EXCEPT !.consecutive = 0, !.window = w]
  <1>1. m \in KeyMetrics
    BY DEF Sound
  <1>2. AdvanceCircuitStateIfDue(m) = m
    BY DEF Transitioned, AdvanceCircuitStateIfDue
  <1>3. HandleBreakerSuccess(m) = SuccessSettled(n)
    BY <1>2 DEF HandleBreakerSuccess
  <1> HIDE DEF w
  <1>4. SameRow(m, n) /\ Sound(n)
    <2>1. SameRow(m, n)
      BY <1>1 DEF SameRow, KeyMetrics
    <2>2. Sound(n)
      BY CountedSound DEF w
    <2> QED
      BY <2>1, <2>2
  <1> HIDE DEF n
  <1>5. n \in KeyMetrics /\ n.successes \in Nat
    BY <1>4 DEF Sound, KeyMetrics
  <1>6. CASE n.state = Closed
    BY <1>3, <1>4, <1>6 DEF SuccessSettled
  <1>7. CASE n.state # Closed /\ n.state = HalfOpen /\ n.successes + 1 < HalfOpenTarget
    <2>1. SuccessSettled(n).successes = n.successes + 1
      BY <1>5, <1>7 DEF SuccessSettled, KeyMetrics
    <2> QED
      BY <1>3, <1>4, <1>5, <2>1 DEF Transitioned, SameRow
  <1>8. CASE n.state # Closed /\ ~(n.state = HalfOpen /\ n.successes + 1 < HalfOpenTarget)
    <2>1. SuccessSettled(n).state = Closed
      BY <1>5, <1>8 DEF SuccessSettled, ResetCircuitState, KeyMetrics
    <2> QED
      BY <1>3, <1>4, <1>8, <2>1 DEF Transitioned, SameRow
  <1> QED
    BY <1>6, <1>7, <1>8

(* A failure that is not a transition leaves them alone, too.               *)
LEMMA QuietFailure ==
  ASSUME NEW m, Sound(m), NEW class \in FailureClasses,
         ~Transitioned(m, HandleBreakerFailure(m, class))
  PROVE  SameRow(m, HandleBreakerFailure(m, class))
  <1> DEFINE w == AppendToBreakerWindow(m.window, FALSE)
             n == [m EXCEPT !.consecutive = @ + 1, !.window = w]
  <1>1. m \in KeyMetrics
    BY DEF Sound
  <1>2. AdvanceCircuitStateIfDue(m) = m
    BY DEF Transitioned, AdvanceCircuitStateIfDue
  <1>3. HandleBreakerFailure(m, class)
          = IF IsBreakerRelevant(class) THEN FailureSettled(n) ELSE m
    BY <1>2 DEF HandleBreakerFailure
  <1> HIDE DEF w
  <1>4. SameRow(m, n) /\ DOMAIN n = DOMAIN m
    BY <1>1 DEF SameRow, KeyMetrics
  <1>5. \A escalate \in BOOLEAN : MoveCircuitToOpen(n, escalate).state = Open
    BY <1>1 DEF MoveCircuitToOpen, KeyMetrics
  <1> HIDE DEF n
  <1>6. CASE ~IsBreakerRelevant(class)
    BY <1>3, <1>6 DEF SameRow
  <1>7. CASE IsBreakerRelevant(class) /\ n.state = HalfOpen
    <2>1. FailureSettled(n) = MoveCircuitToOpen(n, TRUE)
      BY <1>7 DEF FailureSettled, HalfOpen, Closed
    <2> QED
      BY <1>3, <1>4, <1>5, <1>7, <2>1 DEF Transitioned, SameRow, HalfOpen, Open
  <1>8. CASE IsBreakerRelevant(class) /\ n.state = Closed /\ IsKeyCircuitBroken(n)
    <2>1. FailureSettled(n) = MoveCircuitToOpen(n, FALSE)
      BY <1>8 DEF FailureSettled, HalfOpen, Closed
    <2> QED
      BY <1>3, <1>4, <1>5, <1>8, <2>1 DEF Transitioned, SameRow, Closed, Open
  <1>9. CASE IsBreakerRelevant(class) /\ n.state # HalfOpen
             /\ ~(n.state = Closed /\ IsKeyCircuitBroken(n))
    <2>1. FailureSettled(n) = n
      BY <1>9 DEF FailureSettled
    <2> QED
      BY <1>3, <1>4, <1>9, <2>1
  <1> QED
    BY <1>6, <1>7, <1>8, <1>9

(* The effect of one key's commit on the agreement.                         *)
LEMMA CommitAgrees ==
  ASSUME IInv, Agreement, NEW k \in Keys, NEW next, Commit(k, next),
         ~Transitioned(metrics[k], next) => SameRow(metrics[k], next),
         UNCHANGED deleting
  PROVE  Agreement'
  <1> SUFFICES ASSUME ~StoreFaults, NEW j \in Keys
               PROVE  /\ j \notin tracked' => metrics'[j].state = Closed
                      /\ j \in rows' /\ metrics'[j].state # Closed
                           => Matches(metrics'[j], stored'[j])
                      /\ deleting'[j] # "nothing" => Deletions
                      /\ deleting'[j] = "nothing" =>
                           /\ j \in rows' => j \in tracked' /\ Matches(metrics'[j], stored'[j])
                           /\ j \in tracked' /\ j \notin rows'
                                => metrics'[j].state = Closed \/ Deletions
    BY DEF Agreement
  <1>1. /\ metrics' = [metrics EXCEPT ![k] = next] /\ tracked' = tracked \cup {k}
        /\ metrics \in [Keys -> KeyMetrics] /\ stored \in [Keys -> CircuitRow]
    BY DEF Commit, IInv, TypeOK
  <1>2. CASE Transitioned(metrics[k], next)
    <2>1. stored' = [stored EXCEPT ![k] = RowOf(next)] /\ rows' = rows \cup {k}
      BY <1>2 DEF Commit, Upsert
    <2>2. CASE j = k
      BY <1>1, <2>1, <2>2, RowOfMatches DEF Agreement
    <2>3. CASE j # k
      BY <1>1, <2>1, <2>3 DEF Agreement
    <2> QED
      BY <2>2, <2>3
  <1>3. CASE ~Transitioned(metrics[k], next)
    <2>1. UNCHANGED <<stored, rows>> /\ SameRow(metrics[k], next)
      BY <1>3 DEF Commit
    <2>2. CASE j = k
      BY <1>1, <2>1, <2>2 DEF Agreement, SameRow, Matches
    <2>3. CASE j # k
      BY <1>1, <2>1, <2>3 DEF Agreement
    <2> QED
      BY <2>2, <2>3
  <1> QED
    BY <1>2, <1>3

(* Every operation on one key keeps memory and table in agreement.          *)
LEMMA OperationAgrees ==
  ASSUME IInv, Agreement, NEW k \in Keys, Operation(k)
  PROVE  Agreement'
  <1>0. /\ Sound(metrics[k])
        /\ metrics \in [Keys -> KeyMetrics] /\ stored \in [Keys -> CircuitRow]
        /\ deleting \in [Keys -> {"nothing", "records", "row"}]
    BY IInvSound DEF IInv, TypeOK
  <1>1. CASE RecordSuccess(k)
    BY <1>0, <1>1, QuietSuccess, CommitAgrees DEF RecordSuccess
  <1>2. ASSUME NEW class \in FailureClasses, RecordFailure(k, class)
        PROVE  Agreement'
    BY <1>0, <1>2, QuietFailure, CommitAgrees DEF RecordFailure
  <1>3. CASE RecordRequestConnected(k) \/ GetKeyCircuitState(k)
    <2> DEFINE next == AdvanceCircuitStateIfDue(metrics[k])
    <2>1. ~Transitioned(metrics[k], next) => SameRow(metrics[k], next)
      BY DEF Transitioned, AdvanceCircuitStateIfDue, SameRow
    <2> HIDE DEF next
    <2>2. Commit(k, next) /\ UNCHANGED deleting
      BY <1>3 DEF RecordRequestConnected, GetKeyCircuitState, next
    <2> QED
      BY <2>1, <2>2, CommitAgrees
  <1>4. CASE TryAcquireProbe(k)
    <2> DEFINE due == AdvanceCircuitStateIfDue(metrics[k])
               next == IF ProbeFree(due) THEN [due EXCEPT !.probe = TRUE] ELSE due
    <2>1. ~Transitioned(metrics[k], next) => SameRow(metrics[k], next)
      <3>1. SUFFICES ASSUME ~Transitioned(metrics[k], next) PROVE SameRow(metrics[k], next)
        OBVIOUS
      <3>2. due = metrics[k]
        BY <3>1 DEF Transitioned, AdvanceCircuitStateIfDue
      <3>3. SameRow(metrics[k], [metrics[k] EXCEPT !.probe = TRUE])
        BY <1>0 DEF SameRow, KeyMetrics
      <3>4. SameRow(metrics[k], metrics[k])
        BY DEF SameRow
      <3> QED
        BY <3>2, <3>3, <3>4
    <2>2. Commit(k, next) /\ UNCHANGED deleting
      BY <1>4 DEF TryAcquireProbe
    <2> HIDE DEF next
    <2> QED
      BY <2>1, <2>2, CommitAgrees
  <1>5. CASE ReleaseProbe(k)
    <2>1. \A j \in Keys : SameRow(metrics[j], metrics'[j])
      BY <1>0, <1>5 DEF ReleaseProbe, SameRow, KeyMetrics
    <2> QED
      BY <1>5, <2>1 DEF ReleaseProbe, Agreement, SameRow, Matches
  <1>6. CASE MoveKeyToHalfOpen(k)
    <2> DEFINE next == MoveCircuitToHalfOpen(metrics[k])
    <2> SUFFICES ASSUME ~StoreFaults PROVE Agreement'
      BY DEF Agreement
    <2>1. /\ metrics' = [metrics EXCEPT ![k] = next] /\ tracked' = tracked \cup {k}
          /\ stored' = [stored EXCEPT ![k] = RowOf(next)] /\ rows' = rows \cup {k}
          /\ UNCHANGED deleting
      BY <1>6 DEF MoveKeyToHalfOpen, Upsert
    <2> HIDE DEF next
    <2> QED
      BY <1>0, <2>1, RowOfMatches DEF Agreement
  <1>7. CASE ResetKey(k)
    <2> DEFINE next == ResetCircuitState(metrics[k])
    <2> SUFFICES ASSUME ~StoreFaults PROVE Agreement'
      BY DEF Agreement
    <2>1. /\ metrics' = [metrics EXCEPT ![k] = next] /\ k \in tracked
          /\ stored' = [stored EXCEPT ![k] = RowOf(next)] /\ rows' = rows \cup {k}
          /\ UNCHANGED <<tracked, deleting>>
      BY <1>7 DEF ResetKey, Upsert
    <2> HIDE DEF next
    <2> QED
      BY <1>0, <2>1, RowOfMatches DEF Agreement
  <1>8. CASE CleanupStaleKey(k)
    <2> SUFFICES ASSUME ~StoreFaults PROVE Agreement'
      BY DEF Agreement
    <2>1. NewKeyMetrics.state = Closed
      BY DEF NewKeyMetrics
    <2> QED
      BY <1>0, <1>8, <2>1 DEF CleanupStaleKey, Agreement
  <1>9. CASE DeleteFromMemory(k)
    <2>1. NewKeyMetrics.state = Closed
      BY DEF NewKeyMetrics
    <2> QED
      BY <1>0, <1>9, <2>1 DEF DeleteFromMemory, Agreement
  <1>10. CASE DeleteRecords(k)
    <2> SUFFICES ASSUME ~StoreFaults PROVE Agreement'
      BY DEF Agreement
    <2> QED
      BY <1>0, <1>10 DEF DeleteRecords, Agreement
  <1>11. CASE DeleteCircuitState(k)
    <2> SUFFICES ASSUME ~StoreFaults PROVE Agreement'
      BY DEF Agreement
    <2> QED
      BY <1>0, <1>11 DEF DeleteCircuitState, Agreement
  <1> QED
    BY <1>1, <1>2, <1>3, <1>4, <1>5, <1>6, <1>7, <1>8, <1>9, <1>10, <1>11
    DEF Operation

(* The recovery ticker keeps memory and table in agreement.                 *)
LEMMA RecoverExpiredAgrees ==
  ASSUME IInv, Agreement, RecoverExpired
  PROVE  Agreement'
  <1> SUFFICES ASSUME ~StoreFaults PROVE Agreement'
    BY DEF Agreement
  <1> DEFINE due == {k \in tracked : Due(metrics[k])}
  <1>1. /\ due \subseteq tracked /\ tracked \subseteq Keys
        /\ metrics' = [k \in Keys |-> IF k \in due THEN MoveCircuitToHalfOpen(metrics[k])
                                       ELSE metrics[k]]
        /\ stored' = [k \in Keys |-> IF k \in due THEN RowOf(MoveCircuitToHalfOpen(metrics[k]))
                                      ELSE stored[k]]
        /\ rows' = rows \cup due
        /\ UNCHANGED <<tracked, deleting>>
    <2>1. due \subseteq tracked
      OBVIOUS
    <2> QED
      BY <2>1 DEF RecoverExpired, IInv, TypeOK
  <1> HIDE DEF due
  <1> QED
    BY <1>1, RowOfMatches DEF Agreement

(* Retry times in memory and in the table run down together.                *)
LEMMA TickAgrees ==
  ASSUME IInv, Agreement, Tick
  PROVE  Agreement'
  <1>1. /\ metrics' = [k \in Keys |-> Elapse(metrics[k])]
        /\ stored' = [k \in Keys |-> Elapse(stored[k])]
        /\ UNCHANGED <<tracked, rows, deleting>>
    BY DEF Tick
  <1>2. ASSUME NEW m \in KeyMetrics, NEW r \in CircuitRow
        PROVE  /\ Elapse(m).state = m.state
               /\ Matches(m, r) => Matches(Elapse(m), Elapse(r))
    <2>1. /\ Elapse(m).state = m.state /\ Elapse(m).brokenAt = m.brokenAt
          /\ Elapse(m).halfOpenAt = m.halfOpenAt /\ Elapse(m).backoff = m.backoff
          /\ Elapse(m).successes = m.successes
          /\ Elapse(m).retryIn = IF m.retryIn > 0 THEN m.retryIn - 1 ELSE m.retryIn
      BY DEF Elapse, KeyMetrics
    <2>2. /\ Elapse(r).state = r.state /\ Elapse(r).brokenAt = r.brokenAt
          /\ Elapse(r).halfOpenAt = r.halfOpenAt /\ Elapse(r).backoff = r.backoff
          /\ Elapse(r).successes = r.successes
          /\ Elapse(r).retryIn = IF r.retryIn > 0 THEN r.retryIn - 1 ELSE r.retryIn
      BY DEF Elapse, CircuitRow
    <2> QED
      BY <2>1, <2>2 DEF Matches
  <1>3. \A k \in Keys : metrics[k] \in KeyMetrics /\ stored[k] \in CircuitRow
    BY DEF IInv, TypeOK
  <1> QED
    BY <1>1, <1>2, <1>3 DEF Agreement

(* A restart reads back what the table holds.                               *)
LEMMA RestartAgrees ==
  ASSUME IInv, Agreement, Restart
  PROVE  Agreement'
  <1>1. PICK kept \in [Keys -> Seq(BOOLEAN)], recent \in [Keys -> Seq(BOOLEAN)] :
          /\ metrics' = [k \in Keys |-> Loaded(k, kept[k], recent[k])]
          /\ tracked' = rows \cup {k \in Keys : kept[k] # << >>}
    BY RestartFacts
  <1>2. UNCHANGED <<stored, rows>> /\ deleting' = [k \in Keys |-> "nothing"]
    BY DEF Restart
  <1>3. ASSUME NEW k \in Keys
        PROVE  /\ k \notin rows => metrics'[k].state = Closed
               /\ k \in rows => Matches(metrics'[k], stored[k])
    <2>1. kept[k] \in Seq(BOOLEAN) /\ recent[k] \in Seq(BOOLEAN) /\ RowSound(stored[k])
      BY IInvSound
    <2>2. /\ k \notin rows => Loaded(k, kept[k], recent[k]).state = Closed
          /\ k \in rows => RowOf(Loaded(k, kept[k], recent[k])) = stored[k]
      BY <2>1, LoadedSound
    <2>3. metrics'[k] = Loaded(k, kept[k], recent[k])
      BY <1>1
    <2>4. Matches(metrics'[k], RowOf(metrics'[k]))
      BY RowOfMatches
    <2> QED
      BY <2>2, <2>3, <2>4
  <1> QED
    BY <1>1, <1>2, <1>3 DEF Agreement

(* Memory and table agree in every reachable state.                         *)
LEMMA AgreementAlways == Spec => [](IInv /\ Agreement)
  <1>1. Init => Agreement
    BY DEF Init, Agreement, NewKeyMetrics
  <1>2. IInv /\ Agreement /\ [Next]_vars => Agreement'
    <2> SUFFICES ASSUME IInv, Agreement, [Next]_vars PROVE Agreement'
      OBVIOUS
    <2>1. CASE UNCHANGED vars
      BY <2>1 DEF vars, Agreement
    <2>2. CASE Next
      BY <2>2, OperationAgrees, RecoverExpiredAgrees, TickAgrees, RestartAgrees DEF Next
    <2> QED
      BY <2>1, <2>2
  <1> QED
    BY <1>1, <1>2, IInvInit, IInvNext, PTL DEF Spec

(* As long as SQLite accepts the writes, the table agrees with memory in    *)
(* every reachable state, so a restart continues every circuit where it     *)
(* was, although rows are only written on transitions.                      *)
THEOREM StoreAlwaysAgrees == Spec => []StoreAgrees
  <1>1. IInv /\ Agreement => StoreAgrees
    BY DEF IInv, TypeOK, Agreement, StoreAgrees
  <1> QED
    BY <1>1, AgreementAlways, PTL

-----------------------------------------------------------------------------
(* Outages go on where they were *)

(* The circuit n continues m: unless it was closed its backoff level has    *)
(* not fallen, and the retry time of an outage has not been put off.        *)
Continues(m, n) ==
  /\ n.backoff < m.backoff => n.state = Closed
  /\ m.state = Open /\ m.retryIn > 0 /\ n.state = Open => n.retryIn <= m.retryIn

(* What has the same row continues, and so does what is closed.             *)
LEMMA SameContinues ==
  ASSUME NEW m \in KeyMetrics, NEW n, SameRow(m, n) \/ n.state = Closed
  PROVE  Continues(m, n)
  <1>1. m.backoff \in Nat /\ m.retryIn \in Int
    BY BreakerAssumption DEF KeyMetrics, NoRetry
  <1> QED
    BY <1>1 DEF SameRow, Continues, Closed, Open

LEMMA HalfOpenContinues ==
  ASSUME NEW m \in KeyMetrics
  PROVE  /\ Continues(m, MoveCircuitToHalfOpen(m))
         /\ MoveCircuitToHalfOpen(m).backoff = m.backoff
         /\ MoveCircuitToHalfOpen(m).state = HalfOpen
  <1>1. m.backoff \in Nat
    BY DEF KeyMetrics
  <1>2. /\ MoveCircuitToHalfOpen(m).backoff = m.backoff
        /\ MoveCircuitToHalfOpen(m).state = HalfOpen
    BY DEF MoveCircuitToHalfOpen, KeyMetrics
  <1> QED
    BY <1>1, <1>2 DEF Continues, HalfOpen, Open

(* Every step of the breaker continues the circuit: a failure of a request  *)
(* that was under way finds the circuit open and changes nothing of it.     *)
LEMMA AdvanceContinues ==
  ASSUME NEW m, Sound(m)
  PROVE  LET due == AdvanceCircuitStateIfDue(m)
         IN  /\ Continues(m, due) /\ Sound(due) /\ due.backoff = m.backoff
             /\ m.state = Open /\ m.retryIn > 0 => due = m
  <1>1. m \in KeyMetrics
    BY DEF Sound
  <1>2. Continues(m, m)
    BY <1>1, SameContinues DEF SameRow
  <1>3. m.state = Open /\ m.retryIn > 0 => ~ Due(m)
    BY DEF Due
  <1> QED
    BY <1>1, <1>2, <1>3, HalfOpenContinues, AdvanceSound DEF AdvanceCircuitStateIfDue

LEMMA SuccessContinues ==
  ASSUME NEW m, Sound(m) PROVE Continues(m, HandleBreakerSuccess(m))
  <1> DEFINE due == AdvanceCircuitStateIfDue(m)
             w == AppendToBreakerWindow(due.window, TRUE)
             n == [due EXCEPT !.consecutive = 0, !.window = w]
  <1>1. /\ Sound(due) /\ due.backoff = m.backoff /\ m \in KeyMetrics
        /\ m.state = Open /\ m.retryIn > 0 => due = m
    BY AdvanceContinues DEF Sound
  <1>2. HandleBreakerSuccess(m) = SuccessSettled(n)
    BY DEF HandleBreakerSuccess
  <1> HIDE DEF w, due
  <1>3. n.state = due.state /\ n.backoff = due.backoff /\ n.retryIn = due.retryIn
    BY <1>1 DEF Sound, KeyMetrics
  <1>4. Sound(n)
    BY <1>1, CountedSound DEF w
  <1> HIDE DEF n
  <1>5. n \in KeyMetrics
    BY <1>4 DEF Sound
  <1>6. CASE n.state = Closed
    <2>1. SuccessSettled(n).state = Closed
      BY <1>6 DEF SuccessSettled
    <2> QED
      BY <1>1, <1>2, <2>1, SameContinues
  <1>7. CASE n.state # Closed /\ n.state = HalfOpen /\ n.successes + 1 < HalfOpenTarget
    <2>1. SuccessSettled(n) = [n EXCEPT !.successes = @ + 1]
      BY <1>7 DEF SuccessSettled
    <2>2. SuccessSettled(n).state = HalfOpen /\ SuccessSettled(n).backoff = n.backoff
      BY <1>5, <1>7, <2>1 DEF KeyMetrics
    <2>3. m.backoff \in Nat
      BY <1>1 DEF KeyMetrics
    <2> QED
      BY <1>1, <1>2, <1>3, <2>2, <2>3 DEF Continues, HalfOpen, Open
  <1>8. CASE n.state # Closed /\ ~(n.state = HalfOpen /\ n.successes + 1 < HalfOpenTarget)
    <2>1. SuccessSettled(n).state = Closed
      BY <1>5, <1>8 DEF SuccessSettled, ResetCircuitState, KeyMetrics
    <2> QED
      BY <1>1, <1>2, <2>1, SameContinues
  <1> QED
    BY <1>6, <1>7, <1>8

LEMMA FailureContinues ==
  ASSUME NEW m, Sound(m), NEW class \in FailureClasses
  PROVE  Continues(m, HandleBreakerFailure(m, class))
  <1> DEFINE due == AdvanceCircuitStateIfDue(m)
             w == AppendToBreakerWindow(due.window, FALSE)
             n == [due EXCEPT !.consecutive = @ + 1, !.window = w]
  <1>1. /\ Continues(m, due) /\ Sound(due) /\ due.backoff = m.backoff /\ m \in KeyMetrics
        /\ m.state = Open /\ m.retryIn > 0 => due = m
    BY AdvanceContinues DEF Sound
  <1>2. HandleBreakerFailure(m, class) = IF IsBreakerRelevant(class) THEN FailureSettled(n) ELSE due
    BY DEF HandleBreakerFailure
  <1> HIDE DEF w, due
  <1>3. n.state = due.state /\ n.backoff = due.backoff /\ n.retryIn = due.retryIn
    BY <1>1 DEF Sound, KeyMetrics
  <1>4. m.backoff \in Nat /\ m.retryIn \in Int
    BY <1>1, BreakerAssumption DEF KeyMetrics, NoRetry
  <1>5. /\ MoveCircuitToOpen(n, TRUE).state = Open
        /\ MoveCircuitToOpen(n, TRUE).backoff = n.backoff + 1
        /\ MoveCircuitToOpen(n, FALSE).state = Open
        /\ MoveCircuitToOpen(n, FALSE).backoff = n.backoff
    BY <1>1 DEF MoveCircuitToOpen, KeyMetrics, Sound
  <1> HIDE DEF n
  <1>6. CASE ~IsBreakerRelevant(class)
    BY <1>1, <1>2, <1>6
  <1>7. CASE IsBreakerRelevant(class) /\ n.state = HalfOpen
    <2>1. FailureSettled(n) = MoveCircuitToOpen(n, TRUE)
      BY <1>7 DEF FailureSettled, HalfOpen, Closed
    <2>2. HandleBreakerFailure(m, class) = MoveCircuitToOpen(n, TRUE)
      BY <1>2, <1>7, <2>1
    <2>3. ~ (m.state = Open /\ m.retryIn > 0)
      BY <1>1, <1>3, <1>7 DEF HalfOpen, Open
    <2>4. ~ (m.backoff + 1 < m.backoff)
      BY <1>4
    <2>5. MoveCircuitToOpen(n, TRUE).backoff = m.backoff + 1
      BY <1>1, <1>3, <1>5
    <2> QED
      BY <2>2, <2>3, <2>4, <2>5 DEF Continues
  <1>8. CASE IsBreakerRelevant(class) /\ n.state = Closed /\ IsKeyCircuitBroken(n)
    <2>1. FailureSettled(n) = MoveCircuitToOpen(n, FALSE)
      BY <1>8 DEF FailureSettled, HalfOpen, Closed
    <2>2. HandleBreakerFailure(m, class) = MoveCircuitToOpen(n, FALSE)
      BY <1>2, <1>8, <2>1
    <2>3. ~ (m.state = Open /\ m.retryIn > 0)
      BY <1>1, <1>3, <1>8 DEF Closed, Open
    <2>4. ~ (m.backoff < m.backoff)
      BY <1>4
    <2>5. MoveCircuitToOpen(n, FALSE).backoff = m.backoff
      BY <1>1, <1>3, <1>5
    <2> QED
      BY <2>2, <2>3, <2>4, <2>5 DEF Continues
  <1>9. CASE IsBreakerRelevant(class) /\ n.state # HalfOpen
             /\ ~(n.state = Closed /\ IsKeyCircuitBroken(n))
    <2>1. FailureSettled(n) = n
      BY <1>9 DEF FailureSettled
    <2> QED
      BY <1>1, <1>2, <1>3, <1>4, <1>9, <2>1 DEF Continues
  <1> QED
    BY <1>6, <1>7, <1>8, <1>9

(* No step takes an outage back or puts it off, unless a restart reads a    *)
(* row whose successor was not written.                                     *)
LEMMA StepContinues ==
  ASSUME IInv, Agreement, Next, NEW k \in Keys
  PROVE  Continues(metrics[k], metrics'[k]) \/ (StoreFaults /\ Restart)
  <1>1. /\ Sound(metrics[k]) /\ metrics[k] \in KeyMetrics /\ RowSound(stored[k])
        /\ metrics \in [Keys -> KeyMetrics]
    BY IInvSound DEF IInv, TypeOK
  <1>2. ASSUME metrics'[k] = metrics[k] PROVE Continues(metrics[k], metrics'[k])
    BY <1>1, <1>2, SameContinues DEF SameRow
  <1>3. NewKeyMetrics.state = Closed
    BY DEF NewKeyMetrics
  <1>4. ASSUME NEW j \in Keys, Operation(j) PROVE Continues(metrics[k], metrics'[k])
    <2>1. CASE metrics'[k] = metrics[k]
      BY <1>2, <2>1
    <2>2. ASSUME NEW n, metrics' = [metrics EXCEPT ![j] = n],
                 j = k => Continues(metrics[k], n)
          PROVE  Continues(metrics[k], metrics'[k])
      BY <1>1, <1>2, <2>2
    <2>3. CASE RecordSuccess(j)
      BY <1>1, <2>2, <2>3, SuccessContinues DEF RecordSuccess, Commit
    <2>4. ASSUME NEW class \in FailureClasses, RecordFailure(j, class)
          PROVE  Continues(metrics[k], metrics'[k])
      BY <1>1, <2>2, <2>4, FailureContinues DEF RecordFailure, Commit
    <2>5. CASE RecordRequestConnected(j) \/ GetKeyCircuitState(j)
      BY <1>1, <2>2, <2>5, AdvanceContinues DEF RecordRequestConnected, GetKeyCircuitState, Commit
    <2>6. CASE TryAcquireProbe(j)
      <3> DEFINE due == AdvanceCircuitStateIfDue(metrics[j])
                 next == IF ProbeFree(due) THEN [due EXCEPT !.probe = TRUE] ELSE due
      <3>1. metrics' = [metrics EXCEPT ![j] = next]
        BY <2>6 DEF TryAcquireProbe, Commit
      <3>2. Continues(metrics[j], due) /\ Sound(due)
        BY AdvanceContinues, IInvSound
      <3>3. SameRow(due, [due EXCEPT !.probe = TRUE])
        BY <3>2 DEF SameRow, KeyMetrics, Sound
      <3> HIDE DEF due
      <3>4. Continues(metrics[j], next)
        BY <3>2, <3>3 DEF Continues, SameRow
      <3> HIDE DEF next
      <3> QED
        BY <2>2, <3>1, <3>4
    <2>7. CASE ReleaseProbe(j)
      <3> DEFINE next == [metrics[j] EXCEPT !.probe = FALSE]
      <3>1. metrics' = [metrics EXCEPT ![j] = next]
        BY <1>1, <2>7 DEF ReleaseProbe
      <3>2. SameRow(metrics[j], next)
        BY <1>1 DEF SameRow, KeyMetrics
      <3> HIDE DEF next
      <3> QED
        BY <1>1, <2>2, <3>1, <3>2, SameContinues
    <2>8. CASE MoveKeyToHalfOpen(j)
      BY <1>1, <2>2, <2>8, HalfOpenContinues DEF MoveKeyToHalfOpen
    <2>9. CASE ResetKey(j)
      <3>1. ResetCircuitState(metrics[j]).state = Closed
        BY <1>1 DEF ResetCircuitState, KeyMetrics
      <3> QED
        BY <1>1, <2>2, <2>9, <3>1, SameContinues DEF ResetKey
    <2>10. CASE CleanupStaleKey(j) \/ DeleteFromMemory(j)
      BY <1>1, <1>3, <2>2, <2>10, SameContinues DEF CleanupStaleKey, DeleteFromMemory
    <2>11. CASE DeleteRecords(j) \/ DeleteCircuitState(j)
      BY <2>1, <2>11 DEF DeleteRecords, DeleteCircuitState
    <2> QED
      BY <1>4, <2>3, <2>4, <2>5, <2>6, <2>7, <2>8, <2>9, <2>10, <2>11 DEF Operation
  <1>5. CASE RecoverExpired
    <2>1. metrics'[k] = MoveCircuitToHalfOpen(metrics[k]) \/ metrics'[k] = metrics[k]
      BY <1>5 DEF RecoverExpired
    <2> QED
      BY <1>1, <1>2, <2>1, HalfOpenContinues
  <1>6. CASE Tick
    <2>1. metrics'[k] = Elapse(metrics[k])
      BY <1>6 DEF Tick
    <2>2. /\ Elapse(metrics[k]).backoff = metrics[k].backoff
          /\ metrics[k].retryIn > 0 => Elapse(metrics[k]).retryIn = metrics[k].retryIn - 1
      BY <1>1 DEF Elapse, KeyMetrics
    <2>3. metrics[k].retryIn \in Int /\ metrics[k].backoff \in Nat
      BY <1>1, BreakerAssumption DEF KeyMetrics, NoRetry
    <2> QED
      BY <2>1, <2>2, <2>3 DEF Continues
  <1>7. CASE Restart /\ ~StoreFaults
    <2>1. PICK kept \in [Keys -> Seq(BOOLEAN)], recent \in [Keys -> Seq(BOOLEAN)] :
            metrics' = [i \in Keys |-> Loaded(i, kept[i], recent[i])]
      BY <1>1, <1>7, RestartFacts
    <2>2. /\ k \notin rows => metrics'[k].state = Closed
          /\ k \in rows => RowOf(metrics'[k]) = stored[k]
      BY <1>1, <2>1, LoadedSound
    <2>3. CASE k \notin rows \/ metrics'[k].state = Closed
      BY <1>1, <2>2, <2>3, SameContinues
    <2>4. CASE k \in rows /\ metrics[k].state # Closed
      <3>1. Matches(metrics[k], stored[k]) /\ Matches(metrics'[k], stored[k])
        BY <1>7, <2>2, <2>4, RowOfMatches DEF Agreement
      <3> QED
        BY <1>1, <3>1, SameContinues DEF Matches, SameRow
    <2>5. CASE metrics[k].state = Closed
      <3>1. metrics[k].backoff = 0
        BY <1>1, <2>5 DEF Sound, CircuitShape
      <3>2. metrics'[k].backoff \in Nat
        BY <1>1, <1>7, IInvNext DEF IInv, TypeOK, KeyMetrics, Next
      <3> QED
        BY <2>5, <3>1, <3>2 DEF Continues, Closed, Open
    <2> QED
      BY <2>3, <2>4, <2>5
  <1> QED
    BY <1>4, <1>5, <1>6, <1>7 DEF Next

(* For any breaker and any order of operations: the backoff level falls     *)
(* with the end of an outage only, restarts or not.                         *)
THEOREM BackoffAlwaysKept == Spec => BackoffKept
  <1>1. IInv /\ Agreement /\ [Next]_vars =>
          [\A k \in Keys :
             metrics'[k].backoff < metrics[k].backoff =>
               \/ metrics'[k].state = Closed
               \/ StoreFaults /\ Restart]_vars
    BY StepContinues DEF Continues
  <1> QED
    BY <1>1, AgreementAlways, PTL DEF Spec, BackoffKept

(* The retry time of an outage is never put off, by late failures, by the   *)
(* ticker or by a restart.                                                  *)
THEOREM RetryNeverPostponed == Spec => RetryNotPostponed
  <1>1. IInv /\ Agreement /\ [Next]_vars =>
          [\A k \in Keys :
             /\ metrics[k].state = Open /\ metrics[k].retryIn > 0
             /\ metrics'[k].state = Open
             => \/ metrics'[k].retryIn <= metrics[k].retryIn
                \/ StoreFaults /\ Restart]_vars
    BY StepContinues DEF Continues
  <1> QED
    BY <1>1, AgreementAlways, PTL DEF Spec, RetryNotPostponed
=============================================================================
