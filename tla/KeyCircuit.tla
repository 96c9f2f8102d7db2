----------------------------- MODULE KeyCircuit -----------------------------
(***************************************************************************)
(* The breaker half of MetricsManager: the circuit of every key in memory, *)
(* its row in the circuit_states table, and the request records a restart  *)
(* rebuilds the window from (channel_metrics.go, sqlite_store.go).         *)
(*                                                                         *)
(* Callers are the environment here: any operation may be called on any    *)
(* key at any time, which covers every interleaving of request handlers,   *)
(* the 30-second recovery ticker, the hourly stale-key cleanup, the        *)
(* management API and the scheduled key recovery.  UpstreamFailover        *)
(* composes the breaker with its real callers.                             *)
(***************************************************************************)
EXTENDS Breaker

CONSTANTS
  Keys,            \* metrics identities, hash(baseURL | apiKey)
  StoreFaults,     \* TRUE: a write to SQLite may fail (it is logged, not retried)
  Deletions,       \* TRUE: channels may be deleted (DeleteByMetricsKeys)
  MaxConsecutive,  \* bound: failures counted in a row
  MaxRecords       \* bound: newest request records kept per key

ASSUME KeyCircuitAssumption ==
  /\ StoreFaults \in BOOLEAN
  /\ Deletions \in BOOLEAN
  /\ MaxConsecutive \in Nat
  /\ MaxRecords \in Nat \ {0}

VARIABLES
  metrics,   \* keyMetrics: the record of every key, NewKeyMetrics if untracked
  tracked,   \* the keys of the keyMetrics map
  stored,    \* circuit_states: the row of every key
  rows,      \* the keys that have a row
  records,   \* request_records and write buffer: breaker-relevant outcomes
  deleting   \* what a running DeleteByMetricsKeys still has to delete

vars == <<metrics, tracked, stored, rows, records, deleting>>

(* The fields persistCircuitStateLocked writes.                             *)
RowOf(m) ==
  [state |-> m.state, brokenAt |-> m.brokenAt, halfOpenAt |-> m.halfOpenAt,
   retryIn |-> m.retryIn, backoff |-> m.backoff, successes |-> m.successes,
   consecutive |-> m.consecutive]

CircuitRow ==
  [state : CircuitStates, brokenAt : BOOLEAN, halfOpenAt : BOOLEAN,
   retryIn : 0..BackoffMax \cup {NoRetry}, backoff : Nat, successes : Nat,
   consecutive : Nat]

Init ==
  /\ metrics = [k \in Keys |-> NewKeyMetrics]
  /\ tracked = {}
  /\ stored = [k \in Keys |-> RowOf(NewKeyMetrics)]
  /\ rows = {}
  /\ records = [k \in Keys |-> << >>]
  /\ deleting = [k \in Keys |-> "nothing"]

-----------------------------------------------------------------------------
(* Writing back *)

(* Mutant: the row is written when the state changes.                       *)
TransitionedByState(m, next) == next.state # m.state

(* The breaker writes its row on a transition and on nothing else: closed   *)
(* successes, counted failures and irrelevant failures stay in memory.      *)
Transitioned(m, next) ==
  Due(m) \/ next.state # m.state \/ next.successes # m.successes

(* UpsertCircuitState: the row is replaced, unless SQLite fails.  A handler *)
(* that first advances a due circuit and then settles it writes twice, so   *)
(* the first write may survive alone.                                       *)
Upsert(k, next) ==
  \/ /\ stored' = [stored EXCEPT ![k] = RowOf(next)]
     /\ rows' = rows \cup {k}
  \/ /\ StoreFaults
     /\ UNCHANGED <<stored, rows>>
  \/ /\ StoreFaults /\ Due(metrics[k])
     /\ stored' = [stored EXCEPT ![k] = RowOf(MoveCircuitToHalfOpen(metrics[k]))]
     /\ rows' = rows \cup {k}

(* getOrCreateKey, the new record and, on a transition, its row.            *)
Commit(k, next) ==
  /\ metrics' = [metrics EXCEPT ![k] = next]
  /\ tracked' = tracked \cup {k}
  /\ IF Transitioned(metrics[k], next)
     THEN Upsert(k, next)
     ELSE UNCHANGED <<stored, rows>>

(* AddRecord: only the newest MaxRecords outcomes matter to a restart.      *)
AddRecord(k, success) ==
  LET longer == Append(records[k], success)
  IN  records' = [records EXCEPT ![k] =
                    IF Len(longer) > MaxRecords THEN Tail(longer) ELSE longer]

-----------------------------------------------------------------------------
(* Operations of the request handlers *)

RecordSuccess(k) ==
  /\ Commit(k, HandleBreakerSuccess(metrics[k]))
  /\ AddRecord(k, TRUE)
  /\ UNCHANGED deleting

RecordFailure(k, class) ==
  /\ metrics[k].consecutive < MaxConsecutive
  /\ Commit(k, HandleBreakerFailure(metrics[k], class))
  /\ IF IsBreakerRelevant(class) THEN AddRecord(k, FALSE) ELSE UNCHANGED records
  /\ UNCHANGED deleting

RecordRequestConnected(k) ==
  /\ Commit(k, AdvanceCircuitStateIfDue(metrics[k]))
  /\ UNCHANGED <<records, deleting>>

(* GetKeyCircuitState, ShouldSuspendKey, IsKeyHealthy: a read that advances *)
(* a due circuit.                                                           *)
GetKeyCircuitState(k) ==
  /\ k \in tracked
  /\ Commit(k, AdvanceCircuitStateIfDue(metrics[k]))
  /\ UNCHANGED <<records, deleting>>

TryAcquireProbe(k) ==
  LET due == AdvanceCircuitStateIfDue(metrics[k])
  IN  /\ k \in tracked
      /\ Commit(k, IF ProbeFree(due) THEN [due EXCEPT !.probe = TRUE] ELSE due)
      /\ UNCHANGED <<records, deleting>>

ReleaseProbe(k) ==
  /\ k \in tracked
  /\ metrics' = [metrics EXCEPT ![k].probe = FALSE]
  /\ UNCHANGED <<tracked, stored, rows, records, deleting>>

-----------------------------------------------------------------------------
(* Recovery, reset and deletion *)

(* The scheduled recovery of a disabled key forces it to half-open.         *)
MoveKeyToHalfOpen(k) ==
  /\ metrics' = [metrics EXCEPT ![k] = MoveCircuitToHalfOpen(metrics[k])]
  /\ tracked' = tracked \cup {k}
  /\ Upsert(k, MoveCircuitToHalfOpen(metrics[k]))
  /\ UNCHANGED <<records, deleting>>

(* ResetKeyFailureState and ResetKey: memory and row are closed again; the  *)
(* request records stay in the database.                                    *)
ResetKey(k) ==
  /\ k \in tracked
  /\ metrics' = [metrics EXCEPT ![k] = ResetCircuitState(metrics[k])]
  /\ Upsert(k, ResetCircuitState(metrics[k]))
  /\ UNCHANGED <<tracked, records, deleting>>

(* recoverExpiredCircuitBreakers: every due circuit under one lock.         *)
RecoverExpired ==
  LET due == {k \in tracked : Due(metrics[k])}
  IN  /\ due # {}
      /\ metrics' = [k \in Keys |-> IF k \in due
                                    THEN MoveCircuitToHalfOpen(metrics[k])
                                    ELSE metrics[k]]
      /\ \E lost \in SUBSET due :
            /\ lost # {} => StoreFaults
            /\ stored' = [k \in Keys |-> IF k \in due \ lost
                                         THEN RowOf(MoveCircuitToHalfOpen(metrics[k]))
                                         ELSE stored[k]]
            /\ rows' = rows \cup (due \ lost)
      /\ UNCHANGED <<tracked, records, deleting>>

(* cleanupStaleKeys: a key without activity for 48 hours, or that never had *)
(* any, leaves the map and loses its row in the same critical section.  The *)
(* threshold is far above BackoffMax, so a pending retry time has passed.   *)
CleanupStaleKey(k) ==
  /\ k \in tracked
  /\ metrics[k].retryIn <= 0
  /\ metrics' = [metrics EXCEPT ![k] = NewKeyMetrics]
  /\ tracked' = tracked \ {k}
  /\ \/ rows' = rows \ {k}
     \/ StoreFaults /\ UNCHANGED rows
  /\ UNCHANGED <<stored, records, deleting>>

(* DeleteByMetricsKeys gives up the lock after the map and then deletes the *)
(* records and the row in two statements; a failed first statement returns. *)
DeleteFromMemory(k) ==
  /\ Deletions
  /\ deleting[k] = "nothing"
  /\ metrics' = [metrics EXCEPT ![k] = NewKeyMetrics]
  /\ tracked' = tracked \ {k}
  /\ deleting' = [deleting EXCEPT ![k] = "records"]
  /\ UNCHANGED <<stored, rows, records>>

DeleteRecords(k) ==
  /\ deleting[k] = "records"
  /\ \/ /\ records' = [records EXCEPT ![k] = << >>]
        /\ deleting' = [deleting EXCEPT ![k] = "row"]
     \/ /\ StoreFaults
        /\ deleting' = [deleting EXCEPT ![k] = "nothing"]
        /\ UNCHANGED records
  /\ UNCHANGED <<metrics, tracked, stored, rows>>

DeleteCircuitState(k) ==
  /\ deleting[k] = "row"
  /\ \/ rows' = rows \ {k}
     \/ StoreFaults /\ UNCHANGED rows
  /\ deleting' = [deleting EXCEPT ![k] = "nothing"]
  /\ UNCHANGED <<metrics, tracked, stored, records>>

-----------------------------------------------------------------------------
(* Time and restarts *)

Tick ==
  /\ \E k \in Keys : metrics[k].retryIn > 0 \/ stored[k].retryIn > 0
  /\ metrics' = [k \in Keys |-> Elapse(metrics[k])]
  /\ stored' = [k \in Keys |-> Elapse(stored[k])]
  /\ UNCHANGED <<tracked, rows, records, deleting>>

(* The number of failures after the last success.                           *)
TrailingFailures(results) ==
  Cardinality({i \in 1..Len(results) : \A j \in i..Len(results) : ~results[j]})

Newest(results, n) ==
  SubSeq(results, IF Len(results) > n THEN Len(results) - n + 1 ELSE 1, Len(results))

(* Mutant: a restart starts the wait of an open circuit over.               *)
LoadedRestartsWait(k, kept, recent) ==
  LET row == stored[k]
  IN  [NewKeyMetrics EXCEPT
         !.window = Newest(recent, WindowSize),
         !.state = row.state, !.brokenAt = row.brokenAt,
         !.halfOpenAt = row.halfOpenAt,
         !.retryIn = IF row.state = Open THEN NextBackoffDuration(row.backoff)
                                         ELSE row.retryIn,
         !.backoff = row.backoff, !.successes = row.successes,
         !.consecutive = row.consecutive]

(* loadFromStore: window and run of failures from the records, then the row *)
(* overrides everything but the window.                                     *)
Loaded(k, kept, recent) ==
  LET rebuilt == [NewKeyMetrics EXCEPT
                    !.consecutive = TrailingFailures(kept),
                    !.window = Newest(recent, WindowSize)]
      row == stored[k]
  IN  IF k \notin rows THEN rebuilt
      ELSE [rebuilt EXCEPT
              !.state = row.state, !.brokenAt = row.brokenAt,
              !.halfOpenAt = row.halfOpenAt, !.retryIn = row.retryIn,
              !.backoff = row.backoff, !.successes = row.successes,
              !.consecutive = row.consecutive]

(* The process stops (or crashes) and starts again.  Of the records the     *)
(* newest may have been lost with the write buffer and the oldest may be    *)
(* outside the 24 hours that are loaded or the 15 minutes that count for    *)
(* the window; handlers and deletions in progress are gone.                 *)
Restart ==
  /\ \E first, cut, last \in [Keys -> 0..MaxRecords] :
        /\ \A k \in Keys : /\ first[k] <= cut[k]
                           /\ cut[k] <= last[k]
                           /\ last[k] <= Len(records[k])
        /\ LET kept(k)   == SubSeq(records[k], first[k] + 1, last[k])
               recent(k) == SubSeq(records[k], cut[k] + 1, last[k])
           IN  /\ metrics' = [k \in Keys |-> Loaded(k, kept(k), recent(k))]
               /\ tracked' = rows \cup {k \in Keys : kept(k) # << >>}
               /\ records' = [k \in Keys |-> kept(k)]
  /\ deleting' = [k \in Keys |-> "nothing"]
  /\ UNCHANGED <<stored, rows>>

-----------------------------------------------------------------------------

Operation(k) ==
  \/ RecordSuccess(k)
  \/ \E class \in FailureClasses : RecordFailure(k, class)
  \/ RecordRequestConnected(k)
  \/ GetKeyCircuitState(k)
  \/ TryAcquireProbe(k)
  \/ ReleaseProbe(k)
  \/ MoveKeyToHalfOpen(k)
  \/ ResetKey(k)
  \/ CleanupStaleKey(k)
  \/ DeleteFromMemory(k)
  \/ DeleteRecords(k)
  \/ DeleteCircuitState(k)

Next ==
  \/ \E k \in Keys : Operation(k)
  \/ RecoverExpired
  \/ Tick
  \/ Restart

Spec == Init /\ [][Next]_vars

(* Time passes and the goroutine started by the constructor keeps running.  *)
FairSpec == Spec /\ WF_vars(Tick) /\ WF_vars(RecoverExpired)

-----------------------------------------------------------------------------
(* Properties *)

(* Every variable has its type.                                             *)
TypeOK ==
  /\ metrics \in [Keys -> KeyMetrics]
  /\ tracked \subseteq Keys
  /\ stored \in [Keys -> CircuitRow]
  /\ rows \subseteq Keys
  /\ records \in [Keys -> Seq(BOOLEAN)]
  /\ deleting \in [Keys -> {"nothing", "records", "row"}]

(* The state of every circuit and the fields that belong to it agree after  *)
(* any sequence of operations, restarts and lost writes included: an open   *)
(* circuit has a retry time (otherwise recoverExpiredCircuitBreakers never  *)
(* finds it), a closed one has no backoff left and no probe flag.           *)
CircuitsShaped == \A k \in Keys : CircuitShape(metrics[k])

(* A restart that reads row back continues the circuit m: same state, retry *)
(* time, backoff level and half-open successes.                             *)
Matches(m, row) ==
  /\ row.state = m.state
  /\ row.brokenAt = m.brokenAt
  /\ row.halfOpenAt = m.halfOpenAt
  /\ row.retryIn = m.retryIn
  /\ row.backoff = m.backoff
  /\ row.successes = m.successes

(* The circuit_states table always holds what is in memory, although it is  *)
(* written on transitions only: a crash at any point loses no open circuit, *)
(* no retry time and no backoff level.  A key that is not closed has a row, *)
(* unless a deletion of its channel raced with requests on the same key.    *)
StoreAgrees ==
  ~StoreFaults =>
    \A k \in tracked : deleting[k] = "nothing" =>
      IF k \in rows
      THEN Matches(metrics[k], stored[k])
      ELSE metrics[k].state = Closed \/ Deletions

(* The backoff level never falls while the outage lasts: only closing the   *)
(* circuit (a successful probe, a late success, a manual reset) or dropping *)
(* the key starts again at the base delay.  Restarts do not, unless a row   *)
(* could not be written.                                                    *)
BackoffKept ==
  [][\A k \in Keys :
       metrics'[k].backoff < metrics[k].backoff =>
         \/ metrics'[k].state = Closed
         \/ StoreFaults /\ Restart]_vars

(* The retry time of an open circuit only runs down: failures of requests   *)
(* that were already under way do not push it out, and no restart resets    *)
(* it, unless a row could not be written.                                   *)
RetryNotPostponed ==
  [][\A k \in Keys :
       /\ metrics[k].state = Open /\ metrics[k].retryIn > 0
       /\ metrics'[k].state = Open
       => \/ metrics'[k].retryIn <= metrics[k].retryIn
          \/ StoreFaults /\ Restart]_vars

(* No outage is forever: with time passing and the recovery ticker running, *)
(* an open circuit leaves its backoff level after the retry time even when  *)
(* no request ever asks for the key again, and neither restarts nor lost    *)
(* writes nor late failures can hold it there.                              *)
OpenExpires ==
  \A k \in Keys : \A level \in 0..MaxConsecutive :
    LET OpenAt == metrics[k].state = Open /\ metrics[k].backoff = level
    IN  OpenAt ~> ~OpenAt
=============================================================================
