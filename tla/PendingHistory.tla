--------------------------- MODULE PendingHistory ---------------------------
(***************************************************************************)
(* The request history of one metrics key (channel_metrics.go).  A request *)
(* is counted as a success when it connects; pendingHistoryIdx remembers   *)
(* at which index, so that its real outcome can be written there when it   *)
(* ends, possibly hours later.  Meanwhile the history is cut at the front  *)
(* (24 hours), loses cancelled requests in the middle, and disappears with *)
(* its key.                                                                *)
(*                                                                         *)
(* GetModelStatsHistory copies the slice header under the lock and walks   *)
(* the array after it gave the lock up: traversal holds what it sees.      *)
(***************************************************************************)
EXTENDS Naturals, Sequences, FiniteSets

CONSTANTS
  Requests,       \* attempts; each gets a request id of its own
  Keep,           \* 24 hours, in ticks
  StaleAfter,     \* 48 hours, in ticks
  Drops,          \* the ways the key may go: "reset", "delete", "stale"
  MaxTime,        \* bound: the clock
  MaxTraversals   \* bound: calls of GetModelStatsHistory

ASSUME PendingHistoryAssumption ==
  /\ IsFiniteSet(Requests)
  /\ Keep \in Nat \ {0}
  /\ StaleAfter \in Nat
  /\ Drops \subseteq {"reset", "delete", "stale"}
  /\ MaxTime \in Nat
  /\ MaxTraversals \in Nat

VARIABLES
  tracked,      \* the key has a KeyMetrics
  history,      \* requestHistory
  pending,      \* pendingHistoryIdx, 0 for a request without an entry
  active,       \* ActiveRequests
  lastSettled,  \* the later of LastSuccessAt and LastFailureAt, 0 for neither
  clock,
  pc,           \* how far every attempt is
  stamp,        \* the timestamp an attempt carries into RecordRequestConnectedAt
  fate,         \* how the attempt ended
  lost,         \* the attempts that had connected when the key went
  traversal,    \* the running GetModelStatsHistory
  traversals    \* how many have run

vars == <<tracked, history, pending, active, lastSettled, clock, pc, stamp,
          fate, lost, traversal, traversals>>

Fates   == {"success", "failure", "cancelled"}
Records == [owner : Requests, success : BOOLEAN, timestamp : Nat, model : BOOLEAN]

Running == {r \in Requests : pc[r] \in {"started", "stamped", "connected", "settled"}}

NoTraversal == [cells |-> << >>, offset |-> 0, shared |-> FALSE, next |-> 1,
                counted |-> << >>]

Init ==
  /\ tracked = FALSE
  /\ history = << >>
  /\ pending = [r \in Requests |-> 0]
  /\ active = 0
  /\ lastSettled = 0
  /\ clock = 1
  /\ pc = [r \in Requests |-> "idle"]
  /\ stamp = [r \in Requests |-> 0]
  /\ fate = [r \in Requests |-> "none"]
  /\ lost = {}
  /\ traversal = NoTraversal
  /\ traversals = 0

-----------------------------------------------------------------------------
(* What the traversal sees of a change.  Its array is the one the history   *)
(* lives in as long as it is shared; position p of the history is cell      *)
(* p + offset of the copied slice.                                          *)

Overwritten(h, positions) ==
  [traversal EXCEPT !.cells =
     [v \in DOMAIN traversal.cells |->
        IF /\ traversal.shared /\ v > traversal.offset
           /\ v - traversal.offset \in positions
        THEN h[v - traversal.offset]
        ELSE traversal.cells[v]]]

Detached == [traversal EXCEPT !.shared = FALSE]

-----------------------------------------------------------------------------
(* Slices *)

(* Mutant: a tick too early.                                                *)
FreshShorter(record) == record.timestamp + Keep > clock + 1

Fresh(record) == record.timestamp + Keep > clock

(* cleanupHistoryLocked cuts the front off, up to the first fresh record.   *)
Expired(h) == Cardinality({i \in DOMAIN h : \A j \in 1..i : ~Fresh(h[j])})

(* Mutant: the indices are not moved with the records.                      *)
ShiftedNot(p, n) == p

Shifted(p, n) == [r \in Requests |-> IF p[r] > n THEN p[r] - n ELSE 0]

(* An append, and the cleanup that follows each of them.  Go appends in     *)
(* place while the array has room and moves to a new one otherwise; there   *)
(* is room wherever the traversal has a cell.  Dropping everything keeps    *)
(* the array and starts at its front again, dropping some moves the front.  *)
AppendAndCleanup(record, p) ==
  LET longer == Append(history, record)
      n      == Expired(longer)
      shown  == Overwritten(longer, {Len(longer)})
      moved  == IF n < Len(longer) THEN [shown EXCEPT !.offset = @ + n] ELSE shown
      room   == Len(longer) + traversal.offset <= Len(traversal.cells)
  IN  /\ history' = SubSeq(longer, n + 1, Len(longer))
      /\ pending' = Shifted(p, n)
      /\ \/ traversal' = moved
         \/ ~room /\ traversal' = Detached

(* Mutant: nothing is taken out.                                            *)
WithoutNone(h, idx) == h

(* append(h[:idx], h[idx+1:]...)                                            *)
Without(h, idx) ==
  [i \in 1..(Len(h) - 1) |-> IF i < idx THEN h[i] ELSE h[i + 1]]

(* Mutant: the entries behind a removed record keep their index.            *)
CloseGapNot(p, idx) == [r \in Requests |-> p[r]]

CloseGap(p, idx) ==
  [r \in Requests |-> IF p[r] > idx THEN p[r] - 1 ELSE p[r]]

-----------------------------------------------------------------------------
(* An attempt of TryUpstreamWithAllKeys *)

HasRecord(r) == pending[r] # 0 /\ pending[r] <= Len(history)

RecordRequestStart(r) ==
  /\ pc[r] = "idle"
  /\ pc' = [pc EXCEPT ![r] = "started"]
  /\ tracked' = TRUE
  /\ active' = active + 1
  /\ UNCHANGED <<history, pending, lastSettled, clock, stamp, fate, lost,
                 traversal, traversals>>

(* RecordRequestConnected reads the clock before it waits for the lock, so  *)
(* the history is not sorted by time.                                       *)
ReadClock(r) ==
  /\ pc[r] = "started"
  /\ pc' = [pc EXCEPT ![r] = "stamped"]
  /\ stamp' = [stamp EXCEPT ![r] = clock]
  /\ UNCHANGED <<tracked, history, pending, active, lastSettled, clock, fate,
                 lost, traversal, traversals>>

RecordRequestConnectedAt(r) ==
  /\ pc[r] = "stamped"
  /\ pc' = [pc EXCEPT ![r] = "connected"]
  /\ tracked' = TRUE
  /\ AppendAndCleanup([owner |-> r, success |-> TRUE, timestamp |-> stamp[r],
                       model |-> TRUE],
                      [pending EXCEPT ![r] = Len(history) + 1])
  /\ UNCHANGED <<active, lastSettled, clock, stamp, fate, lost, traversals>>

(* Mutant: the second record of a request names the model again.            *)
RecordOutcomeNamed(r, outcome) ==
  /\ tracked' = TRUE
  /\ lastSettled' = clock
  /\ AppendAndCleanup([owner |-> r, success |-> outcome = "success",
                       timestamp |-> clock, model |-> TRUE], pending)

(* recordSuccessWithUsageLocked and recordFailureLocked, for the history.   *)
RecordOutcome(r, outcome) ==
  /\ tracked' = TRUE
  /\ lastSettled' = clock
  /\ AppendAndCleanup([owner |-> r, success |-> outcome = "success",
                       timestamp |-> clock, model |-> FALSE], pending)

(* RecordRequestFinalizeOutcome: in place, or as a new record when the      *)
(* placeholder has expired or went with its key.                            *)
FinalizeOutcome(r, outcome) ==
  LET idx     == pending[r]
      settled == [history EXCEPT ![idx].success = (outcome = "success")]
  IN  /\ pc[r] = "connected"
      /\ pc' = [pc EXCEPT ![r] = "settled"]
      /\ fate' = [fate EXCEPT ![r] = outcome]
      /\ \/ /\ HasRecord(r)
            /\ history' = settled
            /\ pending' = [pending EXCEPT ![r] = 0]
            /\ lastSettled' = clock
            /\ traversal' = Overwritten(settled, {idx})
            /\ UNCHANGED tracked
         \/ /\ ~HasRecord(r)
            /\ RecordOutcome(r, outcome)
      /\ UNCHANGED <<active, clock, stamp, lost, traversals>>

(* The record of a cancelled request is taken out; the records behind it    *)
(* move one position to the front, in the array itself.                     *)
FinalizeClientCancel(r) ==
  LET idx == pending[r]
  IN  /\ pc[r] = "connected"
      /\ pc' = [pc EXCEPT ![r] = "settled"]
      /\ fate' = [fate EXCEPT ![r] = "cancelled"]
      /\ \/ /\ HasRecord(r)
            /\ history' = Without(history, idx)
            /\ pending' = CloseGap([pending EXCEPT ![r] = 0], idx)
            /\ traversal' = Overwritten(Without(history, idx),
                                        idx..(Len(history) - 1))
         \/ /\ ~HasRecord(r)
            /\ UNCHANGED <<history, pending, traversal>>
      /\ UNCHANGED <<tracked, active, lastSettled, clock, stamp, lost, traversals>>

(* Mutant: the end is not counted.                                          *)
EndForgotten == active

(* The key may have been reset or replaced since the request started.       *)
OneLess == IF active > 0 THEN active - 1 ELSE active

RecordRequestEnd(r) ==
  /\ pc[r] = "settled"
  /\ pc' = [pc EXCEPT ![r] = "ended"]
  /\ active' = OneLess
  /\ UNCHANGED <<tracked, history, pending, lastSettled, clock, stamp, fate,
                 lost, traversal, traversals>>

(* The compact handler settles its attempts without connecting them.        *)
RecordUnconnected(r, outcome) ==
  /\ pc[r] = "idle"
  /\ pc' = [pc EXCEPT ![r] = "ended"]
  /\ fate' = [fate EXCEPT ![r] = outcome]
  /\ RecordOutcome(r, outcome)
  /\ UNCHANGED <<active, clock, stamp, lost, traversals>>

-----------------------------------------------------------------------------
(* The end of the key *)

Emptied ==
  /\ history' = << >>
  /\ pending' = [r \in Requests |-> 0]
  /\ active' = 0
  /\ lastSettled' = 0
  /\ traversal' = Detached
  /\ lost' = lost \cup {r \in Requests : pc[r] \in {"connected", "settled", "ended"}}
  /\ UNCHANGED <<clock, pc, stamp, fate, traversals>>

ResetKey ==
  /\ "reset" \in Drops
  /\ tracked
  /\ Emptied
  /\ UNCHANGED tracked

(* DeleteKeysForChannel: the channel or its key was removed.                *)
DeleteKey ==
  /\ "delete" \in Drops
  /\ tracked
  /\ tracked' = FALSE
  /\ Emptied

(* cleanupStaleKeys: no outcome at all, or none for 48 hours.               *)
CleanupStaleKey ==
  /\ "stale" \in Drops
  /\ tracked
  /\ lastSettled = 0 \/ clock - lastSettled > StaleAfter
  /\ tracked' = FALSE
  /\ Emptied

Tick ==
  /\ clock < MaxTime
  /\ clock' = clock + 1
  /\ UNCHANGED <<tracked, history, pending, active, lastSettled, pc, stamp, fate,
                 lost, traversal, traversals>>

-----------------------------------------------------------------------------
(* GetModelStatsHistory *)

CopyReference ==
  /\ traversals < MaxTraversals
  /\ traversal = NoTraversal
  /\ history # << >>
  /\ traversals' = traversals + 1
  /\ traversal' = [NoTraversal EXCEPT !.cells = history, !.shared = TRUE]
  /\ UNCHANGED <<tracked, history, pending, active, lastSettled, clock, pc, stamp,
                 fate, lost>>

(* Records without a model are skipped.                                     *)
VisitRecord ==
  LET record == traversal.cells[traversal.next]
  IN  /\ traversal.next <= Len(traversal.cells)
      /\ traversal' = [traversal EXCEPT
                         !.next = @ + 1,
                         !.counted = IF record.model THEN Append(@, record.owner)
                                                     ELSE @]
      /\ UNCHANGED <<tracked, history, pending, active, lastSettled, clock, pc,
                     stamp, fate, lost, traversals>>

ReturnStats ==
  /\ traversal # NoTraversal
  /\ traversal.next > Len(traversal.cells)
  /\ traversal' = NoTraversal
  /\ UNCHANGED <<tracked, history, pending, active, lastSettled, clock, pc, stamp,
                 fate, lost, traversals>>

-----------------------------------------------------------------------------

Attempt(r) ==
  \/ RecordRequestStart(r)
  \/ ReadClock(r)
  \/ RecordRequestConnectedAt(r)
  \/ \E outcome \in {"success", "failure"} :
        FinalizeOutcome(r, outcome) \/ RecordUnconnected(r, outcome)
  \/ FinalizeClientCancel(r)
  \/ RecordRequestEnd(r)

Next ==
  \/ \E r \in Requests : Attempt(r)
  \/ ResetKey
  \/ DeleteKey
  \/ CleanupStaleKey
  \/ Tick
  \/ CopyReference
  \/ VisitRecord
  \/ ReturnStats

Spec == Init /\ [][Next]_vars

-----------------------------------------------------------------------------
(* Properties *)

(* Every variable has its type.                                             *)
TypeOK ==
  /\ tracked \in BOOLEAN
  /\ history \in Seq(Records)
  /\ pending \in [Requests -> Nat]
  /\ active \in Nat
  /\ lastSettled \in Nat
  /\ clock \in Nat \ {0}
  /\ pc \in [Requests -> {"idle", "started", "stamped", "connected", "settled", "ended"}]
  /\ stamp \in [Requests -> Nat]
  /\ fate \in [Requests -> Fates \cup {"none"}]
  /\ lost \subseteq Requests
  /\ traversal \in [cells : Seq(Records), offset : Nat, shared : BOOLEAN,
                    next : Nat \ {0}, counted : Seq(Requests)]
  /\ traversals \in Nat

(* The index kept for a request points at the record of that request and of *)
(* no other, after any mix of cleanups, cancellations, resets and deletions *)
(* in between: an outcome is never written over somebody else's.            *)
IndexPointsHome ==
  \A r \in Requests : pending[r] # 0 =>
    /\ pending[r] <= Len(history)
    /\ history[pending[r]].owner = r

(* No request is in the history twice: the path that appends a new record   *)
(* is taken only when the placeholder is really gone.                       *)
RecordedOnce ==
  \A i, j \in DOMAIN history : history[i].owner = history[j].owner => i = j

(* What the history says of a finished request is how it ended: no optimistic *)
(* placeholder survives as a success, and a cancelled request leaves nothing. *)
OutcomesTrue ==
  \A i \in DOMAIN history :
    LET r == history[i].owner
    IN  fate[r] # "none" => /\ fate[r] # "cancelled"
                            /\ history[i].success <=> fate[r] = "success"

(* A connected request leaves the history only because 24 hours have passed *)
(* since, its client cancelled it, or its key was reset or dropped; cutting *)
(* the front and closing gaps takes no other record with it.                *)
RecordKept ==
  \A r \in Requests :
    pc[r] \in {"connected", "settled", "ended"} /\ fate[r] # "cancelled" =>
      \/ \E i \in DOMAIN history : history[i].owner = r
      \/ stamp[r] + Keep <= clock
      \/ r \in lost

(* ActiveRequests never exceeds the requests under way, so it returns to    *)
(* zero when they have ended, also when the key was reset, dropped or       *)
(* recreated in the middle of them.                                         *)
NoGhostActivity == active <= Cardinality(Running)

(* The comment in GetModelStatsHistory relies on the array not changing     *)
(* while it is walked: then no request can be counted twice.                *)
CountedOnce ==
  \A i, j \in DOMAIN traversal.counted :
    traversal.counted[i] = traversal.counted[j] => i = j

(* Cancellations are all that breaks it: outcomes written in place, the     *)
(* front cut off and records appended to the shared array during the walk   *)
(* make it count no request twice.                                          *)
CountedOnceUncancelled == (\A r \in Requests : fate[r] # "cancelled") => CountedOnce
=============================================================================
