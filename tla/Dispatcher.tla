----------------------------- MODULE Dispatcher -----------------------------
(***************************************************************************)
(* The dispatchers that space out capability tests of one key              *)
(* (handlers/capability_test_dispatcher.go).  A request for a slot is      *)
(* queued under the read lock of its dispatcher; a goroutine hands out the *)
(* slots, an interval apart and priority requests first, and closes the    *)
(* dispatcher when it has been idle for long.  The pool then makes a new   *)
(* one for the key.                                                        *)
(***************************************************************************)
EXTENDS Naturals, Sequences, SequencesExt

CONSTANTS
  Asks,       \* requests for a slot
  Priority,   \* those of AcquirePrioritySendSlot
  Interval,   \* between two slots
  IdleTTL,    \* capabilityDispatcherIdleTTL
  MaxMade,    \* bound: dispatchers made
  LastTick    \* bound: time

ASSUME DispatcherAssumption ==
  /\ Priority \subseteq Asks
  /\ {Interval, IdleTTL, MaxMade, LastTick} \subseteq Nat

Made == 1..MaxMade
NoDispatcher == 0

VARIABLES
  tick,      \* time
  pool,      \* the dispatcher the pool keeps for the key
  made,      \* how many dispatchers were made
  closed,    \* the closed dispatchers
  queues,    \* of a dispatcher: requests with priority, and the others
  nextAvailable,      \* nextAvailable
  used,      \* lastUsed
  ask,       \* how far a request is, and with which dispatcher
  ctxDone    \* requests whose context is done

dispatcherVars == <<tick, pool, made, closed, queues, nextAvailable, used, ask, ctxDone>>

DispatcherInit ==
  /\ tick = 0 /\ pool = NoDispatcher /\ made = 0 /\ closed = {}
  /\ queues = [d \in Made |-> [priority |-> << >>, normal |-> << >>]]
  /\ nextAvailable = [d \in Made |-> 0] /\ used = [d \in Made |-> 0]
  /\ ask = [a \in Asks |-> [at |-> "new", with |-> NoDispatcher]]
  /\ ctxDone = {}

Empty(d) == queues[d].priority = << >> /\ queues[d].normal = << >>

Reaches(a, place) == ask' = [ask EXCEPT ![a].at = place]

(* Get finds the dispatcher of the key or makes one.                        *)
Get(a) ==
  /\ ask[a].at = "new"
  /\ IF pool # NoDispatcher /\ pool \notin closed
     THEN UNCHANGED <<pool, made, nextAvailable>>
     ELSE /\ made < MaxMade
          /\ made' = made + 1 /\ pool' = made'
          /\ nextAvailable' = [nextAvailable EXCEPT ![made'] = tick]
  /\ used' = [used EXCEPT ![pool'] = tick]
  /\ ask' = [ask EXCEPT ![a] = [at |-> "holding", with |-> pool']]
  /\ UNCHANGED <<tick, closed, queues, ctxDone>>

(* The read lock is taken; a closed dispatcher, or a context that is done,  *)
(* is an error.                                                             *)
Enter(a) ==
  /\ ask[a].at = "holding"
  /\ Reaches(a, IF ask[a].with \in closed THEN "refused" ELSE "inside")
  /\ UNCHANGED <<tick, pool, made, closed, queues, nextAvailable, used, ctxDone>>

Enqueue(a) ==
  LET d == ask[a].with IN
  /\ ask[a].at = "inside"
  /\ \/ a \in ctxDone /\ Reaches(a, "refused") /\ UNCHANGED <<queues, used>>
     \/ /\ queues' = IF a \in Priority THEN [queues EXCEPT ![d].priority = Append(@, a)]
                                       ELSE [queues EXCEPT ![d].normal = Append(@, a)]
        /\ used' = [used EXCEPT ![d] = tick]
        /\ Reaches(a, "queued")
  /\ UNCHANGED <<tick, pool, made, closed, nextAvailable, ctxDone>>

(* run: a request whose context is done gives up its turn, not the slot.    *)
Dispatch(d) ==
  LET first == IF queues[d].priority # << >> THEN "priority" ELSE "normal"
      a     == Head(queues[d][first])
  IN /\ d \notin closed /\ ~Empty(d) /\ nextAvailable[d] <= tick
     /\ queues' = [queues EXCEPT ![d][first] = Tail(@)]
     /\ IF a \in ctxDone
        THEN UNCHANGED <<nextAvailable, used, ask>>
        ELSE /\ Reaches(a, IF ask[a].at = "queued" THEN "granted" ELSE ask[a].at)
             /\ nextAvailable' = [nextAvailable EXCEPT ![d] = tick + Interval]
             /\ used' = [used EXCEPT ![d] = tick]
     /\ UNCHANGED <<tick, pool, made, closed, ctxDone>>

GiveUp(a) ==
  /\ ask[a].at = "queued" /\ a \in ctxDone
  /\ Reaches(a, "refused")
  /\ UNCHANGED <<tick, pool, made, closed, queues, nextAvailable, used, ctxDone>>

(* Mutant: the dispatcher is closed without the write lock.                 *)
CloseIdleUnlocked(d) ==
  /\ d <= made /\ d \notin closed
  /\ Empty(d) /\ tick - used[d] >= IdleTTL
  /\ closed' = closed \cup {d}
  /\ UNCHANGED <<tick, pool, made, queues, nextAvailable, used, ask, ctxDone>>

(* The idle timer: under the write lock, so with no request inside.         *)
CloseIdle(d) ==
  /\ d <= made /\ d \notin closed
  /\ \A a \in Asks : ask[a] # [at |-> "inside", with |-> d]
  /\ Empty(d) /\ tick - used[d] >= IdleTTL
  /\ closed' = closed \cup {d}
  /\ UNCHANGED <<tick, pool, made, queues, nextAvailable, used, ask, ctxDone>>

(* gc of the pool: closed dispatchers, and those not used for long.         *)
Gc ==
  /\ pool # NoDispatcher
  /\ pool \in closed \/ used[pool] + IdleTTL < tick
  /\ pool' = NoDispatcher
  /\ UNCHANGED <<tick, made, closed, queues, nextAvailable, used, ask, ctxDone>>

ContextEnds(a) ==
  /\ ctxDone' = ctxDone \cup {a} /\ a \notin ctxDone
  /\ UNCHANGED <<tick, pool, made, closed, queues, nextAvailable, used, ask>>

TickPasses ==
  /\ tick < LastTick
  /\ tick' = tick + 1
  /\ UNCHANGED <<pool, made, closed, queues, nextAvailable, used, ask, ctxDone>>

DispatcherNext ==
  \/ \E a \in Asks : Get(a) \/ Enter(a) \/ Enqueue(a) \/ GiveUp(a) \/ ContextEnds(a)
  \/ \E d \in Made : Dispatch(d) \/ CloseIdle(d)
  \/ Gc \/ TickPasses

DispatcherSpec == DispatcherInit /\ [][DispatcherNext]_dispatcherVars

-----------------------------------------------------------------------------
(* A request that waits for its slot waits in the queue of a dispatcher     *)
(* whose goroutine still runs, also when the dispatcher was being closed or *)
(* dropped by the pool while the request came in.                           *)
NoneStranded ==
  \A a \in Asks : ask[a].at = "queued" /\ a \notin ctxDone =>
    LET d == ask[a].with
    IN d \notin closed /\ a \in ToSet(queues[d].priority) \cup ToSet(queues[d].normal)
=============================================================================
