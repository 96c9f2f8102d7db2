---------------------------- MODULE RecoveryClock ----------------------------
(***************************************************************************)
(* The goroutine of main.go that runs the scheduled recovery at fixed      *)
(* slots of the day, and the checkpoint it persists so that a slot missed  *)
(* while the process was down, asleep or failing is made up for.           *)
(***************************************************************************)
EXTENDS Naturals

CONSTANTS
  Period,   \* the time from one slot to the next
  Horizon   \* bound: the clock stops here

ASSUME RecoveryClockAssumption == Period \in Nat \ {0} /\ Horizon \in Nat

NeverChecked == 0   \* no checkpoint; the clock starts at 1

VARIABLES
  clock,      \* the time, in ticks of the fallback ticker
  running,    \* the goroutine has passed its startup
  checkpoint, \* lastRecoveryCheck
  file,       \* the checkpoint in the state file
  next,       \* the slot the timer waits for
  tickAt,     \* the time of the fallback tick that waits to be received
  begun,      \* history: the last start without a checkpoint
  scanned     \* history: the slots whose recovery has succeeded

clockVars == <<clock, running, checkpoint, file, next, tickAt, begun, scanned>>

ClockInit ==
  /\ clock = 1 /\ running = FALSE
  /\ checkpoint = NeverChecked /\ file = NeverChecked
  /\ next = 0 /\ tickAt = 0 /\ begun = 0
  /\ scanned = {}

-----------------------------------------------------------------------------
LastScheduledRecoveryTime(now) == (now \div Period) * Period
NextScheduledRecoveryTime(now) == LastScheduledRecoveryTime(now) + Period

Missed(lastChecked, now) ==
  now > lastChecked /\ LastScheduledRecoveryTime(now) > lastChecked

(* commitRecoveryCheck: a recovery that failed keeps the checkpoint.  The   *)
(* file may not be writable.                                                *)
Commit(checkedAt) ==
  /\ checkpoint' = checkedAt
  /\ file' \in {file, checkedAt}

(* Mutant: the checkpoint moves whether or not the recovery succeeded.      *)
RecoverAnyway(slot, checkedAt) ==
  /\ scanned' \in {scanned, scanned \cup {slot}}
  /\ Commit(checkedAt)

Recover(slot, checkedAt) ==
  \/ scanned' = scanned \cup {slot} /\ Commit(checkedAt)
  \/ UNCHANGED <<scanned, checkpoint, file>>

Check(now) ==
  IF Missed(checkpoint, now)
  THEN Recover(LastScheduledRecoveryTime(now), now)
  ELSE Commit(now) /\ UNCHANGED scanned

(* The first start only sets the checkpoint.                                *)
Startup ==
  /\ ~running
  /\ running' = TRUE
  /\ IF checkpoint = NeverChecked
     THEN Commit(clock) /\ UNCHANGED scanned
     ELSE Check(clock)
  /\ begun' = IF checkpoint = NeverChecked THEN clock ELSE begun
  /\ next' = NextScheduledRecoveryTime(clock)
  /\ UNCHANGED <<clock, tickAt>>

(* A timer that fires late looks for the slot it should have fired at.      *)
TimerFires ==
  /\ running /\ clock >= next
  /\ LET slot == IF clock > next /\ Missed(checkpoint, clock)
                 THEN LastScheduledRecoveryTime(clock) ELSE next
     IN  Recover(slot, clock)
  /\ next' = NextScheduledRecoveryTime(clock)
  /\ UNCHANGED <<clock, running, tickAt, begun>>

(* A tick may be received late; a timer that has fired meanwhile is         *)
(* drained and set anew.                                                    *)
FallbackTick ==
  /\ running /\ tickAt # 0
  /\ Check(tickAt)
  /\ tickAt' = 0
  /\ next' = NextScheduledRecoveryTime(clock)
  /\ UNCHANGED <<clock, running, begun>>

(* The ticker's channel holds one tick.                                     *)
TimePasses ==
  /\ clock < Horizon
  /\ clock' = clock + 1
  /\ tickAt' = IF running /\ tickAt = 0 THEN clock' ELSE tickAt
  /\ UNCHANGED <<running, checkpoint, file, next, begun, scanned>>

(* The process ends; the next one reads the file, or fails to.              *)
ProcessEnds ==
  /\ running
  /\ running' = FALSE
  /\ checkpoint' \in {file, NeverChecked}
  /\ next' = 0 /\ tickAt' = 0
  /\ UNCHANGED <<clock, file, begun, scanned>>

ClockNext == Startup \/ TimerFires \/ FallbackTick \/ TimePasses \/ ProcessEnds

ClockSpec == ClockInit /\ [][ClockNext]_clockVars

-----------------------------------------------------------------------------
(* Properties *)

(* The checkpoint passes no slot without a recovery: the newest slot at or  *)
(* before it was recovered, unless it lies before a start that found no     *)
(* checkpoint.  Late timers, late ticks, failed recoveries, unwritable      *)
(* files and restarts included.                                             *)
SlotRecovered ==
  \A check \in {checkpoint, file} \ {NeverChecked} :
    LET slot == LastScheduledRecoveryTime(check)
    IN  slot > begun => \E later \in scanned : later >= slot
=============================================================================
