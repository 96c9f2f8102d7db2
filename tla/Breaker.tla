------------------------------ MODULE Breaker ------------------------------
(***************************************************************************)
(* The three-state circuit breaker that MetricsManager keeps for every     *)
(* (BaseURL, API key) pair, as pure operators on one KeyMetrics record     *)
(* (backend-go/internal/metrics/channel_metrics.go).  The modules with     *)
(* state (KeyCircuit, UpstreamFailover) apply them inside their actions:   *)
(* every operator here runs under MetricsManager.mu, so one application is *)
(* one atomic step of the program.                                         *)
(*                                                                         *)
(* Wall-clock times are kept as the time that is left: retryIn is          *)
(* NextRetryAt - now (never below 0), NoRetry is a nil NextRetryAt.        *)
(* CircuitBrokenAt and HalfOpenAt are only ever compared with nil, so they *)
(* are Booleans ("is set").                                                *)
(***************************************************************************)
EXTENDS Integers, Sequences, FiniteSets

CONSTANTS
  WindowSize,            \* windowSize: length of the breaker window, at least 3
  FailureNum,            \* failureThreshold = FailureNum / FailureDen
  FailureDen,
  ConsecutiveThreshold,  \* consecutiveRetryableFailuresThreshold
  HalfOpenTarget,        \* halfOpenSuccessTarget
  BackoffBase,           \* circuitBackoffBase, in ticks
  BackoffMax             \* circuitBackoffMax, in ticks

(* The constructors raise a window below 3 to 3 and replace a threshold     *)
(* outside (0, 1] by 0.5; the remaining parameters are positive constants.  *)
ASSUME BreakerAssumption ==
  /\ WindowSize \in Nat /\ WindowSize >= 3
  /\ FailureNum \in Nat \ {0} /\ FailureDen \in Nat \ {0}
  /\ FailureNum <= FailureDen
  /\ ConsecutiveThreshold \in Nat \ {0}
  /\ HalfOpenTarget \in Nat \ {0}
  /\ BackoffBase \in Nat \ {0} /\ BackoffMax \in Nat \ {0}

Closed   == "closed"
Open     == "open"
HalfOpen == "half_open"
CircuitStates == {Closed, Open, HalfOpen}

NoRetry == -1

(* FailureClass; FailureClassNone never reaches the breaker and a client    *)
(* cancellation is not reported to it at all.                               *)
FailureClasses == {"retryable", "non_retryable", "quota"}

IsBreakerRelevant(class) == class = "retryable"

KeyMetrics ==
  [state       : CircuitStates,        \* CircuitState
   brokenAt    : BOOLEAN,              \* CircuitBrokenAt # nil
   halfOpenAt  : BOOLEAN,              \* HalfOpenAt # nil
   retryIn     : 0..BackoffMax \cup {NoRetry},
   backoff     : Nat,                  \* BackoffLevel
   successes   : Nat,                  \* HalfOpenSuccesses
   probe       : BOOLEAN,              \* ProbeInFlight
   consecutive : Nat,                  \* ConsecutiveFailures
   window      : Seq(BOOLEAN)]         \* breakerResults, oldest first

EmptyWindow == << >>

NewKeyMetrics ==
  [state |-> Closed, brokenAt |-> FALSE, halfOpenAt |-> FALSE,
   retryIn |-> NoRetry, backoff |-> 0, successes |-> 0, probe |-> FALSE,
   consecutive |-> 0, window |-> EmptyWindow]

-----------------------------------------------------------------------------
(* The breaker window and the opening condition *)

AppendToBreakerWindow(window, success) ==
  LET longer == Append(window, success)
  IN  IF Len(longer) > WindowSize THEN Tail(longer) ELSE longer

Failures(window) == Cardinality({i \in 1..Len(window) : ~window[i]})

MinRequests == IF WindowSize \div 2 > 3 THEN WindowSize \div 2 ELSE 3

RateReached(window) ==
  Failures(window) * FailureDen >= FailureNum * Len(window)

IsKeyCircuitBroken(m) ==
  \/ m.consecutive >= ConsecutiveThreshold
  \/ Len(m.window) >= MinRequests /\ RateReached(m.window)

NextBackoffDuration(level) ==
  LET delay == BackoffBase * 2 ^ level
  IN  IF delay \in 0..BackoffMax THEN delay ELSE BackoffMax

-----------------------------------------------------------------------------
(* State transitions *)

ResetCircuitState(m) ==
  [m EXCEPT !.state = Closed, !.brokenAt = FALSE, !.halfOpenAt = FALSE,
            !.retryIn = NoRetry, !.backoff = 0, !.successes = 0,
            !.probe = FALSE, !.consecutive = 0, !.window = EmptyWindow]

(* Mutant: the probe flag of the failed probe stays set.                    *)
MoveCircuitToOpenKeepsProbe(m, escalate) ==
  LET level == IF escalate THEN m.backoff + 1 ELSE m.backoff
  IN  [m EXCEPT !.state = Open, !.brokenAt = TRUE, !.halfOpenAt = FALSE,
                !.retryIn = NextBackoffDuration(level), !.backoff = level,
                !.successes = 0]

MoveCircuitToOpen(m, escalate) ==
  LET level == IF escalate THEN m.backoff + 1 ELSE m.backoff
  IN  [m EXCEPT !.state = Open, !.brokenAt = TRUE, !.halfOpenAt = FALSE,
                !.retryIn = NextBackoffDuration(level), !.backoff = level,
                !.successes = 0, !.probe = FALSE]

(* Mutant: a new half-open period forgets the backoff level.                *)
MoveCircuitToHalfOpenForgets(m) ==
  [m EXCEPT !.state = HalfOpen, !.halfOpenAt = TRUE, !.retryIn = NoRetry,
            !.backoff = 0, !.successes = 0, !.probe = FALSE]

MoveCircuitToHalfOpen(m) ==
  [m EXCEPT !.state = HalfOpen, !.halfOpenAt = TRUE, !.retryIn = NoRetry,
            !.successes = 0, !.probe = FALSE]

Due(m) == m.state = Open /\ m.retryIn = 0

AdvanceCircuitStateIfDue(m) == IF Due(m) THEN MoveCircuitToHalfOpen(m) ELSE m

(* A counted success: a closed circuit stays closed; a half-open one closes *)
(* at the target, and a late success of an earlier request closes an open   *)
(* one.                                                                     *)
SuccessSettled(m) ==
  IF m.state = Closed THEN m
  ELSE IF m.state = HalfOpen /\ m.successes + 1 < HalfOpenTarget
       THEN [m EXCEPT !.successes = @ + 1]
       ELSE ResetCircuitState(m)

HandleBreakerSuccess(m) ==
  LET due == AdvanceCircuitStateIfDue(m)
  IN  SuccessSettled([due EXCEPT !.consecutive = 0,
                        !.window = AppendToBreakerWindow(due.window, TRUE)])

(* Mutant: a late failure on an open circuit opens it again.                *)
FailureSettledReopens(m) ==
  IF m.state # Closed THEN MoveCircuitToOpen(m, TRUE)
  ELSE IF IsKeyCircuitBroken(m) THEN MoveCircuitToOpen(m, FALSE) ELSE m

(* A breaker-relevant failure that has been counted.                        *)
FailureSettled(m) ==
  CASE m.state = HalfOpen -> MoveCircuitToOpen(m, TRUE)
    [] m.state = Closed /\ IsKeyCircuitBroken(m) -> MoveCircuitToOpen(m, FALSE)
    [] OTHER -> m

HandleBreakerFailure(m, class) ==
  LET due == AdvanceCircuitStateIfDue(m)
  IN  IF IsBreakerRelevant(class)
      THEN FailureSettled([due EXCEPT !.consecutive = @ + 1,
                             !.window = AppendToBreakerWindow(due.window, FALSE)])
      ELSE due

(* TryAcquireProbe succeeds on a half-open key whose probe is free.         *)
ProbeFree(m) == m.state = HalfOpen /\ ~m.probe

(* One tick of the clock.                                                   *)
Elapse(m) == IF m.retryIn > 0 THEN [m EXCEPT !.retryIn = @ - 1] ELSE m

-----------------------------------------------------------------------------
(* What every KeyMetrics record of a running manager satisfies: the state   *)
(* and the fields that belong to it never disagree.  In particular an open  *)
(* circuit always has a retry time (without one it would never be probed    *)
(* again) and a closed one starts its next outage at the base delay.        *)
CircuitShape(m) ==
  /\ m.state = Open <=> m.retryIn # NoRetry
  /\ m.state = Open => m.brokenAt
  /\ m.state = HalfOpen <=> m.halfOpenAt
  /\ m.state = Closed => ~m.brokenAt /\ m.backoff = 0
  /\ m.state # HalfOpen => m.successes = 0 /\ ~m.probe
  /\ m.successes < HalfOpenTarget
  /\ Len(m.window) <= WindowSize
=============================================================================
