--------------------------- MODULE BreakerProofs ---------------------------
(***************************************************************************)
(* What each operator of Breaker preserves, for every value of the         *)
(* breaker's parameters: the facts that the proofs about KeyCircuit and    *)
(* UpstreamFailover rest on.                                               *)
(***************************************************************************)
EXTENDS Breaker, TLAPS

(* A record of a running manager.                                           *)
Sound(m) == m \in KeyMetrics /\ CircuitShape(m)

(* The delay of nextBackoffDuration never exceeds circuitBackoffMax.        *)
LEMMA BackoffBounded ==
  ASSUME NEW level \in Nat
  PROVE  NextBackoffDuration(level) \in 0..BackoffMax
  BY BreakerAssumption DEF NextBackoffDuration

(* appendToBreakerWindowKey keeps the window within windowSize.             *)
LEMMA WindowBounded ==
  ASSUME NEW w \in Seq(BOOLEAN), Len(w) <= WindowSize, NEW b \in BOOLEAN
  PROVE  /\ AppendToBreakerWindow(w, b) \in Seq(BOOLEAN)
         /\ Len(AppendToBreakerWindow(w, b)) <= WindowSize
  <1>1. /\ Append(w, b) \in Seq(BOOLEAN)
        /\ Len(Append(w, b)) = Len(w) + 1
        /\ Append(w, b) # << >>
    OBVIOUS
  <1>2. /\ Tail(Append(w, b)) \in Seq(BOOLEAN)
        /\ Len(Tail(Append(w, b))) = Len(w)
    BY <1>1
  <1>3. CASE Len(Append(w, b)) > WindowSize
    BY <1>2, <1>3 DEF AppendToBreakerWindow
  <1>4. CASE ~(Len(Append(w, b)) > WindowSize)
    <2>1. AppendToBreakerWindow(w, b) = Append(w, b)
      BY <1>4 DEF AppendToBreakerWindow
    <2>2. Len(Append(w, b)) <= WindowSize
      BY <1>1, <1>4, BreakerAssumption
    <2> QED
      BY <1>1, <2>1, <2>2
  <1> QED
    BY <1>3, <1>4

(* The window a new record starts with.                                     *)
LEMMA EmptyWindowType == EmptyWindow \in Seq(BOOLEAN) /\ Len(EmptyWindow) = 0
  BY DEF EmptyWindow

(* A record the manager has just created is sound.                          *)
LEMMA NewSound == Sound(NewKeyMetrics)
  BY EmptyWindowType, BreakerAssumption
  DEF Sound, NewKeyMetrics, KeyMetrics, CircuitShape, CircuitStates,
      Closed, Open, HalfOpen, NoRetry

(* resetCircuitStateLocked yields a sound record whatever it is given.      *)
LEMMA ResetSound ==
  ASSUME NEW m, Sound(m)
  PROVE  Sound(ResetCircuitState(m))
  <1> DEFINE n == ResetCircuitState(m)
  <1>1. m \in KeyMetrics
    BY DEF Sound
  <1>2. n \in KeyMetrics
    BY <1>1, EmptyWindowType DEF ResetCircuitState, KeyMetrics, CircuitStates
  <1>3. /\ n.state = Closed /\ n.brokenAt = FALSE /\ n.halfOpenAt = FALSE
        /\ n.retryIn = NoRetry /\ n.backoff = 0 /\ n.successes = 0
        /\ n.probe = FALSE /\ n.window = EmptyWindow
    BY <1>1 DEF ResetCircuitState, KeyMetrics
  <1> HIDE DEF n
  <1>4. CircuitShape(n)
    BY <1>3, EmptyWindowType, BreakerAssumption DEF CircuitShape, Closed, Open, HalfOpen
  <1> QED
    BY <1>2, <1>4 DEF Sound, n

(* moveCircuitToHalfOpenLocked keeps the fields of the state together.      *)
LEMMA HalfOpenSound ==
  ASSUME NEW m, Sound(m)
  PROVE  Sound(MoveCircuitToHalfOpen(m))
  <1> DEFINE n == MoveCircuitToHalfOpen(m)
  <1>1. m \in KeyMetrics
    BY DEF Sound
  <1>2. n \in KeyMetrics
    BY <1>1 DEF MoveCircuitToHalfOpen, KeyMetrics, CircuitStates
  <1>3. /\ n.state = HalfOpen /\ n.halfOpenAt = TRUE /\ n.retryIn = NoRetry
        /\ n.successes = 0 /\ n.window = m.window
    BY <1>1 DEF MoveCircuitToHalfOpen, KeyMetrics
  <1>4. Len(n.window) <= WindowSize
    BY <1>3 DEF Sound, CircuitShape
  <1> HIDE DEF n
  <1>5. CircuitShape(n)
    BY <1>3, <1>4, BreakerAssumption DEF CircuitShape, Closed, Open, HalfOpen
  <1> QED
    BY <1>2, <1>5 DEF Sound, n

(* moveCircuitToOpenLocked sets a retry time within circuitBackoffMax.      *)
LEMMA OpenSound ==
  ASSUME NEW m, Sound(m), NEW escalate \in BOOLEAN
  PROVE  Sound(MoveCircuitToOpen(m, escalate))
  <1> DEFINE level == IF escalate THEN m.backoff + 1 ELSE m.backoff
             n == MoveCircuitToOpen(m, escalate)
  <1>1. m \in KeyMetrics /\ level \in Nat
    BY DEF Sound, KeyMetrics
  <1>2. NextBackoffDuration(level) \in 0..BackoffMax
    BY <1>1, BackoffBounded
  <1>3. n \in KeyMetrics
    BY <1>1, <1>2 DEF MoveCircuitToOpen, KeyMetrics, CircuitStates
  <1>4. /\ n.state = Open /\ n.brokenAt = TRUE /\ n.halfOpenAt = FALSE
        /\ n.retryIn = NextBackoffDuration(level)
        /\ n.successes = 0 /\ n.probe = FALSE /\ n.window = m.window
    BY <1>1 DEF MoveCircuitToOpen, KeyMetrics
  <1>5. n.retryIn # NoRetry /\ Len(n.window) <= WindowSize
    BY <1>2, <1>4, BreakerAssumption DEF NoRetry, Sound, CircuitShape
  <1> HIDE DEF n
  <1>6. CircuitShape(n)
    BY <1>4, <1>5, BreakerAssumption DEF CircuitShape, Closed, Open, HalfOpen
  <1> QED
    BY <1>3, <1>6 DEF Sound, n

(* advanceCircuitStateIfDueLocked keeps a record sound.                     *)
LEMMA AdvanceSound ==
  ASSUME NEW m, Sound(m)
  PROVE  Sound(AdvanceCircuitStateIfDue(m))
  BY HalfOpenSound DEF AdvanceCircuitStateIfDue

(* Extending the window and changing the run of failures breaks nothing.    *)
LEMMA CountedSound ==
  ASSUME NEW m, Sound(m), NEW b \in BOOLEAN, NEW c \in Nat
  PROVE  Sound([m EXCEPT !.consecutive = c,
                         !.window = AppendToBreakerWindow(m.window, b)])
  <1> DEFINE w == AppendToBreakerWindow(m.window, b)
             n == [m EXCEPT !.consecutive = c, !.window = w]
  <1>1. m \in KeyMetrics /\ CircuitShape(m)
    BY DEF Sound
  <1>2. m.window \in Seq(BOOLEAN) /\ Len(m.window) <= WindowSize
    BY <1>1 DEF KeyMetrics, CircuitShape
  <1>3. w \in Seq(BOOLEAN) /\ Len(w) <= WindowSize
    BY <1>2, WindowBounded
  <1> HIDE DEF w
  <1>4. n \in KeyMetrics
    BY <1>1, <1>3 DEF KeyMetrics
  <1>5. /\ n.state = m.state /\ n.brokenAt = m.brokenAt /\ n.halfOpenAt = m.halfOpenAt
        /\ n.retryIn = m.retryIn /\ n.backoff = m.backoff
        /\ n.successes = m.successes /\ n.probe = m.probe /\ n.window = w
    BY <1>1 DEF KeyMetrics
  <1> HIDE DEF n
  <1>6. CircuitShape(n)
    BY <1>1, <1>3, <1>5 DEF CircuitShape
  <1> QED
    BY <1>4, <1>6 DEF Sound, n, w

(* Settling a counted success keeps a record sound.                         *)
LEMMA SuccessSettledSound ==
  ASSUME NEW m, Sound(m)
  PROVE  Sound(SuccessSettled(m))
  <1>1. /\ m \in KeyMetrics /\ CircuitShape(m)
        /\ m.state \in CircuitStates /\ m.successes \in Nat
    BY DEF Sound, KeyMetrics
  <1>2. CASE m.state = HalfOpen /\ m.successes + 1 < HalfOpenTarget
    <2> DEFINE n == [m EXCEPT !.successes = @ + 1]
    <2>1. SuccessSettled(m) = n
      BY <1>2 DEF SuccessSettled, HalfOpen, Closed
    <2>2. n \in KeyMetrics
      BY <1>1 DEF KeyMetrics
    <2>3. /\ n.state = m.state /\ n.brokenAt = m.brokenAt /\ n.halfOpenAt = m.halfOpenAt
          /\ n.retryIn = m.retryIn /\ n.backoff = m.backoff
          /\ n.successes = m.successes + 1 /\ n.probe = m.probe /\ n.window = m.window
      BY <1>1 DEF KeyMetrics
    <2> HIDE DEF n
    <2>4. CircuitShape(n)
      <3>1. n.state = HalfOpen /\ n.successes < HalfOpenTarget
        BY <1>2, <2>3
      <3> QED
        BY <1>1, <2>3, <3>1 DEF CircuitShape
    <2> QED
      BY <2>1, <2>2, <2>4 DEF Sound
  <1>3. CASE m.state # Closed /\ ~(m.state = HalfOpen /\ m.successes + 1 < HalfOpenTarget)
    BY <1>3, ResetSound DEF SuccessSettled
  <1>4. CASE m.state = Closed
    BY <1>4 DEF SuccessSettled
  <1> QED
    BY <1>2, <1>3, <1>4

(* handleBreakerSuccessLocked keeps a record sound.                         *)
LEMMA SuccessSound ==
  ASSUME NEW m, Sound(m)
  PROVE  Sound(HandleBreakerSuccess(m))
  BY AdvanceSound, CountedSound, SuccessSettledSound DEF HandleBreakerSuccess

(* Settling a counted failure keeps a record sound.                         *)
LEMMA FailureSettledSound ==
  ASSUME NEW m, Sound(m)
  PROVE  Sound(FailureSettled(m))
  <1>1. CASE m.state = HalfOpen
    BY <1>1, OpenSound DEF FailureSettled, HalfOpen, Closed
  <1>2. CASE m.state = Closed /\ IsKeyCircuitBroken(m)
    BY <1>2, OpenSound DEF FailureSettled, HalfOpen, Closed
  <1>3. CASE ~(m.state = HalfOpen) /\ ~(m.state = Closed /\ IsKeyCircuitBroken(m))
    BY <1>3 DEF FailureSettled
  <1> QED
    BY <1>1, <1>2, <1>3

(* handleBreakerFailureLocked keeps a record sound, for any class.          *)
LEMMA FailureSound ==
  ASSUME NEW m, Sound(m), NEW class \in FailureClasses
  PROVE  Sound(HandleBreakerFailure(m, class))
  <1> DEFINE due == AdvanceCircuitStateIfDue(m)
             n == [due EXCEPT !.consecutive = @ + 1,
                     !.window = AppendToBreakerWindow(due.window, FALSE)]
  <1>1. Sound(due)
    BY AdvanceSound
  <1> HIDE DEF due
  <1>2. due.consecutive + 1 \in Nat
    BY <1>1 DEF Sound, KeyMetrics
  <1>3. n = [due EXCEPT !.consecutive = due.consecutive + 1,
                 !.window = AppendToBreakerWindow(due.window, FALSE)]
    BY <1>1 DEF Sound, KeyMetrics
  <1>4. Sound(n)
    BY <1>1, <1>2, <1>3, CountedSound
  <1> HIDE DEF n
  <1>5. Sound(FailureSettled(n))
    BY <1>4, FailureSettledSound
  <1> QED
    BY <1>1, <1>5 DEF HandleBreakerFailure, n, due

(* Taking and clearing the probe flag keep a record sound.                  *)
LEMMA ProbeSound ==
  ASSUME NEW m, Sound(m), NEW b \in BOOLEAN, m.state = HalfOpen \/ b = FALSE
  PROVE  Sound([m EXCEPT !.probe = b])
  <1> DEFINE n == [m EXCEPT !.probe = b]
  <1>1. m \in KeyMetrics /\ CircuitShape(m)
    BY DEF Sound
  <1>2. n \in KeyMetrics
    BY <1>1 DEF KeyMetrics
  <1>3. /\ n.state = m.state /\ n.brokenAt = m.brokenAt /\ n.halfOpenAt = m.halfOpenAt
        /\ n.retryIn = m.retryIn /\ n.backoff = m.backoff
        /\ n.successes = m.successes /\ n.probe = b /\ n.window = m.window
    BY <1>1 DEF KeyMetrics
  <1> HIDE DEF n
  <1>4. CircuitShape(n)
    BY <1>1, <1>3 DEF CircuitShape
  <1> QED
    BY <1>2, <1>4 DEF Sound, n

(* A tick moves the retry time of an open circuit and nothing else.         *)
LEMMA ElapseSound ==
  ASSUME NEW m, Sound(m)
  PROVE  Sound(Elapse(m))
  <1> DEFINE n == [m EXCEPT !.retryIn = @ - 1]
  <1>1. /\ m \in KeyMetrics /\ CircuitShape(m)
        /\ m.retryIn \in 0..BackoffMax \cup {NoRetry}
    BY DEF Sound, KeyMetrics
  <1>2. CASE m.retryIn > 0
    <2>1. m.retryIn - 1 \in 0..BackoffMax /\ m.retryIn # NoRetry /\ m.retryIn - 1 # NoRetry
      BY <1>1, <1>2, BreakerAssumption DEF NoRetry
    <2>2. n \in KeyMetrics
      BY <1>1, <2>1 DEF KeyMetrics
    <2>3. /\ n.state = m.state /\ n.brokenAt = m.brokenAt /\ n.halfOpenAt = m.halfOpenAt
          /\ n.retryIn = m.retryIn - 1 /\ n.backoff = m.backoff
          /\ n.successes = m.successes /\ n.probe = m.probe /\ n.window = m.window
      BY <1>1 DEF KeyMetrics
    <2> HIDE DEF n
    <2>4. CircuitShape(n)
      BY <1>1, <2>1, <2>3 DEF CircuitShape
    <2> QED
      BY <1>2, <2>2, <2>4 DEF Sound, Elapse, n
  <1>3. CASE ~(m.retryIn > 0)
    BY <1>3 DEF Elapse
  <1> QED
    BY <1>2, <1>3

-----------------------------------------------------------------------------
(* Only TryAcquireProbe sets a probe flag: what every other operation makes *)
(* of a record has the flag at most where the record had it.                *)

(* Moving a circuit, or resetting it, clears the flag.                      *)
LEMMA MovesClearProbe ==
  ASSUME NEW m, m \in KeyMetrics, NEW escalate \in BOOLEAN
  PROVE  /\ ResetCircuitState(m).probe = FALSE
         /\ MoveCircuitToOpen(m, escalate).probe = FALSE
         /\ MoveCircuitToHalfOpen(m).probe = FALSE
  BY DEF KeyMetrics, ResetCircuitState, MoveCircuitToOpen, MoveCircuitToHalfOpen

(* Asking for the state of a circuit does not set it.                       *)
LEMMA AdvanceProbe ==
  ASSUME NEW m, m \in KeyMetrics
  PROVE  AdvanceCircuitStateIfDue(m).probe => m.probe
  BY MovesClearProbe DEF AdvanceCircuitStateIfDue

(* A tick does not.                                                         *)
LEMMA ElapseProbe ==
  ASSUME NEW m, m \in KeyMetrics
  PROVE  Elapse(m).probe => m.probe
  BY DEF KeyMetrics, Elapse

(* A success does not.                                                      *)
LEMMA SuccessProbe ==
  ASSUME NEW m, Sound(m)
  PROVE  HandleBreakerSuccess(m).probe => m.probe
  <1> DEFINE due == AdvanceCircuitStateIfDue(m)
             n == [due EXCEPT !.consecutive = 0,
                     !.window = AppendToBreakerWindow(due.window, TRUE)]
  <1>1. Sound(due) /\ (due.probe => m.probe)
    BY AdvanceSound, AdvanceProbe DEF Sound
  <1> HIDE DEF due
  <1>2. Sound(n)
    BY <1>1, CountedSound
  <1>3. n.probe = due.probe
    BY <1>1 DEF Sound, KeyMetrics
  <1> HIDE DEF n
  <1>4. SuccessSettled(n).probe => n.probe
    BY <1>2, MovesClearProbe DEF SuccessSettled, Sound, KeyMetrics
  <1> QED
    BY <1>1, <1>3, <1>4 DEF HandleBreakerSuccess, n, due

(* A failure of any class does not.                                         *)
LEMMA FailureProbe ==
  ASSUME NEW m, Sound(m), NEW class \in FailureClasses
  PROVE  HandleBreakerFailure(m, class).probe => m.probe
  <1> DEFINE due == AdvanceCircuitStateIfDue(m)
             n == [due EXCEPT !.consecutive = @ + 1,
                     !.window = AppendToBreakerWindow(due.window, FALSE)]
  <1>1. Sound(due) /\ (due.probe => m.probe)
    BY AdvanceSound, AdvanceProbe DEF Sound
  <1> HIDE DEF due
  <1>2. due.consecutive + 1 \in Nat
    BY <1>1 DEF Sound, KeyMetrics
  <1>3. n = [due EXCEPT !.consecutive = due.consecutive + 1,
                 !.window = AppendToBreakerWindow(due.window, FALSE)]
    BY <1>1 DEF Sound, KeyMetrics
  <1>4. Sound(n)
    BY <1>1, <1>2, <1>3, CountedSound
  <1>5. n.probe = due.probe
    BY <1>1 DEF Sound, KeyMetrics
  <1> HIDE DEF n
  <1>6. FailureSettled(n).probe => n.probe
    <2>1. CASE FailureSettled(n) = n
      BY <2>1
    <2>2. CASE \E escalate \in BOOLEAN : FailureSettled(n) = MoveCircuitToOpen(n, escalate)
      BY <1>4, <2>2, MovesClearProbe DEF Sound
    <2> QED
      BY <2>1, <2>2 DEF FailureSettled, HalfOpen, Closed
  <1> QED
    BY <1>1, <1>5, <1>6 DEF HandleBreakerFailure, n, due
=============================================================================
