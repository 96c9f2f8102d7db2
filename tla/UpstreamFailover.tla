-------------------------- MODULE UpstreamFailover --------------------------
(***************************************************************************)
(* Concurrent requests on one channel: TryUpstreamWithAllKeys              *)
(* (handlers/common/upstream_failover.go) and its compact variant          *)
(* tryCompactChannelWithAllKeys (handlers/responses/compact.go), composed  *)
(* with the breaker of every (BaseURL, key) pair.                          *)
(*                                                                         *)
(* A request walks over the BaseURLs and, on each, over the keys.  It reads*)
(* the circuit, takes the probe of a half-open one, sends, and records the *)
(* outcome; each of these is a separate critical section of MetricsManager *)
(* and therefore a separate action here.  Probes it took and did not give  *)
(* back are released by a deferred function when it returns.               *)
(***************************************************************************)
EXTENDS Breaker

CONSTANTS
  Requests,        \* request slots; a slot is reused after its request returned
  Compact,         \* the slots that run the compact variant
  NumUrls,         \* BaseURLs of the channel
  NumKeys,         \* API keys of the channel
  Interventions,   \* TRUE: scheduled recovery and manual reset may happen
  MaxConsecutive   \* bound: failures counted in a row

ASSUME UpstreamFailoverAssumption ==
  /\ Compact \subseteq Requests
  /\ NumUrls \in Nat \ {0} /\ NumKeys \in Nat \ {0}
  /\ Interventions \in BOOLEAN /\ MaxConsecutive \in Nat

VARIABLES
  metrics,     \* KeyMetrics of every (BaseURL, key)
  cooling,     \* failedKeysCache: keys marked failed less than a recovery time ago
  pc,          \* where each request is
  url,         \* urlIdx
  key,         \* apiKey of the current attempt
  attempt,     \* attempts made on the current BaseURL
  failedKeys,  \* failedKeys of the current BaseURL
  held         \* probeAcquired

vars == <<metrics, cooling, pc, url, key, attempt, failedKeys, held>>

Urls    == 1..NumUrls
Keys    == 1..NumKeys     \* in configured order
Targets == Urls \X Keys

Target(r) == <<url[r], key[r]>>

Init ==
  /\ metrics = [t \in Targets |-> NewKeyMetrics]
  /\ cooling = {}
  /\ pc = [r \in Requests |-> "idle"]
  /\ url = [r \in Requests |-> 1]
  /\ key = [r \in Requests |-> 1]
  /\ attempt = [r \in Requests |-> 0]
  /\ failedKeys = [r \in Requests |-> {}]
  /\ held = [r \in Requests |-> {}]

-----------------------------------------------------------------------------
(* Shared pieces *)

Goto(r, label) == pc' = [pc EXCEPT ![r] = label]

(* The circuit of t becomes next.                                           *)
Settle(t, next) == metrics' = [metrics EXCEPT ![t] = next]

(* failedKeys[apiKey] = true, then the next iteration of the key loop.      *)
TryNextKey(r) ==
  /\ failedKeys' = [failedKeys EXCEPT ![r] = @ \cup {key[r]}]
  /\ Goto(r, "pick")

Bounded(t) == metrics[t].consecutive < MaxConsecutive

-----------------------------------------------------------------------------
(* The request loop *)

Begin(r) ==
  /\ pc[r] = "idle"
  /\ Goto(r, "pick")
  /\ UNCHANGED <<metrics, cooling, url, key, attempt, failedKeys, held>>

(* GetNextAPIKey, first scan: the only key, or the first key that neither   *)
(* failed in this request nor is cooling down.                              *)
Available(r) ==
  LET available == Keys \ (failedKeys[r] \cup cooling)
  IN  IF NumKeys = 1 THEN Keys
      ELSE {k \in available : \A j \in available : k <= j}

(* Second scan, under a new lock: a cooling key that this request has not   *)
(* tried (the one that failed first).                                       *)
Recovering(r) == cooling \ failedKeys[r]

Use(r, k) ==
  /\ key' = [key EXCEPT ![r] = k]
  /\ attempt' = [attempt EXCEPT ![r] = @ + 1]
  /\ Goto(r, "check")

PickKey(r) ==
  /\ pc[r] = "pick"
  /\ attempt[r] < NumKeys
  /\ \/ \E k \in Available(r) : Use(r, k)
     \/ /\ Available(r) = {}
        /\ Goto(r, "oldest")
        /\ UNCHANGED <<key, attempt>>
  /\ UNCHANGED <<metrics, cooling, url, failedKeys, held>>

PickOldest(r) ==
  /\ pc[r] = "oldest"
  /\ \E k \in Recovering(r) : Use(r, k)
  /\ UNCHANGED <<metrics, cooling, url, failedKeys, held>>

(* No key or no attempt left on this BaseURL.  The compact variant knows    *)
(* only the first BaseURL.                                                  *)
NextUrl(r) ==
  /\ \/ pc[r] = "pick" /\ attempt[r] = NumKeys
     \/ pc[r] = "oldest" /\ Recovering(r) = {}
  /\ IF url[r] < NumUrls /\ r \notin Compact
     THEN /\ url' = [url EXCEPT ![r] = @ + 1]
          /\ attempt' = [attempt EXCEPT ![r] = 0]
          /\ failedKeys' = [failedKeys EXCEPT ![r] = {}]
          /\ Goto(r, "pick")
     ELSE /\ Goto(r, "return")
          /\ UNCHANGED <<url, attempt, failedKeys>>
  /\ UNCHANGED <<metrics, cooling, key, held>>

(* Mutant: a key with an open circuit is not added to failedKeys.           *)
CheckCircuitUnmarked(r) ==
  LET t   == Target(r)
      now == AdvanceCircuitStateIfDue(metrics[t])
  IN  /\ pc[r] = "check"
      /\ Settle(t, now)
      /\ Goto(r, CASE now.state = Open     -> "pick"
                   [] now.state = HalfOpen -> "acquire"
                   [] now.state = Closed   -> "build")
      /\ UNCHANGED <<cooling, url, key, attempt, failedKeys, held>>

(* Mutant: a request waits until an open circuit has recovered.             *)
CheckCircuitWaits(r) ==
  LET t   == Target(r)
      now == AdvanceCircuitStateIfDue(metrics[t])
  IN  /\ pc[r] = "check"
      /\ now.state # Open
      /\ Settle(t, now)
      /\ Goto(r, IF now.state = HalfOpen THEN "acquire" ELSE "build")
      /\ UNCHANGED <<cooling, url, key, attempt, failedKeys, held>>

(* GetKeyCircuitState advances a due circuit and returns its state.         *)
CheckCircuit(r) ==
  LET t   == Target(r)
      now == AdvanceCircuitStateIfDue(metrics[t])
  IN  /\ pc[r] = "check"
      /\ Settle(t, now)
      /\ \/ now.state = Open /\ TryNextKey(r)
         \/ now.state = HalfOpen /\ Goto(r, "acquire") /\ UNCHANGED failedKeys
         \/ now.state = Closed /\ Goto(r, "build") /\ UNCHANGED failedKeys
      /\ UNCHANGED <<cooling, url, key, attempt, held>>

(* TryAcquireProbe looks again: the circuit may have closed or opened, or   *)
(* another request may have the probe, and then the key is skipped.         *)
AcquireProbe(r) ==
  LET t   == Target(r)
      now == AdvanceCircuitStateIfDue(metrics[t])
  IN  /\ pc[r] = "acquire"
      /\ IF ProbeFree(now)
         THEN /\ Settle(t, [now EXCEPT !.probe = TRUE])
              /\ held' = [held EXCEPT ![r] = @ \cup {t}]
              /\ Goto(r, "build")
              /\ UNCHANGED failedKeys
         ELSE /\ Settle(t, now)
              /\ TryNextKey(r)
              /\ UNCHANGED held
      /\ UNCHANGED <<cooling, url, key, attempt>>

(* buildRequest fails: the channel is given up without touching the         *)
(* breaker.  The compact variant treats it as a failed key instead.         *)
BuildFails(r) ==
  /\ pc[r] = "build"
  /\ r \notin Compact
  /\ Goto(r, "return")
  /\ UNCHANGED <<metrics, cooling, url, key, attempt, failedKeys, held>>

(* RecordRequestConnected, then the request is on the wire.                 *)
Send(r) ==
  LET t == Target(r)
  IN  /\ pc[r] = "build"
      /\ IF r \in Compact
         THEN UNCHANGED metrics
         ELSE Settle(t, AdvanceCircuitStateIfDue(metrics[t]))
      /\ Goto(r, "sent")
      /\ UNCHANGED <<cooling, url, key, attempt, failedKeys, held>>

-----------------------------------------------------------------------------
(* Outcomes *)

Succeed(r) ==
  LET t == Target(r)
  IN  /\ pc[r] = "sent"
      /\ Settle(t, HandleBreakerSuccess(metrics[t]))
      /\ Goto(r, "giveback")
      /\ UNCHANGED <<cooling, url, key, attempt, failedKeys, held>>

(* A transport error, a status worth another key, an empty or invalid       *)
(* response, or a key to be disabled: the key cools down and the next one   *)
(* is tried.  Quota errors do not count for the breaker, except in the      *)
(* compact variant, which knows no classes and gives the probe back first.  *)
FailOver(r, class) ==
  LET t == Target(r)
  IN  /\ pc[r] = "sent"
      /\ class \in {"retryable", "quota"} /\ (r \in Compact => class = "retryable")
      /\ Bounded(t)
      /\ Settle(t, HandleBreakerFailure(metrics[t], class))
      /\ cooling' = cooling \cup {key[r]}
      /\ IF r \in Compact
         THEN /\ failedKeys' = [failedKeys EXCEPT ![r] = @ \cup {key[r]}]
              /\ Goto(r, "givebackNext")
         ELSE TryNextKey(r)
      /\ UNCHANGED <<url, key, attempt, held>>

(* Mutant: the compact variant returns without giving its probe back.       *)
FailHandledKeepsProbe(r, class) ==
  /\ pc[r] = "sent"
  /\ class = "non_retryable"
  /\ Goto(r, "return")
  /\ UNCHANGED <<metrics, cooling, url, key, attempt, failedKeys, held>>

(* The error goes back to the client: a status no other key would cure      *)
(* (which the compact variant does not record), or a response that broke    *)
(* off after headers had been written.                                      *)
FailHandled(r, class) ==
  LET t == Target(r)
  IN  /\ pc[r] = "sent"
      /\ \/ /\ class = "non_retryable" /\ UNCHANGED cooling
         \/ /\ class = "retryable" /\ r \notin Compact
            /\ cooling' = cooling \cup {key[r]}
      /\ Bounded(t)
      /\ Settle(t, IF r \in Compact THEN metrics[t]
                   ELSE HandleBreakerFailure(metrics[t], class))
      /\ Goto(r, IF r \in Compact THEN "giveback" ELSE "return")
      /\ UNCHANGED <<url, key, attempt, failedKeys, held>>

(* The client went away: no breaker outcome.  The compact variant counts it *)
(* as a failure of the key (FailOver).                                      *)
Cancel(r) ==
  /\ pc[r] = "sent"
  /\ r \notin Compact
  /\ Goto(r, "return")
  /\ UNCHANGED <<metrics, cooling, url, key, attempt, failedKeys, held>>

-----------------------------------------------------------------------------
(* Giving probes back *)

(* ReleaseProbe clears the flag whoever set it.                             *)
Release(t) == metrics' = [metrics EXCEPT ![t].probe = FALSE]

(* The explicit release after a recorded outcome.                           *)
GiveBack(r) ==
  LET t == Target(r)
  IN  /\ pc[r] \in {"giveback", "givebackNext"}
      /\ IF t \in held[r]
         THEN /\ Release(t)
              /\ held' = [held EXCEPT ![r] = @ \ {t}]
         ELSE UNCHANGED <<metrics, held>>
      /\ Goto(r, IF pc[r] = "giveback" THEN "return" ELSE "pick")
      /\ UNCHANGED <<cooling, url, key, attempt, failedKeys>>

(* The deferred loop over probeAcquired, one lock per probe.  The compact   *)
(* variant has no deferred function.                                        *)
DeferredRelease(r) ==
  /\ pc[r] = "return"
  /\ r \notin Compact
  /\ \E t \in held[r] :
        /\ Release(t)
        /\ held' = [held EXCEPT ![r] = @ \ {t}]
  /\ UNCHANGED <<cooling, pc, url, key, attempt, failedKeys>>

(* The local variables of the call are gone.                                *)
Return(r) ==
  /\ pc[r] = "return"
  /\ held[r] = {} \/ r \in Compact
  /\ held' = [held EXCEPT ![r] = {}]
  /\ Goto(r, "idle")
  /\ url' = [url EXCEPT ![r] = 1]
  /\ key' = [key EXCEPT ![r] = 1]
  /\ attempt' = [attempt EXCEPT ![r] = 0]
  /\ failedKeys' = [failedKeys EXCEPT ![r] = {}]
  /\ UNCHANGED <<metrics, cooling>>

-----------------------------------------------------------------------------
(* Everything else that touches the circuits and the cooling keys *)

Tick ==
  /\ \E t \in Targets : metrics[t].retryIn > 0
  /\ metrics' = [t \in Targets |-> Elapse(metrics[t])]
  /\ UNCHANGED <<cooling, pc, url, key, attempt, failedKeys, held>>

RecoverExpired ==
  /\ \E t \in Targets : Due(metrics[t])
  /\ metrics' = [t \in Targets |-> AdvanceCircuitStateIfDue(metrics[t])]
  /\ UNCHANGED <<cooling, pc, url, key, attempt, failedKeys, held>>

(* The recovery time of a failed key passes.                                *)
CooledDown(k) ==
  /\ k \in cooling
  /\ cooling' = cooling \ {k}
  /\ UNCHANGED <<metrics, pc, url, key, attempt, failedKeys, held>>

(* MoveKeyToHalfOpen of the scheduled recovery, ResetKey of the management  *)
(* API.                                                                     *)
Intervene(t) ==
  /\ Interventions
  /\ \E next \in {MoveCircuitToHalfOpen(metrics[t]), ResetCircuitState(metrics[t])} :
        metrics' = [metrics EXCEPT ![t] = next]
  /\ UNCHANGED <<cooling, pc, url, key, attempt, failedKeys, held>>

Step(r) ==
  \/ PickKey(r) \/ PickOldest(r) \/ NextUrl(r) \/ CheckCircuit(r) \/ AcquireProbe(r)
  \/ BuildFails(r) \/ Send(r)
  \/ Succeed(r) \/ Cancel(r)
  \/ \E class \in FailureClasses : FailOver(r, class) \/ FailHandled(r, class)
  \/ GiveBack(r) \/ DeferredRelease(r) \/ Return(r)

Next ==
  \/ \E r \in Requests : Begin(r) \/ Step(r)
  \/ Tick
  \/ RecoverExpired
  \/ \E k \in Keys : CooledDown(k)
  \/ \E t \in Targets : Intervene(t)

Spec == Init /\ [][Next]_vars

(* A request that has begun is never abandoned by the Go scheduler, and     *)
(* every upstream call ends (by an answer, an error or a timeout).          *)
FairSpec == Spec /\ \A r \in Requests : WF_vars(Step(r))

-----------------------------------------------------------------------------
(* Properties *)

(* Every variable has its type.                                             *)
TypeOK ==
  /\ metrics \in [Targets -> KeyMetrics]
  /\ cooling \subseteq Keys
  /\ pc \in [Requests -> {"idle", "pick", "oldest", "check", "acquire", "build", "sent",
                          "giveback", "givebackNext", "return"}]
  /\ url \in [Requests -> Urls]
  /\ key \in [Requests -> Keys]
  /\ attempt \in [Requests -> 0..NumKeys]
  /\ failedKeys \in [Requests -> SUBSET Keys]
  /\ held \in [Requests -> SUBSET Targets]

(* A probe flag is never orphaned: while ProbeInFlight is set, a running    *)
(* request will release it, on every path out of both request loops.  A     *)
(* half-open circuit has no timeout, so an orphaned flag would block the    *)
(* key until the next restart.                                              *)
NoProbeLeak ==
  \A t \in Targets : metrics[t].probe => \E r \in Requests : t \in held[r]

(* No attempt is wasted: on every path back to the key loop the attempt     *)
(* counter has grown together with failedKeys, so maxRetries iterations try *)
(* or skip that many different keys and a request gives up a BaseURL with   *)
(* an untried key only when that key left the failed-key cache between the  *)
(* two scans of GetNextAPIKey.                                              *)
EveryKeyTried ==
  \A r \in Requests :
    /\ pc[r] \in {"pick", "oldest"} => attempt[r] = Cardinality(failedKeys[r])
    /\ pc[r] \in {"check", "acquire", "build", "sent"} => key[r] \notin failedKeys[r]

(* Every request that has begun returns: the loops over BaseURLs and keys   *)
(* are bounded whatever the circuits and the other requests do.             *)
RequestsReturn ==
  \A r \in Requests : pc[r] # "idle" ~> pc[r] = "idle"
=============================================================================
