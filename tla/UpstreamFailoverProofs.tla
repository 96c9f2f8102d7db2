----------------------- MODULE UpstreamFailoverProofs -----------------------
(***************************************************************************)
(* Proofs about UpstreamFailover for any number of requests, BaseURLs and  *)
(* keys.  The invariant has three parts beside the types, one about the    *)
(* loops, one about the probes, and the shape of the circuits; each action *)
(* is shown to keep each part.                                             *)
(***************************************************************************)
EXTENDS UpstreamFailover, BreakerProofs, FiniteSetTheorems

-----------------------------------------------------------------------------
(* The inductive invariant *)

(* The types of what belongs to the requests, and of the failed keys.       *)
LocalTypes ==
  /\ cooling \subseteq Keys
  /\ pc \in [Requests -> {"idle", "pick", "oldest", "check", "acquire", "build", "sent",
                          "giveback", "givebackNext", "return"}]
  /\ url \in [Requests -> Urls]
  /\ key \in [Requests -> Keys]
  /\ attempt \in [Requests -> 0..NumKeys]
  /\ failedKeys \in [Requests -> SUBSET Keys]
  /\ held \in [Requests -> SUBSET Targets]

CircuitsSound ==
  /\ metrics \in [Targets -> KeyMetrics]
  /\ \A t \in Targets : Sound(metrics[t])

(* Between two attempts as many keys have failed as attempts were made;     *)
(* during an attempt it is one less, and its key is not one of them.        *)
LoopsAgree ==
  \A r \in Requests :
    /\ pc[r] \in {"idle", "pick", "oldest", "givebackNext"} =>
         attempt[r] = Cardinality(failedKeys[r])
    /\ pc[r] \in {"check", "acquire", "build", "sent"} =>
         /\ key[r] \notin failedKeys[r]
         /\ attempt[r] = Cardinality(failedKeys[r]) + 1
    /\ pc[r] = "oldest" => attempt[r] < NumKeys

(* The compact variant has no deferred release: between taking a probe and  *)
(* giving it back it must hold that of its current key only.                *)
CompactHolds ==
  \A r \in Requests \cap Compact :
    /\ held[r] \subseteq {Target(r)}
    /\ pc[r] \notin {"build", "sent", "giveback", "givebackNext"} => held[r] = {}

IInv == LocalTypes /\ CircuitsSound /\ LoopsAgree /\ CompactHolds /\ NoProbeLeak

-----------------------------------------------------------------------------
(* Lemmas *)

(* Adding a key that has not failed yet counts one more.                    *)
LEMMA OneMoreFailed ==
  ASSUME NEW S \in SUBSET Keys, NEW k \in Keys, k \notin S
  PROVE  Cardinality(S \cup {k}) = Cardinality(S) + 1 /\ Cardinality(S) \in Nat
  <1>1. IsFiniteSet(Keys)
    BY FS_Interval, UpstreamFailoverAssumption DEF Keys
  <1>2. IsFiniteSet(S)
    BY <1>1, FS_Subset
  <1> QED
    BY <1>2, FS_AddElement, FS_CardinalityType

(* A request's current pair is one of the channel's.                        *)
LEMMA TargetType ==
  ASSUME LocalTypes, NEW r \in Requests
  PROVE  Target(r) \in Targets
  BY DEF LocalTypes, Target, Targets

(* One circuit becomes another sound one.                                   *)
LEMMA SettleSound ==
  ASSUME CircuitsSound, NEW t \in Targets, NEW next, Sound(next), Settle(t, next)
  PROVE  CircuitsSound'
  BY DEF CircuitsSound, Settle, Sound

(* A step that sets no probe and gives none back leaks none.                *)
LEMMA ProbesKept ==
  ASSUME NoProbeLeak, held' = held,
         \A t \in Targets : metrics'[t].probe => metrics[t].probe
  PROVE  NoProbeLeak'
  BY DEF NoProbeLeak

(* One circuit changes and its probe is not set.                            *)
LEMMA SettleLeaksNone ==
  ASSUME CircuitsSound, NoProbeLeak, held' = held,
         NEW t \in Targets, NEW next, Settle(t, next), next.probe => metrics[t].probe
  PROVE  NoProbeLeak'
  <1>1. \A u \in Targets : metrics'[u] = IF u = t THEN next ELSE metrics[u]
    BY DEF Settle, CircuitsSound
  <1> QED
    BY <1>1, ProbesKept

(* A probe is released and its request drops it.                            *)
LEMMA ReleaseKept ==
  ASSUME LocalTypes, CircuitsSound, NoProbeLeak, NEW r \in Requests, NEW t \in Targets,
         Release(t), held' = [held EXCEPT ![r] = @ \ {t}]
  PROVE  CircuitsSound' /\ NoProbeLeak'
  <1> DEFINE next == [metrics[t] EXCEPT !.probe = FALSE]
  <1>1. Sound(metrics[t]) /\ metrics[t] \in KeyMetrics
    BY DEF CircuitsSound
  <1>2. Sound(next) /\ next.probe = FALSE
    BY <1>1, ProbeSound DEF KeyMetrics
  <1>3. metrics' = [metrics EXCEPT ![t] = next]
    BY DEF Release, CircuitsSound
  <1> HIDE DEF next
  <1>4. CircuitsSound'
    BY <1>2, <1>3, SettleSound DEF Settle
  <1>5. \A u \in Targets : metrics'[u] = IF u = t THEN next ELSE metrics[u]
    BY <1>3 DEF CircuitsSound
  <1>6. \A u \in Targets : \A q \in Requests : u # t /\ u \in held[q] => u \in held'[q]
    BY DEF LocalTypes
  <1>7. NoProbeLeak'
    BY <1>2, <1>5, <1>6 DEF NoProbeLeak
  <1> QED
    BY <1>4, <1>7

(* Nothing has happened yet.                                                *)
LEMMA IInvInit == Init => IInv
  <1> SUFFICES ASSUME Init PROVE IInv
    OBVIOUS
  <1>1. LocalTypes
    BY UpstreamFailoverAssumption DEF Init, LocalTypes, Urls, Keys
  <1>2. CircuitsSound
    BY NewSound DEF Init, CircuitsSound, Sound
  <1>3. LoopsAgree
    BY FS_EmptySet DEF Init, LoopsAgree
  <1>4. CompactHolds
    BY DEF Init, CompactHolds
  <1>5. NoProbeLeak
    BY DEF Init, NoProbeLeak, NewKeyMetrics
  <1> QED
    BY <1>1, <1>2, <1>3, <1>4, <1>5 DEF IInv

-----------------------------------------------------------------------------
(* The loops: types, attempts and the probes of compact *)

(* A key that has been picked has not failed in this request.               *)
LEMMA UseKept ==
  ASSUME LocalTypes, LoopsAgree, CompactHolds, NEW r \in Requests, NEW k \in Keys,
         pc[r] \in {"pick", "oldest"}, attempt[r] < NumKeys, k \notin failedKeys[r],
         Use(r, k), UNCHANGED <<cooling, url, failedKeys, held>>
  PROVE  LocalTypes' /\ LoopsAgree' /\ CompactHolds'
  <1>1. LocalTypes'
    BY UpstreamFailoverAssumption DEF LocalTypes, Use, Goto
  <1>2. LoopsAgree'
    BY DEF LocalTypes, LoopsAgree, Use, Goto
  <1>3. CompactHolds'
    BY DEF LocalTypes, CompactHolds, Use, Goto, Target
  <1> QED
    BY <1>1, <1>2, <1>3

(* The attempt ends and its key has failed.                                 *)
LEMMA TryNextKept ==
  ASSUME LocalTypes, LoopsAgree, NEW r \in Requests,
         pc[r] \in {"check", "acquire", "build", "sent"},
         failedKeys' = [failedKeys EXCEPT ![r] = @ \cup {key[r]}],
         Goto(r, "pick") \/ Goto(r, "givebackNext"),
         cooling' \subseteq Keys, UNCHANGED <<url, key, attempt, held>>
  PROVE  LocalTypes' /\ LoopsAgree'
  <1>1. key[r] \in Keys /\ failedKeys[r] \in SUBSET Keys /\ key[r] \notin failedKeys[r]
    BY DEF LocalTypes, LoopsAgree
  <1>2. LocalTypes'
    BY <1>1 DEF LocalTypes, Goto
  <1>3. Cardinality(failedKeys[r] \cup {key[r]}) = attempt[r]
    BY <1>1, OneMoreFailed DEF LoopsAgree
  <1>4. LoopsAgree'
    BY <1>3 DEF LocalTypes, LoopsAgree, Goto
  <1> QED
    BY <1>2, <1>4

(* The request goes on, or ends, with the key it has.                       *)
LEMMA GotoKept ==
  ASSUME LocalTypes, LoopsAgree, NEW r \in Requests, NEW label, Goto(r, label),
         \/ /\ pc[r] \in {"check", "acquire", "build"}
            /\ label \in {"acquire", "build", "sent"}
         \/ label \in {"return", "giveback"}
         \/ pc[r] = "idle" /\ label = "pick"
         \/ pc[r] = "givebackNext" /\ label = "pick",
         cooling' \subseteq Keys, held' \in [Requests -> SUBSET Targets],
         UNCHANGED <<url, key, attempt, failedKeys>>
  PROVE  LocalTypes' /\ LoopsAgree'
  <1>1. LocalTypes'
    BY DEF LocalTypes, Goto
  <1>2. LoopsAgree'
    BY DEF LocalTypes, LoopsAgree, Goto
  <1> QED
    BY <1>1, <1>2

(* A step of a request that keeps its pair and its probes.                  *)
LEMMA HoldsKept ==
  ASSUME LocalTypes, CompactHolds, NEW r \in Requests, NEW label, Goto(r, label),
         \/ pc[r] \notin {"build", "sent", "giveback", "givebackNext"}
         \/ label \in {"build", "sent", "giveback", "givebackNext"}
         \/ r \notin Compact,
         UNCHANGED <<url, key, held>>
  PROVE  CompactHolds'
  BY DEF LocalTypes, CompactHolds, Goto, Target

-----------------------------------------------------------------------------
(* Each action *)

(* Begin, PickKey, PickOldest and NextUrl do not touch the circuits.        *)
LEMMA WalkKept ==
  ASSUME IInv, NEW r \in Requests,
         Begin(r) \/ PickKey(r) \/ PickOldest(r) \/ NextUrl(r)
  PROVE  IInv'
  <1> USE DEF IInv
  <1>1. CASE Begin(r)
    BY <1>1, GotoKept, HoldsKept, ProbesKept DEF Begin, CircuitsSound, LocalTypes
  <1>2. CASE PickKey(r)
    <2>1. CircuitsSound' /\ NoProbeLeak'
      BY <1>2, ProbesKept DEF PickKey, CircuitsSound
    <2>2. ASSUME NEW k \in Available(r), Use(r, k)
          PROVE  LocalTypes' /\ LoopsAgree' /\ CompactHolds'
      <3>1. k \in Keys /\ pc[r] = "pick" /\ attempt[r] < NumKeys
        BY <1>2, <2>2 DEF PickKey, Available
      <3>2. CASE NumKeys = 1
        <4> /\ attempt[r] \in 0..NumKeys
            /\ failedKeys[r] \in SUBSET Keys
          BY DEF LocalTypes
        <4>1. attempt[r] = 0
          BY <3>1, <3>2
        <4>2. IsFiniteSet(failedKeys[r])
          <5>1. IsFiniteSet(Keys)
            BY FS_Interval, UpstreamFailoverAssumption DEF Keys
          <5> QED
            BY <5>1, FS_Subset
        <4>3. failedKeys[r] = {}
          BY <3>1, <4>1, <4>2, FS_EmptySet DEF LoopsAgree
        <4> QED
          BY <1>2, <2>2, <3>1, <4>3, UseKept DEF PickKey
      <3>3. CASE NumKeys # 1
        BY <1>2, <2>2, <3>1, <3>3, UseKept DEF PickKey, Available
      <3> QED
        BY <3>2, <3>3
    <2>3. ASSUME Goto(r, "oldest"), UNCHANGED <<key, attempt>>
          PROVE  LocalTypes' /\ LoopsAgree' /\ CompactHolds'
      <3>1. LocalTypes' /\ LoopsAgree'
        BY <1>2, <2>3 DEF PickKey, LocalTypes, LoopsAgree, Goto
      <3>2. CompactHolds'
        BY <1>2, <2>3, HoldsKept DEF PickKey
      <3> QED
        BY <3>1, <3>2
    <2> QED
      BY <1>2, <2>1, <2>2, <2>3 DEF PickKey
  <1>3. CASE PickOldest(r)
    <2>1. PICK k \in Recovering(r) : Use(r, k)
      BY <1>3 DEF PickOldest
    <2>2. k \in Keys /\ k \notin failedKeys[r]
      BY <2>1 DEF Recovering, LocalTypes
    <2>3. LocalTypes' /\ LoopsAgree' /\ CompactHolds'
      BY <1>3, <2>1, <2>2, UseKept DEF PickOldest, LoopsAgree
    <2> QED
      BY <1>3, <2>3, ProbesKept DEF PickOldest, CircuitsSound
  <1>4. CASE NextUrl(r)
    <2>1. CircuitsSound' /\ NoProbeLeak'
      BY <1>4, ProbesKept DEF NextUrl, CircuitsSound
    <2>2. CASE url[r] < NumUrls /\ r \notin Compact
      <3>1. /\ url' = [url EXCEPT ![r] = @ + 1] /\ attempt' = [attempt EXCEPT ![r] = 0]
            /\ failedKeys' = [failedKeys EXCEPT ![r] = {}]
            /\ pc' = [pc EXCEPT ![r] = "pick"]
            /\ UNCHANGED <<cooling, key, held>>
        BY <1>4, <2>2 DEF NextUrl, Goto
      <3>2. LocalTypes'
        BY <2>2, <3>1, UpstreamFailoverAssumption DEF LocalTypes, Urls
      <3>3. LoopsAgree'
        BY <3>1, FS_EmptySet DEF LocalTypes, LoopsAgree
      <3>4. CompactHolds'
        BY <2>2, <3>1 DEF LocalTypes, CompactHolds, Target
      <3> QED
        BY <2>1, <3>2, <3>3, <3>4
    <2>3. CASE ~ (url[r] < NumUrls /\ r \notin Compact)
      <3>1. /\ Goto(r, "return") /\ pc[r] \in {"pick", "oldest"}
            /\ UNCHANGED <<cooling, url, key, attempt, failedKeys, held>>
        BY <1>4, <2>3 DEF NextUrl
      <3>2. LocalTypes' /\ LoopsAgree'
        BY <3>1, GotoKept DEF LocalTypes
      <3>3. CompactHolds'
        BY <3>1, HoldsKept
      <3> QED
        BY <2>1, <3>2, <3>3
    <2> QED
      BY <2>2, <2>3
  <1> QED
    BY <1>1, <1>2, <1>3, <1>4

(* CheckCircuit: the state of a circuit is asked for.                       *)
LEMMA CheckKept ==
  ASSUME IInv, NEW r \in Requests, CheckCircuit(r)
  PROVE  IInv'
  <1> DEFINE t == Target(r)
             now == AdvanceCircuitStateIfDue(metrics[t])
  <1>1. t \in Targets /\ Sound(metrics[t])
    BY TargetType DEF IInv, CircuitsSound
  <1>2. Sound(now) /\ (now.probe => metrics[t].probe)
    BY <1>1, AdvanceSound, AdvanceProbe DEF Sound
  <1>3. /\ pc[r] = "check" /\ Settle(t, now)
        /\ UNCHANGED <<cooling, url, key, attempt, held>>
        /\ \/ TryNextKey(r)
           \/ UNCHANGED failedKeys /\ (Goto(r, "acquire") \/ Goto(r, "build"))
    BY DEF CheckCircuit
  <1> HIDE DEF t, now
  <1>4. CircuitsSound' /\ NoProbeLeak'
    BY <1>1, <1>2, <1>3, SettleSound, SettleLeaksNone DEF IInv
  <1>5. LocalTypes' /\ LoopsAgree'
    BY <1>3, TryNextKept, GotoKept DEF IInv, TryNextKey, LocalTypes
  <1>6. CompactHolds'
    BY <1>3, HoldsKept DEF IInv, TryNextKey
  <1> QED
    BY <1>4, <1>5, <1>6 DEF IInv

(* AcquireProbe: the only step that sets a probe, and it notes whose it is. *)
LEMMA AcquireKept ==
  ASSUME IInv, NEW r \in Requests, AcquireProbe(r)
  PROVE  IInv'
  <1> DEFINE t == Target(r)
             now == AdvanceCircuitStateIfDue(metrics[t])
             taken == [now EXCEPT !.probe = TRUE]
  <1>1. t \in Targets /\ Sound(metrics[t])
    BY TargetType DEF IInv, CircuitsSound
  <1>2. Sound(now) /\ (now.probe => metrics[t].probe)
    BY <1>1, AdvanceSound, AdvanceProbe DEF Sound
  <1>3. ProbeFree(now) => Sound(taken)
    BY <1>2, ProbeSound DEF ProbeFree
  <1>4. /\ pc[r] = "acquire"
        /\ UNCHANGED <<cooling, url, key, attempt>>
        /\ \/ /\ ProbeFree(now) /\ Settle(t, taken)
              /\ held' = [held EXCEPT ![r] = @ \cup {t}]
              /\ Goto(r, "build") /\ UNCHANGED failedKeys
           \/ Settle(t, now) /\ TryNextKey(r) /\ UNCHANGED held
    BY DEF AcquireProbe
  <1> HIDE DEF now, taken
  <1>5. CASE /\ ProbeFree(now) /\ Settle(t, taken)
             /\ held' = [held EXCEPT ![r] = @ \cup {t}]
             /\ Goto(r, "build") /\ UNCHANGED failedKeys
    <2>1. CircuitsSound'
      BY <1>1, <1>3, <1>5, SettleSound DEF IInv
    <2>2. held' \in [Requests -> SUBSET Targets]
      BY <1>1, <1>5 DEF IInv, LocalTypes
    <2>3. LocalTypes' /\ LoopsAgree'
      BY <1>4, <1>5, <2>2, GotoKept DEF IInv, LocalTypes
    <2>4. CompactHolds'
      BY <1>4, <1>5 DEF IInv, LocalTypes, CompactHolds, Goto, Target
    <2>5. \A u \in Targets : u # t => metrics'[u] = metrics[u]
      BY <1>5 DEF IInv, CircuitsSound, Settle
    <2>6. t \in held'[r] /\ \A q \in Requests : held[q] \subseteq held'[q]
      BY <1>5 DEF IInv, LocalTypes
    <2>7. NoProbeLeak'
      BY <2>5, <2>6 DEF IInv, NoProbeLeak
    <2> QED
      BY <2>1, <2>3, <2>4, <2>7 DEF IInv
  <1>6. CASE Settle(t, now) /\ TryNextKey(r) /\ UNCHANGED held
    <2> HIDE DEF t
    <2>1. CircuitsSound' /\ NoProbeLeak'
      BY <1>1, <1>2, <1>6, SettleSound, SettleLeaksNone DEF IInv
    <2>2. LocalTypes' /\ LoopsAgree'
      BY <1>4, <1>6, TryNextKept DEF IInv, TryNextKey, LocalTypes
    <2>3. CompactHolds'
      BY <1>4, <1>6, HoldsKept DEF IInv, TryNextKey
    <2> QED
      BY <2>1, <2>2, <2>3 DEF IInv
  <1> QED
    BY <1>4, <1>5, <1>6

(* BuildFails, Cancel and Send.                                             *)
LEMMA SendKept ==
  ASSUME IInv, NEW r \in Requests, BuildFails(r) \/ Cancel(r) \/ Send(r)
  PROVE  IInv'
  <1>1. CASE BuildFails(r) \/ Cancel(r)
    <2>1. /\ Goto(r, "return") /\ r \notin Compact
          /\ UNCHANGED <<metrics, cooling, url, key, attempt, failedKeys, held>>
      BY <1>1 DEF BuildFails, Cancel
    <2>2. LocalTypes' /\ LoopsAgree'
      BY <2>1, GotoKept DEF IInv, LocalTypes
    <2>3. CompactHolds'
      BY <2>1, HoldsKept DEF IInv
    <2>4. CircuitsSound' /\ NoProbeLeak'
      BY <2>1, ProbesKept DEF IInv, CircuitsSound
    <2> QED
      BY <2>2, <2>3, <2>4 DEF IInv
  <1>2. CASE Send(r)
    <2> DEFINE t == Target(r)
               now == AdvanceCircuitStateIfDue(metrics[t])
    <2>1. t \in Targets /\ Sound(metrics[t])
      BY TargetType DEF IInv, CircuitsSound
    <2>2. Sound(now) /\ (now.probe => metrics[t].probe)
      BY <2>1, AdvanceSound, AdvanceProbe DEF Sound
    <2>3. /\ pc[r] = "build" /\ Goto(r, "sent")
          /\ UNCHANGED <<cooling, url, key, attempt, failedKeys, held>>
          /\ UNCHANGED metrics \/ Settle(t, now)
      BY <1>2 DEF Send
    <2> HIDE DEF t, now
    <2>4. LocalTypes' /\ LoopsAgree'
      BY <2>3, GotoKept DEF IInv, LocalTypes
    <2>5. CompactHolds'
      BY <2>3, HoldsKept DEF IInv
    <2>6. CircuitsSound' /\ NoProbeLeak'
      <3>1. CASE UNCHANGED metrics
        BY <2>3, <3>1, ProbesKept DEF IInv, CircuitsSound
      <3>2. CASE Settle(t, now)
        BY <2>1, <2>2, <2>3, <3>2, SettleSound, SettleLeaksNone DEF IInv
      <3> QED
        BY <2>3, <3>1, <3>2
    <2> QED
      BY <2>4, <2>5, <2>6 DEF IInv
  <1> QED
    BY <1>1, <1>2

(* Succeed, FailOver and FailHandled: the outcome of an attempt.            *)
LEMMA OutcomeKept ==
  ASSUME IInv, NEW r \in Requests, NEW class \in FailureClasses,
         Succeed(r) \/ FailOver(r, class) \/ FailHandled(r, class)
  PROVE  IInv'
  <1> DEFINE t == Target(r)
  <1>1. t \in Targets /\ Sound(metrics[t])
    BY TargetType DEF IInv, CircuitsSound
  <1>2. ASSUME NEW next, Settle(t, next), held' = held,
               \/ next = metrics[t] \/ next = HandleBreakerSuccess(metrics[t])
               \/ next = HandleBreakerFailure(metrics[t], class)
        PROVE  CircuitsSound' /\ NoProbeLeak'
    <2>1. Sound(next) /\ (next.probe => metrics[t].probe)
      BY <1>1, <1>2, SuccessSound, FailureSound, SuccessProbe, FailureProbe
    <2> HIDE DEF t
    <2> QED
      BY <1>1, <1>2, <2>1, SettleSound, SettleLeaksNone DEF IInv
  <1>3. CASE Succeed(r)
    <2>1. /\ Settle(t, HandleBreakerSuccess(metrics[t])) /\ Goto(r, "giveback")
          /\ UNCHANGED <<cooling, url, key, attempt, failedKeys, held>>
      BY <1>3 DEF Succeed
    <2>2. LocalTypes' /\ LoopsAgree' /\ CompactHolds'
      BY <2>1, GotoKept, HoldsKept DEF IInv, LocalTypes
    <2> QED
      BY <1>2, <2>1, <2>2 DEF IInv
  <1>4. CASE FailOver(r, class)
    <2>1. /\ pc[r] = "sent" /\ Settle(t, HandleBreakerFailure(metrics[t], class))
          /\ cooling' = cooling \cup {key[r]}
          /\ failedKeys' = [failedKeys EXCEPT ![r] = @ \cup {key[r]}]
          /\ Goto(r, "givebackNext") \/ (r \notin Compact /\ Goto(r, "pick"))
          /\ UNCHANGED <<url, key, attempt, held>>
      BY <1>4 DEF FailOver, TryNextKey
    <2>2. cooling' \subseteq Keys
      BY <2>1 DEF IInv, LocalTypes
    <2>3. LocalTypes' /\ LoopsAgree'
      BY <2>1, <2>2, TryNextKept DEF IInv
    <2>4. CompactHolds'
      BY <2>1, HoldsKept DEF IInv
    <2> QED
      BY <1>2, <2>1, <2>3, <2>4 DEF IInv
  <1>5. CASE FailHandled(r, class)
    <2>1. /\ cooling' \in {cooling, cooling \cup {key[r]}}
          /\ \/ Settle(t, metrics[t]) \/ Settle(t, HandleBreakerFailure(metrics[t], class))
          /\ Goto(r, "giveback") \/ (r \notin Compact /\ Goto(r, "return"))
          /\ UNCHANGED <<url, key, attempt, failedKeys, held>>
      BY <1>5 DEF FailHandled
    <2>2. cooling' \subseteq Keys
      BY <2>1 DEF IInv, LocalTypes
    <2>3. LocalTypes' /\ LoopsAgree'
      BY <2>1, <2>2, GotoKept DEF IInv, LocalTypes
    <2>4. CompactHolds'
      BY <2>1, HoldsKept DEF IInv
    <2> QED
      BY <1>2, <2>1, <2>3, <2>4 DEF IInv
  <1> QED
    BY <1>3, <1>4, <1>5

(* GiveBack, DeferredRelease and Return: a probe is released together with  *)
(* the note of it, and a request leaves without any.                        *)
LEMMA ReturnKept ==
  ASSUME IInv, NEW r \in Requests, GiveBack(r) \/ DeferredRelease(r) \/ Return(r)
  PROVE  IInv'
  <1>1. CASE GiveBack(r)
    <2> DEFINE t == Target(r)
    <2>1. t \in Targets
      BY TargetType DEF IInv
    <2>2. /\ pc[r] \in {"giveback", "givebackNext"}
          /\ UNCHANGED <<cooling, url, key, attempt, failedKeys>>
          /\ \/ pc[r] = "giveback" /\ Goto(r, "return")
             \/ pc[r] = "givebackNext" /\ Goto(r, "pick")
          /\ \/ Release(t) /\ held' = [held EXCEPT ![r] = @ \ {t}]
             \/ t \notin held[r] /\ UNCHANGED <<metrics, held>>
      BY <1>1 DEF GiveBack
    <2>3. /\ held' \in [Requests -> SUBSET Targets]
          /\ \A q \in Requests : held'[q] = IF q = r THEN held[r] \ {t} ELSE held[q]
      BY <2>2 DEF IInv, LocalTypes
    <2>4. LocalTypes' /\ LoopsAgree'
      BY <2>2, <2>3, GotoKept DEF IInv, LocalTypes
    <2>5. CompactHolds'
      BY <2>2, <2>3 DEF IInv, LocalTypes, CompactHolds, Goto, Target
    <2>6. CircuitsSound' /\ NoProbeLeak'
      <3> HIDE DEF t
      <3> QED
        BY <2>1, <2>2, ReleaseKept, ProbesKept DEF IInv, CircuitsSound
    <2> QED
      BY <2>4, <2>5, <2>6 DEF IInv
  <1>2. CASE DeferredRelease(r)
    <2>1. PICK t \in held[r] : Release(t) /\ held' = [held EXCEPT ![r] = @ \ {t}]
      BY <1>2 DEF DeferredRelease
    <2>2. r \notin Compact /\ UNCHANGED <<cooling, pc, url, key, attempt, failedKeys>>
      BY <1>2 DEF DeferredRelease
    <2>3. t \in Targets
      BY DEF IInv, LocalTypes
    <2>4. LocalTypes' /\ LoopsAgree' /\ CompactHolds'
      BY <2>1, <2>2 DEF IInv, LocalTypes, LoopsAgree, CompactHolds, Target
    <2>5. CircuitsSound' /\ NoProbeLeak'
      BY <2>1, <2>3, ReleaseKept DEF IInv
    <2> QED
      BY <2>4, <2>5 DEF IInv
  <1>3. CASE Return(r)
    <2>1. held[r] = {}
      BY <1>3 DEF Return, IInv, CompactHolds
    <2>2. held' = held
      BY <1>3, <2>1 DEF Return, IInv, LocalTypes
    <2>3. /\ pc' = [pc EXCEPT ![r] = "idle"] /\ url' = [url EXCEPT ![r] = 1]
          /\ key' = [key EXCEPT ![r] = 1] /\ attempt' = [attempt EXCEPT ![r] = 0]
          /\ failedKeys' = [failedKeys EXCEPT ![r] = {}]
          /\ UNCHANGED <<metrics, cooling>>
      BY <1>3 DEF Return, Goto
    <2>4. LocalTypes'
      BY <2>2, <2>3, UpstreamFailoverAssumption DEF IInv, LocalTypes, Urls, Keys
    <2>5. LoopsAgree'
      BY <2>3, FS_EmptySet DEF IInv, LocalTypes, LoopsAgree
    <2>6. CompactHolds'
      BY <2>1, <2>2, <2>3 DEF IInv, LocalTypes, CompactHolds, Target
    <2>7. CircuitsSound' /\ NoProbeLeak'
      BY <2>2, <2>3, ProbesKept DEF IInv, CircuitsSound
    <2> QED
      BY <2>4, <2>5, <2>6, <2>7 DEF IInv
  <1> QED
    BY <1>1, <1>2, <1>3

(* What concerns the requests only is kept by a step that leaves them alone.*)
LEMMA RequestsAlone ==
  ASSUME IInv, cooling' \subseteq Keys,
         UNCHANGED <<pc, url, key, attempt, failedKeys, held>>
  PROVE  LocalTypes' /\ LoopsAgree' /\ CompactHolds'
  BY DEF IInv, LocalTypes, LoopsAgree, CompactHolds, Target

(* Time, the recovery, and interventions from outside.                      *)
LEMMA OutsideKept ==
  ASSUME IInv,
         \/ Tick \/ RecoverExpired
         \/ (\E k \in Keys : CooledDown(k)) \/ (\E t \in Targets : Intervene(t))
  PROVE  IInv'
  <1> USE DEF IInv
  <1>1. CASE Tick
    <2>1. \A t \in Targets : Sound(Elapse(metrics[t])) /\ (Elapse(metrics[t]).probe => metrics[t].probe)
      BY ElapseSound, ElapseProbe DEF CircuitsSound
    <2>2. CircuitsSound'
      BY <1>1, <2>1 DEF Tick, CircuitsSound, Sound
    <2>3. NoProbeLeak'
      BY <1>1, <2>1, ProbesKept DEF Tick
    <2> QED
      BY <1>1, <2>2, <2>3, RequestsAlone DEF Tick, LocalTypes
  <1>2. CASE RecoverExpired
    <2>1. \A t \in Targets :
            /\ Sound(AdvanceCircuitStateIfDue(metrics[t]))
            /\ AdvanceCircuitStateIfDue(metrics[t]).probe => metrics[t].probe
      BY AdvanceSound, AdvanceProbe DEF CircuitsSound
    <2>2. CircuitsSound'
      BY <1>2, <2>1 DEF RecoverExpired, CircuitsSound, Sound
    <2>3. NoProbeLeak'
      BY <1>2, <2>1, ProbesKept DEF RecoverExpired
    <2> QED
      BY <1>2, <2>2, <2>3, RequestsAlone DEF RecoverExpired, LocalTypes
  <1>3. CASE \E k \in Keys : CooledDown(k)
    BY <1>3, RequestsAlone, ProbesKept DEF CooledDown, CircuitsSound, LocalTypes
  <1>4. ASSUME NEW t \in Targets, Intervene(t)
        PROVE  IInv'
    <2>1. PICK next \in {MoveCircuitToHalfOpen(metrics[t]), ResetCircuitState(metrics[t])} :
            Settle(t, next)
      BY <1>4 DEF Intervene, Settle
    <2>2. Sound(next) /\ next.probe = FALSE
      BY <2>1, HalfOpenSound, ResetSound, MovesClearProbe DEF CircuitsSound
    <2>3. UNCHANGED <<cooling, pc, url, key, attempt, failedKeys, held>>
      BY <1>4 DEF Intervene
    <2>4. CircuitsSound' /\ NoProbeLeak'
      BY <2>1, <2>2, <2>3, SettleSound, SettleLeaksNone
    <2> QED
      BY <2>3, <2>4, RequestsAlone DEF LocalTypes
  <1> QED
    BY <1>1, <1>2, <1>3, <1>4

-----------------------------------------------------------------------------
(* Theorems *)

(* Every step keeps the invariant.                                          *)
LEMMA IInvStep == IInv /\ [Next]_vars => IInv'
  <1> SUFFICES ASSUME IInv, [Next]_vars PROVE IInv'
    OBVIOUS
  <1>1. CASE UNCHANGED vars
    BY <1>1 DEF vars, IInv, LocalTypes, CircuitsSound, LoopsAgree, CompactHolds, Target, NoProbeLeak
  <1>2. ASSUME NEW r \in Requests, Begin(r) \/ Step(r)
        PROVE  IInv'
    BY <1>2, WalkKept, CheckKept, AcquireKept, SendKept, OutcomeKept, ReturnKept
    DEF Step, FailureClasses
  <1>3. CASE Next /\ ~ \E r \in Requests : Begin(r) \/ Step(r)
    BY <1>3, OutsideKept DEF Next
  <1> QED
    BY <1>1, <1>2, <1>3

(* The invariant of TryUpstreamWithAllKeys and its surroundings.            *)
LEMMA InvariantHolds == Spec => []IInv
  BY IInvInit, IInvStep, PTL DEF Spec

(* Every variable keeps its type: no request makes more attempts than there *)
(* are keys or walks off the list of BaseURLs.                              *)
THEOREM TypeCorrect == Spec => []TypeOK
  <1>1. IInv => TypeOK
    BY DEF IInv, LocalTypes, CircuitsSound, TypeOK
  <1> QED
    BY <1>1, InvariantHolds, PTL

(* For any number of requests of both variants, and whatever the ticker,    *)
(* the scheduled recovery and the operator do meanwhile, ProbeInFlight is   *)
(* never left behind by a request that has returned.                        *)
THEOREM NoProbeEverLeaks == Spec => []NoProbeLeak
  <1>1. IInv => NoProbeLeak
    BY DEF IInv
  <1> QED
    BY <1>1, InvariantHolds, PTL

(* For any number of BaseURLs and keys, the attempts of a request and the   *)
(* keys it marks as failed never drift apart.                               *)
THEOREM EveryKeyIsTried == Spec => []EveryKeyTried
  <1>1. IInv => EveryKeyTried
    BY DEF IInv, LoopsAgree, EveryKeyTried
  <1> QED
    BY <1>1, InvariantHolds, PTL
=============================================================================
