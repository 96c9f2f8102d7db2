--------------------------- MODULE RoutingProofs ---------------------------
(***************************************************************************)
(* Proofs about the way of a request: ChannelSelection for any number of   *)
(* requests, channels and keys, and for whatever the console changes       *)
(* meanwhile; Gateway for any set of channels and any number of pairs; and *)
(* UpstreamErrors for texts that match any number of keyword lists.        *)
(***************************************************************************)
EXTENDS ChannelSelection, Gateway, UpstreamErrors, BreakerProofs, FiniteSetTheorems,
        WellFoundedInduction

-----------------------------------------------------------------------------
(* The channel of an attempt *)

Stages  == {"idle", "select", "try", "handled", "failed"}
Reasons == {"none", "channel_pin", "promotion_priority", "trace_affinity",
            "priority_order", "fallback"}

ConfigTypes ==
  /\ status \in [Channels -> {"active", "suspended", "disabled"}]
  /\ keyless \subseteq Channels /\ promoted \subseteq Channels
  /\ affinity \in [Users -> Channels \cup {NoChannel}]

LocalTypes ==
  /\ pc \in [Requests -> Stages] /\ req \in [Requests -> RequestType]
  /\ failed \in [Requests -> SUBSET Channels]
  /\ tries \in [Requests -> Nat] /\ limit \in [Requests -> Nat]
  /\ channel \in [Requests -> [index : Channels \cup {NoChannel}, reason : Reasons]]
  /\ todo \in [Requests -> SUBSET Keys]

Circuits == metrics \in [Targets -> KeyMetrics] /\ \A t \in Targets : Sound(metrics[t])

(* Every attempt of a request adds a channel to those it has tried.         *)
AttemptsCounted ==
  \A r \in Requests :
    /\ pc[r] = "idle" => failed[r] = {} /\ tries[r] = 0
    /\ pc[r] = "select" => tries[r] = Cardinality(failed[r])
    /\ pc[r] = "try" => /\ channel[r].index \in Channels \ failed[r]
                        /\ tries[r] = Cardinality(failed[r]) + 1

Enabled == {c \in Channels : status[c] # "disabled"}

(* Without changes a request may try every channel that is enabled, and     *)
(* tries no other.                                                          *)
LimitHolds ==
  changing = {} =>
    \A r \in Requests : pc[r] \in {"select", "try"} =>
      /\ limit[r] = Cardinality(Enabled) /\ failed[r] \subseteq Enabled
      /\ pc[r] = "try" => channel[r].index \in Enabled

SelectionInv == ConfigTypes /\ LocalTypes /\ Circuits /\ AttemptsCounted /\ LimitHolds

-----------------------------------------------------------------------------
(* Least elements *)

(* Every set of natural numbers that is not empty has a least element.      *)
LEMMA LeastNatural ==
  ASSUME NEW S \in SUBSET Nat, S # {}
  PROVE  \E n \in S : \A m \in S : n <= m
  <1> DEFINE R == {ss \in Nat \X Nat : ss[1] < ss[2]}
  <1>1. IsWellFoundedOn(R, Nat)
    BY NatLessThanWellFounded DEF OpToRel
  <1>2. \A n, m \in Nat : m < n => <<m, n>> \in R
    OBVIOUS
  <1> HIDE DEF R
  <1>3. PICK n \in S : \A m \in S : ~(<<m, n>> \in R)
    BY <1>1, WFMin
  <1>4. ASSUME NEW m \in S PROVE n <= m
    <2>1. ~(<<m, n>> \in R) /\ n \in Nat /\ m \in Nat
      BY <1>3
    <2>2. ~(m < n)
      BY <1>2, <2>1
    <2> QED
      BY <2>1, <2>2
  <1> QED
    BY <1>4

(* Of several things one has the least measure.                             *)
LEMMA LeastMeasure ==
  ASSUME NEW S, S # {}, NEW f \in [S -> Nat]
  PROVE  \E x \in S : \A y \in S : f[x] <= f[y]
  <1>1. {f[x] : x \in S} \in SUBSET Nat /\ {f[x] : x \in S} # {}
    OBVIOUS
  <1>2. PICK n \in {f[x] : x \in S} : \A m \in {f[x] : x \in S} : n <= m
    BY <1>1, LeastNatural
  <1> QED
    BY <1>2

LEMMA PriorityType ==
  ASSUME NEW c \in Channels
  PROVE  EffectivePriority(c) \in Nat
  BY ChannelSelectionAssumption DEF EffectivePriority, Channels

LEMMA ChannelsFinite == IsFiniteSet(Channels) /\ Channels \subseteq Nat
  <1>1. 0 \in Int /\ NumChannels - 1 \in Int
    BY ChannelSelectionAssumption
  <1> QED
    BY <1>1, FS_Interval DEF Channels

(* sort.Slice puts some channel first.                                      *)
LEMMA FirstNotEmpty ==
  ASSUME NEW S \in SUBSET Channels, S # {}
  PROVE  First(S) # {}
  <1> DEFINE f == [c \in S |-> EffectivePriority(c)]
  <1>1. f \in [S -> Nat]
    BY PriorityType
  <1>2. PICK c \in S : \A d \in S : f[c] <= f[d]
    BY <1>1, LeastMeasure
  <1> QED
    BY <1>2 DEF First

-----------------------------------------------------------------------------
(* The rules of SelectChannel *)

(* Whatever rule finds a channel: the request may use it, it is not         *)
(* disabled, and the request has not tried it.                              *)
LEMMA ChoiceUntried ==
  ASSUME SelectionInv, NEW r \in Requests, NEW choice \in Choice(r)
  PROVE  /\ choice.index \in Active(r) \ failed[r]
         /\ choice \in [index : Channels, reason : Reasons]
  <1>1. Active(r) \subseteq Channels
    BY ChannelSelectionAssumption DEF Active, SelectionInv, LocalTypes, RequestType
  <1>2. Untried(r) \subseteq Active(r) \ failed[r]
    BY DEF Untried
  <1>3. PICK c, why : /\ choice = [index |-> c, reason |-> why] /\ why \in Reasons
                      /\ \/ c \in Pinned(r) \/ c \in Promoted(r) \/ c \in Preferred(r)
                         \/ c \in Ordered(r) \/ c \in Fallback(r)
    BY DEF Choice, Reasons
  <1>4. c \in Active(r) \ failed[r]
    BY <1>2, <1>3 DEF Pinned, Promoted, Preferred, Ordered, Fallback, Available, First
  <1> QED
    BY <1>1, <1>3, <1>4

(* A healthy channel has a circuit that is not open: with outcomes, one     *)
(* that is in use; without, by the condition itself.                        *)
LEMMA HealthyInUse ==
  ASSUME NEW c \in Channels, IsChannelHealthy(c)
  PROVE  InUse(c) # {}
  <1>1. CASE Cardinality(ChannelOutcomes(c)) = 0
    BY <1>1 DEF IsChannelHealthy
  <1>2. CASE Cardinality(ChannelOutcomes(c)) # 0
    <2>1. ChannelOutcomes(c) # {}
      BY <1>2, FS_EmptySet
    <2> QED
      BY <2>1 DEF ChannelOutcomes
  <1> QED
    BY <1>1, <1>2

(* One circuit in use keeps the channel from counting as open.              *)
LEMMA InUseNotOpen ==
  ASSUME Circuits, NEW c \in Channels, InUse(c) # {}
  PROVE  ChannelCircuitState(c) # Open
  <1>1. PICK k \in Keys : Now(<<c, k>>).state # Open
    BY DEF InUse
  <1>2. <<c, k>> \in Targets /\ Sound(metrics[<<c, k>>])
    BY DEF Targets, Circuits
  <1>3. Now(<<c, k>>).state \in CircuitStates
    BY <1>2, AdvanceSound DEF Now, Sound, KeyMetrics
  <1>4. Now(<<c, k>>).state \in {Closed, HalfOpen}
    BY <1>1, <1>3 DEF CircuitStates
  <1> QED
    BY <1>4 DEF ChannelCircuitState, Closed, Open, HalfOpen

-----------------------------------------------------------------------------
(* Each action *)

LEMMA FailedFinite ==
  ASSUME LocalTypes, NEW r \in Requests
  PROVE  IsFiniteSet(failed[r]) /\ Cardinality(failed[r]) \in Nat
  BY ChannelsFinite, FS_Subset, FS_CardinalityType DEF LocalTypes

LEMMA EnabledFinite == IsFiniteSet(Enabled) /\ Cardinality(Enabled) \in Nat
  BY ChannelsFinite, FS_Subset, FS_CardinalityType DEF Enabled

(* Everything is fresh.                                                     *)
LEMMA InitKept == Init => SelectionInv
  <1> SUFFICES ASSUME Init PROVE SelectionInv
    OBVIOUS
  <1>1. ConfigTypes
    BY DEF Init, ConfigTypes
  <1>2. NoRequest \in RequestType
    BY ChannelSelectionAssumption DEF NoRequest, RequestType
  <1>3. LocalTypes
    BY <1>2 DEF Init, LocalTypes, Stages, Reasons, Nothing
  <1>4. Circuits
    BY NewSound DEF Init, Circuits, Sound
  <1>5. AttemptsCounted /\ LimitHolds
    BY DEF Init, AttemptsCounted, LimitHolds
  <1> QED
    BY <1>1, <1>3, <1>4, <1>5 DEF SelectionInv

LEMMA BeginKept ==
  ASSUME SelectionInv, NEW r \in Requests, Begin(r)
  PROVE  SelectionInv'
  <1>1. /\ UNCHANGED <<metrics, status, keyless, promoted, changing, affinity>>
        /\ UNCHANGED <<failed, tries, channel, todo>>
        /\ pc[r] = "idle" /\ pc' = [pc EXCEPT ![r] = "select"]
        /\ limit' = [limit EXCEPT ![r] = Cardinality(Enabled)]
        /\ req' \in {[req EXCEPT ![r] = q] : q \in RequestType}
    BY DEF Begin, Goto, config, Enabled, GetActiveChannelCount
  <1>2. ConfigTypes' /\ Circuits'
    BY <1>1 DEF SelectionInv, ConfigTypes, Circuits
  <1>3. LocalTypes'
    BY <1>1, EnabledFinite DEF SelectionInv, LocalTypes, Stages
  <1>4. AttemptsCounted'
    BY <1>1, FS_EmptySet DEF SelectionInv, LocalTypes, AttemptsCounted
  <1>5. LimitHolds'
    <2>1. Enabled' = Enabled
      BY <1>1 DEF Enabled
    <2> QED
      BY <1>1, <2>1 DEF SelectionInv, LocalTypes, AttemptsCounted, LimitHolds
  <1> QED
    BY <1>2, <1>3, <1>4, <1>5 DEF SelectionInv

(* Looking at circuits advances those that are due.                         *)
LEMMA InspectKept ==
  ASSUME SelectionInv, NEW r \in Requests, Inspect(r)
  PROVE  Circuits'
  BY AdvanceSound DEF SelectionInv, Circuits, Inspect, Now, Sound

LEMMA SelectKept ==
  ASSUME SelectionInv, NEW r \in Requests, Select(r)
  PROVE  SelectionInv'
  <1>1. /\ UNCHANGED <<status, keyless, promoted, changing, affinity, req, failed, limit>>
        /\ pc[r] = "select"
    BY DEF Select, config
  <1>2. ConfigTypes' /\ Circuits' /\ Enabled' = Enabled
    BY <1>1, InspectKept DEF SelectionInv, ConfigTypes, Enabled, Select
  <1>3. CASE /\ Choice(r) = {} /\ pc' = [pc EXCEPT ![r] = "failed"]
             /\ UNCHANGED <<channel, todo, tries>>
    <2>1. LocalTypes'
      BY <1>1, <1>3 DEF SelectionInv, LocalTypes, Stages
    <2>2. AttemptsCounted'
      BY <1>1, <1>3 DEF SelectionInv, LocalTypes, AttemptsCounted
    <2>3. LimitHolds'
      BY <1>1, <1>2, <1>3 DEF SelectionInv, LocalTypes, LimitHolds
    <2> QED
      BY <1>2, <2>1, <2>2, <2>3 DEF SelectionInv
  <1>4. ASSUME NEW choice \in Choice(r),
               channel' = [channel EXCEPT ![r] = choice],
               todo' = [todo EXCEPT ![r] = IF choice.index \in keyless THEN {} ELSE Keys],
               tries' = [tries EXCEPT ![r] = @ + 1], pc' = [pc EXCEPT ![r] = "try"]
        PROVE  SelectionInv'
    <2>1. /\ choice.index \in Active(r) \ failed[r]
          /\ choice \in [index : Channels, reason : Reasons]
      BY ChoiceUntried
    <2>2. choice.index \in Enabled
      BY <2>1 DEF Active, Enabled
    <2>3. LocalTypes'
      BY <1>1, <1>4, <2>1 DEF SelectionInv, LocalTypes, Stages
    <2>4. AttemptsCounted'
      BY <1>1, <1>4, <2>1 DEF SelectionInv, LocalTypes, AttemptsCounted
    <2>5. LimitHolds'
      BY <1>1, <1>2, <1>4, <2>2 DEF SelectionInv, LocalTypes, LimitHolds
    <2> QED
      BY <1>2, <2>3, <2>4, <2>5 DEF SelectionInv
  <1> QED
    BY <1>3, <1>4 DEF Select, Goto

(* A request that ends its walk.                                            *)
LEMMA LeaveKept ==
  ASSUME SelectionInv, NEW r \in Requests, Exhausted(r) \/ ClientGone(r)
  PROVE  SelectionInv'
  <1>1. PICK place \in {"handled", "failed"} : pc' = [pc EXCEPT ![r] = place]
    BY DEF Exhausted, ClientGone, Goto
  <1>2. UNCHANGED <<metrics, status, keyless, promoted, changing, affinity, req, failed,
                    tries, limit, channel, todo>>
    BY DEF Exhausted, ClientGone, config
  <1>3. ConfigTypes' /\ Circuits' /\ Enabled' = Enabled
    BY <1>2 DEF SelectionInv, ConfigTypes, Circuits, Enabled
  <1>4. LocalTypes' /\ AttemptsCounted'
    BY <1>1, <1>2 DEF SelectionInv, LocalTypes, AttemptsCounted, Stages
  <1>5. LimitHolds'
    BY <1>1, <1>2, <1>3 DEF SelectionInv, LocalTypes, LimitHolds
  <1> QED
    BY <1>3, <1>4, <1>5 DEF SelectionInv

(* What one attempt does: one circuit moves on, the request stays with its  *)
(* channel or is over.                                                      *)
LEMMA OneAttempt ==
  ASSUME SelectionInv, NEW r \in Requests, NEW next,
         Attempt(r, next), Target(r) \in Targets => Sound(next),
         pc' \in {pc, [pc EXCEPT ![r] = "handled"]}, todo' \in [Requests -> SUBSET Keys],
         affinity' \in [Users -> Channels \cup {NoChannel}]
  PROVE  SelectionInv'
  <1>1. /\ UNCHANGED <<status, keyless, promoted, changing, req, failed, tries, limit, channel>>
        /\ metrics' = [metrics EXCEPT ![Target(r)] = next]
    BY DEF Attempt, config
  <1>2. ConfigTypes' /\ Enabled' = Enabled
    BY <1>1 DEF SelectionInv, ConfigTypes, Enabled
  <1>3. Circuits'
    BY <1>1 DEF SelectionInv, Circuits, Sound
  <1>4. LocalTypes' /\ AttemptsCounted'
    BY <1>1 DEF SelectionInv, LocalTypes, AttemptsCounted, Stages
  <1>5. LimitHolds'
    BY <1>1, <1>2 DEF SelectionInv, LocalTypes, LimitHolds
  <1> QED
    BY <1>2, <1>3, <1>4, <1>5 DEF SelectionInv

LEMMA AttemptKept ==
  ASSUME SelectionInv, NEW r \in Requests,
         \/ SkipKey(r) \/ Served(r) \/ Refused(r) \/ BuildFails(r)
         \/ \E class \in FailureClasses : KeyFails(r, class)
  PROVE  SelectionInv'
  <1>1. Target(r) \in Targets => Sound(metrics[Target(r)])
    BY DEF SelectionInv, Circuits
  <1>2. /\ affinity \in [Users -> Channels \cup {NoChannel}]
        /\ todo \in [Requests -> SUBSET Keys]
    BY DEF SelectionInv, ConfigTypes, LocalTypes
  <1>3. CASE SkipKey(r)
    <2>1. /\ Attempt(r, Now(Target(r))) /\ UNCHANGED <<affinity, pc>>
          /\ todo' = [todo EXCEPT ![r] = @ \ {Target(r)[2]}]
      BY <1>3 DEF SkipKey
    <2> QED
      BY <1>1, <1>2, <2>1, AdvanceSound, OneAttempt DEF Now
  <1>4. CASE Refused(r)
    <2>1. /\ Attempt(r, Now(Target(r))) /\ UNCHANGED <<affinity, todo>>
          /\ pc' = [pc EXCEPT ![r] = "handled"]
      BY <1>4 DEF Refused, Goto
    <2> QED
      BY <1>1, <1>2, <2>1, AdvanceSound, OneAttempt DEF Now
  <1>5. CASE BuildFails(r)
    <2>1. /\ Attempt(r, Now(Target(r))) /\ UNCHANGED <<affinity, pc>>
          /\ todo' = [todo EXCEPT ![r] = {}]
      BY <1>5 DEF BuildFails
    <2> QED
      BY <1>1, <1>2, <2>1, AdvanceSound, OneAttempt DEF Now
  <1>6. ASSUME NEW class \in FailureClasses, KeyFails(r, class)
        PROVE  SelectionInv'
    <2>1. /\ Attempt(r, HandleBreakerFailure(metrics[Target(r)], class))
          /\ UNCHANGED <<affinity, pc>>
          /\ todo' = [todo EXCEPT ![r] = @ \ {Target(r)[2]}]
      BY <1>6 DEF KeyFails
    <2> QED
      BY <1>1, <1>2, <2>1, FailureSound, OneAttempt
  <1>7. CASE Served(r)
    <2>1. /\ Attempt(r, HandleBreakerSuccess(metrics[Target(r)])) /\ UNCHANGED todo
          /\ pc[r] = "try" /\ pc' = [pc EXCEPT ![r] = "handled"]
          /\ affinity' = IF req[r].user = NoUser THEN affinity
                         ELSE [affinity EXCEPT ![req[r].user] = channel[r].index]
      BY <1>7 DEF Served, Attempt, Goto
    <2>2. channel[r].index \in Channels
      BY <2>1 DEF SelectionInv, AttemptsCounted
    <2>3. affinity' \in [Users -> Channels \cup {NoChannel}]
      BY <1>2, <2>1, <2>2
    <2> QED
      BY <1>1, <1>2, <2>1, <2>3, SuccessSound, OneAttempt
  <1> QED
    BY <1>3, <1>4, <1>5, <1>6, <1>7

(* The channel that has been tried joins the failed ones.                   *)
LEMMA NextChannelKept ==
  ASSUME SelectionInv, NEW r \in Requests, NextChannel(r)
  PROVE  SelectionInv'
  <1>1. /\ UNCHANGED <<metrics, status, keyless, promoted, changing, affinity, req, tries,
                       limit, todo>>
        /\ pc[r] = "try" /\ pc' = [pc EXCEPT ![r] = "select"]
        /\ failed' = [failed EXCEPT ![r] = @ \cup {channel[r].index}]
        /\ channel' = [channel EXCEPT ![r] = Nothing]
    BY DEF NextChannel, Goto, config
  <1>2. ConfigTypes' /\ Circuits' /\ Enabled' = Enabled
    BY <1>1 DEF SelectionInv, ConfigTypes, Circuits, Enabled
  <1>3. channel[r].index \in Channels \ failed[r] /\ tries[r] = Cardinality(failed[r]) + 1
    BY <1>1 DEF SelectionInv, AttemptsCounted
  <1>4. LocalTypes'
    BY <1>1, <1>3 DEF SelectionInv, LocalTypes, Stages, Nothing, Reasons
  <1>5. AttemptsCounted'
    <2>1. Cardinality(failed[r] \cup {channel[r].index}) = Cardinality(failed[r]) + 1
      BY <1>3, FailedFinite, FS_AddElement DEF SelectionInv
    <2> QED
      BY <1>1, <1>3, <2>1 DEF SelectionInv, LocalTypes, AttemptsCounted
  <1>6. LimitHolds'
    BY <1>1, <1>2 DEF SelectionInv, LocalTypes, LimitHolds
  <1> QED
    BY <1>2, <1>4, <1>5, <1>6 DEF SelectionInv

LEMMA ReturnKept ==
  ASSUME SelectionInv, NEW r \in Requests, Return(r)
  PROVE  SelectionInv'
  <1>1. /\ UNCHANGED <<metrics, status, keyless, promoted, changing, affinity>>
        /\ pc' = [pc EXCEPT ![r] = "idle"] /\ req' = [req EXCEPT ![r] = NoRequest]
        /\ failed' = [failed EXCEPT ![r] = {}] /\ tries' = [tries EXCEPT ![r] = 0]
        /\ limit' = [limit EXCEPT ![r] = 0] /\ channel' = [channel EXCEPT ![r] = Nothing]
        /\ todo' = [todo EXCEPT ![r] = {}]
    BY DEF Return, Goto, config
  <1>2. ConfigTypes' /\ Circuits' /\ Enabled' = Enabled
    BY <1>1 DEF SelectionInv, ConfigTypes, Circuits, Enabled
  <1>3. NoRequest \in RequestType
    BY ChannelSelectionAssumption DEF NoRequest, RequestType
  <1>4. LocalTypes'
    BY <1>1, <1>3 DEF SelectionInv, LocalTypes, Stages, Nothing, Reasons
  <1>5. AttemptsCounted'
    BY <1>1 DEF SelectionInv, LocalTypes, AttemptsCounted
  <1>6. LimitHolds'
    BY <1>1, <1>2 DEF SelectionInv, LocalTypes, LimitHolds
  <1> QED
    BY <1>2, <1>4, <1>5, <1>6 DEF SelectionInv

(* Time passes: for the circuits and for the users.                         *)
LEMMA TimeKept ==
  ASSUME SelectionInv, Tick \/ RecoverExpired \/ (\E u \in Users : AffinityExpires(u))
  PROVE  SelectionInv'
  <1>1. /\ UNCHANGED <<status, keyless, promoted, changing, local>>
        /\ affinity' \in [Users -> Channels \cup {NoChannel}]
        /\ \/ metrics' = metrics
           \/ metrics' = [t \in Targets |-> Elapse(metrics[t])]
           \/ metrics' = [t \in Targets |-> Now(t)]
    BY DEF Tick, RecoverExpired, AffinityExpires, config, SelectionInv, ConfigTypes
  <1>2. ConfigTypes' /\ Enabled' = Enabled
    BY <1>1 DEF SelectionInv, ConfigTypes, Enabled
  <1>3. Circuits'
    BY <1>1, ElapseSound, AdvanceSound DEF SelectionInv, Circuits, Now, Sound
  <1>4. LocalTypes' /\ AttemptsCounted' /\ LimitHolds'
    BY <1>1, <1>2 DEF local, SelectionInv, LocalTypes, AttemptsCounted, LimitHolds
  <1> QED
    BY <1>2, <1>3, <1>4 DEF SelectionInv

(* The console changes nothing in a behaviour without changes.              *)
LEMMA ReconfigureKept ==
  ASSUME SelectionInv, NEW c \in Channels, Reconfigure(c)
  PROVE  SelectionInv'
  <1>1. UNCHANGED <<changing, metrics, affinity, local>> /\ changing # {}
    BY DEF Reconfigure
  <1>2. ConfigTypes'
    BY <1>1 DEF Reconfigure, SelectionInv, ConfigTypes
  <1>3. Circuits' /\ LocalTypes' /\ AttemptsCounted' /\ LimitHolds'
    BY <1>1 DEF local, SelectionInv, Circuits, LocalTypes, AttemptsCounted, LimitHolds
  <1> QED
    BY <1>2, <1>3 DEF SelectionInv

-----------------------------------------------------------------------------
(* Theorems *)

LEMMA SelectionStep == SelectionInv /\ [Next]_vars => SelectionInv'
  <1> SUFFICES ASSUME SelectionInv, [Next]_vars PROVE SelectionInv'
    OBVIOUS
  <1>1. CASE UNCHANGED vars
    BY <1>1 DEF vars, config, local, SelectionInv, ConfigTypes, LocalTypes, Circuits,
                AttemptsCounted, LimitHolds, Enabled
  <1>2. CASE Next
    BY <1>2, BeginKept, SelectKept, LeaveKept, AttemptKept, NextChannelKept, ReturnKept,
       TimeKept, ReconfigureKept
    DEF Next, Step
  <1> QED
    BY <1>1, <1>2

LEMMA SelectionInvariant == Spec => []SelectionInv
  BY InitKept, SelectionStep, PTL DEF Spec

(* For any number of channels no request tries a channel twice, whichever   *)
(* rule selects it and whatever the console changes meanwhile.              *)
THEOREM NoneTriedTwice == Spec => []ChannelsTriedOnce
  <1>1. SelectionInv => ChannelsTriedOnce
    BY DEF SelectionInv, AttemptsCounted, ChannelsTriedOnce
  <1> QED
    BY <1>1, SelectionInvariant, PTL

-----------------------------------------------------------------------------
(* What a selection does *)

(* Only its own steps take a request out of the selection.                  *)
LEMMA LeavesSelection ==
  ASSUME SelectionInv, [Next]_vars, NEW r \in Requests, pc[r] = "select", pc'[r] # "select"
  PROVE  Select(r) \/ Exhausted(r) \/ ClientGone(r)
  <1>1. pc \in [Requests -> Stages]
    BY DEF SelectionInv, LocalTypes
  <1>2. ~UNCHANGED pc
    OBVIOUS
  <1>3. PICK q \in Requests : Begin(q) \/ Step(q)
    BY <1>2 DEF Next, vars, local, Tick, RecoverExpired, AffinityExpires, Reconfigure
  <1>4. \E place : pc' = [pc EXCEPT ![q] = place]
    BY <1>2, <1>3 DEF Begin, Step, Select, Exhausted, ClientGone, SkipKey, Served, Refused,
              BuildFails, KeyFails, NextChannel, Return, Goto
  <1>5. q = r
    BY <1>1, <1>4
  <1> QED
    BY <1>2, <1>3, <1>5
    DEF Begin, Step, SkipKey, Served, Refused, BuildFails, KeyFails, NextChannel, Return, Attempt

LEMMA SelectsChoice ==
  ASSUME SelectionInv, [Next]_vars, NEW r \in Requests, Selects(r)
  PROVE  channel'[r] \in Choice(r)
  <1>1. pc \in [Requests -> Stages] /\ channel \in [Requests -> [index : Channels \cup {NoChannel}, reason : Reasons]]
    BY DEF SelectionInv, LocalTypes
  <1>2. pc[r] = "select" /\ pc'[r] = "try"
    BY DEF Selects
  <1>3. Select(r)
    BY <1>1, <1>2, LeavesSelection DEF Exhausted, ClientGone, Goto
  <1>4. ~(pc' = [pc EXCEPT ![r] = "failed"])
    BY <1>1, <1>2
  <1>5. PICK choice \in Choice(r) : channel' = [channel EXCEPT ![r] = choice]
    BY <1>3, <1>4 DEF Select, Goto
  <1> QED
    BY <1>1, <1>5

(* The rules that neither the client nor the administrator decides.         *)
LEMMA RuleOf ==
  ASSUME NEW r \in Requests, NEW choice \in Choice(r),
         choice.reason \notin {"channel_pin", "promotion_priority"}
  PROVE  \/ choice.index \in Preferred(r)
         \/ choice.index \in Ordered(r)
         \/ Ordered(r) = {} /\ choice.index \in Fallback(r)
  BY DEF Choice

LEMMA RulesWithin ==
  ASSUME SelectionInv, NEW r \in Requests
  PROVE  /\ Untried(r) \subseteq Channels /\ Active(r) \subseteq Channels
         /\ Available(r) \subseteq Channels
  BY ChannelSelectionAssumption
  DEF Untried, Available, Active, SelectionInv, LocalTypes, RequestType

(* Whatever changes meanwhile, neither affinity nor priority nor fallback   *)
(* ever selects a channel all of whose circuits are open.                   *)
THEOREM OpenAvoided == Spec => OpenNeverSelected
  <1>1. ASSUME SelectionInv, [Next]_vars, NEW r \in Requests, Selects(r),
               channel'[r].reason \notin {"channel_pin", "promotion_priority"}
        PROVE  ChannelCircuitState(channel'[r].index) # Open
    <2> DEFINE c == channel'[r].index
    <2>1. \/ c \in Preferred(r) \/ c \in Ordered(r) \/ c \in Fallback(r)
      BY <1>1, SelectsChoice, RuleOf
    <2>2. CASE c \in Preferred(r)
      <3>1. c \in Channels /\ IsChannelHealthy(c)
        BY <1>1, <2>2, RulesWithin DEF Preferred
      <3> QED
        BY <1>1, <3>1, HealthyInUse, InUseNotOpen DEF SelectionInv
    <2>3. CASE c \in Ordered(r)
      BY <2>3 DEF Ordered, First, Available
    <2>4. CASE c \in Fallback(r)
      BY <2>4 DEF Fallback, First
    <2> QED
      BY <2>1, <2>2, <2>3, <2>4
  <1>2. SelectionInv /\ [Next]_vars =>
          [\A r \in Requests :
             /\ Selects(r)
             /\ channel'[r].reason \notin {"channel_pin", "promotion_priority"}
             => ChannelCircuitState(channel'[r].index) # Open]_vars
    BY <1>1
  <1> QED
    BY <1>2, SelectionInvariant, PTL DEF Spec, OpenNeverSelected

(* For any priorities and channels: a selection that is neither the         *)
(* client's nor the administrator's is never beaten by an available         *)
(* channel.                                                                 *)
THEOREM BestIsSelected == Spec => BestSelected
  <1>1. ASSUME SelectionInv, [Next]_vars, NEW r \in Requests, Selects(r),
               channel'[r].reason \notin {"channel_pin", "promotion_priority"},
               NEW c \in Available(r)
        PROVE  EffectivePriority(channel'[r].index) <= EffectivePriority(c)
    <2> DEFINE best == channel'[r].index
    <2>1. \/ best \in Preferred(r) \/ best \in Ordered(r) \/ Ordered(r) = {}
      BY <1>1, SelectsChoice, RuleOf
    <2>2. Ordered(r) # {}
      BY <1>1, RulesWithin, FirstNotEmpty DEF Ordered
    <2>3. CASE best \in Preferred(r)
      BY <1>1, <2>3 DEF Preferred
    <2>4. CASE best \in Ordered(r)
      BY <1>1, <2>4 DEF Ordered, First
    <2> QED
      BY <2>1, <2>2, <2>3, <2>4
  <1>2. SelectionInv /\ [Next]_vars =>
          [\A r \in Requests :
             /\ Selects(r)
             /\ channel'[r].reason \notin {"channel_pin", "promotion_priority"}
             => \A c \in Available(r) :
                  EffectivePriority(channel'[r].index) <= EffectivePriority(c)]_vars
    BY <1>1
  <1> QED
    BY <1>2, SelectionInvariant, PTL DEF Spec, BestSelected

-----------------------------------------------------------------------------
(* Nothing is left out *)

(* A failure rate is a fraction.                                            *)
LEMMA RateType ==
  ASSUME NEW c \in Channels
  PROVE  Rate(c).num \in Nat /\ Rate(c).den \in Nat \ {0}
  <1> DEFINE all == Keys \X (1..WindowSize)
  <1>1. IsFiniteSet(Keys) /\ IsFiniteSet(1..WindowSize)
    BY FS_Interval, ChannelSelectionAssumption, BreakerAssumption DEF Keys
  <1>2. IsFiniteSet(all)
    BY <1>1, FS_Product
  <1>3. ChannelOutcomes(c) \subseteq all /\ ChannelFailures(c) \subseteq all
    BY DEF ChannelOutcomes, ChannelFailures, InUse
  <1>4. /\ Cardinality(ChannelOutcomes(c)) \in Nat
        /\ Cardinality(ChannelFailures(c)) \in Nat
    BY <1>2, <1>3, FS_Subset, FS_CardinalityType
  <1> QED
    BY <1>4 DEF Rate

(* Comparing fractions crosswise is a strict order.                         *)
LEMMA CrosswiseTransitive ==
  ASSUME NEW a \in Nat, NEW b \in Nat, NEW c \in Nat,
         NEW x \in Nat \ {0}, NEW y \in Nat \ {0}, NEW z \in Nat \ {0},
         a * y < b * x, b * z < c * y
  PROVE  a * z < c * x
  <1>1. \A i, j \in Int, k \in Nat \ {0} : i < j <=> i * k < j * k
    BY SMTT(30)
  <1>2. (a * y) * z < (b * x) * z /\ (b * z) * x < (c * y) * x
    BY <1>1
  <1>3. (a * z) * y < (c * x) * y
    BY <1>2
  <1> QED
    BY <1>1, <1>3

(* Some channel has a failure rate that no other is below.                  *)
LEMMA LowestRate ==
  ASSUME NEW S \in SUBSET Channels, S # {}
  PROVE  {c \in S : \A d \in S : ~LowerRate(d, c)} # {}
  <1> DEFINE below(c) == {d \in S : LowerRate(d, c)}
             f == [c \in S |-> Cardinality(below(c))]
  <1>1. \A c \in S : IsFiniteSet(below(c)) /\ Cardinality(below(c)) \in Nat
    BY ChannelsFinite, FS_Subset, FS_CardinalityType
  <1> HIDE DEF below
  <1>2. f \in [S -> Nat] /\ \A c \in S : f[c] = Cardinality(below(c))
    BY <1>1
  <1> HIDE DEF f
  <1>3. PICK c \in S : \A d \in S : f[c] <= f[d]
    BY <1>2, LeastMeasure
  <1>4. ASSUME NEW d \in S, LowerRate(d, c)
        PROVE  FALSE
    <2>1. \A e \in S : LowerRate(e, d) => LowerRate(e, c)
      BY <1>4, RateType, CrosswiseTransitive DEF LowerRate
    <2>2. below(d) \subseteq below(c) /\ d \in below(c)
      BY <1>4, <2>1 DEF below
    <2>3. d \notin below(d)
      BY RateType DEF LowerRate, below
    <2>4. /\ Cardinality(below(d)) <= Cardinality(below(c))
          /\ Cardinality(below(d)) # Cardinality(below(c))
      BY <1>1, <2>2, <2>3, FS_Subset
    <2> QED
      BY <1>1, <1>3, <1>2, <2>4
  <1> QED
    BY <1>4

(* SelectChannel finds nothing only when nothing is left.                   *)
LEMMA FallbackComplete ==
  ASSUME SelectionInv, NEW r \in Requests, req[r].pin = NoChannel, Choice(r) = {}
  PROVE  \A c \in Untried(r) : ChannelCircuitState(c) = Open
  <1> DEFINE left == {c \in Untried(r) : ChannelCircuitState(c) # Open}
             lowest == {c \in left : \A d \in left : ~LowerRate(d, c)}
  <1>1. Fallback(r) = {}
    BY DEF Choice
  <1>2. left \subseteq Channels /\ lowest \subseteq Channels
    BY RulesWithin
  <1>3. First(lowest) = {}
    BY <1>1 DEF Fallback
  <1>4. lowest = {}
    BY <1>2, <1>3, FirstNotEmpty
  <1>5. left = {}
    BY <1>2, <1>4, LowestRate
  <1> QED
    BY <1>5

(* For any number of channels: while the console changes nothing, a request *)
(* without X-Channel fails only when every channel it may use has been      *)
(* tried or is open, be it that nothing is selected or that the attempts    *)
(* are used up.                                                             *)
THEOREM NothingLeftOut == Spec => NoChannelLeftOut
  <1>1. ASSUME SelectionInv, [Next]_vars, NEW r \in Requests,
               pc[r] = "select", pc'[r] = "failed", req[r].pin = NoChannel, changing = {}
        PROVE  \A c \in Untried(r) : ChannelCircuitState(c) = Open
    <2>1. pc \in [Requests -> Stages]
      BY <1>1 DEF SelectionInv, LocalTypes
    <2>2. Select(r) \/ Exhausted(r)
      BY <1>1, <2>1, LeavesSelection DEF ClientGone, Goto
    <2>3. CASE Select(r)
      <3>1. ~(pc' = [pc EXCEPT ![r] = "try"])
        BY <1>1, <2>1
      <3> QED
        BY <1>1, <2>3, <3>1, FallbackComplete DEF Select, Goto
    <2>4. CASE Exhausted(r)
      <3>1. tries[r] = limit[r] /\ tries[r] = Cardinality(failed[r])
        BY <1>1, <2>4 DEF Exhausted, SelectionInv, AttemptsCounted
      <3>2. limit[r] = Cardinality(Enabled) /\ failed[r] \subseteq Enabled
        BY <1>1 DEF SelectionInv, LimitHolds
      <3>3. failed[r] = Enabled
        BY <3>1, <3>2, EnabledFinite, FS_Subset
      <3>4. Untried(r) \subseteq Enabled
        BY <1>1, RulesWithin DEF Untried, Active, Enabled
      <3> QED
        BY <3>3, <3>4 DEF Untried
    <2> QED
      BY <2>2, <2>3, <2>4
  <1>2. SelectionInv /\ [Next]_vars =>
          [\A r \in Requests :
             /\ pc[r] = "select" /\ pc'[r] = "failed"
             /\ req[r].pin = NoChannel /\ changing = {}
             => \A c \in Untried(r) : ChannelCircuitState(c) = Open]_vars
    BY <1>1
  <1> QED
    BY <1>2, SelectionInvariant, PTL DEF Spec, NoChannelLeftOut

-----------------------------------------------------------------------------
(* One answer, and one key for a client that has left *)

GatewayStages == {"arrived", "read", "single", "select", "try", "sent", "answer", "done"}

GatewayTypes ==
  /\ stage \in GatewayStages /\ connected \in BOOLEAN
  /\ answers \in Nat /\ blamed \in Nat

(* Nothing is written before the end.                                       *)
Unanswered == stage # "done" => answers = 0

(* Keys are blamed for the client one at a time: whoever is being served by *)
(* a key has not been blamed for yet.                                       *)
BlameOnce ==
  /\ connected => blamed = 0
  /\ endpoint # "compact" =>
       /\ stage \in {"sent", "answer"} => blamed = 0
       /\ blamed <= 1

GatewayInv == GatewayTypes /\ Unanswered /\ BlameOnce /\ AnsweredOnce

(* A request that has just arrived.                                         *)
LEMMA GatewayInvInit == GatewayInit => GatewayInv
  BY DEF GatewayInit, GatewayInv, GatewayTypes, GatewayStages, Unanswered, BlameOnce,
         AnsweredOnce

(* Going on without an answer and without blaming a key.                    *)
LEMMA GoToKept ==
  ASSUME GatewayInv, NEW next \in GatewayStages \ {"done"}, stage # "done", GoTo(next),
         next \in {"sent", "answer"} => connected \/ stage = "sent",
         UNCHANGED <<endpoint, connected>>
  PROVE  GatewayInv'
  BY DEF GatewayInv, GatewayTypes, GatewayStages, Unanswered, BlameOnce, AnsweredOnce, GoTo

(* The one answer.                                                          *)
LEMMA RespondKept ==
  ASSUME GatewayInv, NEW how, stage # "done", Respond(how), UNCHANGED <<endpoint, connected>>
  PROVE  GatewayInv'
  BY DEF GatewayInv, GatewayTypes, GatewayStages, Unanswered, BlameOnce, AnsweredOnce,
         Respond, WriteAnswer, End

(* An end without an answer: the client has left, or the preflight of a     *)
(* Messages stream has met an error.                                        *)
LEMMA EndKept ==
  ASSUME GatewayInv, NEW how, stage # "done", NoAnswer, End(how),
         \/ ~ connected
         \/ how = "silent" /\ endpoint = "messages" /\ streaming,
         UNCHANGED <<endpoint, streaming, connected>>
  PROVE  GatewayInv'
  BY DEF GatewayInv, GatewayTypes, GatewayStages, Unanswered, BlameOnce, AnsweredOnce,
         NoAnswer, End

(* The pair that was serving the request is given up.                       *)
LEMMA FailOverKept ==
  ASSUME GatewayInv, stage \in {"sent", "answer"} \/ endpoint = "compact", stage # "done",
         FailOver, UNCHANGED <<endpoint, connected>>
  PROVE  GatewayInv'
  BY DEF GatewayInv, GatewayTypes, GatewayStages, Unanswered, BlameOnce, AnsweredOnce,
         FailOver, NoAnswer, NextPair, Blame

(* A call that fails ends the request of a client that has left.            *)
LEMMA CallFailsKept ==
  ASSUME GatewayInv, CallFails, stage # "done", Fixed,
         stage \in {"sent", "answer"} \/ ~ connected
  PROVE  GatewayInv'
  <1>1. CASE connected \/ endpoint = "compact"
    BY <1>1, FailOverKept DEF CallFails, Fixed
  <1>2. CASE ~ (connected \/ endpoint = "compact")
    BY <1>2, EndKept DEF CallFails, Cancelled, Fixed
  <1> QED
    BY <1>1, <1>2

(* Reading the request and finding its way.                                 *)
LEMMA RouteKept ==
  ASSUME GatewayInv, ReadRequestBody \/ RouteRequest \/ SingleChannel
  PROVE  GatewayInv'
  <1>1. stage # "done" /\ UNCHANGED <<endpoint, connected>>
    BY DEF ReadRequestBody, RouteRequest, SingleChannel, Fixed
  <1>2. CASE Respond("refused")
    BY <1>1, <1>2, RespondKept
  <1>3. CASE \E next \in {"read", "single", "select", "try"} : GoTo(next)
    BY <1>1, <1>3, GoToKept DEF GatewayStages
  <1> QED
    BY <1>2, <1>3
    DEF ReadRequestBody, RouteRequest, SingleChannel, RouteMessages, RouteResponses,
        RouteCompact, RouteChat, RouteGemini, RouteImages, Route, TurnAway

(* From channel to channel and from pair to pair.                           *)
LEMMA WalkKept ==
  ASSUME GatewayInv,
         \/ SelectUpstream \/ GiveUpForClient \/ AllChannelsFailed \/ AllKeysFailed
         \/ ChannelFailed \/ SendUpstream
  PROVE  GatewayInv'
  <1>1. stage # "done" /\ UNCHANGED <<endpoint, streaming, connected>>
    BY DEF SelectUpstream, GiveUpForClient, AllChannelsFailed, AllKeysFailed, ChannelFailed,
           SendUpstream, Fixed
  <1>2. CASE SelectUpstream \/ ChannelFailed
    BY <1>1, <1>2, GoToKept DEF SelectUpstream, ChannelFailed, GatewayStages
  <1>3. CASE AllChannelsFailed \/ AllKeysFailed
    BY <1>1, <1>3, RespondKept DEF AllChannelsFailed, AllKeysFailed
  <1>4. CASE GiveUpForClient
    BY <1>1, <1>4, EndKept DEF GiveUpForClient, ClientLeft
  <1>5. CASE SendUpstream
    <2>1. CASE connected
      BY <1>1, <1>5, <2>1, GoToKept DEF SendUpstream, GatewayStages
    <2>2. CASE ~ connected
      BY <1>1, <1>5, <2>2, CallFailsKept DEF SendUpstream, Fixed
    <2> QED
      BY <2>1, <2>2
  <1> QED
    BY <1>2, <1>3, <1>4, <1>5

(* What comes back from the upstream.                                       *)
LEMMA RespondedKept ==
  ASSUME GatewayInv, Responded
  PROVE  GatewayInv'
  <1>1. stage = "sent" /\ Fixed
    BY DEF Responded
  <1>2. CASE CallFails
    BY <1>1, <1>2, CallFailsKept
  <1>3. CASE FailOver
    BY <1>1, <1>3, FailOverKept DEF Fixed
  <1>4. CASE Respond("error")
    BY <1>1, <1>4, RespondKept DEF Fixed
  <1>5. CASE GoTo("answer")
    BY <1>1, <1>5, GoToKept DEF Fixed, GatewayStages
  <1> QED
    BY <1>2, <1>3, <1>4, <1>5 DEF Responded

(* What the handlers make of a success: of the six, each writes at most     *)
(* once, and a stream that ends in silence is one of Messages.              *)
LEMMA SuccessKept ==
  ASSUME GatewayInv, HandleSuccess
  PROVE  GatewayInv'
  <1>1. stage = "answer" /\ UNCHANGED <<endpoint, streaming, connected>>
    BY DEF HandleSuccess, Fixed
  <1>2. \/ Serve \/ Unreadable \/ FailOver \/ Broken
        \/ endpoint = "messages" /\ streaming /\ Silent
    BY DEF HandleSuccess, AnswerMessages, AnswerResponses, AnswerChat, AnswerGemini,
           AnswerImages, AnswerCompact, NotTheAnswer, EmptyAnswer
  <1>3. CASE FailOver
    BY <1>1, <1>3, FailOverKept
  <1>4. CASE Serve \/ Unreadable \/ Broken
    BY <1>1, <1>4, RespondKept DEF Serve, Unreadable, Broken
  <1>5. CASE endpoint = "messages" /\ streaming /\ Silent
    BY <1>1, <1>5, EndKept DEF Silent
  <1> QED
    BY <1>2, <1>3, <1>4, <1>5

(* The client may leave at any time.                                        *)
LEMMA DisconnectKept ==
  ASSUME GatewayInv, Disconnect
  PROVE  GatewayInv'
  BY DEF GatewayInv, GatewayTypes, Unanswered, BlameOnce, AnsweredOnce, Disconnect

(* Every step keeps the invariant.                                          *)
LEMMA GatewayInvStep == GatewayInv /\ [GatewayNext]_gatewayVars => GatewayInv'
  <1> SUFFICES ASSUME GatewayInv, [GatewayNext]_gatewayVars PROVE GatewayInv'
    OBVIOUS
  <1>1. CASE UNCHANGED gatewayVars
    BY <1>1 DEF gatewayVars, GatewayInv, GatewayTypes, Unanswered, BlameOnce, AnsweredOnce
  <1>2. CASE GatewayNext
    BY <1>2, RouteKept, WalkKept, RespondedKept, SuccessKept, DisconnectKept
    DEF GatewayNext, HandleRequest
  <1> QED
    BY <1>1, <1>2

(* The invariant of the way of a request.                                   *)
LEMMA GatewayInvariant == GatewaySpec => []GatewayInv
  BY GatewayInvInit, GatewayInvStep, PTL DEF GatewaySpec

(* For any channels and any number of attempts: no second answer is begun,  *)
(* and a client that stays gets one, except for a Messages stream that      *)
(* breaks off in its preflight.                                             *)
THEOREM AlwaysAnsweredOnce == GatewaySpec => []AnsweredOnce
  <1>1. GatewayInv => AnsweredOnce
    BY DEF GatewayInv
  <1> QED
    BY <1>1, GatewayInvariant, PTL

(* For any channels and any number of pairs, a client that leaves costs at  *)
(* most one key, unless it called compact.                                  *)
THEOREM LeavingAlwaysCostsOneKey == GatewaySpec => []LeavingCostsOneKey
  <1>1. GatewayInv => LeavingCostsOneKey
    BY DEF GatewayInv, BlameOnce, LeavingCostsOneKey
  <1> QED
    BY <1>1, GatewayInvariant, PTL

-----------------------------------------------------------------------------
(* The judgements of an error *)

(* Fuzzy mode tries another key whenever normal mode does, and they see the *)
(* same quota errors, whatever the response: normal mode takes its status   *)
(* first, and those it stays with are none of a quota.                      *)
LEMMA FuzzyOnlyAdds ==
  ASSUME NEW e, NEW api, e.status \in Statuses
  PROVE  LET inNormal == ShouldRetryWithNextKeyNormal(e, api)
             inFuzzy  == ShouldRetryWithNextKeyFuzzy(e, api)
         IN  (inNormal.failover => inFuzzy.failover) /\ inNormal.quota = inFuzzy.quota
  BY DEF ShouldRetryWithNextKeyNormal, ShouldRetryWithNextKeyFuzzy, ClassifyByStatusCode,
         ClassifyByErrorMessage, ClassifyMessage, ClassifyErrorType, Statuses, Stay, Failover,
         Quota

(* Every response but one at whose request the fault lies is worth another  *)
(* key in fuzzy mode, in normal mode too unless its status is a plain 400.  *)
LEMMA StayedWith ==
  ASSUME NEW e, e.status \in Statuses, ~ ShouldRetryWithNextKey(e).failover
  PROVE  RequestAtFault(e, apiType) \/ (~ fuzzyMode /\ e.status = 400)
  BY DEF ShouldRetryWithNextKey, ShouldRetryWithNextKeyNormal, ShouldRetryWithNextKeyFuzzy,
         ClassifyByStatusCode, ClassifyByErrorMessage, ClassifyMessage, ClassifyErrorType,
         Statuses, Stay, Failover, Quota

(* A response that a client was told of is one that no key was tried for.   *)
ToldOf ==
  judged # NoError =>
    /\ judged.status \in Statuses
    /\ told.cause = "response" =>
         RequestAtFault(judged, apiType) \/ (~ fuzzyMode /\ judged.status = 400)

LEMMA ToldOfStep == ToldOf /\ [ErrorNext]_errorVars => ToldOf'
  <1> SUFFICES ASSUME ToldOf, [ErrorNext]_errorVars PROVE ToldOf'
    OBVIOUS
  <1>1. CASE JudgeResponse
    <2>0. PICK code \in Statuses : \E e \in Bodies(code) :
            /\ judged' = e
            /\ IF ShouldRetryWithNextKey(e).failover
               THEN lastFailoverError' = e /\ UNCHANGED told
               ELSE /\ Tell(NormalizeUpstreamErrorStatus(e), "response")
                    /\ UNCHANGED lastFailoverError
      BY <1>1 DEF JudgeResponse
    <2>1. PICK e \in Bodies(code) :
            /\ judged' = e
            /\ IF ShouldRetryWithNextKey(e).failover
               THEN lastFailoverError' = e /\ UNCHANGED told
               ELSE /\ Tell(NormalizeUpstreamErrorStatus(e), "response")
                    /\ UNCHANGED lastFailoverError
      BY <2>0
    <2>2. told = Untold /\ UNCHANGED <<fuzzyMode, apiType>>
      BY <1>1 DEF JudgeResponse
    <2>3. e.status \in Statuses
      BY DEF Bodies, NoError
    <2>4. RequestAtFault(e, apiType)' = RequestAtFault(e, apiType)
      BY <2>2 DEF RequestAtFault, IsContentModerationError, IsNonRetryableError,
                  IsResponsesToolsProtocolError, IsSchemaValidationError, IsNonRetryableErrorCode
    <2>5. CASE ShouldRetryWithNextKey(e).failover
      BY <2>1, <2>2, <2>3, <2>5 DEF ToldOf, Untold
    <2>6. CASE ~ ShouldRetryWithNextKey(e).failover
      BY <2>1, <2>2, <2>3, <2>4, <2>6, StayedWith DEF ToldOf
    <2> QED
      BY <2>5, <2>6
  <1>2. CASE TellFailure
    <2>1. judged' = judged /\ told'.cause = "none left"
      <3>1. PICK s : Tell(s, "none left")
        BY <1>2, Zenon DEF TellFailure
      <3>2. judged' = judged
        BY <1>2 DEF TellFailure
      <3>3. told' = [status |-> s, cause |-> "none left"]
        BY <3>1 DEF Tell
      <3> QED
        BY <3>2, <3>3
    <2> QED
      BY <2>1 DEF ToldOf
  <1>3. CASE UNCHANGED errorVars
    BY <1>3 DEF errorVars, ToldOf, RequestAtFault, IsContentModerationError,
                IsNonRetryableError, IsResponsesToolsProtocolError, IsSchemaValidationError,
                IsNonRetryableErrorCode
  <1> QED
    BY <1>1, <1>2, <1>3 DEF ErrorNext

(* For texts that match any number of the keyword lists: fuzzy mode only    *)
(* adds attempts, and a client is not told of an error that disables the    *)
(* key unless the request is at fault or the status says nothing.           *)
THEOREM JudgementsAlwaysFit == ErrorSpec => []JudgementsFit
  <1>1. ErrorInit => ToldOf
    BY DEF ErrorInit, ToldOf
  <1>2. ToldOf => JudgementsFit
    BY FuzzyOnlyAdds DEF ToldOf, JudgementsFit
  <1> QED
    BY <1>1, <1>2, ToldOfStep, PTL DEF ErrorSpec
=============================================================================
