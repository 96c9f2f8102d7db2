-------------------------- MODULE ChannelSelection --------------------------
(***************************************************************************)
(* Requests that fail over between the channels of one kind:               *)
(* HandleMultiChannelFailover (handlers/common/multi_channel_failover.go), *)
(* SelectChannel (scheduler/channel_scheduler.go), the trace affinity of   *)
(* users (session/trace_affinity.go) and the channel health that           *)
(* MetricsManager aggregates from the breakers of a channel's keys.        *)
(*                                                                         *)
(* The model and route-prefix filters are a property of the request: they  *)
(* leave a set of channels it may use.  A call of TryUpstreamWithAllKeys   *)
(* is one step per key here; UpstreamFailover has its critical sections.   *)
(***************************************************************************)
EXTENDS Breaker

CONSTANTS
  NumChannels,     \* configured channels, indexed from 0
  NumKeys,         \* API keys of each channel
  Priority,        \* UpstreamConfig.Priority of every channel, 0 if not set
  Requests,        \* request slots
  Users,           \* user ids; a request may also come without one
  EligibleSets,    \* what the model and route-prefix filters may leave
  Pins,            \* channels that clients name in X-Channel
  AdminChanges,    \* what may change while requests run: sets of status, promotion, keys
  MaxConsecutive   \* bound: failures counted in a row

Channels  == 0..(NumChannels - 1)
Keys      == 1..NumKeys
Targets   == Channels \X Keys
NoChannel == -1
NoUser    == "none"

ASSUME ChannelSelectionAssumption ==
  /\ NumChannels \in Nat \ {0} /\ NumKeys \in Nat \ {0}
  /\ Priority \in [Channels -> Nat]
  /\ NoUser \notin Users
  /\ EligibleSets \subseteq SUBSET Channels /\ EligibleSets # {}
  /\ Pins \subseteq Channels
  /\ AdminChanges \subseteq SUBSET {"status", "promotion", "keys"} /\ MaxConsecutive \in Nat

VARIABLES
  metrics,    \* KeyMetrics of every key of every channel
  status,     \* UpstreamConfig.Status
  keyless,    \* channels whose APIKeys list is empty
  promoted,   \* channels in their promotion period
  changing,   \* what the console changes in this behaviour
  affinity,   \* TraceAffinityManager: preferred channel of every user
  pc,         \* where each request is
  req,        \* what the client asked for
  failed,     \* failedChannels
  tries,      \* channelAttempt
  limit,      \* maxChannelAttempts
  channel,    \* the selected channel and why it was selected
  todo        \* its keys that have not been tried

config == <<status, keyless, promoted, changing>>
local  == <<pc, req, failed, tries, limit, channel, todo>>
vars   == <<metrics, config, affinity, local>>

RequestType ==
  [user : Users \cup {NoUser}, eligible : EligibleSets, pin : Pins \cup {NoChannel}]

NoRequest == [user |-> NoUser, eligible |-> CHOOSE s \in EligibleSets : TRUE,
              pin |-> NoChannel]
Nothing   == [index |-> NoChannel, reason |-> "none"]

Init ==
  /\ metrics = [t \in Targets |-> NewKeyMetrics]
  /\ status \in [Channels -> {"active", "suspended", "disabled"}]
  /\ keyless = {}
  /\ promoted = {}
  /\ changing \in AdminChanges
  /\ affinity = [u \in Users |-> NoChannel]
  /\ pc = [r \in Requests |-> "idle"]
  /\ req = [r \in Requests |-> NoRequest]
  /\ failed = [r \in Requests |-> {}]
  /\ tries = [r \in Requests |-> 0]
  /\ limit = [r \in Requests |-> 0]
  /\ channel = [r \in Requests |-> Nothing]
  /\ todo = [r \in Requests |-> {}]

-----------------------------------------------------------------------------
(* Channel health, aggregated over the keys *)

Now(t) == AdvanceCircuitStateIfDue(metrics[t])

(* channelCircuitStateMultiURLLocked: one closed key closes the channel.    *)
ChannelCircuitState(c) ==
  LET states == {Now(<<c, k>>).state : k \in Keys}
  IN  IF Closed \in states THEN Closed
      ELSE IF HalfOpen \in states THEN HalfOpen ELSE Open

(* The windows of the keys that are not open, taken together.               *)
InUse(c) == {k \in Keys : Now(<<c, k>>).state # Open}
ChannelOutcomes(c) ==
  {o \in InUse(c) \X (1..WindowSize) : o[2] <= Len(metrics[<<c, o[1]>>].window)}
ChannelFailures(c) ==
  {o \in ChannelOutcomes(c) : ~metrics[<<c, o[1]>>].window[o[2]]}

(* Mutant: a channel whose keys are all open has no outcomes and passes.    *)
IsChannelHealthyIfSilent(c) ==
  LET total    == Cardinality(ChannelOutcomes(c))
      failures == Cardinality(ChannelFailures(c))
  IN  /\ c \notin keyless
      /\ \/ total < MinRequests
         \/ failures * FailureDen < FailureNum * total

IsChannelHealthy(c) ==
  LET total    == Cardinality(ChannelOutcomes(c))
      failures == Cardinality(ChannelFailures(c))
  IN  /\ c \notin keyless
      /\ IF total = 0 THEN InUse(c) # {}
         ELSE \/ total < MinRequests
              \/ failures * FailureDen < FailureNum * total

(* rate(c) < rate(d), without division; a channel without outcomes has rate *)
(* 0, or 1 when all its keys are open.                                      *)
Rate(c) ==
  LET total == Cardinality(ChannelOutcomes(c))
  IN  IF total = 0 THEN [num |-> IF InUse(c) = {} THEN 1 ELSE 0, den |-> 1]
      ELSE [num |-> Cardinality(ChannelFailures(c)), den |-> total]
LowerRate(c, d) == Rate(c).num * Rate(d).den < Rate(d).num * Rate(c).den

-----------------------------------------------------------------------------
(* SelectChannel: one set of candidates per rule, the first that is not     *)
(* empty decides.  Equal priorities are in no particular order (sort.Slice).*)

EffectivePriority(c) == IF Priority[c] = 0 THEN c ELSE Priority[c]

First(S) == {c \in S : \A d \in S : EffectivePriority(c) <= EffectivePriority(d)}

Active(r) == {c \in req[r].eligible : status[c] # "disabled"}

Untried(r) == {c \in Active(r) : status[c] = "active"} \ (failed[r] \cup keyless)

Available(r) ==
  {c \in Untried(r) : ChannelCircuitState(c) # Open /\ IsChannelHealthy(c)}

(* X-Channel names the channel; no other rule applies.                      *)
Pinned(r) == (Active(r) \ failed[r]) \cap {req[r].pin}

(* Mutant: the promotion is not given up after a failure.                   *)
PromotedAlways(r) ==
  First({c \in Active(r) \cap promoted : status[c] = "active"}) \ keyless

(* findPromotedChannel looks at the first promoted channel only, whatever   *)
(* its health.                                                              *)
Promoted(r) ==
  First({c \in Active(r) \cap promoted : status[c] = "active"})
    \ (failed[r] \cup keyless)

(* Mutant: affinity is kept although a better channel is available.         *)
PreferredAlways(r) ==
  {c \in Active(r) \ failed[r] :
     /\ req[r].user # NoUser /\ affinity[req[r].user] = c
     /\ status[c] = "active"
     /\ IsChannelHealthy(c)}

(* The channel that served the user last, unless a channel of strictly      *)
(* better priority is available.                                            *)
Preferred(r) ==
  {c \in Active(r) \ failed[r] :
     /\ req[r].user # NoUser /\ affinity[req[r].user] = c
     /\ status[c] = "active"
     /\ \A d \in Available(r) : EffectivePriority(c) <= EffectivePriority(d)
     /\ IsChannelHealthy(c)}

Ordered(r) == First(Available(r))

Fallback(r) ==
  LET left == {c \in Untried(r) : ChannelCircuitState(c) # Open}
  IN  First({c \in left : \A d \in left : ~LowerRate(d, c)})

Choice(r) ==
  LET as(S, why) == {[index |-> c, reason |-> why] : c \in S}
  IN  CASE req[r].pin # NoChannel -> as(Pinned(r), "channel_pin")
        [] Promoted(r) # {}       -> as(Promoted(r), "promotion_priority")
        [] Preferred(r) # {}      -> as(Preferred(r), "trace_affinity")
        [] Ordered(r) # {}        -> as(Ordered(r), "priority_order")
        [] OTHER                  -> as(Fallback(r), "fallback")

-----------------------------------------------------------------------------
(* HandleMultiChannelFailover *)

Goto(r, label) == pc' = [pc EXCEPT ![r] = label]

(* Mutant: channels that are open when the request begins do not count.     *)
GetActiveChannelCountUsable ==
  Cardinality({c \in Channels : status[c] # "disabled" /\ ChannelCircuitState(c) # Open})

GetActiveChannelCount == Cardinality({c \in Channels : status[c] # "disabled"})

Begin(r) ==
  /\ pc[r] = "idle"
  /\ req' \in {[req EXCEPT ![r] = q] : q \in RequestType}
  /\ limit' = [limit EXCEPT ![r] = GetActiveChannelCount]
  /\ Goto(r, "select")
  /\ UNCHANGED <<metrics, config, affinity, failed, tries, channel, todo>>

(* Reading the health of a channel advances its due circuits.               *)
Inspect(r) ==
  metrics' = [t \in Targets |-> IF req[r].pin = NoChannel /\ t[1] \in Active(r)
                                THEN Now(t) ELSE metrics[t]]

Select(r) ==
  /\ pc[r] = "select"
  /\ tries[r] < limit[r]
  /\ Inspect(r)
  /\ \/ \E choice \in Choice(r) :
          /\ channel' = [channel EXCEPT ![r] = choice]
          /\ todo' = [todo EXCEPT ![r] = IF choice.index \in keyless THEN {} ELSE Keys]
          /\ tries' = [tries EXCEPT ![r] = @ + 1]
          /\ Goto(r, "try")
     \/ /\ Choice(r) = {}
        /\ Goto(r, "failed")
        /\ UNCHANGED <<channel, todo, tries>>
  /\ UNCHANGED <<config, affinity, req, failed, limit>>

(* Every attempt has been used.                                             *)
Exhausted(r) ==
  /\ pc[r] = "select"
  /\ tries[r] = limit[r]
  /\ Goto(r, "failed")
  /\ UNCHANGED <<metrics, config, affinity, req, failed, tries, limit, channel, todo>>

(* The client disconnected between two channels.                            *)
ClientGone(r) ==
  /\ pc[r] = "select"
  /\ tries[r] < limit[r]
  /\ Goto(r, "handled")
  /\ UNCHANGED <<metrics, config, affinity, req, failed, tries, limit, channel, todo>>

(* The key of the current attempt, in configured order.                     *)
Target(r) == <<channel[r].index, CHOOSE k \in todo[r] : \A j \in todo[r] : k <= j>>

Attempt(r, next) ==
  /\ pc[r] = "try"
  /\ todo[r] # {}
  /\ metrics' = [metrics EXCEPT ![Target(r)] = next]
  /\ UNCHANGED <<config, req, failed, tries, limit, channel>>

(* An open circuit, or a half-open one whose probe another request has.     *)
SkipKey(r) ==
  /\ Attempt(r, Now(Target(r)))
  /\ Now(Target(r)).state # Closed
  /\ todo' = [todo EXCEPT ![r] = @ \ {Target(r)[2]}]
  /\ UNCHANGED <<affinity, pc>>

KeyFails(r, class) ==
  /\ Attempt(r, HandleBreakerFailure(metrics[Target(r)], class))
  /\ Now(Target(r)).state # Open
  /\ class \in {"retryable", "quota"}
  /\ metrics[Target(r)].consecutive < MaxConsecutive
  /\ todo' = [todo EXCEPT ![r] = @ \ {Target(r)[2]}]
  /\ UNCHANGED <<affinity, pc>>

(* SuccessKey is set: the user will prefer this channel.                    *)
Served(r) ==
  /\ Attempt(r, HandleBreakerSuccess(metrics[Target(r)]))
  /\ Now(Target(r)).state # Open
  /\ affinity' = IF req[r].user = NoUser THEN affinity
                 ELSE [affinity EXCEPT ![req[r].user] = channel[r].index]
  /\ Goto(r, "handled")
  /\ UNCHANGED todo

(* An error for the client, or the client cancelled.                        *)
Refused(r) ==
  /\ Attempt(r, Now(Target(r)))
  /\ Now(Target(r)).state # Open
  /\ Goto(r, "handled")
  /\ UNCHANGED <<affinity, todo>>

(* buildRequest failed: the channel is left with its other keys untried.    *)
BuildFails(r) ==
  /\ Attempt(r, Now(Target(r)))
  /\ Now(Target(r)).state # Open
  /\ todo' = [todo EXCEPT ![r] = {}]
  /\ UNCHANGED <<affinity, pc>>

NextChannel(r) ==
  /\ pc[r] = "try"
  /\ todo[r] = {}
  /\ failed' = [failed EXCEPT ![r] = @ \cup {channel[r].index}]
  /\ channel' = [channel EXCEPT ![r] = Nothing]
  /\ Goto(r, "select")
  /\ UNCHANGED <<metrics, config, affinity, req, tries, limit, todo>>

Return(r) ==
  /\ pc[r] \in {"handled", "failed"}
  /\ Goto(r, "idle")
  /\ req' = [req EXCEPT ![r] = NoRequest]
  /\ failed' = [failed EXCEPT ![r] = {}]
  /\ tries' = [tries EXCEPT ![r] = 0]
  /\ limit' = [limit EXCEPT ![r] = 0]
  /\ channel' = [channel EXCEPT ![r] = Nothing]
  /\ todo' = [todo EXCEPT ![r] = {}]
  /\ UNCHANGED <<metrics, config, affinity>>

-----------------------------------------------------------------------------
(* Time, the recovery ticker, and the administrator *)

Tick ==
  /\ \E t \in Targets : metrics[t].retryIn > 0
  /\ metrics' = [t \in Targets |-> Elapse(metrics[t])]
  /\ UNCHANGED <<config, affinity, local>>

RecoverExpired ==
  /\ \E t \in Targets : Due(metrics[t])
  /\ metrics' = [t \in Targets |-> Now(t)]
  /\ UNCHANGED <<config, affinity, local>>

AffinityExpires(u) ==
  /\ affinity[u] # NoChannel
  /\ affinity' = [affinity EXCEPT ![u] = NoChannel]
  /\ UNCHANGED <<metrics, config, local>>

(* A channel changes its status, its promotion starts or ends, or its last  *)
(* key is disabled or restored.                                             *)
Reconfigure(c) ==
  /\ \/ /\ "status" \in changing
        /\ status' \in {[status EXCEPT ![c] = s] : s \in {"active", "suspended", "disabled"}}
        /\ UNCHANGED <<keyless, promoted>>
     \/ /\ "promotion" \in changing
        /\ promoted' \in {promoted \cup {c}, promoted \ {c}}
        /\ UNCHANGED <<status, keyless>>
     \/ /\ "keys" \in changing
        /\ keyless' \in {keyless \cup {c}, keyless \ {c}}
        /\ UNCHANGED <<status, promoted>>
  /\ UNCHANGED <<changing, metrics, affinity, local>>
  /\ config' # config

Step(r) ==
  \/ Select(r) \/ Exhausted(r) \/ ClientGone(r)
  \/ SkipKey(r) \/ Served(r) \/ Refused(r) \/ BuildFails(r)
  \/ \E class \in FailureClasses : KeyFails(r, class)
  \/ NextChannel(r) \/ Return(r)

Next ==
  \/ \E r \in Requests : Begin(r) \/ Step(r)
  \/ Tick
  \/ RecoverExpired
  \/ \E u \in Users : AffinityExpires(u)
  \/ \E c \in Channels : Reconfigure(c)

Spec == Init /\ [][Next]_vars

(* Clients keep sending requests, upstream calls end, and a client does not *)
(* always disconnect before a channel is selected.                          *)
FairSpec ==
  /\ Spec
  /\ \A r \in Requests : WF_vars(Begin(r)) /\ WF_vars(Step(r)) /\ SF_vars(Select(r))

-----------------------------------------------------------------------------
(* Properties *)

Selects(r) == pc[r] = "select" /\ pc'[r] = "try"

(* The scheduler never sends a request to a channel all of whose circuits   *)
(* are open, by affinity, priority or fallback: only the client (X-Channel) *)
(* and the administrator (promotion) can ask for one.  The affinity rule    *)
(* does not look at the circuit state; it relies on the health check.       *)
OpenNeverSelected ==
  [][\A r \in Requests :
       /\ Selects(r)
       /\ channel'[r].reason \notin {"channel_pin", "promotion_priority"}
       => ChannelCircuitState(channel'[r].index) # Open]_vars

(* Affinity and fallback never hide a better channel: nothing that is       *)
(* available has a strictly better priority than the selected channel,      *)
(* unless the client or the administrator asked for that channel.           *)
BestSelected ==
  [][\A r \in Requests :
       /\ Selects(r)
       /\ channel'[r].reason \notin {"channel_pin", "promotion_priority"}
       => \A c \in Available(r) :
            EffectivePriority(channel'[r].index) <= EffectivePriority(c)]_vars

(* No channel is tried twice by one request, whichever rule selects it, so  *)
(* maxChannelAttempts attempts are enough for all of them.                  *)
ChannelsTriedOnce ==
  \A r \in Requests :
    /\ pc[r] = "select" => tries[r] = Cardinality(failed[r])
    /\ pc[r] = "try" => channel[r].index \notin failed[r]

(* A request without X-Channel is answered "all channels failed" only when  *)
(* every channel it may use that is active, has keys and is not open has    *)
(* been tried (while the configuration stays as it is).                     *)
NoChannelLeftOut ==
  [][\A r \in Requests :
       /\ pc[r] = "select" /\ pc'[r] = "failed"
       /\ req[r].pin = NoChannel /\ changing = {}
       => \A c \in Untried(r) : ChannelCircuitState(c) = Open]_vars

(* A channel whose circuits are all half-open is eventually tried or leaves *)
(* the state: recovery needs no administrator while clients send requests.  *)
HalfOpenProbed ==
  \A c \in Channels :
    LET Waiting == \A k \in Keys : metrics[<<c, k>>].state = HalfOpen
    IN  (Waiting /\ status[c] = "active") ~>
          (~Waiting \/ \E r \in Requests : channel[r].index = c)
=============================================================================
