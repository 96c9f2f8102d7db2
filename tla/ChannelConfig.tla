---------------------------- MODULE ChannelConfig ----------------------------
(***************************************************************************)
(* ConfigManager (config/): the list of channels of one interface in       *)
(* memory, the configuration file it is saved to, the watcher that loads   *)
(* the file again, the failed-key cache, the console's changes, the        *)
(* requests that disable keys through an index they read before the        *)
(* upstream call, and the scheduled recovery that restores keys.           *)
(*                                                                         *)
(* The five interfaces keep separate lists under one lock, with the same   *)
(* code; a behaviour is about the list of one of them, chosen in           *)
(* ConfigInit.  Positions count from 1.  A channel's `id` is its name.     *)
(* Time is the flag `due` of a disabled key: its hour has passed.          *)
(*                                                                         *)
(* encoding/json decodes into the elements an array already has.  A write  *)
(* fails, and the file is edited by hand, only when memory holds at least  *)
(* as many channels as the file, so that the elements behind the end of    *)
(* the list are never read.                                                *)
(***************************************************************************)
EXTENDS Naturals, Sequences, FiniteSets, SequencesExt

CONSTANTS
  Interfaces,        \* the interfaces a behaviour may be about
  ChannelIds,        \* names of channels
  APIKeys,           \* the API keys
  OwnKeys,           \* per name: the keys an operator gives that channel
  StartChannels,     \* per interface: the lists a behaviour may start from
  Updates,           \* the updates the console may send
  EditedPositions,   \* positions of channels deleted from the file by hand
  Proxies,           \* requests in flight
  MaxEdits,          \* bound: changes by hand (console or file) and restarts
  MaxFailedSaves,    \* bound: writes of the file that fail
  MaxRejections,     \* bound: keys rejected by upstreams
  None

Statuses == {"active", "suspended", "disabled"}

Channels ==
  [id : ChannelIds, keys : Seq(APIKeys),
   disabled : Seq([key : APIKeys, quota : BOOLEAN, due : BOOLEAN]),
   historical : SUBSET APIKeys, status : Statuses, promoted : BOOLEAN, priority : Nat]

ActiveKeys(channel) == ToSet(channel.keys)
Entries(channel) == ToSet(channel.disabled)
DisabledKeys(channel) == {entry.key : entry \in Entries(channel)}
KnownKeys(channel) == ActiveKeys(channel) \cup DisabledKeys(channel) \cup channel.historical

AtHome(list) == \A i \in DOMAIN list : KnownKeys(list[i]) \subseteq OwnKeys[list[i].id]
NamedOnce(list) == \A i, j \in DOMAIN list : list[i].id = list[j].id => i = j

ASSUME ChannelConfigAssumption ==
  /\ OwnKeys \in [ChannelIds -> SUBSET APIKeys]
  /\ \A kind \in Interfaces : \A list \in StartChannels[kind] :
       list \in Seq(Channels) /\ AtHome(list) /\ NamedOnce(list)
  /\ \A update \in Updates :
       /\ update.keys = None \/ update.keys \in Seq(APIKeys)
       /\ update.status = None \/ update.status \in Statuses
       /\ update.promoted = None \/ update.promoted \in BOOLEAN
       /\ update.priority = None \/ update.priority \in Nat

VARIABLES
  interface,         \* the interface (apiType) the list belongs to
  config,            \* cm.config: the list in memory
  disk,              \* the list in the configuration file
  changed,           \* the watcher has an event it has not handled
  failedKeysCache,   \* <<prefix, key>> in cool-down
  proxy,             \* per request: the index and the key it uses
  recovery,          \* the scheduled recovery
  edits, failedSaves,
  rejections,
  drift              \* history: a write failed, or a reload merged old fields

listVars == <<config, disk, changed, failedSaves, drift>>
configVars == <<interface, listVars, failedKeysCache, proxy, recovery, edits, rejections>>

-----------------------------------------------------------------------------
(* Channels.                                                               *)

NewChannel(id, keys) ==
  [id |-> id, keys |-> keys, disabled |-> <<>>, historical |-> {},
   status |-> "active", promoted |-> FALSE, priority |-> 0]

\* The elements of a sequence at some of its positions, in their order.
Selected(s, positions) ==
  [n \in 1..Cardinality(positions) |->
     s[CHOOSE i \in positions : Cardinality({j \in positions : j < i}) = n - 1]]

DeduplicateStrings(keys) ==
  Selected(keys, {i \in DOMAIN keys : \A j \in DOMAIN keys : j < i => keys[j] # keys[i]})

\* Where the loops over the keys find a key: 0 if it is not there.
FirstAt(keys, key) == SelectInSeq(keys, LAMBDA k : k = key)

\* The disabled keys that are, or are not, among `keys`.
Chosen(channel, keys) ==
  Selected(channel.disabled, {n \in DOMAIN channel.disabled : channel.disabled[n].key \in keys})
Unchosen(channel, keys) ==
  Selected(channel.disabled, {n \in DOMAIN channel.disabled : channel.disabled[n].key \notin keys})

\* The channel with its disabled `keys` active again.
WithRestored(channel, keys) ==
  LET back == Chosen(channel, keys \ ActiveKeys(channel))
  IN [channel EXCEPT
        !.keys = @ \o DeduplicateStrings([n \in DOMAIN back |-> back[n].key]),
        !.disabled = Unchosen(channel, keys),
        !.historical = @ \ keys]

\* The channel with one key active again: the first entry of the key goes.
KeyRestored(channel, key) ==
  [channel EXCEPT !.disabled = RemoveFirstMatch(@, LAMBDA e : e.key = key),
                  !.keys = IF key \in ActiveKeys(channel) THEN @ ELSE Append(@, key),
                  !.historical = @ \ {key}]

\* The channel with an active key disabled.
KeyDisabled(channel, key, quota) ==
  [channel EXCEPT !.keys = RemoveFirst(@, key),
                  !.disabled = Append(@, [key |-> key, quota |-> quota, due |-> FALSE]),
                  !.historical = @ \cup {key}]

(* Mutant: the keys replaced are forgotten.                                 *)
UpdatedForgetful(channel, update) ==
  IF update.keys = None THEN channel
  ELSE [channel EXCEPT !.keys = DeduplicateStrings(update.keys),
                       !.historical = @ \ ToSet(update.keys)]

\* The channel after a single-key replacement, a new list of keys, a status...
Updated(channel, update) ==
  LET new == ToSet(update.keys)
      replaced == /\ Len(channel.keys) = 1 /\ Len(update.keys) = 1
                  /\ channel.keys # update.keys
      rekeyed == IF update.keys = None THEN channel
                 ELSE [channel EXCEPT
                         !.historical = (@ \cup ActiveKeys(channel)) \ new,
                         !.status = IF replaced /\ @ = "suspended" THEN "active" ELSE @,
                         !.keys = DeduplicateStrings(update.keys)]
      Given(value, old) == IF value = None THEN old ELSE value
  IN [rekeyed EXCEPT !.priority = Given(update.priority, @),
                     !.status   = Given(update.status, @),
                     !.promoted = Given(update.promoted, @)]

-----------------------------------------------------------------------------
(* Loading and saving.                                                     *)

\* Two of the lists are left out of the file when they are empty.
OmittedWhenEmpty == {"Chat", "Images"}

\* A field that the file leaves out keeps the value the element had.
Merge(old, new) ==
  [new EXCEPT !.disabled   = IF @ = <<>> THEN old.disabled ELSE @,
              !.historical = IF @ = {} THEN old.historical ELSE @,
              !.promoted   = @ \/ old.promoted]

Decoded(old, file) ==
  IF file = <<>> /\ interface \in OmittedWhenEmpty THEN old
  ELSE [i \in DOMAIN file |-> IF i <= Len(old) THEN Merge(old[i], file[i]) ELSE file[i]]

\* Active channels without a key are suspended when the file is loaded.
ValidateChannelKeys(list) ==
  [i \in DOMAIN list |->
     IF list[i].status = "active" /\ list[i].keys = <<>>
     THEN [list[i] EXCEPT !.status = "suspended"] ELSE list[i]]

\* saveConfigLocked: the list is in memory, the file may not be written.
\* `merged` tells whether it has kept fields that the file did not have.
Save(list, merged) ==
  /\ config' = list
  /\ \/ /\ disk' = list
        /\ changed' = TRUE
        /\ drift' = (drift \/ merged)
        /\ UNCHANGED failedSaves
     \/ /\ failedSaves < MaxFailedSaves
        /\ ~changed \/ Len(disk) <= Len(list)
        /\ failedSaves' = failedSaves + 1
        /\ drift' = (drift \/ merged \/ disk # list)
        /\ UNCHANGED <<disk, changed>>

SaveConfigLocked(list) == Save(list, FALSE)

\* The watcher: the file is decoded over the list in memory, and saved again
\* when the check of the keys changed something.
LoadConfig ==
  /\ changed
  /\ LET list == Decoded(config, disk)
         checked == ValidateChannelKeys(list)
     IN IF checked # list THEN Save(checked, disk # list)
        ELSE /\ config' = list
             /\ changed' = FALSE
             /\ drift' = (drift \/ disk # list)
             /\ UNCHANGED <<disk, failedSaves>>
  /\ UNCHANGED <<interface, failedKeysCache, proxy, recovery, edits, rejections>>

-----------------------------------------------------------------------------
(* The console.                                                            *)

Forget(prefix, keys) == failedKeysCache' = failedKeysCache \ ({prefix} \X keys)

ByHand ==
  /\ edits < MaxEdits
  /\ edits' = edits + 1
  /\ UNCHANGED <<interface, proxy, recovery, rejections>>

\* An administrator's change of the channel at i, which leaves the cache alone.
Set(i, channel) ==
  /\ ByHand
  /\ SaveConfigLocked([config EXCEPT ![i] = channel])
  /\ UNCHANGED failedKeysCache

AddUpstream ==
  /\ ByHand
  /\ \E id \in ChannelIds \ {config[i].id : i \in DOMAIN config} :
       \E keys \in {<<>>} \cup {<<k>> : k \in OwnKeys[id]} :
         SaveConfigLocked(Append(config, NewChannel(id, DeduplicateStrings(keys))))
  /\ UNCHANGED failedKeysCache

UpdateUpstream(i) ==
  \E update \in Updates :
    /\ update.keys # None => ToSet(update.keys) \subseteq OwnKeys[config[i].id]
    /\ Updated(config[i], update) # config[i]
    /\ Set(i, Updated(config[i], update))

\* The prefix under which RemoveUpstream forgets the failed keys.
ClearingPrefix == IF interface = "Chat" THEN "chat" ELSE interface

RemoveUpstream(i) ==
  /\ ByHand
  /\ SaveConfigLocked(RemoveAt(config, i))
  /\ Forget(ClearingPrefix, ActiveKeys(config[i]))

AddAPIKey(i) ==
  \E key \in OwnKeys[config[i].id] \ ActiveKeys(config[i]) :
    Set(i, [config[i] EXCEPT !.keys = Append(@, key),
                             !.disabled = Unchosen(config[i], {key}),
                             !.historical = @ \ {key}])

RemoveAPIKey(i) ==
  \E key \in ActiveKeys(config[i]) :
    Set(i, [config[i] EXCEPT !.keys = RemoveFirst(@, key),
                             !.historical = @ \cup {key}])

MoveAPIKeyToTop(i) ==
  \E key \in {k \in ActiveKeys(config[i]) : k # Head(config[i].keys)} :
    Set(i, [config[i] EXCEPT !.keys = <<key>> \o RemoveFirst(@, key)])

MoveAPIKeyToBottom(i) ==
  \E key \in {k \in ActiveKeys(config[i]) :
                FirstAt(config[i].keys, k) # Len(config[i].keys)} :
    Set(i, [config[i] EXCEPT !.keys = Append(RemoveFirst(@, key), key)])

\* Only the channels named get a priority.
ReorderUpstreams ==
  /\ ByHand
  /\ \E named \in SUBSET DOMAIN config \ {{}} :
       \E order \in SetToSeqs(named) :
         SaveConfigLocked([i \in DOMAIN config |->
           IF i \in named
           THEN [config[i] EXCEPT !.priority = CHOOSE n \in DOMAIN order : order[n] = i]
           ELSE config[i]])
  /\ UNCHANGED failedKeysCache

SetChannelStatus(i) ==
  \E status \in Statuses :
    Set(i, [config[i] EXCEPT !.status = status,
                             !.promoted = @ /\ status # "suspended"])

SetChannelPromotion(i) ==
  /\ ByHand
  /\ \E promote \in BOOLEAN :
       SaveConfigLocked([j \in DOMAIN config |->
         [config[j] EXCEPT !.promoted = IF j = i THEN promote ELSE @ /\ ~promote]])
  /\ UNCHANGED failedKeysCache

RestoreKey(i) ==
  \E key \in DisabledKeys(config[i]) :
    /\ ByHand
    /\ SaveConfigLocked([config EXCEPT ![i] = KeyRestored(@, key)])
    /\ Forget(interface, {key})

RestoreAllKeys(i) ==
  /\ DisabledKeys(config[i]) # {}
  /\ ByHand
  /\ SaveConfigLocked([config EXCEPT ![i] = WithRestored(@, DisabledKeys(@))])
  /\ Forget(interface, DisabledKeys(config[i]))

KeyEdits(i) == \/ AddAPIKey(i) \/ RemoveAPIKey(i)
               \/ MoveAPIKeyToTop(i) \/ MoveAPIKeyToBottom(i)
OrderEdits(i) == SetChannelStatus(i) \/ SetChannelPromotion(i)

\* What the handlers of each interface do to its list: five files with the
\* same operations (the logs and metrics that a deletion also shifts and
\* deletes are the subject of ChannelLog and PendingHistory).
MessagesConsole(i) ==
  /\ interface = "Messages"
  /\ \/ AddUpstream \/ UpdateUpstream(i) \/ RemoveUpstream(i)
     \/ KeyEdits(i) \/ ReorderUpstreams \/ OrderEdits(i)
ResponsesChannels(i) == interface = "Responses" /\ (AddUpstream \/ UpdateUpstream(i))
ResponsesKeys(i) == interface = "Responses" /\ (RemoveUpstream(i) \/ KeyEdits(i))
ResponsesOrder(i) == interface = "Responses" /\ (ReorderUpstreams \/ OrderEdits(i))
ResponsesConsole(i) == ResponsesChannels(i) \/ ResponsesKeys(i) \/ ResponsesOrder(i)

GeminiChannels(i) == interface = "Gemini" /\ (AddUpstream \/ UpdateUpstream(i))
GeminiKeys(i) == interface = "Gemini" /\ (RemoveUpstream(i) \/ KeyEdits(i))
GeminiOrder(i) == interface = "Gemini" /\ (ReorderUpstreams \/ OrderEdits(i))
GeminiConsole(i) == GeminiChannels(i) \/ GeminiKeys(i) \/ GeminiOrder(i)

ChatChannels(i) == interface = "Chat" /\ (AddUpstream \/ UpdateUpstream(i))
ChatKeys(i) == interface = "Chat" /\ (RemoveUpstream(i) \/ KeyEdits(i))
ChatOrder(i) == interface = "Chat" /\ (ReorderUpstreams \/ OrderEdits(i))
ChatConsole(i) == ChatChannels(i) \/ ChatKeys(i) \/ ChatOrder(i)

ImagesChannels(i) == interface = "Images" /\ (AddUpstream \/ UpdateUpstream(i))
ImagesKeys(i) == interface = "Images" /\ (RemoveUpstream(i) \/ KeyEdits(i))
ImagesOrder(i) == interface = "Images" /\ (ReorderUpstreams \/ OrderEdits(i))
ImagesConsole(i) == ImagesChannels(i) \/ ImagesKeys(i) \/ ImagesOrder(i)

Console ==
  \E i \in DOMAIN config :
    \/ MessagesConsole(i) \/ ResponsesConsole(i) \/ GeminiConsole(i)
    \/ ChatConsole(i) \/ ImagesConsole(i)
    \/ RestoreKey(i) \/ RestoreAllKeys(i)

\* A channel is deleted from the file with an editor.
FileEdit ==
  /\ \E i \in EditedPositions \cap DOMAIN disk : disk' = RemoveAt(disk, i)
  /\ Len(disk) <= Len(config)
  /\ changed' = TRUE
  /\ ByHand
  /\ UNCHANGED <<config, failedSaves, drift, failedKeysCache>>

-----------------------------------------------------------------------------
(* Requests.                                                               *)

Pick(p) ==
  /\ proxy[p] = None
  /\ \E i \in DOMAIN config, key \in APIKeys :
       /\ config[i].status = "active"
       /\ key \in ActiveKeys(config[i])
       /\ proxy' = [proxy EXCEPT ![p] = [at |-> i, key |-> key]]
  /\ UNCHANGED <<interface, listVars, failedKeysCache, recovery, edits, rejections>>

Answered(p) ==
  /\ proxy[p] # None
  /\ proxy' = [proxy EXCEPT ![p] = None]
  /\ UNCHANGED <<interface, recovery, edits>>

Served(p) == Answered(p) /\ UNCHANGED <<listVars, failedKeysCache, rejections>>

\* The upstream rejects the key; the index may be another channel's by now.
Rejected(p) ==
  /\ Answered(p)
  /\ rejections < MaxRejections
  /\ rejections' = rejections + 1

(* Mutant: the index is trusted.                                            *)
HoldsAnything(i, key) == i \in DOMAIN config

Holds(i, key) == i \in DOMAIN config /\ key \in ActiveKeys(config[i])

BlacklistKey(p) ==
  /\ Rejected(p)
  /\ LET i == proxy[p].at
         key == proxy[p].key
     IN IF Holds(i, key)
        THEN \E quota \in BOOLEAN :
               SaveConfigLocked([config EXCEPT ![i] = KeyDisabled(@, key, quota)])
        ELSE UNCHANGED listVars
  /\ UNCHANGED failedKeysCache

MarkKeyAsFailed(p) ==
  /\ Rejected(p)
  /\ failedKeysCache' = failedKeysCache \cup {<<interface, proxy[p].key>>}
  /\ UNCHANGED listVars

\* The first channel in which the key is not last already; the search leaves
\* the Gemini channels out.
DeprioritizeAPIKey(p) ==
  /\ Answered(p)
  /\ LET key == proxy[p].key
         i == SelectInSeq(config, LAMBDA c : FirstAt(c.keys, key) \notin {0, Len(c.keys)})
     IN IF interface # "Gemini" /\ i # 0
        THEN SaveConfigLocked([config EXCEPT ![i].keys = Append(RemoveFirst(@, key), key)])
        ELSE UNCHANGED listVars
  /\ UNCHANGED <<failedKeysCache, rejections>>

CleanupExpiredFailures ==
  /\ \E failure \in failedKeysCache : failedKeysCache' = failedKeysCache \ {failure}
  /\ UNCHANGED <<interface, listVars, proxy, recovery, edits, rejections>>

-----------------------------------------------------------------------------
(* The scheduled recovery.                                                 *)

Idle == [step |-> "idle", at |-> 0, plan |-> <<>>]

(* Mutant: suspended channels are left alone.                               *)
RecoverableIfActive(channel) ==
  IF channel.status # "active" THEN {}
  ELSE {e.key : e \in {entry \in Entries(channel) : entry.quota /\ entry.due}}

\* The keys of a channel that a scan decides to restore.
Recoverable(channel) ==
  IF channel.status = "disabled" THEN {}
  ELSE {e.key : e \in {entry \in Entries(channel) : entry.quota /\ entry.due}}

\* The scan goes on with the first channel behind `at` that has such keys.
Resumed(plan, at) ==
  LET ahead == {i \in DOMAIN plan : i > at /\ plan[i].keys # {}}
  IN IF ahead = {} THEN Idle
     ELSE [step |-> "restore", plan |-> plan,
           at |-> CHOOSE i \in ahead : \A j \in ahead : i <= j]

\* A copy of the configuration is taken, and used until the end of the scan.
StartRecovery ==
  /\ recovery = Idle
  /\ \E i \in DOMAIN config : Recoverable(config[i]) # {}
  /\ recovery' = Resumed([i \in DOMAIN config |->
                    [keys |-> Recoverable(config[i]),
                     starved |-> config[i].status = "suspended" /\ config[i].keys = <<>>]], 0)
  /\ UNCHANGED <<interface, listVars, failedKeysCache, proxy, edits, rejections>>

InScan(step) ==
  /\ recovery.step = step
  /\ UNCHANGED <<interface, proxy, edits, rejections>>

\* A failed write ends the whole scan; a later tick starts another.
AfterSave(next) == recovery' = IF failedSaves' = failedSaves THEN next ELSE Idle

RestoreDisabledKeys ==
  /\ InScan("restore")
  /\ LET i == recovery.at
         hit == DisabledKeys(config[i]) \cap recovery.plan[i].keys
     IN \/ /\ i \notin DOMAIN config
           /\ recovery' = Idle
           /\ UNCHANGED <<listVars, failedKeysCache>>
        \/ /\ i \in DOMAIN config
           /\ hit = {}
           /\ recovery' = Resumed(recovery.plan, i)
           /\ UNCHANGED <<listVars, failedKeysCache>>
        \/ /\ i \in DOMAIN config
           /\ hit # {}
           /\ SaveConfigLocked([config EXCEPT ![i] = WithRestored(@, hit)])
           /\ Forget(interface, hit)
           /\ AfterSave([recovery EXCEPT !.step = "check"])

ShouldActivateChannel ==
  /\ InScan("check")
  /\ LET i == recovery.at
     IN recovery' = IF /\ i \in DOMAIN config
                       /\ recovery.plan[i].starved
                       /\ config[i].status = "suspended"
                    THEN [recovery EXCEPT !.step = "activate"]
                    ELSE Resumed(recovery.plan, i)
  /\ UNCHANGED <<listVars, failedKeysCache>>

Activate ==
  /\ InScan("activate")
  /\ LET i == recovery.at
     IN \/ /\ i \notin DOMAIN config
           /\ recovery' = Idle
           /\ UNCHANGED listVars
        \/ /\ i \in DOMAIN config
           /\ SaveConfigLocked([config EXCEPT ![i].status = "active"])
           /\ AfterSave(Resumed(recovery.plan, i))
  /\ UNCHANGED failedKeysCache

\* An hour passes; the watcher and a scan need far less.
HourPasses ==
  LET Late(entries) == [n \in DOMAIN entries |-> [entries[n] EXCEPT !.due = entries[n].quota]]
      Aged(list) == [i \in DOMAIN list |-> [list[i] EXCEPT !.disabled = Late(@)]]
  IN /\ ~changed
     /\ recovery = Idle
     /\ Aged(config) # config \/ Aged(disk) # disk
     /\ config' = Aged(config)
     /\ disk' = Aged(disk)
     /\ UNCHANGED <<interface, changed, failedSaves, drift, failedKeysCache, proxy,
                    recovery, edits, rejections>>

\* The process ends and starts again from the file.
Restart ==
  /\ edits < MaxEdits
  /\ edits' = edits + 1
  /\ config' = ValidateChannelKeys(disk)
  /\ disk' = config'
  /\ changed' = FALSE
  /\ drift' = (drift \/ disk # config)
  /\ failedKeysCache' = {}
  /\ proxy' = [p \in Proxies |-> None]
  /\ recovery' = Idle
  /\ UNCHANGED <<interface, failedSaves, rejections>>

-----------------------------------------------------------------------------
ConfigInit ==
  /\ interface \in Interfaces
  /\ config \in StartChannels[interface]
  /\ disk = config
  /\ changed = FALSE
  /\ failedKeysCache = {}
  /\ proxy = [p \in Proxies |-> None]
  /\ recovery = Idle
  /\ edits = 0 /\ failedSaves = 0 /\ rejections = 0
  /\ drift = FALSE

ConfigNext ==
  \/ LoadConfig
  \/ Console
  \/ FileEdit
  \/ \E p \in Proxies :
       \/ Pick(p) \/ Served(p)
       \/ BlacklistKey(p) \/ MarkKeyAsFailed(p) \/ DeprioritizeAPIKey(p)
  \/ CleanupExpiredFailures
  \/ StartRecovery \/ RestoreDisabledKeys \/ ShouldActivateChannel \/ Activate
  \/ HourPasses
  \/ Restart

\* The watcher and the scan are goroutines that run; time passes whatever
\* the rest of the system does.
ConfigSpec ==
  /\ ConfigInit /\ [][ConfigNext]_configVars
  /\ WF_configVars(LoadConfig)
  /\ WF_configVars(StartRecovery)
  /\ WF_configVars(RestoreDisabledKeys \/ ShouldActivateChannel \/ Activate)
  /\ SF_configVars(HourPasses)

-----------------------------------------------------------------------------
(* Properties.                                                             *)

\* A channel holds only keys that were given to it: a request or a scan that
\* comes back to an index where another channel is by now neither disables
\* nor restores a key there that this channel does not have.
KeysStayHome == AtHome(config)

KeysCarried(old, new) ==
  \A i \in DOMAIN old, j \in DOMAIN new :
    old[i].id = new[j].id => KnownKeys(old[i]) \subseteq KnownKeys(new[j])

\* No step loses a key of a channel that stays, whether its write succeeds or
\* fails: a key that is not used any more is disabled or historical, and its
\* statistics are still found.  A reload or a restart keeps every key of the
\* file; it keeps those of the memory, too, unless the two have drifted apart
\* (a write had failed, or a reload has merged): keys that only the memory
\* had are then given up, or pass to the channel decoded over theirs.
KeysKept ==
  [][IF LoadConfig \/ Restart
     THEN KeysCarried(disk, config') /\ (drift' \/ KeysCarried(config, config'))
     ELSE KeysCarried(config, config')]_configVars

QuotaKeys(id) ==
  UNION {{e.key : e \in {entry \in Entries(config[i]) : entry.quota}} :
           i \in {j \in DOMAIN config : config[j].id = id /\ config[j].status # "disabled"}}

\* A key disabled for its quota does not stay disabled, whatever indices shift
\* and writes fail under the scans, unless its channel is disabled or deleted.
QuotaKeyReturns ==
  \A id \in ChannelIds, key \in APIKeys :
    key \in QuotaKeys(id) ~> key \notin QuotaKeys(id)
=============================================================================
