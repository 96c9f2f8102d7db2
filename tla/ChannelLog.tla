----------------------------- MODULE ChannelLog -----------------------------
(***************************************************************************)
(* The channel logs (metrics/channel_log.go, handlers/common/              *)
(* channel_log_helper.go): per channel a ring of the newest attempts, and  *)
(* requestLocations, which finds the entry of a running attempt.  Both are *)
(* keyed by the channel's index in the configuration, which shifts when a  *)
(* channel is deleted; the delete handlers change the configuration first  *)
(* and the logs afterwards, under two different locks.                     *)
(***************************************************************************)
EXTENDS Naturals, Sequences

CONSTANTS
  MaxChannels, \* bound: the channels configured at the same time
  Initial,    \* how many channels are configured at the start
  Requests,   \* attempts, each with its own request id
  Deleters,   \* concurrent delete handlers
  MaxLogs,    \* maxChannelLogs, the length of a ring
  SaveFaults  \* TRUE: the configuration file cannot always be written

ASSUME ChannelLogAssumption ==
  /\ MaxChannels \in Nat
  /\ Initial \in 0..MaxChannels
  /\ MaxLogs \in Nat \ {0}
  /\ SaveFaults \in BOOLEAN

VARIABLES
  channels,   \* the length of the channel list in the configuration
  logs,       \* index -> ring, empty when the map has none
  locations,  \* requestLocations, 0 for a request that is not in it
  pc,         \* how far every attempt is
  index,      \* the channelIndex the attempt's handler holds
  removing    \* the index a delete handler has yet to remove from the logs

vars == <<channels, logs, locations, pc, index, removing>>

Indices == 1..MaxChannels

(* Of the statuses of an entry "ended" stands for completed, failed and     *)
(* cancelled.                                                               *)

Init ==
  /\ channels = Initial
  /\ logs = [i \in Indices |-> << >>]
  /\ locations = [r \in Requests |-> 0]
  /\ pc = [r \in Requests |-> "idle"]
  /\ index = [r \in Requests |-> 0]
  /\ removing = [d \in Deleters |-> 0]

-----------------------------------------------------------------------------
(* ChannelLogStore *)

Newest(ring) ==
  IF Len(ring) > MaxLogs THEN SubSeq(ring, Len(ring) - MaxLogs + 1, Len(ring))
                         ELSE ring

Record(i, r, status) ==
  /\ logs' = [logs EXCEPT ![i] =
                Newest(Append(@, [request |-> r, index |-> i, status |-> status]))]
  /\ locations' = [locations EXCEPT ![r] = IF status = "ended" THEN 0 ELSE i]

Positions(r) == {i \in DOMAIN logs[locations[r]] : logs[locations[r]][i].request = r}

Found(r)   == locations[r] # 0 /\ Positions(r) # {}
Evicted(r) == locations[r] # 0 /\ Positions(r) = {} /\ logs[locations[r]] # << >>

(* Mutant: looks for the request at the index the caller holds and does not *)
(* ask whether it is still running.                                         *)
UpdateAtCaller(r, status) ==
  /\ logs' = [i \in Indices |->
                IF i # index[r] THEN logs[i]
                ELSE [p \in DOMAIN logs[i] |->
                        IF logs[i][p].request = r
                        THEN [logs[i][p] EXCEPT !.status = status]
                        ELSE logs[i][p]]]
  /\ locations' = IF status = "ended" THEN [locations EXCEPT ![r] = 0] ELSE locations

(* Update: the first entry of the request in the ring it is located in.  A  *)
(* location without a ring is dropped.                                      *)
Update(r, status) ==
  \/ /\ Found(r)
     /\ \E p \in Positions(r) :
          /\ \A q \in Positions(r) : p <= q
          /\ logs' = [logs EXCEPT ![locations[r]][p].status = status]
     /\ locations' = IF status = "ended" THEN [locations EXCEPT ![r] = 0] ELSE locations
  \/ /\ ~Found(r)
     /\ locations' = IF Evicted(r) THEN locations ELSE [locations EXCEPT ![r] = 0]
     /\ UNCHANGED logs

(* Mutant: the locations behind the removed channel stay.                   *)
LocationsKept(i) ==
  [r \in Requests |-> IF locations[r] = i THEN 0 ELSE locations[r]]

LocationsShifted(i) ==
  [r \in Requests |-> CASE locations[r] = i -> 0
                        [] locations[r] > i -> locations[r] - 1
                        [] OTHER            -> locations[r]]

Moved(ring, i) == [p \in DOMAIN ring |-> [ring[p] EXCEPT !.index = i]]

LogsShifted(i) ==
  [j \in Indices |-> CASE j < i                          -> logs[j]
                       [] j >= i /\ j + 1 \in Indices -> Moved(logs[j + 1], j)
                       [] OTHER                          -> << >>]

-----------------------------------------------------------------------------
(* Attempts *)

(* SelectChannel: the index is read under the configuration's lock and used *)
(* until the request ends.                                                  *)
SelectChannel(r) ==
  /\ pc[r] = "idle"
  /\ \E i \in 1..channels : index' = [index EXCEPT ![r] = i]
  /\ pc' = [pc EXCEPT ![r] = "selected"]
  /\ UNCHANGED <<channels, logs, locations, removing>>

CreatePendingLog(r) ==
  /\ pc[r] = "selected"
  /\ pc' = [pc EXCEPT ![r] = "running"]
  /\ Record(index[r], r, "pending")
  /\ UNCHANGED <<channels, index, removing>>

(* RecordChannelLog: the compact handler logs an attempt when it is over.   *)
RecordChannelLog(r) ==
  /\ pc[r] = "selected"
  /\ pc' = [pc EXCEPT ![r] = "done"]
  /\ Record(index[r], r, "ended")
  /\ UNCHANGED <<channels, index, removing>>

(* UpdateLogStatus runs in callbacks of the HTTP transport.  They repeat    *)
(* when the client follows redirects, and the transport's reader goroutine  *)
(* may still be about to call one when a cancelled request has returned.    *)
UpdateLogStatus(r, status) ==
  /\ pc[r] \in {"running", "backfilling", "done"}
  /\ Update(r, status)
  /\ UNCHANGED <<channels, pc, index, removing>>

(* CompleteLog: an update, and when the entry was evicted meanwhile, a new  *)
(* entry at the index the update returned.  The lock is free in between.    *)
CompleteLog(r) ==
  /\ pc[r] = "running"
  /\ Update(r, "ended")
  /\ \/ /\ Evicted(r)
        /\ pc' = [pc EXCEPT ![r] = "backfilling"]
        /\ index' = [index EXCEPT ![r] = locations[r]]
     \/ /\ ~Evicted(r)
        /\ pc' = [pc EXCEPT ![r] = "done"]
        /\ UNCHANGED index
  /\ UNCHANGED <<channels, removing>>

(* Mutant: an evicted entry is not written again.                           *)
BackfillNothing(r) ==
  /\ pc[r] = "backfilling"
  /\ pc' = [pc EXCEPT ![r] = "done"]
  /\ locations' = [locations EXCEPT ![r] = 0]
  /\ UNCHANGED <<channels, logs, index, removing>>

Backfill(r) ==
  /\ pc[r] = "backfilling"
  /\ pc' = [pc EXCEPT ![r] = "done"]
  /\ Record(index[r], r, "ended")
  /\ UNCHANGED <<channels, index, removing>>

-----------------------------------------------------------------------------
(* Administration *)

(* AddUpstream appends.                                                     *)
AddUpstream ==
  /\ channels < MaxChannels
  /\ channels' = channels + 1
  /\ UNCHANGED <<logs, locations, pc, index, removing>>

(* RemoveUpstream.  When the file cannot be saved the channel is gone from  *)
(* memory, but the handler answers with an error and leaves the logs alone. *)
RemoveUpstream(d) ==
  /\ removing[d] = 0
  /\ channels > 0
  /\ channels' = channels - 1
  /\ \/ \E i \in 1..channels : removing' = [removing EXCEPT ![d] = i]
     \/ SaveFaults /\ UNCHANGED removing
  /\ UNCHANGED <<logs, locations, pc, index>>

RemoveAndShift(d) ==
  /\ removing[d] # 0
  /\ locations' = LocationsShifted(removing[d])
  /\ logs' = LogsShifted(removing[d])
  /\ removing' = [removing EXCEPT ![d] = 0]
  /\ UNCHANGED <<channels, pc, index>>

-----------------------------------------------------------------------------

Attempt(r) ==
  \/ SelectChannel(r)
  \/ CreatePendingLog(r)
  \/ RecordChannelLog(r)
  \/ \E status \in {"connecting", "first_byte"} : UpdateLogStatus(r, status)
  \/ CompleteLog(r)
  \/ Backfill(r)

Administer ==
  \/ AddUpstream
  \/ \E d \in Deleters : RemoveUpstream(d) \/ RemoveAndShift(d)

Next == (\E r \in Requests : Attempt(r)) \/ Administer

Spec == Init /\ [][Next]_vars

-----------------------------------------------------------------------------
(* Properties *)

(* Wherever an entry was moved, a running request finds it: the location is *)
(* the ring it is in, and every entry knows that ring's index.  And no      *)
(* attempt has two entries: what is written again after an eviction is      *)
(* never still there, whatever was moved between looking and writing.       *)
RunningFound ==
  \A i \in Indices : \A p \in DOMAIN logs[i] :
    LET entry == logs[i][p]
    IN  /\ entry.index = i
        /\ entry.status # "ended" => locations[entry.request] = i
        /\ \A j \in Indices : \A q \in DOMAIN logs[j] :
             logs[j][q].request = entry.request => i = j /\ p = q

(* When an attempt is over no entry shows it as running for ever, also when *)
(* a late callback of the transport arrives, and requestLocations does not  *)
(* keep it.                                                                 *)
NothingLeftRunning ==
  \A r \in Requests : pc[r] = "done" =>
    /\ locations[r] = 0
    /\ \A i \in Indices : \A p \in DOMAIN logs[i] :
         logs[i][p].request = r => logs[i][p].status = "ended"

(* The result of an attempt is logged, no matter how many attempts have     *)
(* passed through the ring since it began, unless its location was removed  *)
(* together with a channel.                                                 *)
ResultLogged ==
  [][\A r \in Requests :
       \/ pc[r] = "backfilling" /\ pc'[r] = "done"
       \/ pc[r] = "running" /\ locations[r] # 0 /\ locations'[r] = 0
       => \/ \E i \in Indices : \E p \in DOMAIN logs'[i] :
               logs'[i][p].request = r /\ logs'[i][p].status = "ended"
          \/ \E d \in Deleters :
               removing[d] = locations[r] /\ removing'[d] = 0]_vars
=============================================================================
