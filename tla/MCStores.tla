------------------------------ MODULE MCStores ------------------------------
(* The parts that share no state, one at a time: component, chosen in the   *)
(* initial state, says which one runs; the others rest.                     *)
EXTENDS ChannelLog, WriteBuffer, Sessions, UrlOrder, RecoveryClock,
        Dispatcher, CapabilityJobs

VARIABLE component

storesVars == <<vars, bufferVars, sessionVars, urlVars, clockVars, dispatcherVars,
                capabilityVars, component>>

StoresInit ==
  /\ Init /\ BufferInit /\ SessionsInit /\ UrlsInit /\ ClockInit
  /\ DispatcherInit /\ CapabilityInit
  /\ component \in {"log", "buffer", "sessions", "urls", "clock", "dispatcher", "jobs"}
  /\ component # "urls" => configured = << CHOOSE u \in Urls : TRUE >>
  /\ deleting = CHOOSE k \in Keys : TRUE
  /\ requested \in {Models, {CHOOSE m \in Models : TRUE}}
  /\ component # "jobs" => requested = Models

Rest(here) ==
  /\ here # "log" => UNCHANGED vars
  /\ here # "buffer" => UNCHANGED bufferVars
  /\ here # "sessions" => UNCHANGED sessionVars
  /\ here # "urls" => UNCHANGED urlVars
  /\ here # "clock" => UNCHANGED clockVars
  /\ here # "dispatcher" => UNCHANGED dispatcherVars
  /\ here # "jobs" => UNCHANGED capabilityVars

(* Bounds: either two models, one job and its retests; or one model and a   *)
(* second job that replaces the first.                                      *)
BoundedJobs ==
  /\ CapabilityNext
  /\ IF Cardinality(requested) > 1 THEN created' <= 1 ELSE UNCHANGED retry

StoresNext ==
  /\ \/ component = "log" /\ Next
     \/ component = "buffer" /\ BufferNext
     \/ component = "sessions" /\ SessionsNext
     \/ component = "urls" /\ UrlsNext
     \/ component = "clock" /\ ClockNext
     \/ component = "dispatcher" /\ DispatcherNext
     \/ component = "jobs" /\ BoundedJobs
  /\ Rest(component)
  /\ UNCHANGED component

StoresSpec == StoresInit /\ [][StoresNext]_storesVars
=============================================================================
