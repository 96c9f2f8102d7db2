------------------------------ MODULE Sessions ------------------------------
(***************************************************************************)
(* The conversations of the Responses API (session/manager.go) as          *)
(* handlers/responses and providers/responses.go use them.  A request that *)
(* names a previous response reads the session's messages while it is      *)
(* converted; when its answer arrives the handler looks the session up     *)
(* again, appends the turn item by item and records the mapping of the new *)
(* response.  Every call takes the manager's lock for itself, and the      *)
(* cleanup runs between them.                                              *)
(***************************************************************************)
EXTENDS Naturals, Sequences, FiniteSets

CONSTANTS
  Calls,        \* requests; the response to a request bears its name
  Unstored,     \* those with store = false, or whose answer is streamed
  PassThrough,  \* those whose upstream speaks the Responses protocol itself
  MaxMessages,  \* maxMessages of the manager
  MaxTokens     \* maxTokens, every output item counting one

ASSUME SessionsAssumption ==
  /\ Unstored \subseteq Calls /\ PassThrough \subseteq Calls /\ "none" \notin Calls
  /\ MaxMessages \in Nat /\ MaxTokens \in Nat

(* A session is named after the request that created it.                    *)
NoSession == "none"
NoResponse == "none"
Items == [call : Calls, part : {"input", "output"}]

VARIABLES
  sessions,   \* the sessions that exist
  messages,   \* the messages of every session
  stale,      \* sessions not accessed for maxAge
  mapping,    \* responseMapping: response -> session
  call,       \* how far every request is
  previous,   \* the previous_response_id of a request
  session,    \* the session a handler holds
  history,    \* the turns the converted request carried
  answered    \* responses a client has received

sessionVars == <<sessions, messages, stale, mapping, call, previous, session, history, answered>>

SessionsInit ==
  /\ sessions = {}
  /\ messages = [c \in Calls |-> << >>]
  /\ stale = {}
  /\ mapping = [c \in Calls |-> NoSession]
  /\ call = [c \in Calls |-> "idle"]
  /\ previous = [c \in Calls |-> NoResponse]
  /\ session = [c \in Calls |-> NoSession]
  /\ history = [c \in Calls |-> {}]
  /\ answered = {}

-----------------------------------------------------------------------------
(* SessionManager *)

Turns(s) == {messages[s][i].call : i \in DOMAIN messages[s]}
Outputs(s) == {i \in DOMAIN messages[s] : messages[s][i].part = "output"}

(* The session of a response, when both its mapping and it still exist.     *)
SessionOf(response) ==
  IF response # NoResponse /\ mapping[response] \in sessions THEN mapping[response] ELSE NoSession

(* AppendMessage ignores a session that is gone.                            *)
AppendMessage(s, item) ==
  IF s \in sessions
  THEN /\ messages' = [messages EXCEPT ![s] = Append(@, item)]
       /\ stale' = stale \ {s}
  ELSE UNCHANGED <<messages, stale>>

-----------------------------------------------------------------------------
(* A request *)

(* Clients continue the responses they have received.                       *)
Arrive(c) ==
  /\ call[c] = "idle"
  /\ \E response \in answered \cup {NoResponse} : previous' = [previous EXCEPT ![c] = response]
  /\ call' = [call EXCEPT ![c] = "convert"]
  /\ UNCHANGED <<sessions, messages, stale, mapping, session, history, answered>>

(* ConvertToProviderRequest.                                                *)
Convert(c) ==
  /\ call[c] = "convert"
  /\ \/ /\ c \in PassThrough \/ previous[c] = NoResponse
        /\ call' = [call EXCEPT ![c] = "sent"]
        /\ UNCHANGED <<stale, history>>
     \/ /\ c \notin PassThrough /\ previous[c] # NoResponse
        /\ SessionOf(previous[c]) # NoSession
        /\ stale' = stale \ {SessionOf(previous[c])}
        /\ history' = [history EXCEPT ![c] = Turns(SessionOf(previous[c]))]
        /\ call' = [call EXCEPT ![c] = "sent"]
     \/ /\ c \notin PassThrough /\ previous[c] # NoResponse
        /\ SessionOf(previous[c]) = NoSession
        /\ call' = [call EXCEPT ![c] = "failed"]
        /\ UNCHANGED <<stale, history>>
  /\ UNCHANGED <<sessions, messages, mapping, previous, session, answered>>

(* Nothing is recorded of an answer that is not stored, nor of one whose    *)
(* session has been removed while the upstream worked.                      *)
AnswerUnrecorded(c) ==
  /\ call[c] = "sent"
  /\ c \in Unstored \/ (previous[c] # NoResponse /\ SessionOf(previous[c]) = NoSession)
  /\ call' = [call EXCEPT ![c] = "done"]
  /\ answered' = answered \cup {c}
  /\ UNCHANGED <<sessions, messages, stale, mapping, previous, session, history>>

(* Mutant: an unknown previous response starts a new session.               *)
GetOrCreateSessionAnew(c) ==
  /\ call[c] = "sent" /\ c \notin Unstored
  /\ LET s == IF SessionOf(previous[c]) = NoSession THEN c ELSE SessionOf(previous[c])
     IN  /\ session' = [session EXCEPT ![c] = s]
         /\ sessions' = sessions \cup {s}
         /\ stale' = stale \ {s}
  /\ call' = [call EXCEPT ![c] = "input"]
  /\ UNCHANGED <<messages, mapping, previous, history, answered>>

GetOrCreateSession(c) ==
  /\ call[c] = "sent" /\ c \notin Unstored
  /\ previous[c] # NoResponse => SessionOf(previous[c]) # NoSession
  /\ LET s == IF previous[c] = NoResponse THEN c ELSE SessionOf(previous[c])
     IN  /\ session' = [session EXCEPT ![c] = s]
         /\ sessions' = sessions \cup {s}
         /\ stale' = stale \ {s}
  /\ call' = [call EXCEPT ![c] = "input"]
  /\ UNCHANGED <<messages, mapping, previous, history, answered>>

AppendInput(c) ==
  /\ call[c] = "input"
  /\ AppendMessage(session[c], [call |-> c, part |-> "input"])
  /\ call' = [call EXCEPT ![c] = "output"]
  /\ UNCHANGED <<sessions, mapping, previous, session, history, answered>>

AppendOutput(c) ==
  /\ call[c] = "output"
  /\ AppendMessage(session[c], [call |-> c, part |-> "output"])
  /\ call' = [call EXCEPT ![c] = "map"]
  /\ UNCHANGED <<sessions, mapping, previous, session, history, answered>>

(* The mapping is stored whether or not the session still exists.           *)
RecordResponseMapping(c) ==
  /\ call[c] = "map"
  /\ mapping' = [mapping EXCEPT ![c] = session[c]]
  /\ call' = [call EXCEPT ![c] = "done"]
  /\ answered' = answered \cup {c}
  /\ UNCHANGED <<sessions, messages, stale, previous, session, history>>

Handle(c) ==
  Arrive(c) \/ Convert(c) \/ AnswerUnrecorded(c) \/ GetOrCreateSession(c) \/ AppendInput(c) \/
  AppendOutput(c) \/ RecordResponseMapping(c)

-----------------------------------------------------------------------------
(* The cleanup, every five minutes *)

GrowStale(s) ==
  /\ s \in sessions \ stale
  /\ stale' = stale \cup {s}
  /\ UNCHANGED <<sessions, messages, mapping, call, previous, session, history, answered>>

ShouldRemove(s) == s \in stale \/ Len(messages[s]) > MaxMessages \/ Cardinality(Outputs(s)) > MaxTokens

Cleanup ==
  LET kept == {s \in sessions : ~ShouldRemove(s)}
  IN  /\ sessions' = kept
      /\ stale' = {}
      /\ messages' = [s \in Calls |-> IF s \in kept THEN messages[s] ELSE << >>]
      /\ mapping' = [c \in Calls |-> IF mapping[c] \in kept THEN mapping[c] ELSE NoSession]
      /\ UNCHANGED <<call, previous, session, history, answered>>

SessionsNext == (\E c \in Calls : Handle(c) \/ GrowStale(c)) \/ Cleanup

SessionsSpec == SessionsInit /\ [][SessionsNext]_sessionVars

-----------------------------------------------------------------------------
(* Properties *)

(* The calls a response descends from, itself included: what every set      *)
(* closed under "continues" has that contains it.                           *)
Ancestors(c) ==
  {d \in Calls : \A family \in SUBSET Calls :
     c \in family /\ (\A e \in family : previous[e] \in family \cup {NoResponse}) => d \in family}

(* A request that continues a response carries every turn that led to that  *)
(* response, or is refused: no cleanup between the lookups, the appends and *)
(* the mapping leaves a conversation with a hole.                           *)
HistoryWhole ==
  \A c \in Calls :
    call[c] \in {"sent", "done"} /\ previous[c] # NoResponse /\ c \notin PassThrough =>
      Ancestors(previous[c]) \subseteq history[c]
=============================================================================
