---------------------------- MODULE StreamRelay ----------------------------
(***************************************************************************)
(* A streamed answer of the Messages API: the goroutine of the provider    *)
(* that turns the upstream's stream into Claude events (providers/*.go),   *)
(* the two channels it fills, and HandleStreamResponse of                  *)
(* handlers/common/stream.go, which holds the events back until the answer *)
(* has content and then relays them to a client that may leave.            *)
(***************************************************************************)
EXTENDS Naturals, SequencesExt

CONSTANTS
  Providers,  \* among "claude", "openai", "gemini", "responses"
  MaxChunks,  \* bound: the chunks of an upstream stream
  Capacity    \* of eventChan (100 in the code)

ASSUME StreamRelayAssumption == Capacity \in Nat \ {0} /\ MaxChunks \in Nat

VARIABLES
  provider,          \* serviceType of the channel
  chunks,            \* chunks read so far
  upstream,          \* "sending", "completed", "ended", "broken" (the read
                     \* failed), "reported" (and errChan was told)
  messageStartSent,
  block,             \* the content block the provider has open
  toolUse,           \* a tool_use stop reason was seen
  produced,          \* history: the events converted
  outbox,            \* those not yet in eventChan
  eventChan, errChan,
  closed,            \* eventChan is closed
  pc,                \* the handler: "preflight", "relay", "done"
  buffered,          \* BufferedEvents that have not been replayed
  rejected,          \* BlacklistReason # ""
  result,            \* what HandleStreamResponse returned
  draining,          \* drainChannels runs
  listening,         \* the client is there
  clientGone,        \* a write found that it is not
  hasDeltaUsage,     \* HasMessageDeltaUsage
  written            \* what the client received

upstreamVars == <<provider, chunks, upstream, messageStartSent, block, toolUse, produced, outbox>>
channelVars  == <<eventChan, errChan, closed>>
handlerVars  == <<pc, buffered, rejected, result, draining>>
clientVars   == <<clientGone, hasDeltaUsage, written>>
relayVars    == <<upstreamVars, channelVars, handlerVars, clientVars, listening>>

Client == INSTANCE MessageStream WITH seen <- written

Bare(type)      == Client!Bare(type)
Within(type, b) == Client!Within(type, b)

RelayInit ==
  /\ provider \in Providers
  /\ chunks = 0 /\ upstream = "sending" /\ produced = << >> /\ outbox = << >>
  /\ messageStartSent = FALSE /\ block = "none" /\ toolUse = FALSE
  /\ eventChan = << >> /\ errChan = << >> /\ closed = FALSE
  /\ pc = "preflight" /\ buffered = << >> /\ rejected = FALSE
  /\ result = "none" /\ draining = FALSE
  /\ listening = TRUE /\ clientGone = FALSE /\ hasDeltaUsage = FALSE /\ written = << >>

-----------------------------------------------------------------------------
(* The provider's goroutine *)

StartIfNeeded == IF messageStartSent THEN << >> ELSE <<Bare("start")>>

(* Mutant: the block that is open stays open.                               *)
CloseBlockNever == << >>
CloseBlock == IF block = "none" THEN << >> ELSE <<Within("close", block)>>
ToolUsePart == <<Within("open", "tool"), Within("piece", "tool"), Within("close", "tool")>>
StopReason  == IF toolUse THEN "tool" ELSE "none"

(* Block b is opened; another block that is open is closed first.           *)
OpenBlock(b) == IF block = b THEN << >> ELSE CloseBlock \o <<Within("open", b)>>
Piece(b, type) == StartIfNeeded \o OpenBlock(b) \o <<Within(type, b)>>

Emit(events) == outbox' = events /\ produced' = produced \o events

(* A chunk becomes these events, which leave b open.                        *)
Becomes(events, b) == Emit(events) /\ block' = b

(* OpenAI: reasoning and text are never empty.  A tool call is kept until   *)
(* its arguments are complete; its first part closes the open block, and so *)
(* does finish_reason.                                                      *)
OpenAIChunk ==
  \/ /\ \E b \in {"thinking", "text"} : Becomes(Piece(b, "piece"), b)
     /\ messageStartSent' = TRUE /\ UNCHANGED toolUse
  \/ /\ \E part \in {<< >>, ToolUsePart} : Becomes(StartIfNeeded \o CloseBlock \o part, "none")
     /\ messageStartSent' = TRUE /\ UNCHANGED toolUse
  \/ /\ Becomes(CloseBlock, "none")
     /\ toolUse' \in {toolUse, TRUE} /\ UNCHANGED messageStartSent

(* Gemini: a text part may be empty.                                        *)
GeminiChunk ==
  /\ UNCHANGED toolUse
  /\ \/ /\ \E type \in {"piece", "blank"} : Becomes(Piece("text", type), "text")
        /\ messageStartSent' = TRUE
     \/ /\ Becomes(StartIfNeeded \o CloseBlock \o ToolUsePart, "none")
        /\ messageStartSent' = TRUE
     \/ Becomes(CloseBlock, "none") /\ UNCHANGED messageStartSent

(* Responses: the items of an answer come one after the other.  An empty    *)
(* text delta opens the block and adds nothing.                             *)
ResponsesChunk ==
  \/ /\ block # "tool"
     /\ \E part \in {<< >>, <<Within("piece", "text")>>} :
          Becomes(StartIfNeeded \o OpenBlock("text") \o part, "text")
     /\ messageStartSent' = TRUE /\ UNCHANGED toolUse
  \/ /\ block # "tool"
     /\ Becomes(StartIfNeeded \o CloseBlock \o <<Within("open", "tool")>>, "tool")
     /\ messageStartSent' = TRUE /\ UNCHANGED toolUse
  \/ /\ block = "tool"
     /\ Becomes(<<Within("piece", "tool"), Within("close", "tool")>>, "none")
     /\ toolUse' = TRUE /\ UNCHANGED messageStartSent

(* Claude: the upstream's own events.  It keeps to the protocol, but may    *)
(* leave out the usage, and sends only errors after an error and nothing    *)
(* after message_stop.                                                      *)
ClaudeChunk ==
  \E e \in Client!Events :
    /\ Client!Follows(produced, e)
    /\ \A i \in DOMAIN produced : produced[i].type # "stop"
    /\ Becomes(<<e>>, "none")
    /\ toolUse' = (toolUse \/ (e.type \in {"delta", "bare"} /\ e.block = "tool"))
    /\ UNCHANGED messageStartSent

(* The goroutine is at scanner.Scan; the handler's return closes the body.  *)
Scanning == outbox = << >> /\ upstream \in {"sending", "completed"}

ReadChunk ==
  /\ Scanning /\ upstream = "sending" /\ pc # "done" /\ chunks < MaxChunks
  /\ chunks' = chunks + 1
  /\ \/ provider = "claude" /\ ClaudeChunk
     \/ provider = "openai" /\ OpenAIChunk
     \/ provider = "gemini" /\ GeminiChunk
     \/ provider = "responses" /\ ResponsesChunk
  /\ UNCHANGED <<provider, upstream, channelVars, handlerVars, clientVars, listening>>

(* response.completed                                                       *)
ReadCompleted ==
  /\ Scanning /\ upstream = "sending" /\ pc # "done"
  /\ provider = "responses" /\ block # "tool"
  /\ Becomes(CloseBlock \o StartIfNeeded \o <<Within("delta", StopReason), Bare("stop")>>, "none")
  /\ upstream' = "completed" /\ messageStartSent' = TRUE
  /\ UNCHANGED <<provider, chunks, toolUse, channelVars, handlerVars, clientVars, listening>>

(* An error object among the chunks of an OpenAI stream.                    *)
ReadError ==
  /\ Scanning /\ upstream = "sending" /\ pc # "done" /\ provider = "openai"
  /\ errChan' = <<"error">> /\ upstream' = "reported"
  /\ UNCHANGED <<provider, chunks, messageStartSent, block, toolUse, produced, outbox, eventChan,
                 closed, handlerVars, clientVars, listening>>

(* The end of the stream, or a failed read: OpenAI and Gemini close what is *)
(* open and, unless the read failed, end the message.                       *)
ScanEnds ==
  /\ Scanning
  /\ upstream' \in {"ended", "broken"}
  /\ LET usage  == IF provider = "openai" THEN "bare" ELSE "delta"
         ending == IF messageStartSent /\ upstream' = "ended"
                   THEN <<Within(usage, StopReason), Bare("stop")>>
                   ELSE << >>
     IN  IF provider \in {"openai", "gemini"} THEN Becomes(CloseBlock \o ending, "none")
                                              ELSE Becomes(<< >>, block)
  /\ UNCHANGED <<provider, chunks, messageStartSent, toolUse, channelVars, handlerVars,
                 clientVars, listening>>

Send ==
  /\ outbox # << >> /\ Len(eventChan) < Capacity
  /\ eventChan' = Append(eventChan, Head(outbox))
  /\ outbox' = Tail(outbox)
  /\ UNCHANGED <<provider, chunks, upstream, messageStartSent, block, toolUse, produced, errChan,
                 closed, handlerVars, clientVars, listening>>

Report ==
  /\ upstream = "broken" /\ outbox = << >> /\ ~ closed
  /\ errChan' = <<"error">> /\ upstream' = "reported"
  /\ UNCHANGED <<provider, chunks, messageStartSent, block, toolUse, produced, outbox, eventChan,
                 closed, handlerVars, clientVars, listening>>

(* After a tool call a lost connection is taken for the client's doing and  *)
(* not reported.                                                            *)
Hushed == upstream = "broken" /\ toolUse /\ provider \in {"claude", "openai"}

Close ==
  /\ ~ closed /\ outbox = << >> /\ (upstream \in {"ended", "reported"} \/ Hushed)
  /\ closed' = TRUE
  /\ UNCHANGED <<upstreamVars, eventChan, errChan, handlerVars, clientVars, listening>>

Provide == ReadChunk \/ ReadCompleted \/ ReadError \/ ScanEnds \/ Send \/ Report \/ Close

-----------------------------------------------------------------------------
(* The handler: nothing is sent before the answer has content *)

Return(outcome) == pc' = "done" /\ result' = outcome

(* Mutant: what is left in the channels is not drained.                     *)
RetreatLeaving(outcome) == Return(outcome) /\ UNCHANGED draining
Retreat(outcome) == Return(outcome) /\ draining' = TRUE

(* An error that blacklists the key comes first, with or without content.   *)
Accept(blacklist) ==
  IF blacklist THEN Retreat("blacklist") ELSE pc' = "relay" /\ UNCHANGED <<result, draining>>
Refuse(blacklist) == Retreat(IF blacklist THEN "blacklist" ELSE "empty")

HasContent(e) ==
  \/ e.type = "piece"
  \/ e.type \in {"open", "delta", "bare"} /\ e.block = "tool"

PreflightEvent ==
  /\ pc = "preflight" /\ eventChan # << >>
  /\ LET e == Head(eventChan)
         blacklist == rejected \/ e.type = "rejected"
     IN  /\ buffered' = Append(buffered, e)
         /\ rejected' = blacklist
         /\ IF HasContent(e) THEN Accept(blacklist)
            ELSE IF e.type = "stop" THEN Refuse(blacklist)
            ELSE UNCHANGED <<pc, result, draining>>
  /\ eventChan' = Tail(eventChan)
  /\ UNCHANGED <<upstreamVars, errChan, closed, clientVars, listening>>

PreflightClosed ==
  /\ pc = "preflight" /\ eventChan = << >> /\ closed
  /\ Refuse(rejected)
  /\ UNCHANGED <<upstreamVars, channelVars, buffered, rejected, clientVars, listening>>

PreflightError ==
  /\ pc = "preflight" /\ errChan # << >>
  /\ errChan' = << >>
  /\ Retreat("error")
  /\ UNCHANGED <<upstreamVars, eventChan, closed, buffered, rejected, clientVars, listening>>

(* After 30 seconds the answer is let through as it is.                     *)
PreflightTimeout ==
  /\ pc = "preflight"
  /\ Accept(rejected)
  /\ UNCHANGED <<upstreamVars, channelVars, buffered, rejected, clientVars, listening>>

(* The goroutines of drainChannels.                                         *)
Drain ==
  /\ draining
  /\ \/ eventChan # << >> /\ eventChan' = Tail(eventChan) /\ UNCHANGED errChan
     \/ errChan # << >> /\ errChan' = << >> /\ UNCHANGED eventChan
  /\ UNCHANGED <<upstreamVars, closed, handlerVars, clientVars, listening>>

-----------------------------------------------------------------------------
(* The handler: replaying and relaying *)

(* Writing to a client that has left is how the handler learns of it.       *)
Write(e) == IF listening /\ ~ clientGone THEN written' = Append(written, e) ELSE UNCHANGED written

(* The next event: those held back are replayed first.                      *)
Upcoming == IF buffered # << >> THEN buffered ELSE eventChan
LacksUsage(e) == e.type = "stop" /\ ~ hasDeltaUsage /\ ~ clientGone

InjectUsage ==
  /\ pc = "relay" /\ Upcoming # << >> /\ LacksUsage(Head(Upcoming))
  /\ Write(Bare("delta"))
  /\ hasDeltaUsage' = TRUE
  /\ UNCHANGED <<upstreamVars, channelVars, handlerVars, clientGone, listening>>

(* EnsureMessageDeltaUsage                                                  *)
WithUsage(e) == IF e.type = "bare" THEN Within("delta", e.block) ELSE e

TellsUsage(e) == e.type \in {"delta", "bare"}

Forward ==
  /\ pc = "relay" /\ Upcoming # << >> /\ ~ LacksUsage(Head(Upcoming))
  /\ LET e == Head(Upcoming)
     IN  /\ Write(WithUsage(e))
         /\ hasDeltaUsage' = (hasDeltaUsage \/ TellsUsage(e))
  /\ clientGone' = (clientGone \/ ~ listening)
  /\ IF buffered # << >> THEN buffered' = Tail(buffered) /\ UNCHANGED eventChan
                         ELSE eventChan' = Tail(eventChan) /\ UNCHANGED buffered
  /\ UNCHANGED <<upstreamVars, errChan, closed, pc, rejected, result, draining, listening>>

(* Only when eventChan is empty does a receive find it closed, but the      *)
(* select may take it although errChan holds an error.                      *)
RelayClosed ==
  /\ pc = "relay" /\ Upcoming = << >> /\ closed
  /\ Return("success")
  /\ UNCHANGED <<upstreamVars, channelVars, buffered, rejected, draining, clientVars, listening>>

RelayError ==
  /\ pc = "relay" /\ buffered = << >> /\ errChan # << >>
  /\ errChan' = << >>
  /\ Write(Bare("fault"))
  /\ Return("error")
  /\ UNCHANGED <<upstreamVars, eventChan, closed, buffered, rejected, draining, clientGone,
                 hasDeltaUsage, listening>>

Handle ==
  \/ PreflightEvent \/ PreflightClosed \/ PreflightError
  \/ InjectUsage \/ Forward \/ RelayClosed \/ RelayError

ClientLeaves ==
  /\ listening /\ pc # "done"
  /\ listening' = FALSE
  /\ UNCHANGED <<upstreamVars, channelVars, handlerVars, clientVars>>

RelayNext == Provide \/ Handle \/ PreflightTimeout \/ Drain \/ ClientLeaves

(* Go runs what can run, and an upstream that falls silent is cut off.      *)
RelaySpec ==
  RelayInit /\ [][RelayNext]_relayVars
  /\ WF_relayVars(Provide) /\ WF_relayVars(Handle) /\ WF_relayVars(Drain)

-----------------------------------------------------------------------------
(* Properties *)

(* The client of every provider sees a stream of the Messages API whose     *)
(* usage is told before its end.                                            *)
ClientStreamProper == Client!MessageSpec

(* The events but those that tell the usage.                                *)
Content(s) == FlattenSeq([i \in DOMAIN s |-> IF TellsUsage(s[i]) THEN << >> ELSE <<s[i]>>])

(* A stream that came to its end reaches the client whole: no event that    *)
(* was held back, buffered or converted is lost, repeated or moved.         *)
StreamWhole ==
  result = "success" /\ listening /\ upstream = "ended" => Content(written) = Content(produced)

(* Claimed of handled, which an error makes true: a response was written.   *)
HandledWasAnswered == result = "error" /\ listening => written # << >>
=============================================================================
