--------------------------- MODULE ResponsesRelay ---------------------------
(***************************************************************************)
(* A streamed answer of the Responses API: handleStreamSuccess of          *)
(* handlers/responses/handler.go, which scans the upstream's lines in a    *)
(* goroutine, converts them to look for content before anything is sent,   *)
(* and then converts them again, from a fresh state, for the client.       *)
(***************************************************************************)
EXTENDS ResponsesConvert

CONSTANTS
  Sources,    \* upstreamType: among "claude", "gemini", "chat", "responses"
  MaxLines,   \* bound: the lines of an upstream stream
  MaxItems    \* bound: the calls of a chat stream, the items of a Responses stream

ASSUME ResponsesRelayAssumption ==
  Sources \subseteq {"claude", "gemini", "chat", "responses"} /\ MaxItems \in Nat

VARIABLES
  source,
  sent,           \* history: the upstream's lines
  scan,           \* "scanning", "ended", "broken", "stopped"
  lineChan,
  scanDone,
  phase,          \* the handler: "preflight", "replay", "done"
  bufferedLines,
  converterState,
  blacklisted,    \* blacklistReason # ""
  returned,       \* what handleStreamSuccess returned
  unwritten,      \* eventsToProcess that are not written yet
  present,        \* the client is there
  gone,           \* clientGone
  received        \* what the client received

scannerVars   == <<source, sent, scan, lineChan>>
preflightVars == <<phase, bufferedLines, converterState, blacklisted, returned, scanDone>>
streamVars    == <<scannerVars, preflightVars, unwritten, present, gone, received>>

Reader   == INSTANCE ResponsesStream WITH seen <- received
Upstream == INSTANCE MessageStream WITH seen <- << >>

(* scanLine{ok: false}                                                      *)
TheEnd == Line("end", "none", 0)

StreamInit ==
  /\ source \in Sources
  /\ sent = << >> /\ scan = "scanning" /\ lineChan = << >> /\ scanDone = FALSE
  /\ phase = "preflight" /\ bufferedLines = << >> /\ converterState = FreshState
  /\ blacklisted = FALSE /\ returned = "none"
  /\ unwritten = << >> /\ present = TRUE /\ gone = FALSE /\ received = << >>

-----------------------------------------------------------------------------
(* The upstream keeps to its own protocol until it fails *)

Plain(type) == Line(type, "none", 0)
Failures    == {Plain("fault"), Plain("rejected")}
Types(s)    == {s[i].type : i \in DOMAIN s}

ClaudeLines ==
  LET lines == {Plain(type) : type \in {"start", "delta", "stop"}}
                 \cup [type : {"open", "piece", "close"}, block : Upstream!Blocks, n : {0}]
  IN  {line \in lines : "stop" \notin Types(sent) /\ Upstream!Follows(sent, line)}

(* A last chunk with content and a finishReason is two lines; "bare" is one *)
(* that has only the finishReason.                                          *)
GeminiLines ==
  IF Types(sent) \cap {"finish", "bare"} # {} THEN {}
  ELSE {Plain("call"), Plain("text"), Plain("thought"), Plain("bare")}
         \cup (IF sent = << >> THEN {} ELSE {Plain("finish")})

(* Reasoning, text and calls in any mixture, then the end.                  *)
Rank(type) ==
  CASE type \in {"reasoning", "text", "call", "args"} -> 1
    [] type = "finish" -> 2 [] type = "usage" -> 3 [] type = "[DONE]" -> 4
ChatLines ==
  LET lines == {Plain(type) : type \in {"reasoning", "text", "finish", "usage", "[DONE]"}}
                 \cup [type : {"call", "args"}, block : {"none"}, n : 0..(MaxItems - 1)]
      called == {sent[i].n : i \in {j \in DOMAIN sent : sent[j].type = "call"}}
  IN  {line \in lines :
         /\ sent # << >> => \/ Rank(line.type) > Rank(Last(sent).type)
                            \/ Rank(line.type) = 1 /\ Rank(Last(sent).type) = 1
         /\ line.type = "[DONE]" => sent # << >>
         /\ line.type = "call" => line.n = Cardinality(called)
         /\ line.type = "args" => line.n \in called}

(* Lines that pass through are events of the Responses stream.              *)
ResponsesLines ==
  LET items == [type : {"added", "delta", "done"}, item : 0..(MaxItems - 1),
                kind : Reader!Kinds, output : {{}}]
      kindOf(i) == sent[CHOOSE j \in DOMAIN sent : sent[j].type = "added" /\ sent[j].item = i].kind
      kinds  == {sent[i].kind : i \in DOMAIN sent} \cap {"reasoning", "function_call"}
      ends   == {Reader!Completed(IF kinds = {} THEN "none" ELSE "function_call",
                                  Reader!With(sent, "added"))}
  IN  {line \in items \cup ends \cup {Reader!Plain("created"), Reader!Plain("progress")} :
         /\ Reader!Follows(sent, line)
         /\ line.type = "added" => line.item = Cardinality(Reader!With(sent, "added"))
         /\ line.type \in {"delta", "done"} => line.kind = kindOf(line.item)}

Spoken ==
  CASE source = "claude" -> ClaudeLines
    [] source = "gemini" -> GeminiLines
    [] source = "chat" -> ChatLines
    [] source = "responses" -> ResponsesLines

FailureOf == IF source = "responses" THEN {Reader!Plain("fault"), Reader!Plain("rejected")}
                                     ELSE Failures

-----------------------------------------------------------------------------
(* The goroutine that scans the body *)

ReadLine ==
  /\ scan = "scanning" /\ lineChan = << >> /\ phase # "done" /\ Len(sent) < MaxLines
  /\ Types(sent) \cap {"fault", "rejected"} = {}
  /\ \E line \in Spoken \cup FailureOf : sent' = Append(sent, line) /\ lineChan' = <<line>>
  /\ UNCHANGED <<source, scan, preflightVars, unwritten, present, gone, received>>

ScanOver ==
  /\ scan = "scanning" /\ lineChan = << >> /\ ~ scanDone
  /\ scan' \in {"ended", "broken"}
  /\ lineChan' = <<TheEnd>>
  /\ UNCHANGED <<source, sent, preflightVars, unwritten, present, gone, received>>

(* scanDone frees the goroutine, and the body is closed after the return.   *)
StopScanning ==
  /\ scan = "scanning" /\ scanDone
  /\ scan' = "stopped"
  /\ UNCHANGED <<source, sent, lineChan, preflightVars, unwritten, present, gone, received>>

-----------------------------------------------------------------------------
(* The handler *)

Convert(st, line) == IF source = "responses" THEN Result(st, <<line>>) ELSE ConvertLine(source, st, line)

(* HasResponsesSemanticContent, text, or a call listed at the end.          *)
ShowsContent(e) == e.type = "delta" \/ e.kind \in {"reasoning", "function_call"}

(* close(scanDone) before an early return.                                  *)
GiveUp(outcome) == phase' = "done" /\ returned' = outcome /\ scanDone' = TRUE

(* Mutant: the state of the first conversion is kept for the replay.        *)
LetThroughAsIs(blacklist) ==
  IF blacklist THEN GiveUp("blacklist") /\ UNCHANGED converterState
  ELSE phase' = "replay" /\ UNCHANGED <<returned, scanDone, converterState>>
LetThrough(blacklist) ==
  IF blacklist THEN GiveUp("blacklist") /\ UNCHANGED converterState
  ELSE phase' = "replay" /\ converterState' = FreshState /\ UNCHANGED <<returned, scanDone>>

TurnDown(blacklist) == GiveUp(IF blacklist THEN "blacklist" ELSE "empty")

PreflightLine ==
  /\ phase = "preflight" /\ lineChan # << >> /\ Head(lineChan) # TheEnd
  /\ LET line == Head(lineChan)
         step == Convert(converterState, line)
         blacklist == blacklisted \/ line.type = "rejected"
     IN  /\ bufferedLines' = Append(bufferedLines, line)
         /\ blacklisted' = blacklist
         /\ IF \E e \in Range(step.out) : ShowsContent(e) THEN LetThrough(blacklist)
            ELSE /\ converterState' = step.st
                 /\ IF \E e \in Range(step.out) : e.type = "completed" THEN TurnDown(blacklist)
                    ELSE UNCHANGED <<phase, returned, scanDone>>
  /\ lineChan' = << >>
  /\ UNCHANGED <<source, sent, scan, unwritten, present, gone, received>>

PreflightOver ==
  /\ phase = "preflight" /\ lineChan = <<TheEnd>>
  /\ TurnDown(blacklisted)
  /\ lineChan' = << >>
  /\ UNCHANGED <<source, sent, scan, bufferedLines, converterState, blacklisted, unwritten,
                 present, gone, received>>

(* After 30 seconds the answer is let through as it is.                     *)
PreflightExpires ==
  /\ phase = "preflight"
  /\ LetThrough(blacklisted)
  /\ UNCHANGED <<scannerVars, bufferedLines, blacklisted, unwritten, present, gone, received>>

(* processLine: the lines held back are converted again, then the others.   *)
ProcessLine ==
  /\ phase = "replay" /\ unwritten = << >>
  /\ LET lines == IF bufferedLines # << >> THEN bufferedLines ELSE lineChan
     IN  /\ lines # << >> /\ Head(lines) # TheEnd
         /\ LET step == Convert(converterState, Head(lines))
            IN  converterState' = step.st /\ unwritten' = step.out
  /\ IF bufferedLines # << >> THEN bufferedLines' = Tail(bufferedLines) /\ UNCHANGED lineChan
                              ELSE lineChan' = Tail(lineChan) /\ UNCHANGED bufferedLines
  /\ UNCHANGED <<source, sent, scan, scanDone, phase, blacklisted, returned, present, gone, received>>

WriteEvent ==
  /\ phase = "replay" /\ unwritten # << >>
  /\ unwritten' = Tail(unwritten)
  /\ IF present /\ ~ gone THEN received' = Append(received, Head(unwritten)) ELSE UNCHANGED received
  /\ gone' = (gone \/ ~ present)
  /\ UNCHANGED <<scannerVars, preflightVars, present>>

(* A failed read is logged and otherwise taken for the end.                 *)
LinesOver ==
  /\ phase = "replay" /\ unwritten = << >> /\ bufferedLines = << >> /\ lineChan = <<TheEnd>>
  /\ phase' = "done" /\ returned' = "success" /\ lineChan' = << >>
  /\ UNCHANGED <<source, sent, scan, scanDone, bufferedLines, converterState, blacklisted,
                 unwritten, present, gone, received>>

ReaderLeaves ==
  /\ present /\ phase # "done"
  /\ present' = FALSE
  /\ UNCHANGED <<scannerVars, preflightVars, unwritten, gone, received>>

Scan   == ReadLine \/ ScanOver \/ StopScanning
Answer == PreflightLine \/ PreflightOver \/ ProcessLine \/ WriteEvent \/ LinesOver

StreamNext == Scan \/ Answer \/ PreflightExpires \/ ReaderLeaves

(* Go runs what can run, and an upstream that falls silent is cut off.      *)
StreamSpec ==
  StreamInit /\ [][StreamNext]_streamVars /\ WF_streamVars(Scan) /\ WF_streamVars(Answer)

-----------------------------------------------------------------------------
(* Properties *)

(* The orders the converters of Chat and Gemini are made for: a Chat        *)
(* upstream thinks before it speaks and speaks before it calls, and one of  *)
(* Gemini does not go back to its thoughts once text has interrupted them.  *)
InTurn(lines) ==
  /\ source = "chat" => \A i, j \in DOMAIN lines : i < j =>
       /\ lines[j].type = "reasoning" => lines[i].type = "reasoning"
       /\ lines[j].type = "text" => lines[i].type \in {"reasoning", "text"}
  /\ source = "gemini" => \A i, j, k \in DOMAIN lines :
       i < j /\ j < k /\ lines[i].type = "thought" /\ lines[j].type = "text" =>
         lines[k].type # "thought"

(* Whatever the upstream is, the client sees a stream of the Responses API: *)
(* items that do not share an index, filled only while they are open, and   *)
(* response.completed after all of them are done and with all of them.  The *)
(* exception is an upstream that does not keep to InTurn: of Chat, items    *)
(* take each other's index (chat_to_responses.go, lines 237 and 279-306),   *)
(* of Gemini the reasoning is announced again under the index it had        *)
(* (responses_to_gemini.go, lines 378-390).                                 *)
ResponseStreamProper == received = << >> /\ [][InTurn(sent) => Reader!OneMore]_received

(* What lines convert to, each from the state the one before it has left.   *)
Converted(lines) ==
  LET upTo[n \in 0..Len(lines)] ==
        IF n = 0 THEN Result(FreshState, << >>)
                 ELSE Then(upTo[n - 1], LAMBDA st : Convert(st, lines[n]))
  IN  upTo[Len(lines)]

(* The answer of an upstream that came to its end is what its lines convert *)
(* to: that they were converted once before, to look for content, and held  *)
(* back meanwhile does not show.                                            *)
ConvertedWhole ==
  returned = "success" /\ scan = "ended" /\ present => received = Converted(sent).out
=============================================================================
