-------------------------- MODULE ResponsesConvert --------------------------
(***************************************************************************)
(* The line-by-line converters to the Responses stream                     *)
(* (converters/claude_to_responses.go, chat_to_responses.go and            *)
(* responses_to_gemini.go) as functions from a converter state and a line  *)
(* to the next state and the events.  A line is [type, block, n].          *)
(***************************************************************************)
EXTENDS Naturals, FiniteSets, SequencesExt

Shape == INSTANCE ResponsesStream WITH seen <- << >>
About(type, item, kind) == Shape!About(type, item, kind)

Line(type, block, n) == [type |-> type, block |-> block, n |-> n]

Nowhere == 99   \* an index that has not been given out (-1 in the code)

(* The *State structs: claude uses active, index, next and filled; gemini   *)
(* and chat one reasoning item and one message; chat its tool calls, and    *)
(* gemini the number of them.  partAdded and msg stay when an item is done. *)
FreshState ==
  [first |-> TRUE, next |-> 0, active |-> "none", index |-> 0, filled |-> FALSE,
   output |-> {}, calls |-> {}, called |-> FALSE,
   reasoning |-> Nowhere, inReasoning |-> FALSE, message |-> Nowhere, inText |-> FALSE]

Result(st, out) == [st |-> st, out |-> out]
Then(r, f(_)) == LET next == f(r.st) IN Result(next.st, r.out \o next.out)

-----------------------------------------------------------------------------
(* Claude: an item per content block, numbered as they open *)

ItemKind(block) ==
  CASE block = "thinking" -> "reasoning" [] block = "text" -> "message" [] OTHER -> "function_call"

StartItem(st, block) ==
  Result([st EXCEPT !.active = block, !.index = st.next, !.next = @ + 1, !.filled = FALSE],
         <<About("added", st.next, ItemKind(block))>>)

FillItem(st) ==
  Result([st EXCEPT !.filled = TRUE], <<About("delta", st.index, ItemKind(st.active))>>)

(* An item without content is finished but not listed; a call always is.    *)
CloseItem(st) ==
  IF st.active = "none" THEN Result(st, << >>)
  ELSE Result([st EXCEPT !.active = "none",
                         !.output = IF st.filled \/ st.active = "tool" THEN @ \cup {st.index} ELSE @,
                         !.called = @ \/ st.active = "tool" \/ (st.active = "thinking" /\ st.filled)],
              <<About("done", st.index, ItemKind(st.active))>>)

Complete(st) ==
  Result(st, <<Shape!Completed(IF st.called THEN "function_call" ELSE "none", st.output)>>)

ClaudeLine(st, line) ==
  CASE line.type = "open" -> StartItem(st, line.block)
    [] line.type = "piece" /\ st.active = line.block -> FillItem(st)
    [] line.type = "piece" /\ st.active # line.block /\ line.block # "tool" ->
         Then(StartItem(st, line.block), FillItem)
    [] line.type = "close" -> CloseItem(st)
    [] line.type = "stop" -> Then(CloseItem(st), Complete)
    [] OTHER -> Result(st, << >>)

-----------------------------------------------------------------------------
(* Pieces that gemini and chat share: one reasoning item, one message *)

CloseReasoning(st) ==
  IF st.inReasoning
  THEN Result([st EXCEPT !.inReasoning = FALSE], <<About("done", st.reasoning, "reasoning")>>)
  ELSE Result(st, << >>)

CloseText(st) ==
  IF st.inText
  THEN Result([st EXCEPT !.inText = FALSE], <<About("done", st.message, "message")>>)
  ELSE Result(st, << >>)

(* The item of a piece gets index unless it is open; then the piece.        *)
Reason(st, index) ==
  Result([st EXCEPT !.reasoning = index, !.inReasoning = TRUE, !.called = TRUE],
         (IF st.inReasoning THEN << >> ELSE <<About("added", index, "reasoning")>>)
           \o <<About("delta", index, "reasoning")>>)

Say(st, index) ==
  Result([st EXCEPT !.message = index, !.inText = TRUE],
         (IF st.inText THEN << >> ELSE <<About("added", index, "message")>>)
           \o <<About("delta", index, "message")>>)

Given(st) == {st.reasoning, st.message} \ {Nowhere}

-----------------------------------------------------------------------------
(* Gemini: calls are collected and told in response.completed only *)

GiveOut(st, index) ==
  IF index = Nowhere THEN <<st.next, [st EXCEPT !.next = @ + 1]>> ELSE <<index, st>>

GeminiText(st) ==
  Then(CloseReasoning(st), LAMBDA s : LET given == GiveOut(s, s.message) IN Say(given[2], given[1]))

(* A last chunk without content is skipped, its finishReason with it.       *)
GeminiLine(st, line) ==
  CASE line.type = "thought" -> LET given == GiveOut(st, st.reasoning) IN Reason(given[2], given[1])
    [] line.type = "text" -> GeminiText(st)
    [] line.type = "call" -> Result([st EXCEPT !.called = TRUE], << >>)
    [] line.type = "finish" ->
         Then(Then(CloseReasoning(st), CloseText), LAMBDA s : Complete([s EXCEPT !.output = Given(s)]))
    [] OTHER -> Result(st, << >>)

-----------------------------------------------------------------------------
(* Chat: the index of a call is its number, after the reasoning and message *)

CallIndex(st, n) == n + Cardinality(Given(st))

Calls(st) == [i \in 1..Cardinality(st.calls) |-> CallIndex(st, i - 1)]

CloseFuncBlocks(st) ==
  IF st.active # "tool" THEN Result(st, << >>)
  ELSE Result([st EXCEPT !.active = "none"],
              [i \in DOMAIN Calls(st) |-> About("done", Calls(st)[i], "function_call")])

AddCall(st, n) ==
  Result([st EXCEPT !.calls = @ \cup {n}, !.active = "tool", !.called = TRUE],
         IF n \in st.calls THEN << >> ELSE <<About("added", CallIndex(st, n), "function_call")>>)

CloseAll(st) == Then(Then(CloseReasoning(st), CloseText), CloseFuncBlocks)

GenerateCompleted(st) ==
  Then(CloseAll(st), LAMBDA s : Complete([s EXCEPT !.output = Given(s) \cup Range(Calls(s))]))

(* A message's index is worked out anew for each event: reasoning that      *)
(* comes after text moves it.                                               *)
MoveMessage(st) == [st EXCEPT !.message = IF @ = Nowhere THEN Nowhere ELSE 1]

ChatLine(st, line) ==
  CASE line.type = "reasoning" -> Reason(MoveMessage(st), 0)
    [] line.type = "text" ->
         Then(CloseReasoning(st), LAMBDA s : Say(s, IF s.reasoning = Nowhere THEN 0 ELSE 1))
    [] line.type = "call" ->
         Then(Then(CloseReasoning(st), CloseText), LAMBDA s : AddCall(s, line.n))
    [] line.type = "args" ->
         Then(Then(CloseReasoning(st), CloseText),
              LAMBDA s : Result(s, <<About("delta", CallIndex(s, line.n), "function_call")>>))
    [] line.type = "finish" -> CloseAll(st)
    [] OTHER -> Result(st, << >>)

-----------------------------------------------------------------------------

Opened(st) ==
  IF st.first
  THEN Result([st EXCEPT !.first = FALSE], <<Shape!Plain("created"), Shape!Plain("progress")>>)
  ELSE Result(st, << >>)

(* [DONE] completes a chat stream even before its first chunk.              *)
ConvertLine(source, st, line) ==
  CASE source = "claude" -> Then(Opened(st), LAMBDA s : ClaudeLine(s, line))
    [] source = "gemini" -> Then(Opened(st), LAMBDA s : GeminiLine(s, line))
    [] source = "chat" /\ line.type = "[DONE]" -> GenerateCompleted(st)
    [] source = "chat" /\ line.type # "[DONE]" -> Then(Opened(st), LAMBDA s : ChatLine(s, line))
=============================================================================
