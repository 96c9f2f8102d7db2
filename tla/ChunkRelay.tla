----------------------------- MODULE ChunkRelay -----------------------------
(***************************************************************************)
(* A streamed answer of the Chat API (handlers/chat/handler.go) or of the  *)
(* Gemini API (handlers/gemini/stream.go): one loop reads the upstream's   *)
(* lines, translates each and writes the result.  Nothing is held back, a  *)
(* failed write is not noticed, and the end of the body is the end of the  *)
(* answer, whether the upstream was done or not.                           *)
(***************************************************************************)
EXTENDS Naturals, SequencesExt

CONSTANTS
  Routes,    \* pairs <<API, serviceType>>: among those of "chat" and "gemini"
             \* with "claude", "openai", "gemini", "responses"
  MaxFeed    \* bound: the lines of an upstream stream

ASSUME ChunkRelayAssumption ==
  Routes \subseteq {"chat", "gemini"} \X {"claude", "openai", "gemini", "responses"}

VARIABLES
  path,
  feed,             \* history: the upstream's lines
  reading,          \* the loop runs
  doneSent,
  currentFuncName,  \* a call is being collected (its name is known)
  functionCalls,    \* calls collected
  heard             \* the chunks written to the client

chunkVars == <<path, feed, reading, doneSent, currentFuncName, functionCalls, heard>>

Reading == INSTANCE ChunkStream
Claude  == INSTANCE MessageStream WITH seen <- << >>
Items   == INSTANCE ResponsesStream WITH seen <- << >>

Chunk(type) == Reading!Chunk(type)

ChunkInit ==
  /\ path \in Routes
  /\ feed = << >> /\ reading = TRUE /\ doneSent = FALSE
  /\ currentFuncName = FALSE /\ functionCalls = 0 /\ heard = << >>

-----------------------------------------------------------------------------
(* The upstream's lines: each upstream keeps to its own protocol *)

DoneLine == [type |-> "[DONE]"]
Fed(type) == \E i \in DOMAIN feed : feed[i].type = type

(* Some upstreams of this type add a [DONE] of their own.                   *)
ClaudeFeed ==
  {e \in Claude!Events : ~ Fed("stop") /\ Claude!Follows(feed, e)}
    \cup (IF Fed("stop") THEN {DoneLine} ELSE {})

(* A choice may carry several parts of the answer, or none of those the     *)
(* relay looks at (a tool call, a role).                                    *)
Choice(parts) == [type |-> "choice", parts |-> parts]
Parts == {"reasoning", "content", "finish"}
OpenAIFeed ==
  LET finished == \E i \in DOMAIN feed : feed[i].type = "choice" /\ "finish" \in feed[i].parts
  IN  IF finished
      THEN {DoneLine} \cup (IF Fed("usage") THEN {} ELSE {[type |-> "usage"]})
      ELSE {Choice(parts) : parts \in SUBSET Parts}

(* The items of an answer come one after the other.  Text and arguments are *)
(* in the field delta of their events, and so is reasoning in those of      *)
(* OpenAI ("inDelta"); other upstreams have reasoning in the field text.    *)
ResponsesFeed ==
  LET added == Items!With(feed, "added")
      open  == added \ Items!With(feed, "done")
      next  == Cardinality(added) + 1
      kind(i) == feed[CHOOSE j \in DOMAIN feed :
                        feed[j].type = "added" /\ feed[j].item = i].kind
  IN  IF Fed("completed") THEN {}
      ELSE IF feed = << >> THEN {Items!Plain("created")}
      ELSE IF open # {}
           THEN {Items!About(t, i, kind(i)) : t \in {"delta", "done"}, i \in open}
                  \cup {Items!About("inDelta", i, "reasoning") :
                          i \in {j \in open : kind(j) = "reasoning"}}
           ELSE {Items!About("added", next, k) : k \in Items!Kinds}
                  \cup {Items!Completed("none", added)}

(* A stream in the client's own format.                                     *)
OwnFeed == {c \in {Chunk(t) : t \in {"reasoning", "content", "finish", "usage", "done"}} :
              Reading!MayFollow(feed, c)}

Passed == path \in {<<"chat", t>> : t \in {"openai", "gemini", "responses"}}
                      \cup {<<"gemini", "gemini">>}

Feed ==
  IF Passed THEN OwnFeed
  ELSE IF Fed("[DONE]") THEN {}
  ELSE CASE path[2] = "claude"    -> ClaudeFeed
         [] path[2] = "openai"    -> OpenAIFeed
         [] path[2] = "responses" -> ResponsesFeed

-----------------------------------------------------------------------------
(* What a line becomes *)

(* Tool calls are dropped; the finish reason is always "stop".              *)
ClaudeToChat(e) ==
  CASE e.type = "piece" /\ e.block = "thinking"        -> <<Chunk("reasoning")>>
    [] e.type \in {"piece", "blank"} /\ e.block = "text" -> <<Chunk("content")>>
    [] e.type \in {"delta", "bare"}                    -> <<Chunk("finish")>>
    [] OTHER                                           -> << >>

(* As for Chat, but a message_delta without usage goes unnoticed.           *)
ClaudeToGemini(e) == IF e.type = "bare" THEN << >> ELSE ClaudeToChat(e)

PartOf(line, type) == IF type \in line.parts THEN <<Chunk(type)>> ELSE << >>

OpenAIToGemini(line) ==
  IF line.type = "usage" THEN <<Chunk("usage")>>
  ELSE PartOf(line, "reasoning") \o PartOf(line, "content") \o PartOf(line, "finish")

(* Calls are collected and sent with the finish reason.  Reasoning is       *)
(* looked for in the field text only: a delta that has it in the field      *)
(* delta is taken for an empty one.                                         *)
ResponsesToGemini(e) ==
  CASE e.type = "delta" /\ e.kind = "reasoning" -> <<Chunk("reasoning")>>
    [] e.type = "delta" /\ e.kind = "message"   -> <<Chunk("content")>>
    [] e.type = "completed"                     -> <<Reading!ChunkWithCalls(functionCalls)>>
    [] OTHER                                    -> << >>

(* The state of ConvertResponsesToGeminiStream.                             *)
CollectCall(e) ==
  IF path = <<"gemini", "responses">> /\ e.type \in {"added", "done"} /\ e.kind = "function_call"
  THEN /\ currentFuncName' = (e.type = "added")
       /\ functionCalls' = IF e.type = "done" /\ currentFuncName THEN functionCalls + 1
                                                                ELSE functionCalls
  ELSE UNCHANGED <<currentFuncName, functionCalls>>

Becoming(line) ==
  IF Passed THEN <<line>>
  ELSE CASE path = <<"chat", "claude">>      -> ClaudeToChat(line)
         [] path = <<"gemini", "claude">>    -> ClaudeToGemini(line)
         [] path = <<"gemini", "openai">>    -> OpenAIToGemini(line)
         [] path = <<"gemini", "responses">> -> ResponsesToGemini(line)

RelayLine ==
  /\ reading /\ Len(feed) < MaxFeed
  /\ \E line \in Feed \ {DoneLine} :
       /\ feed' = Append(feed, line)
       /\ heard' = heard \o Becoming(line)
       /\ CollectCall(line)
  /\ UNCHANGED <<path, reading, doneSent>>

(* [DONE] of the upstream: Chat passes it on and reads on, Gemini stops.    *)
RelayDone ==
  /\ reading /\ DoneLine \in Feed /\ Len(feed) < MaxFeed
  /\ feed' = Append(feed, DoneLine)
  /\ IF path[1] = "chat"
     THEN heard' = Append(heard, Chunk("done")) /\ doneSent' = TRUE /\ UNCHANGED reading
     ELSE reading' = FALSE /\ UNCHANGED <<heard, doneSent>>
  /\ UNCHANGED <<path, currentFuncName, functionCalls>>

(* Mutant: [DONE] is sent although the upstream's own was passed on.        *)
BodyEndsAgain ==
  /\ reading
  /\ reading' = FALSE
  /\ heard' = IF path = <<"chat", "claude">> THEN Append(heard, Chunk("done")) ELSE heard
  /\ UNCHANGED <<path, feed, doneSent, currentFuncName, functionCalls>>

(* The end of the body, or a failed read.                                   *)
BodyEnds ==
  /\ reading
  /\ reading' = FALSE
  /\ heard' = IF path = <<"chat", "claude">> /\ ~ doneSent THEN Append(heard, Chunk("done"))
                                                            ELSE heard
  /\ UNCHANGED <<path, feed, doneSent, currentFuncName, functionCalls>>

ChunkNext == RelayLine \/ RelayDone \/ BodyEnds

ChunkRelaySpec == ChunkInit /\ [][ChunkNext]_chunkVars /\ WF_chunkVars(ChunkNext)

-----------------------------------------------------------------------------
(* Properties *)

(* The client sees a well-formed stream of its own API: no content after    *)
(* the finish reason, nothing after [DONE].                                 *)
ChunkStreamProper == Reading!ChunkSpec

(* The pieces of text and reasoning of lines or of chunks, without the      *)
(* reasoning a Responses upstream sends in the field delta.                 *)
PiecesOf(line) ==
  CASE line.type = "choice" -> (IF "reasoning" \in line.parts THEN <<"reasoning">> ELSE << >>)
                                 \o (IF "content" \in line.parts THEN <<"content">> ELSE << >>)
    [] line.type \in {"reasoning", "content"} -> <<line.type>>
    [] line.type = "delta" /\ "kind" \in DOMAIN line ->
         (CASE line.kind = "message" -> <<"content">>
            [] line.kind = "reasoning" -> <<"reasoning">>
            [] OTHER -> << >>)
    [] line.type = "piece" /\ line.block # "tool" ->
         <<IF line.block = "text" THEN "content" ELSE "reasoning">>
    [] line.type = "blank" /\ line.block = "text" -> <<"content">>
    [] OTHER -> << >>

Pieces(s) == FlattenSeq([i \in DOMAIN s |-> PiecesOf(s[i])])

(* Every piece of text and reasoning the upstream sent arrives, in order,   *)
(* at the latest when the answer ends, but for the reasoning a Responses    *)
(* upstream sends in the field delta ("inDelta"), which a client of Gemini  *)
(* never gets (gemini_to_responses.go, line 362); so do the calls of a      *)
(* Responses upstream; and an answer translated for Chat has its [DONE].    *)
ChunksWhole ==
  /\ Pieces(heard) = Pieces(feed)
  /\ path = <<"gemini", "responses">> /\ Fed("completed") =>
       LET calls == {i \in DOMAIN feed : feed[i].type = "done" /\ feed[i].kind = "function_call"}
       IN  Last(heard).calls = Cardinality(calls)
  /\ path = <<"chat", "claude">> /\ ~ reading => Last(heard) = Chunk("done")
=============================================================================
