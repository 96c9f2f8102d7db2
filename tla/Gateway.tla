------------------------------ MODULE Gateway ------------------------------
(***************************************************************************)
(* One request on its way through the handler of its endpoint to one       *)
(* answer: the handlers of the five APIs and of compact, the walk over the *)
(* channels and over the (BaseURL, key) pairs of each, and what the        *)
(* handlers do with an upstream's response.  Which channel or key comes    *)
(* next, and the relays of streams, are the subject of other modules; here *)
(* it matters who writes to the client, and when the walk goes on.         *)
(***************************************************************************)
EXTENDS Naturals, FiniteSets

CONSTANTS
  Endpoints,     \* among "messages", "responses", "chat", "gemini", "images", "compact"
  Upstreams,     \* the channels of the endpoint
  MaxPairs       \* bound: (BaseURL, key) pairs of a channel

VARIABLES
  endpoint,
  streaming,     \* the client asked for a stream
  fuzzy,         \* fuzzy mode
  stage,         \* "arrived", "read", "single", "select", "try", "sent", "answer", "done"
  failedChannels,
  multi,         \* IsMultiChannelMode
  pairs,         \* pairs of the current channel that have been tried
  connected,     \* the client is there
  answers,       \* history: responses begun
  ending,        \* history: how the handler ended
  blamed         \* history: keys marked as failed after the client had left

gatewayVars ==
  <<endpoint, streaming, fuzzy, stage, failedChannels, multi, pairs, connected, answers,
    ending, blamed>>

GatewayInit ==
  /\ endpoint \in Endpoints
  /\ streaming \in BOOLEAN /\ (endpoint = "compact" => ~ streaming)
  /\ fuzzy \in BOOLEAN
  /\ stage = "arrived" /\ failedChannels = {} /\ multi = FALSE /\ pairs = 0
  /\ connected = TRUE /\ answers = 0 /\ ending = "none" /\ blamed = 0

-----------------------------------------------------------------------------
(* How the handler goes on *)

GoTo(next) == stage' = next /\ UNCHANGED <<answers, ending, blamed>>

WriteAnswer == answers' = answers + 1
NoAnswer    == UNCHANGED answers
End(how)    == stage' = "done" /\ ending' = how /\ UNCHANGED blamed

Respond(how) == WriteAnswer /\ End(how)

(* MarkKeyAsFailed, then the next pair.                                     *)
Blame == blamed' = IF connected THEN blamed ELSE blamed + 1
NextPair == stage' = "try" /\ Blame /\ UNCHANGED ending
FailOver == NoAnswer /\ NextPair

Walk == UNCHANGED <<failedChannels, multi, pairs>>
Fixed == UNCHANGED <<endpoint, streaming, fuzzy, connected>>

-----------------------------------------------------------------------------
(* Reading the request *)

(* An unreadable or oversized body is refused.                              *)
ReadRequestBody ==
  /\ stage = "arrived"
  /\ GoTo("read") \/ Respond("refused")
  /\ Walk /\ Fixed

Route == multi' \in BOOLEAN /\ GoTo(IF multi' THEN "select" ELSE "single")
TurnAway == Respond("refused") /\ UNCHANGED multi

(* Three handlers pass on what they cannot parse, three refuse it.          *)
RouteMessages  == endpoint = "messages" /\ Route
RouteResponses == endpoint = "responses" /\ Route
RouteCompact   == endpoint = "compact" /\ Route
RouteChat      == endpoint = "chat" /\ (Route \/ TurnAway)
RouteGemini    == endpoint = "gemini" /\ (Route \/ TurnAway)
RouteImages    == endpoint = "images" /\ (Route \/ TurnAway)

RouteRequest ==
  /\ stage = "read"
  /\ \/ RouteMessages \/ RouteResponses \/ RouteCompact
     \/ RouteChat \/ RouteGemini \/ RouteImages
  /\ UNCHANGED <<failedChannels, pairs>> /\ Fixed

-----------------------------------------------------------------------------
(* The walk *)

(* No channel, or one without keys (or of an unknown type), is refused.     *)
SingleChannel ==
  /\ stage = "single"
  /\ GoTo("try") \/ Respond("refused")
  /\ Walk /\ Fixed

(* The client is asked for before each channel, though not by compact.      *)
ClientLeft == ~ connected /\ endpoint # "compact"

SelectUpstream ==
  /\ stage = "select" /\ ~ ClientLeft
  /\ failedChannels # Upstreams
  /\ pairs' = 0 /\ GoTo("try") /\ UNCHANGED <<failedChannels, multi>> /\ Fixed

GiveUpForClient ==
  /\ stage = "select" /\ ClientLeft /\ failedChannels # Upstreams
  /\ NoAnswer /\ End("gone")
  /\ Walk /\ Fixed

(* SelectChannel finds none, or all have been tried.                        *)
AllChannelsFailed ==
  /\ stage = "select" /\ (failedChannels = Upstreams \/ ~ ClientLeft)
  /\ Respond("failed")
  /\ Walk /\ Fixed

AllKeysFailed ==
  /\ stage = "try" /\ ~ multi
  /\ Respond("failed")
  /\ Walk /\ Fixed

(* The channel's pairs are used up (or skipped, their circuits being open), *)
(* or the request to the upstream cannot be built.                          *)
ChannelFailed ==
  /\ stage = "try" /\ multi
  /\ \E c \in Upstreams \ failedChannels : failedChannels' = failedChannels \cup {c}
  /\ GoTo("select")
  /\ UNCHANGED <<multi, pairs>> /\ Fixed

(* A call on behalf of a client that has left fails at once.  Compact takes *)
(* that for a fault of the key.                                             *)
Cancelled == NoAnswer /\ End("cancelled")

(* Mutant: a cancelled call is taken for a fault of the key.                *)
CallFailsBlaming == FailOver
CallFails == IF connected \/ endpoint = "compact" THEN FailOver ELSE Cancelled

SendUpstream ==
  /\ stage = "try" /\ pairs < MaxPairs
  /\ pairs' = pairs + 1
  /\ IF connected THEN GoTo("sent") ELSE CallFails
  /\ UNCHANGED <<failedChannels, multi>> /\ Fixed

(* No response; one worth another key, or one for the client; or success.   *)
Responded ==
  /\ stage = "sent"
  /\ CallFails \/ FailOver \/ Respond("error") \/ GoTo("answer")
  /\ Walk /\ Fixed

-----------------------------------------------------------------------------
(* What the handlers do with a response of status 2xx.  Reading it fails    *)
(* when the upstream breaks off or the client leaves.                       *)

Serve == Respond("served")

(* The response cannot be read: the handlers answer 500.                    *)
Unreadable == ~ streaming /\ Respond(IF connected THEN "broken" ELSE "cancelled")

(* The body is judged before anything is written.                           *)
NotTheAnswer == FailOver
EmptyAnswer  == fuzzy /\ FailOver

(* A stream is held back until it has content; an error ends the request    *)
(* before anything is written, or after.                                    *)
Silent == NoAnswer /\ End(IF connected THEN "silent" ELSE "cancelled")
Broken == Respond(IF connected THEN "broken" ELSE "cancelled")

AnswerMessages ==
  /\ endpoint = "messages"
  /\ \/ Serve \/ Unreadable \/ NotTheAnswer
     \/ ~ streaming /\ EmptyAnswer
     \/ streaming /\ (Silent \/ Broken)

(* Once the stream has been let through, how it ends makes no difference.   *)
AnswerResponses ==
  /\ endpoint = "responses"
  /\ \/ Serve \/ Unreadable \/ NotTheAnswer
     \/ ~ streaming /\ EmptyAnswer

(* Mutant: an empty answer is noticed only after it has been written.       *)
AnswerChatTooEarly ==
  /\ endpoint = "chat"
  /\ \/ Serve \/ Unreadable
     \/ ~ streaming /\ (NotTheAnswer \/ (fuzzy /\ WriteAnswer /\ NextPair))

(* Streams are relayed without a look at their content or their end.        *)
AnswerChat ==
  /\ endpoint = "chat"
  /\ \/ Serve \/ Unreadable
     \/ ~ streaming /\ (NotTheAnswer \/ EmptyAnswer)

AnswerGemini ==
  /\ endpoint = "gemini"
  /\ \/ Serve \/ Unreadable
     \/ ~ streaming /\ (NotTheAnswer \/ EmptyAnswer)

(* Images are passed on unseen.                                             *)
AnswerImages ==
  /\ endpoint = "images"
  /\ Serve \/ Unreadable \/ (streaming /\ Broken)

(* An unreadable body is passed on as far as it came.                       *)
AnswerCompact == endpoint = "compact" /\ Serve

HandleSuccess ==
  /\ stage = "answer"
  /\ \/ AnswerMessages \/ AnswerResponses \/ AnswerChat
     \/ AnswerGemini \/ AnswerImages \/ AnswerCompact
  /\ Walk /\ Fixed

-----------------------------------------------------------------------------
HandleRequest ==
  \/ ReadRequestBody \/ RouteRequest \/ SingleChannel
  \/ SelectUpstream \/ GiveUpForClient \/ AllChannelsFailed
  \/ AllKeysFailed \/ ChannelFailed \/ SendUpstream \/ Responded \/ HandleSuccess

Disconnect ==
  /\ connected /\ stage # "done"
  /\ connected' = FALSE
  /\ UNCHANGED <<endpoint, streaming, fuzzy, stage, failedChannels, multi, pairs, answers,
                 ending, blamed>>

GatewayNext == HandleRequest \/ Disconnect

GatewaySpec == GatewayInit /\ [][GatewayNext]_gatewayVars /\ WF_gatewayVars(HandleRequest)

-----------------------------------------------------------------------------
(* Properties *)

(* However many channels and keys were tried, the client never sees two     *)
(* answers run into one, and one that is still there gets an answer - with  *)
(* the exception of a Messages stream that breaks off before its content.   *)
AnsweredOnce ==
  /\ answers <= 1
  /\ stage = "done" /\ connected =>
       answers = 1 \/ (ending = "silent" /\ endpoint = "messages" /\ streaming)

(* A client that leaves costs at most the key that was serving it: no       *)
(* further key or channel is called, and marked as failed, on its behalf.   *)
(* (Compact goes on through all of them.)                                   *)
LeavingCostsOneKey == endpoint # "compact" => blamed <= 1
=============================================================================
