------------------------------ MODULE MCStreams ------------------------------
(* A request on its way to an answer, what the errors of upstreams mean,    *)
(* and the relays of streamed answers: parts that share no state, one at a  *)
(* time.  part, chosen in the initial state, says which one runs; the       *)
(* others rest.                                                             *)
EXTENDS StreamRelay, ResponsesRelay, ChunkRelay, Gateway, UpstreamErrors

VARIABLE part

AllRoutes == {<<"chat", "claude">>, <<"chat", "openai">>} \cup
             {<<"gemini", type>> : type \in {"claude", "gemini", "openai", "responses"}}

streamsVars == <<relayVars, streamVars, chunkVars, gatewayVars, errorVars, part>>

OneOf(S) == CHOOSE x \in S : TRUE

StreamsInit ==
  /\ RelayInit /\ StreamInit /\ ChunkInit /\ GatewayInit /\ ErrorInit
  /\ part \in {"messages", "responses", "chunks", "gateway", "errors"}
  /\ part # "messages" => provider = OneOf(Providers)
  /\ part # "responses" => source = OneOf(Sources)
  /\ part # "chunks" => path = OneOf(Routes)
  /\ part # "gateway" => endpoint = OneOf(Endpoints) /\ ~ streaming /\ ~ fuzzy
  /\ part # "errors" => fuzzyMode /\ apiType = "Messages"

Rest(here) ==
  /\ here # "messages" => UNCHANGED relayVars
  /\ here # "responses" => UNCHANGED streamVars
  /\ here # "chunks" => UNCHANGED chunkVars
  /\ here # "gateway" => UNCHANGED gatewayVars
  /\ here # "errors" => UNCHANGED errorVars
  /\ UNCHANGED part

StreamsNext ==
  /\ \/ part = "messages" /\ RelayNext
     \/ part = "responses" /\ StreamNext
     \/ part = "chunks" /\ ChunkNext
     \/ part = "gateway" /\ GatewayNext
     \/ part = "errors" /\ ErrorNext
  /\ Rest(part)

(* The fairness of the specifications; as only one of them runs, a          *)
(* condition on each makes one condition together.                          *)
StreamsSpec ==
  /\ StreamsInit /\ [][StreamsNext]_streamsVars
  /\ WF_streamsVars(/\ \/ part = "messages" /\ Provide
                       \/ part = "responses" /\ Scan
                       \/ part = "chunks" /\ ChunkNext
                       \/ part = "gateway" /\ HandleRequest
                    /\ Rest(part))
  /\ WF_streamsVars(/\ \/ part = "messages" /\ Handle
                       \/ part = "responses" /\ Answer
                    /\ Rest(part))
  /\ WF_streamsVars(part = "messages" /\ Drain /\ Rest(part))

-----------------------------------------------------------------------------
(* Properties *)

(* Whatever the API and the upstream, a client sees a well-formed stream of *)
(* the API it called: the relays implement the protocols of the clients.    *)
ProtocolsKept == ClientStreamProper /\ ResponseStreamProper /\ ChunkStreamProper

(* A stream that comes to its end reaches the client whole: what was held   *)
(* back, buffered or converted is neither lost nor repeated nor moved, but  *)
(* for the reasoning that a Responses upstream sends a client of Gemini in  *)
(* the field delta, which the converter does not read (see ChunksWhole).    *)
AnswersWhole == StreamWhole /\ ConvertedWhole /\ ChunksWhole

(* Every request ends and no goroutine is left behind: the handler returns  *)
(* and the goroutine that reads the upstream ends, although the channels    *)
(* between them are bounded and the handler may return early.               *)
StreamsEnd ==
  <>(/\ part = "messages" => pc = "done" /\ closed
     /\ part = "responses" => phase = "done" /\ scan # "scanning"
     /\ part = "chunks" => ~ reading
     /\ part = "gateway" => stage = "done")
=============================================================================
