---------------------------- MODULE ChunkStream ----------------------------
(***************************************************************************)
(* What a client of the Chat or the Gemini API may see of a streamed       *)
(* answer: pieces of the answer, then its finish reason, and for Chat      *)
(* [DONE] at the very end.                                                 *)
(***************************************************************************)
EXTENDS Naturals, SequencesExt

(* calls: the number of tool calls the chunk carries.                       *)
Chunk(type)         == [type |-> type, calls |-> 0]
ChunkWithCalls(n)   == [type |-> "finish", calls |-> n]

(* c may come after the chunks of s.                                        *)
MayFollow(s, c) ==
  LET before == {s[i].type : i \in DOMAIN s}
  IN  /\ "done" \notin before
      /\ c.type \in {"reasoning", "content"} => {"finish", "usage"} \cap before = {}
      /\ c.type = "usage" => "usage" \notin before

VARIABLE heard   \* the chunks written to the client

ChunkSpec ==
  heard = << >> /\ [][ /\ heard = SubSeq(heard', 1, Len(heard))
                       /\ \A i \in Len(heard) + 1 .. Len(heard') :
                            MayFollow(SubSeq(heard', 1, i - 1), heard'[i]) ]_heard
=============================================================================
