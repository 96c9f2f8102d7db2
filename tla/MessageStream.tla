--------------------------- MODULE MessageStream ---------------------------
(***************************************************************************)
(* What a client of the Messages API may see of a streamed answer, however *)
(* the upstream spoke: message_start, content blocks one after the other,  *)
(* a message_delta that carries the usage, and message_stop.               *)
(***************************************************************************)
EXTENDS SequencesExt

Blocks == {"text", "thinking", "tool"}

(* "start" message_start, "open"/"piece"/"blank"/"close" content_block_*    *)
(* (a blank piece has no content), "delta"/"bare" message_delta with and    *)
(* without usage (its block is "tool" for the stop_reason tool_use), "stop" *)
(* message_stop, "fault"/"rejected" error (the latter blacklists the key).  *)
Bare(type)       == [type |-> type, block |-> "none"]
Within(type, b)  == [type |-> type, block |-> b]

Events ==
  {Bare(type) : type \in {"start", "delta", "bare", "stop", "fault", "rejected"}}
    \cup {Within(type, b) : type \in {"open", "piece", "blank", "close"}, b \in Blocks}
    \cup {Within(type, "tool") : type \in {"delta", "bare"}}

IsError(e) == e.type \in {"fault", "rejected"}

(* e may come after the events of s.                                        *)
Follows(s, e) ==
  LET last == IF s = << >> THEN Bare("nothing") ELSE Last(s)
      open == last.type \in {"open", "piece", "blank"}
  IN  \/ IsError(e)
      \/ e.type = "start" /\ s = << >>
      \/ e.type = "open" /\ last.type \in {"start", "close"}
      \/ e.type \in {"piece", "blank", "close"} /\ open /\ last.block = e.block
      \/ e.type \in {"delta", "bare"} /\ last.type \in {"start", "close", "delta", "bare"}
      \/ e.type = "stop" /\ last.type \in {"start", "close", "delta", "bare"}

VARIABLE seen   \* the events written to the client

(* The usage is known before the message ends, and no message_delta lacks it.*)
Proper(s, e) ==
  /\ Follows(s, e)
  /\ e.type # "bare"
  /\ e.type = "stop" => Last(s).type = "delta"

MessageSpec ==
  seen = << >> /\ [][\E e \in Events : Proper(seen, e) /\ seen' = Append(seen, e)]_seen
=============================================================================
