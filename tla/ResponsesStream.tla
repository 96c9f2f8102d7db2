-------------------------- MODULE ResponsesStream --------------------------
(***************************************************************************)
(* What a client of the Responses API may see of a streamed answer: items  *)
(* that are announced, filled and finished, each under an output_index of  *)
(* its own, and response.completed, which lists what was filled.           *)
(***************************************************************************)
EXTENDS Naturals, SequencesExt

Kinds == {"reasoning", "message", "function_call"}

(* "created" and "progress" open the answer; "added" is output_item.added   *)
(* with the part.added after it, "done" the *.done events of the item;      *)
(* output is the list of items in response.completed.                       *)
About(type, item, kind) == [type |-> type, item |-> item, kind |-> kind, output |-> {}]
Plain(type)             == About(type, 0, "none")
Completed(kind, output) == [type |-> "completed", item |-> 0, kind |-> kind, output |-> output]

With(s, type) == {s[i].item : i \in {j \in DOMAIN s : s[j].type = type}}
IsOpen(s, item) == item \in With(s, "added") \ With(s, "done")

Follows(s, e) ==
  \/ e.type \in {"fault", "rejected"}
  \/ e.type = "created" /\ s = << >>
  \/ e.type = "progress" /\ s # << >> /\ Last(s).type = "created"
  \/ /\ s # << >> /\ s[1].type = "created"
     /\ \A i \in DOMAIN s : s[i].type # "completed"
     /\ \/ e.type = "added" /\ e.item \notin With(s, "added")
        \/ e.type \in {"delta", "done"} /\ IsOpen(s, e.item)
        \/ /\ e.type = "completed"
           /\ With(s, "added") = With(s, "done")
           /\ With(s, "delta") \subseteq e.output

VARIABLE seen   \* the events written to the client

OneMore ==
  /\ Len(seen') = Len(seen) + 1
  /\ seen = Front(seen')
  /\ Follows(seen, Last(seen'))

ResponseSpec == seen = << >> /\ [][OneMore]_seen
=============================================================================
