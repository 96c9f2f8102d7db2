------------------------- MODULE MCChannelSelection -------------------------
(* A few channels of one kind with the default priorities (the index).      *)
EXTENDS ChannelSelection, TLC

DefaultPriority == [c \in Channels |-> 0]

(* Bounds: either several requests while the console changes nothing, or    *)
(* one at a time while it does; X-Channel, which no other rule comes        *)
(* before, only while it changes the status of channels.                    *)
BoundedNext ==
  /\ Next
  /\ "status" \notin changing => \A r \in Requests : req'[r].pin = NoChannel
  /\ changing # {} => Cardinality({r \in Requests : pc'[r] # "idle"}) <= 1

BoundedSpec == Init /\ [][BoundedNext]_vars

(* Nothing distinguishes one request from another.                          *)
AnyRequest == Permutations(Requests)
=============================================================================
