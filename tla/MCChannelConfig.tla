-------------------------- MODULE MCChannelConfig --------------------------
(* Two channels, one of which has a key the other has too.                  *)
EXTENDS ChannelConfig
CONSTANTS a, b, k1, k2, p1

MCOwnKeys == (a :> {k1, k2}) @@ (b :> {k2})

MCUpdate == [keys |-> None, status |-> None, promoted |-> None, priority |-> None]
MCUpdates == {[MCUpdate EXCEPT !.keys = <<k2>>],
              [MCUpdate EXCEPT !.keys = <<k2, k1, k2>>, !.status = "active"],
              [MCUpdate EXCEPT !.promoted = TRUE, !.priority = 1]}

\* Two usable channels; or one that the check of the keys has suspended,
\* before another.  The interfaces run the same code: one channel shows what differs.
MCStart ==
  [kind \in Interfaces |->
     IF kind = "Messages"
     THEN {<<NewChannel(a, <<k1, k2>>), NewChannel(b, <<k2>>)>>,
           <<[NewChannel(a, <<>>) EXCEPT !.status = "suspended", !.historical = {k1},
                !.disabled = <<[key |-> k1, quota |-> TRUE, due |-> FALSE]>>],
             NewChannel(b, <<k2>>)>>}
     ELSE {<<NewChannel(a, <<k1, k2>>)>>}]
=============================================================================
