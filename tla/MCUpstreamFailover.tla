------------------------ MODULE MCUpstreamFailover ------------------------
(* Requests that share a channel.  ConsecutiveThreshold is 1 in these       *)
(* configurations, so that one failure opens a circuit and the interesting  *)
(* interleavings of probes need few steps.                                  *)
EXTENDS UpstreamFailover
=============================================================================
