-------------------------- MODULE MCPendingHistory --------------------------
EXTENDS PendingHistory, TLC

(* Attempts are interchangeable.                                            *)
AnyRequestOrder == Permutations(Requests)
=============================================================================
