---------------------------- MODULE MCKeyCircuit ----------------------------
(* The circuit of one key under every order of operations: no operation     *)
(* reads or writes the circuit of another key.                              *)
EXTENDS KeyCircuit
=============================================================================
