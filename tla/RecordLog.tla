------------------------------ MODULE RecordLog ------------------------------
(***************************************************************************)
(* What the SQLite store promises about request records, whatever buffers, *)
(* goroutines and locks it uses: accepted records become durable in the    *)
(* order they were accepted, each at most once, and a record that was      *)
(* accepted disappears only with a batch that could not be written, with   *)
(* its key, by its age, or with the process.                               *)
(***************************************************************************)
EXTENDS Naturals, Sequences

CONSTANTS
  Records,  \* request records, each with the key it was made with
  Keys

VARIABLES
  pending,  \* accepted and not yet durable
  durable   \* the rows of request_records, oldest first

logVars == <<pending, durable>>

LogInit == pending = << >> /\ durable = << >>

AcceptRecord == \E record \in Records : pending' = Append(pending, record) /\ UNCHANGED durable

StorePending ==
  \E n \in 1..Len(pending) :
    /\ durable' = durable \o SubSeq(pending, 1, n)
    /\ pending' = SubSeq(pending, n + 1, Len(pending))

LosePending ==
  \E n \in 1..Len(pending) :
    /\ pending' = SubSeq(pending, n + 1, Len(pending))
    /\ UNCHANGED durable

(* Rows are deleted with their key; the others keep their order.            *)
ForgetKey ==
  \E key \in Keys, n \in 0..Len(durable) : \E place \in [1..n -> DOMAIN durable] :
    /\ \A i, j \in 1..n : i < j => place[i] < place[j]
    /\ {place[i] : i \in 1..n} = {i \in DOMAIN durable : durable[i].key # key}
    /\ durable' = [i \in 1..n |-> durable[place[i]]]
    /\ UNCHANGED pending

ForgetOldest ==
  \E n \in 1..Len(durable) :
    /\ durable' = SubSeq(durable, n + 1, Len(durable))
    /\ UNCHANGED pending

LogSpec == LogInit /\ [][AcceptRecord \/ StorePending \/ LosePending \/ ForgetKey \/ ForgetOldest]_logVars
=============================================================================
