----------------------------- MODULE MCDispatch -----------------------------
(* Constants for model-checking DispatchWorker.                            *)
EXTENDS DispatchWorker, TLC

CONSTANTS w1, w2, d1, d2, d3, c1, c2, k1, k2

TwoRows == {d1, d2}
ThreeRows == {d1, d2, d3}
WorkerSymmetry == Permutations(Workers)
\* The rows other than d1 have the same constants.
LowRowSymmetry == Permutations(Workers) \cup Permutations({d2, d3})

\* d1 and d2 go to one customer on one channel, d3 to another customer.
SharedContact == [d \in Dispatches |-> IF d = d3 THEN c2 ELSE c1]
SharedCustomer == [d \in Dispatches |-> IF d = d3 THEN k2 ELSE k1]
\* Every row goes to one customer on one channel.
OneContact == [d \in Dispatches |-> c1]
OneCustomer == [d \in Dispatches |-> k1]
Voice == [d \in Dispatches |-> "VOICE"]
\* d1 outranks d2, d2 and d3 tie.
FirstOutranks == [d \in Dispatches |-> IF d = d1 THEN 2 ELSE 1]
ShortBackoff == <<1, 2>>
=============================================================================
