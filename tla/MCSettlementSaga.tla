-------------------------- MODULE MCSettlementSaga --------------------------
(* Model values for SettlementSaga. *)
EXTENDS SettlementSaga, TLC

CONSTANTS p1, p2, j1, j2, w1, w2

(* Payment i costs i *)
MCTotal == [p \in Payments |-> IF p = p1 THEN 1 ELSE 2]

WorkerSymmetry == Permutations(Workers) \cup Permutations(Jobs)
=============================================================================
