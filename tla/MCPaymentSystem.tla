-------------------------- MODULE MCPaymentSystem --------------------------
(* Model values for PaymentSystem. *)
EXTENDS PaymentSystem, TLC

CONSTANTS p1, p2, j1, j2, ann, bob, r1, r2, w1, w2, b1

(* Every payment costs all there is *)
MCTotal == [p \in Payments |-> 1]

SystemSymmetry == Permutations(Users) \cup Permutations(Requests) \cup Permutations(Jobs)
                    \cup Permutations(Workers) \cup Permutations(Payments)
=============================================================================
