-------------------------- MODULE MCPaymentService --------------------------
(* Model values for PaymentService. *)
EXTENDS PaymentService, TLC

CONSTANTS p1, p2, j1, j2, ann, bob, r1, r2, k1, b1, b2

(* Every payment costs 1, the whole balance the configurations open with *)
MCTotal == [p \in Payments |-> 1]

(* Slots, people, bodies and job rows are interchangeable; so are payments, because MCTotal is constant *)
ServiceSymmetry == Permutations({ann, bob}) \cup Permutations({r1, r2})
                     \cup Permutations(Payments) \cup Permutations(Jobs) \cup Permutations({b1, b2})
=============================================================================
