------------------------- MODULE MCPolicedPayments -------------------------
(* Model values for PolicedPayments. *)
EXTENDS PolicedPayments

CONSTANTS p1, j1, ann, bob, r1, r2, k1, b1, e1, eurc

(* Every payment is of 2 EUR and costs the wallet 1 *)
MCTotal == [p \in Payments |-> 1]
MCAmount == [p \in Payments |-> 2]
MCAsset == [p \in Payments |-> eurc]
=============================================================================
