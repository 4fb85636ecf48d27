------------------------- MODULE MCGatewaySessions -------------------------
EXTENDS GatewaySessions, TLC

(* Tokens are random and slots are connections: neither has an identity. *)
MCSymmetry == Permutations(Tokens) \union Permutations(Slots)
============================================================================
