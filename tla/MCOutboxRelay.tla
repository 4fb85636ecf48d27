--------------------------- MODULE MCOutboxRelay ---------------------------
(* Model values for OutboxRelay. *)
EXTENDS OutboxRelay, TLC

CONSTANTS ra, rb, h1, h2, login

RelaySymmetry == Permutations(Relays) \cup Permutations(Handlers)
=============================================================================
