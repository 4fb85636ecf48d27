-------------------------- MODULE MCProviderFeeds --------------------------
EXTENDS ProviderFeeds, TLC

CONSTANTS p1, s1, s2, l1, l2, e1, m1, m2

(* l1 names p1's transfer; l2, on another statement, names an unknown transfer
   that looks like p1.  The second statement's period holds p1's settlement. *)
MCStatementOf == (l1 :> s1) @@ (l2 :> s2)
MCRefOf == (l1 :> p1) @@ (l2 :> l2)
MCOrder == (l1 :> 1) @@ (l2 :> 2)
MCDiffers == (l1 :> "no") @@ (l2 :> "no")
MCTwins == (l1 :> {}) @@ (l2 :> {p1})
MCPeriod == (s1 :> {}) @@ (s2 :> {p1})
MCEventRef == (e1 :> p1)

(* The first statement's job is retried once. *)
MCMaxAttempts == (s1 :> 2) @@ (s2 :> 1) @@ (e1 :> 1)

MCOneAttempt == [j \in Statements \union Events |-> 1]

(* A run is an anonymous connection of reconciliation-service. *)
MCSymmetry == Permutations(Runs)
============================================================================
