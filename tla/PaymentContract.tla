-------------------------- MODULE PaymentContract --------------------------
(***************************************************************************)
(* What the platform promises about one payment, whatever happens inside   *)
(* it: a payment is proposed, authorised and executed in this order; money *)
(* moves only for payments that were sent into execution, leaves the       *)
(* wallet once and only after the provider has the transfer; a settled     *)
(* payment has been paid; a void one never costs anything.                 *)
(*                                                                         *)
(* The module stands for no code.  PaymentSystem implements it.            *)
(***************************************************************************)
CONSTANT Payments

VARIABLES
  phase,  \* how far a payment has come
  sent,   \* payments the custody provider has transferred
  paid    \* payments whose total left the source wallet

contractVars == <<phase, sent, paid>>

Phase == {"none", "proposed", "authorised", "executing", "failed", "settled", "void"}
Started == {"executing", "failed", "settled"}

Enter(p, to) == phase' = [phase EXCEPT ![p] = to] /\ UNCHANGED <<sent, paid>>

Propose(p)   == phase[p] = "none" /\ \E to \in {"proposed", "authorised", "void"} : Enter(p, to)
Authorise(p) == phase[p] = "proposed" /\ Enter(p, "authorised")
Execute(p)   == phase[p] = "authorised" /\ Enter(p, "executing")
Fail(p)      == phase[p] = "executing" /\ Enter(p, "failed")
Reopen(p)    == phase[p] = "failed" /\ Enter(p, "executing")
Settle(p)    == phase[p] = "executing" /\ p \in paid /\ Enter(p, "settled")

(* Cancelled, blocked or expired, several at a time *)
Void(S) ==
  /\ \A p \in S : phase[p] \in {"proposed", "authorised"}
  /\ phase' = [p \in Payments |-> IF p \in S THEN "void" ELSE phase[p]]
  /\ UNCHANGED <<sent, paid>>

(* A run of the saga may outlive the execution that started it, so money   *)
(* can still move for a payment that another run has failed.               *)
Send(p) ==
  /\ phase[p] \in Started
  /\ sent' = sent \cup {p}
  /\ UNCHANGED <<phase, paid>>

Pay(p) ==
  /\ phase[p] \in Started \ {"settled"}
  /\ p \in sent /\ p \notin paid
  /\ paid' = paid \cup {p}
  /\ UNCHANGED <<phase, sent>>

ContractInit == phase = [p \in Payments |-> "none"] /\ sent = {} /\ paid = {}

ContractNext ==
  \/ \E p \in Payments :
       \/ Propose(p) \/ Authorise(p) \/ Execute(p) \/ Fail(p)
       \/ Reopen(p)  \/ Settle(p)    \/ Send(p)    \/ Pay(p)
  \/ \E S \in SUBSET Payments : Void(S)

ContractSpec == ContractInit /\ [][ContractNext]_contractVars
=============================================================================
