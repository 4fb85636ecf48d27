--------------------------- MODULE PaymentSystem ---------------------------
(***************************************************************************)
(* payment-service and job-worker on one database.  The two meet in the    *)
(* payment rows, in the job queue and in the wallet's balance; everything  *)
(* else is private to one of them.                                         *)
(***************************************************************************)
EXTENDS PaymentService, SettlementSaga

vars == <<storeVars, serviceVars, sagaVars>>

Init == StoreInit /\ ServiceInit /\ SagaInit

Next ==
  \/ ServiceNext /\ UNCHANGED sagaVars
  \/ SagaNext /\ UNCHANGED serviceVars

Spec == Init /\ [][Next]_vars

(* Every table and every local variable keeps its type; the types of the    *)
(* status columns are the CHECK constraints of the migrations.              *)
TypeOK == ServiceTypeOK /\ SagaTypeOK

-----------------------------------------------------------------------------
(* A payment nobody authorised, or that was blocked or cancelled, costs    *)
(* nothing: no transfer and no debit, although evaluations, cancellations, *)
(* executions and settlements of it overlap.                               *)
NotStarted == {"absent", "Pending approval", "Approved", "Blocked", "Cancelled"}
VoidMovesNoMoney ==
  \A p \in Payments : status[p] \in NotStarted => transfers[p] = 0 /\ debits[p] = 0

(* executePayment: "Transition to Executing and enqueue the saga job in    *)
(* one transaction so a payment is never stuck at Executing without a      *)
(* corresponding job": some job of an Executing payment has not completed, *)
(* or a retry is about to enqueue one.                                     *)
Enqueueing(p) == \E r \in Requests : stage[r] = "retry_enqueue" /\ req[r].payment = p
ExecutingHasJob ==
  \A p \in Payments : status[p] = "Executing" =>
    \/ \E j \in Jobs : jobPayment[j] = p /\ jobStatus[j] # "completed"
    \/ Enqueueing(p)

(* The services keep the contract. *)
PhaseOf(s) == CASE s = "absent"                    -> "none"
                [] s = "Pending approval"          -> "proposed"
                [] s = "Approved"                  -> "authorised"
                [] s = "Executing"                 -> "executing"
                [] s = "Failed"                    -> "failed"
                [] s = "Settled"                   -> "settled"
                [] s \in {"Blocked", "Cancelled"}  -> "void"

Contract == INSTANCE PaymentContract WITH
  phase <- [p \in Payments |-> PhaseOf(status[p])],
  sent  <- {p \in Payments : transfers[p] > 0},
  paid  <- {p \in Payments : debits[p] > 0}

(* Every behaviour of the two services, their faults included, is a        *)
(* behaviour of PaymentContract.                                           *)
ImplementsContract == Contract!ContractSpec
=============================================================================
