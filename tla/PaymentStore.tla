---------------------------- MODULE PaymentStore ----------------------------
(***************************************************************************)
(* The Postgres rows that payment-service and job-worker both touch:       *)
(* payment.payments and payment.payment_approvals, platform.jobs,          *)
(* platform.outbox_events, and the balance of the source wallet, which the *)
(* policy check reads and the saga debits.  The module declares those      *)
(* tables and the pieces of a transaction the two services share.  The     *)
(* services themselves are PaymentService and SettlementSaga.              *)
(*                                                                         *)
(* Rows are written by transactions at READ COMMITTED, each of which is    *)
(* one step here; what happens between two transactions of one handler is  *)
(* where the services interleave.                                          *)
(***************************************************************************)
EXTENDS Integers, FiniteSets

CONSTANTS
  Payments,        \* ids that createId("pay") can hand out
  Jobs,            \* ids of platform.jobs rows (bounds the sagas ever enqueued)
  Users,           \* people an authenticated request acts for
  System,          \* approver id of a request without an acting user
  AutoPolicy,      \* approver id "policy:auto"
  None,            \* SQL NULL
  Total,           \* Total[p]: principal plus fee of payment p
  OpeningBalance,  \* what the source wallet holds before the first debit
  Verdicts         \* what the policy checks other than Balance may answer

ASSUME StoreAssumption ==
  /\ Total \in [Payments -> Nat \ {0}]
  /\ OpeningBalance \in Nat
  /\ Verdicts \subseteq {"Clear", "Review", "Blocked"}
  /\ Users \cap {System, AutoPolicy, None} = {}
  /\ System # None /\ AutoPolicy # None /\ System # AutoPolicy
  /\ None \notin Payments \cup Jobs

VARIABLES
  status,      \* payments.status, "absent" before the row is inserted
  required,    \* payments.required_approvals
  createdBy,   \* payments.created_by
  approvers,   \* approver_id of the rows of payment_approvals
  jobStatus,   \* jobs.status
  jobPayment,  \* jobs.payload.paymentId
  attempts,    \* jobs.attempts
  outbox,      \* <<aggregate, action>> of the events in outbox_events
  balance      \* the source wallet's balance, derived from its ledger entries

storeVars == <<status, required, createdBy, approvers,
               jobStatus, jobPayment, attempts, outbox, balance>>
paymentRow == <<required, createdBy, approvers>>
jobRows    == <<jobStatus, jobPayment, attempts>>

Status == {"Pending approval", "Approved", "Executing", "Settled",
           "Blocked", "Cancelled", "Failed"}
JobStatus == {"pending", "running", "failed", "completed", "dead_lettered"}

Action == {"Payment created", "Payment auto-approved", "Payment blocked", "Approval counted",
           "Payment approved", "Execution blocked", "Execution enqueued", "Payment cancelled",
           "Payment expired", "Payment settled", "Job dead-lettered"}

StoreTypeOK ==
  /\ status     \in [Payments -> Status \cup {"absent"}]
  /\ required   \in [Payments -> 0 .. 2]
  /\ createdBy  \in [Payments -> Users \cup {None}]
  /\ approvers  \in [Payments -> SUBSET (Users \cup {System, AutoPolicy})]
  /\ jobStatus  \in [Jobs -> JobStatus \cup {"absent"}]
  /\ jobPayment \in [Jobs -> Payments \cup {None}]
  /\ attempts   \in [Jobs -> Nat]
  /\ outbox \subseteq (Payments \cup Jobs) \X Action
  /\ balance \in Int

-----------------------------------------------------------------------------
(* Mutant: the trigger lets a late settlement overrule a failure *)
LateSettlementTransitions ==
  { <<"Pending approval", "Approved">>,  <<"Pending approval", "Blocked">>,
    <<"Pending approval", "Cancelled">>, <<"Approved", "Executing">>,
    <<"Approved", "Blocked">>,           <<"Approved", "Cancelled">>,
    <<"Executing", "Settled">>,          <<"Executing", "Failed">>,
    <<"Failed", "Executing">>,           <<"Failed", "Cancelled">>,
    <<"Failed", "Settled">> }

(* The transitions payment_transition_trigger accepts.  It raises on any   *)
(* other change of status, which rolls the statement back.                 *)
LegalTransitions ==
  { <<"Pending approval", "Approved">>,  <<"Pending approval", "Blocked">>,
    <<"Pending approval", "Cancelled">>, <<"Approved", "Executing">>,
    <<"Approved", "Blocked">>,           <<"Approved", "Cancelled">>,
    <<"Executing", "Settled">>,          <<"Executing", "Failed">>,
    <<"Failed", "Executing">>,           <<"Failed", "Cancelled">> }

TriggerAccepts(p, to) == status[p] = to \/ <<status[p], to>> \in LegalTransitions

(* UPDATE payment.payments SET status = to WHERE id = p *)
SetStatus(p, to) ==
  /\ TriggerAccepts(p, to)
  /\ status' = [status EXCEPT ![p] = to]

(* appendOutboxEvents, for events about the aggregates of S *)
Emit(S, action) == outbox' = outbox \cup (S \X {action})

(* enqueueJob and enqueueJobInTx: a new "execute-payment" row under the id j *)
Enqueue(j, p) ==
  /\ jobStatus[j] = "absent"
  /\ jobStatus'  = [jobStatus EXCEPT ![j] = "pending"]
  /\ jobPayment' = [jobPayment EXCEPT ![j] = p]
  /\ UNCHANGED attempts

(* What POST /evaluate may answer about p.  The Balance check reads the    *)
(* wallet; the other checks depend on policy, counterparty and provider    *)
(* records that their own services change at any time.  A blocked check    *)
(* outranks a check under review.  The step is the read of the balance     *)
(* (getPaymentContext), a few awaits before the evaluation that uses it.   *)
Verdict(p) == IF balance < Total[p] THEN {"Blocked"} ELSE Verdicts

StoreInit ==
  /\ status     = [p \in Payments |-> "absent"]
  /\ required   = [p \in Payments |-> 0]
  /\ createdBy  = [p \in Payments |-> None]
  /\ approvers  = [p \in Payments |-> {}]
  /\ jobStatus  = [j \in Jobs |-> "absent"]
  /\ jobPayment = [j \in Jobs |-> None]
  /\ attempts   = [j \in Jobs |-> 0]
  /\ outbox = {}
  /\ balance = OpeningBalance
=============================================================================
