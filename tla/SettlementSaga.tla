--------------------------- MODULE SettlementSaga ---------------------------
(***************************************************************************)
(* job-worker: the job queue (packages/shared/jobs.mjs and                 *)
(* services/job-worker/src/queue.mjs) and the handler of its               *)
(* "execute-payment" jobs, the settlement saga (handlers/payment-saga.mjs),*)
(* with the rows it writes in the payment, wallet, accounting and          *)
(* reconciliation databases and the custody provider it calls.             *)
(*                                                                         *)
(* A worker process claims a batch and runs its jobs one after another.    *)
(* Each statement, service call or provider call of the saga is one step;  *)
(* the rows of payment_execution_attempts, which no code reads back to     *)
(* decide anything, are left out, but the error an INSERT there may raise  *)
(* is a step fault of the statement that follows it.                       *)
(***************************************************************************)
EXTENDS PaymentStore

CONSTANTS
  Workers,            \* job-worker processes
  MaxAttempts,        \* jobs.max_attempts
  BatchLimit,         \* BATCH_LIMIT
  Faults              \* what may go wrong, see SagaAssumption

ASSUME SagaAssumption ==
  /\ MaxAttempts \in Nat \ {0}
  /\ BatchLimit \in Nat \ {0}
  /\ Faults \subseteq
       {"step",       \* a statement or service call throws, its effect absent
        "timeout",    \* a service call throws, its effect lands at some later time
        "reject",     \* the provider, the breaker or resolveAdapter refuses
        "ambiguous",  \* the provider accepts the transfer and the call throws
        "crash",      \* a worker process dies and is restarted
        "abort"}      \* failJob itself throws

VARIABLES
  pc,           \* where a worker's saga is
  batch,        \* jobs it claimed and has not started
  job,          \* the job it runs
  ref,          \* providerRef, the local variable; 0 stands for null
  memory,       \* SimulatedCustodyAdapter.#submissions of the process
  submission,   \* provider_submissions.status, "absent" without a row
  submittedRef, \* provider_submissions.provider_ref
  providerRef,  \* payments.provider_ref
  transfers,    \* transfers the provider made for a payment, with references 1, 2, ...
  debits,       \* ledger transactions posted for a payment
  journaled,    \* payments with journal entries
  matched,      \* payments with a Matched reconciliation row
  late          \* <<payment, call>>: timed-out calls the callee still works on

workerVars == <<pc, batch, job, ref, memory>>
bookVars   == <<submission, submittedRef, providerRef, transfers, debits,
                journaled, matched, late>>
sagaVars   == <<workerVars, bookVars>>

Step == {"idle", "load", "policy", "ensure", "submit", "record_submitted",
         "record_failed", "fail_payment", "save_ref", "debit", "journal",
         "match", "settle", "audit", "complete", "log", "fail_job"}
Calls == {"debit", "journal", "match"}

SagaTypeOK ==
  /\ StoreTypeOK
  /\ pc           \in [Workers -> Step]
  /\ batch        \in [Workers -> SUBSET Jobs]
  /\ job          \in [Workers -> Jobs \cup {None}]
  /\ ref          \in [Workers -> Nat]
  /\ memory       \in [Workers -> [Payments -> Nat]]
  /\ submission   \in [Payments -> {"absent", "pending", "submitted", "failed"}]
  /\ submittedRef \in [Payments -> Nat]
  /\ providerRef  \in [Payments -> Nat]
  /\ transfers    \in [Payments -> Nat]
  /\ debits       \in [Payments -> Nat]
  /\ journaled \subseteq Payments
  /\ matched   \subseteq Payments
  /\ late \subseteq Payments \X Calls

-----------------------------------------------------------------------------
Paying(w) == jobPayment[job[w]]   \* the payment of the job a worker runs

To(w, s)   == pc' = [pc EXCEPT ![w] = s]
Keep(w, n) == ref' = [ref EXCEPT ![w] = n]

(* runJob is over; the loop goes on with the rest of the batch *)
Finish(w) ==
  /\ To(w, IF batch[w] = {} THEN "idle" ELSE "load")
  /\ job' = [job EXCEPT ![w] = None]
  /\ Keep(w, 0)
  /\ UNCHANGED <<batch, memory>>

(* A step that only moves the worker on *)
Move(w, s) == To(w, s) /\ UNCHANGED <<batch, job, ref, memory>>

-----------------------------------------------------------------------------
(* The job queue *)

(* Mutant: a running job may be claimed again *)
ClaimRunning(w, S) ==
  /\ pc[w] = "idle"
  /\ S # {} /\ Cardinality(S) <= BatchLimit
  /\ \A j \in S : jobStatus[j] \in {"pending", "failed", "running"}
  /\ jobStatus' = [j \in Jobs |-> IF j \in S THEN "running" ELSE jobStatus[j]]
  /\ attempts'  = [j \in Jobs |-> IF j \in S THEN attempts[j] + 1 ELSE attempts[j]]
  /\ batch' = [batch EXCEPT ![w] = S]
  /\ To(w, "load")
  /\ UNCHANGED <<status, paymentRow, jobPayment, outbox, balance,
                 job, ref, memory, bookVars>>

(* Mutant: a claim is not counted as an attempt *)
ClaimUncounted(w, S) ==
  /\ pc[w] = "idle"
  /\ S # {} /\ Cardinality(S) <= BatchLimit
  /\ \A j \in S : jobStatus[j] \in {"pending", "failed"}
  /\ jobStatus' = [j \in Jobs |-> IF j \in S THEN "running" ELSE jobStatus[j]]
  /\ batch' = [batch EXCEPT ![w] = S]
  /\ To(w, "load")
  /\ UNCHANGED <<status, paymentRow, jobPayment, attempts, outbox, balance,
                 job, ref, memory, bookVars>>

(* claimJobs: a batch of due pending or failed jobs, each with one more attempt *)
Claim(w, S) ==
  /\ pc[w] = "idle"
  /\ S # {} /\ Cardinality(S) <= BatchLimit
  /\ \A j \in S : jobStatus[j] \in {"pending", "failed"}
  /\ jobStatus' = [j \in Jobs |-> IF j \in S THEN "running" ELSE jobStatus[j]]
  /\ attempts'  = [j \in Jobs |-> IF j \in S THEN attempts[j] + 1 ELSE attempts[j]]
  /\ batch' = [batch EXCEPT ![w] = S]
  /\ To(w, "load")
  /\ UNCHANGED <<status, paymentRow, jobPayment, outbox, balance,
                 job, ref, memory, bookVars>>

(* completeJob: the status, then the log row of the attempt *)
CompleteJob(w) ==
  /\ pc[w] = "complete"
  /\ jobStatus' = [jobStatus EXCEPT ![job[w]] = "completed"]
  /\ Move(w, "log")
  /\ UNCHANGED <<status, paymentRow, jobPayment, attempts, outbox, balance, bookVars>>

LogSuccess(w) ==
  /\ pc[w] = "log"
  /\ Finish(w)
  /\ UNCHANGED <<storeVars, bookVars>>

(* failJob: back to the queue, or dead-lettered with an operator alert *)
FailJob(w) ==
  /\ pc[w] = "fail_job"
  /\ IF attempts[job[w]] >= MaxAttempts
       THEN /\ jobStatus' = [jobStatus EXCEPT ![job[w]] = "dead_lettered"]
            /\ Emit({job[w]}, "Job dead-lettered")
       ELSE /\ jobStatus' = [jobStatus EXCEPT ![job[w]] = "failed"]
            /\ UNCHANGED outbox
  /\ Finish(w)
  /\ UNCHANGED <<status, paymentRow, jobPayment, attempts, balance, bookVars>>

-----------------------------------------------------------------------------
(* executePaymentSaga *)

(* The one read of the payment row the whole run works from *)
Load(w, j) ==
  /\ pc[w] = "load"
  /\ j \in batch[w]
  /\ batch' = [batch EXCEPT ![w] = @ \ {j}]
  /\ job'   = [job EXCEPT ![w] = j]
  /\ Keep(w, providerRef[jobPayment[j]])
  /\ \/ To(w, CASE status[jobPayment[j]] = "Settled"   -> "complete"
                [] status[jobPayment[j]] = "Executing" -> "policy"
                [] OTHER -> "fail_job")
     \/ "step" \in Faults /\ To(w, "fail_job")
  /\ UNCHANGED <<storeVars, memory, bookVars>>

(* Step 1, the final policy check.  A payment that already has a provider  *)
(* reference skips step 2.                                                 *)
PolicyCheck(w) ==
  /\ pc[w] = "policy"
  /\ \E verdict \in Verdict(Paying(w)) :
       \/ verdict = "Blocked" /\ Move(w, "fail_payment")
       \/ verdict = "Review"  /\ Move(w, "fail_job")
       \/ verdict = "Clear"   /\ Move(w, IF ref[w] = 0 THEN "ensure" ELSE "debit")
  /\ UNCHANGED <<storeVars, bookVars>>

(* failPayment, guarded by the current status *)
FailPayment(w) ==
  /\ pc[w] = "fail_payment"
  /\ IF status[Paying(w)] = "Executing" THEN SetStatus(Paying(w), "Failed") ELSE UNCHANGED status
  /\ Move(w, "complete")
  /\ UNCHANGED <<paymentRow, jobRows, outbox, balance, bookVars>>

(* Mutant: the row is upserted back to pending *)
EnsureSubmissionResets(w) ==
  /\ pc[w] = "ensure"
  /\ submission' = [submission EXCEPT ![Paying(w)] = "pending"]
  /\ Move(w, "submit")
  /\ UNCHANGED <<storeVars, submittedRef, providerRef, transfers, debits, journaled, matched, late>>

(* Step 2, ensureProviderSubmission: insert-or-get the submission row, and *)
(* reuse the reference of one that is already submitted                    *)
EnsureSubmission(w) ==
  /\ pc[w] = "ensure"
  /\ LET p == Paying(w)
     IN IF submission[p] = "submitted"
          THEN Keep(w, submittedRef[p]) /\ To(w, "save_ref") /\ UNCHANGED submission
          ELSE /\ submission' = [submission EXCEPT ![p] = IF @ = "absent" THEN "pending" ELSE @]
               /\ To(w, "submit")
               /\ UNCHANGED ref
  /\ UNCHANGED <<storeVars, batch, job, memory, submittedRef, providerRef, transfers,
                 debits, journaled, matched, late>>

(* What SimulatedCustodyAdapter does with a transfer under the key         *)
(* payment:<id>: the first call of its process makes a transfer, a repeated *)
(* one returns the reference it remembers.  resolveAdapter hands out one   *)
(* instance per process, so every worker has a memory of its own.          *)
Reference(w, p) == IF memory[w][p] = 0 THEN transfers[p] + 1 ELSE memory[w][p]

(* Mutant: resolveAdapter makes a new adapter for every call *)
AcceptForgetting(w, p) ==
  /\ transfers' = [transfers EXCEPT ![p] = IF memory[w][p] = 0 THEN @ + 1 ELSE @]
  /\ UNCHANGED memory

Accept(w, p) ==
  /\ transfers' = [transfers EXCEPT ![p] = IF memory[w][p] = 0 THEN @ + 1 ELSE @]
  /\ memory' = [memory EXCEPT ![w] = [@ EXCEPT ![p] = Reference(w, p)]]

(* submitTransfer through resolveAdapter and withBreaker *)
SubmitTransfer(w) ==
  /\ pc[w] = "submit"
  /\ \/ Accept(w, Paying(w)) /\ Keep(w, Reference(w, Paying(w))) /\ To(w, "record_submitted")
     \/ "ambiguous" \in Faults /\ Accept(w, Paying(w)) /\ To(w, "record_failed") /\ UNCHANGED ref
     \/ "reject" \in Faults /\ To(w, "record_failed") /\ UNCHANGED <<transfers, memory, ref>>
  /\ UNCHANGED <<storeVars, batch, job, submission, submittedRef, providerRef,
                 debits, journaled, matched, late>>

RecordSubmitted(w) ==
  /\ pc[w] = "record_submitted"
  /\ submission'   = [submission EXCEPT ![Paying(w)] = "submitted"]
  /\ submittedRef' = [submittedRef EXCEPT ![Paying(w)] = ref[w]]
  /\ Move(w, "save_ref")
  /\ UNCHANGED <<storeVars, providerRef, transfers, debits, journaled, matched, late>>

(* The catch block, whatever the row says by now *)
RecordFailed(w) ==
  /\ pc[w] = "record_failed"
  /\ submission' = [submission EXCEPT ![Paying(w)] = "failed"]
  /\ Move(w, "fail_payment")
  /\ UNCHANGED <<storeVars, submittedRef, providerRef, transfers, debits,
                 journaled, matched, late>>

SaveRef(w) ==
  /\ pc[w] = "save_ref"
  /\ providerRef' = [providerRef EXCEPT ![Paying(w)] = ref[w]]
  /\ Move(w, "debit")
  /\ UNCHANGED <<storeVars, submission, submittedRef, transfers, debits,
                 journaled, matched, late>>

(* Mutant: the ledger does not look for the key first *)
PostDebitAgain(p) ==
  IF balance >= Total[p]
    THEN /\ debits'  = [debits EXCEPT ![p] = @ + 1]
         /\ balance' = balance - Total[p]
    ELSE UNCHANGED <<debits, balance>>

(* Step 3, POST /wallets/:id/debit under the key debit:<id>: one           *)
(* transaction under the wallet row's lock                                 *)
PostDebit(p) ==
  IF debits[p] = 0 /\ balance >= Total[p]
    THEN /\ debits'  = [debits EXCEPT ![p] = @ + 1]
         /\ balance' = balance - Total[p]
    ELSE UNCHANGED <<debits, balance>>

(* Mutant: the saga goes on when the wallet refuses *)
DebitRegardless(w) ==
  /\ pc[w] = "debit"
  /\ PostDebit(Paying(w))
  /\ Move(w, "journal")
  /\ UNCHANGED <<status, paymentRow, jobRows, outbox, submission, submittedRef,
                 providerRef, transfers, journaled, matched, late>>

Debit(w) ==
  /\ pc[w] = "debit"
  /\ PostDebit(Paying(w))
  /\ Move(w, IF debits[Paying(w)] > 0 \/ balance >= Total[Paying(w)] THEN "journal" ELSE "fail_job")
  /\ UNCHANGED <<status, paymentRow, jobRows, outbox, submission, submittedRef,
                 providerRef, transfers, journaled, matched, late>>

(* Step 4, POST /journals/from-payment and POST /reconciliation/matched:   *)
(* each inserts once, a unique index turns the second insert into a read   *)
Journal(w) ==
  /\ pc[w] = "journal"
  /\ journaled' = journaled \cup {Paying(w)}
  /\ Move(w, "match")
  /\ UNCHANGED <<storeVars, submission, submittedRef, providerRef, transfers,
                 debits, matched, late>>

Match(w) ==
  /\ pc[w] = "match"
  /\ matched' = matched \cup {Paying(w)}
  /\ Move(w, "settle")
  /\ UNCHANGED <<storeVars, submission, submittedRef, providerRef, transfers,
                 debits, journaled, late>>

(* Step 5: the statement has no guard of its own, the trigger has *)
Settle(w) ==
  /\ pc[w] = "settle"
  /\ IF TriggerAccepts(Paying(w), "Settled")
       THEN SetStatus(Paying(w), "Settled") /\ Move(w, "audit")
       ELSE UNCHANGED status /\ Move(w, "fail_job")
  /\ UNCHANGED <<paymentRow, jobRows, outbox, balance, bookVars>>

AuditSettled(w) ==
  /\ pc[w] = "audit"
  /\ Emit({Paying(w)}, "Payment settled")
  /\ Move(w, "complete")
  /\ UNCHANGED <<status, paymentRow, jobRows, balance, bookVars>>

-----------------------------------------------------------------------------
(* Faults *)

(* An error before the effect of the step.  The try block around the       *)
(* submission catches its own; any other reaches runJob's catch.           *)
StepError(w) ==
  /\ "step" \in Faults
  /\ pc[w] \notin {"idle", "load", "submit", "fail_job"}
  /\ Move(w, IF pc[w] = "record_submitted" THEN "record_failed" ELSE "fail_job")
  /\ UNCHANGED <<storeVars, bookVars>>

(* Mutant: the saga does not wait for reconciliation *)
TimeoutIgnoredAtMatch(w) ==
  /\ "timeout" \in Faults
  /\ pc[w] \in Calls
  /\ late' = late \cup {<<Paying(w), pc[w]>>}
  /\ Move(w, IF pc[w] = "match" THEN "settle" ELSE "fail_job")
  /\ UNCHANGED <<storeVars, submission, submittedRef, providerRef, transfers,
                 debits, journaled, matched>>

(* The client's 2.5 second timeout expires; the callee does not know *)
Timeout(w) ==
  /\ "timeout" \in Faults
  /\ pc[w] \in Calls
  /\ late' = late \cup {<<Paying(w), pc[w]>>}
  /\ Move(w, "fail_job")
  /\ UNCHANGED <<storeVars, submission, submittedRef, providerRef, transfers,
                 debits, journaled, matched>>

LateEffect(p, call) ==
  /\ <<p, call>> \in late
  /\ late' = late \ {<<p, call>>}
  /\ IF call = "debit" THEN PostDebit(p) ELSE UNCHANGED <<debits, balance>>
  /\ journaled' = journaled \cup (IF call = "journal" THEN {p} ELSE {})
  /\ matched'   = matched \cup (IF call = "match" THEN {p} ELSE {})
  /\ UNCHANGED <<status, paymentRow, jobRows, outbox, workerVars, submission,
                 submittedRef, providerRef, transfers>>

(* The cycle ends early: what it had claimed stays 'running' in the table *)
Drop(w) ==
  /\ To(w, "idle")
  /\ batch' = [batch EXCEPT ![w] = {}]
  /\ job'   = [job EXCEPT ![w] = None]
  /\ Keep(w, 0)

(* A process that dies, or is stopped: it exits 500 ms after SIGTERM *)
Crash(w) ==
  /\ "crash" \in Faults
  /\ Drop(w)
  /\ memory' = [memory EXCEPT ![w] = [p \in Payments |-> 0]]
  /\ UNCHANGED <<storeVars, bookVars>>

(* failJob throws through runJob and the batch loop into worker.run *)
Abort(w) ==
  /\ "abort" \in Faults
  /\ pc[w] = "fail_job"
  /\ Drop(w)
  /\ UNCHANGED <<memory, storeVars, bookVars>>

-----------------------------------------------------------------------------
SagaInit ==
  /\ pc     = [w \in Workers |-> "idle"]
  /\ batch  = [w \in Workers |-> {}]
  /\ job    = [w \in Workers |-> None]
  /\ ref    = [w \in Workers |-> 0]
  /\ memory = [w \in Workers |-> [p \in Payments |-> 0]]
  /\ submission   = [p \in Payments |-> "absent"]
  /\ submittedRef = [p \in Payments |-> 0]
  /\ providerRef  = [p \in Payments |-> 0]
  /\ transfers    = [p \in Payments |-> 0]
  /\ debits       = [p \in Payments |-> 0]
  /\ journaled = {}
  /\ matched = {}
  /\ late = {}

(* The cycle of one worker when nothing goes wrong *)
Work(w) ==
  \/ \E S \in SUBSET Jobs : Claim(w, S)
  \/ \E j \in Jobs : Load(w, j)
  \/ PolicyCheck(w)
  \/ FailPayment(w)
  \/ EnsureSubmission(w)
  \/ SubmitTransfer(w)
  \/ RecordSubmitted(w)
  \/ RecordFailed(w)
  \/ SaveRef(w)
  \/ Debit(w)
  \/ Journal(w)
  \/ Match(w)
  \/ Settle(w)
  \/ AuditSettled(w)
  \/ CompleteJob(w)
  \/ LogSuccess(w)
  \/ FailJob(w)

SagaNext ==
  \/ \E w \in Workers : Work(w)
  \/ \E w \in Workers : StepError(w)
  \/ \E w \in Workers : Timeout(w)
  \/ \E w \in Workers : Crash(w)
  \/ \E w \in Workers : Abort(w)
  \/ \E p \in Payments, call \in Calls : LateEffect(p, call)

(* The queue as executePayment and retryExecution leave it: every payment  *)
(* was approved by its one approver; those that are Executing have jobs,   *)
(* several after a retry, and the others wait to be executed.              *)
QueuedInit ==
  /\ jobPayment \in [Jobs -> Payments]
  /\ LET Queued == {jobPayment[j] : j \in Jobs}
     IN /\ status = [p \in Payments |-> IF p \in Queued THEN "Executing" ELSE "Approved"]
        /\ outbox = Payments \X {"Payment auto-approved"} \cup Queued \X {"Execution enqueued"}
  /\ required   = [p \in Payments |-> 0]
  /\ createdBy  = [p \in Payments |-> None]
  /\ approvers  = [p \in Payments |-> {AutoPolicy}]
  /\ jobStatus  = [j \in Jobs |-> "pending"]
  /\ attempts   = [j \in Jobs |-> 0]
  /\ balance = OpeningBalance

SagaStart == QueuedInit /\ SagaInit

SagaSpec == SagaStart /\ [][SagaNext]_<<storeVars, sagaVars>>
-----------------------------------------------------------------------------
(* Settlement comes last: a Settled payment was transferred under the      *)
(* reference its row carries, debited exactly once, journaled and matched, *)
(* whatever crashed, timed out or ran twice before (executePaymentSaga).   *)
SettledMeansPaid ==
  \A p \in Payments : status[p] = "Settled" =>
    /\ providerRef[p] \in 1 .. transfers[p]
    /\ debits[p] = 1
    /\ p \in journaled
    /\ p \in matched

(* The wallet never pays twice for a payment, never before the provider's  *)
(* reference is saved, and never what it does not hold, although a debit   *)
(* may be asked for by several runs at once and land after the run that    *)
(* asked for it gave up (the debit:<id> key, the lock on the wallet row).  *)
PaidOnce ==
  /\ balance >= 0
  /\ \A p \in Payments : debits[p] <= 1 /\ (debits[p] = 1 => providerRef[p] # 0)

(* The money of a payment moves once, whichever answers of the provider    *)
(* are lost and however often its jobs run in a process that lives         *)
(* (submitTransfer under the key payment:<id>).  payment-saga.mjs: "every  *)
(* attempt (first or retry) reuses the same key, and the provider's own    *)
(* idempotency guarantee [...] returns the already-accepted result instead *)
(* of creating a new one".                                                 *)
OneTransfer == \A p \in Payments : transfers[p] <= 1

(* Once a reference is recorded in provider_submissions it stays, and the  *)
(* payment is never submitted again, whichever step failed after that and  *)
(* although the provider of a restarted process remembers nothing: the     *)
(* recorded row alone stands between a failed or abandoned run, or an      *)
(* operator's retry, and another transfer (ensureProviderSubmission, and   *)
(* the catch block that writes 'failed').  It is said of one process; two  *)
(* may both find the row unrecorded.                                       *)
RecordedIsFinal ==
  [][\A p \in Payments : submission[p] = "submitted" =>
       /\ submission'[p] = "submitted"
       /\ submittedRef'[p] = submittedRef[p]
       /\ transfers'[p] = transfers[p]]_<<storeVars, sagaVars>>

(* The queue hands a job to one worker at a time, and never for more than  *)
(* max_attempts runs (claimJobs, FOR UPDATE SKIP LOCKED; failJob).         *)
Holds(w, j) == j \in batch[w] \/ job[w] = j
ClaimedOnce ==
  \A j \in Jobs :
    /\ \A v, w \in Workers : Holds(v, j) /\ Holds(w, j) => v = w
    /\ attempts[j] <= MaxAttempts

(* The books follow the provider: journal entries exist only for debited   *)
(* payments and Matched rows only for journaled ones, also while runs of   *)
(* the same payment overlap and abandoned calls land late.                 *)
BooksInOrder == matched \subseteq journaled /\ \A p \in journaled : debits[p] = 1

(* As long as no worker dies and failJob itself does not throw, every job  *)
(* ends: completed, or dead-lettered for an operator to look at.           *)
JobsEnd ==
  \A j \in Jobs : jobStatus[j] \in {"pending", "failed", "running"} ~>
                  jobStatus[j] \in {"completed", "dead_lettered"}

(* payment-saga.mjs: "a debit failure here must NOT mark the payment       *)
(* Failed -- that would silently lose the fact that external money already *)
(* moved": a payment whose money left the wallet is never Failed.          *)
NeverFailedAfterDebit ==
  \A p \in Payments : status[p] = "Failed" => debits[p] = 0

(* A live worker keeps going and polls again and again; the faults owe nothing *)
SagaFairness == \A w \in Workers : WF_<<storeVars, sagaVars>>(Work(w))
FairSagaSpec == SagaSpec /\ SagaFairness
=============================================================================
