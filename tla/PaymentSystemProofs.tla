------------------------ MODULE PaymentSystemProofs ------------------------
(***************************************************************************)
(* What the settlement saga, and the saga together with payment-service,   *)
(* guarantee for any number of payments, jobs, workers and requests, under *)
(* every fault of the saga.                                                *)
(***************************************************************************)
EXTENDS PaymentSystem, PaymentServiceProofs

-----------------------------------------------------------------------------
(* The inductive invariant of the saga                                     *)

Busy(w) == pc[w] \notin {"idle", "load"}

(* Types, and what a worker holds: a busy worker runs a job, no other does;*)
(* a job somebody holds is running, or completed and not logged yet; every *)
(* job that exists is about a payment.                                     *)
ShapeInv ==
  /\ SagaTypeOK
  /\ \A w \in Workers : IF Busy(w) THEN job[w] \in Jobs ELSE job[w] = None
  /\ \A w \in Workers, j \in Jobs : Holds(w, j) => jobStatus[j] \in {"running", "completed"}
  /\ \A j \in Jobs : jobStatus[j] # "absent" => jobPayment[j] \in Payments

(* A job is held once, and may be claimed only while an attempt is left.   *)
QueueInv ==
  /\ \A w \in Workers : job[w] \notin batch[w]
  /\ \A j \in Jobs : \A v, w \in Workers : Holds(v, j) /\ Holds(w, j) => v = w
  /\ \A j \in Jobs :
       /\ attempts[j] <= MaxAttempts
       /\ jobStatus[j] \in {"pending", "failed"} => attempts[j] < MaxAttempts
       /\ jobStatus[j] = "absent" => attempts[j] = 0

(* Every reference anybody keeps is one the provider gave out for that     *)
(* payment, and money is asked for only once one is saved.                 *)
RefRows ==
  /\ \A w \in Workers, p \in Payments : memory[w][p] <= transfers[p]
  /\ \A p \in Payments :
       /\ submittedRef[p] <= transfers[p]
       /\ providerRef[p] <= transfers[p]
       /\ submission[p] = "submitted" => submittedRef[p] > 0
  /\ \A p \in Payments, call \in Calls : <<p, call>> \in late => providerRef[p] > 0

RefAt(w) ==
  /\ Busy(w) => ref[w] <= transfers[Paying(w)]
  /\ pc[w] \in {"record_submitted", "save_ref"} => ref[w] > 0
  /\ pc[w] = "policy" /\ ref[w] > 0 => providerRef[Paying(w)] > 0
  /\ pc[w] \in {"debit", "journal", "match", "settle"} => providerRef[Paying(w)] > 0

RefInv == RefRows /\ \A w \in Workers : RefAt(w)

(* The books of a payment are written in order, and what a worker or an    *)
(* abandoned call is about to write has its predecessors.                  *)
BooksRows ==
  /\ balance >= 0
  /\ \A p \in Payments :
       /\ debits[p] <= 1
       /\ debits[p] = 1 => providerRef[p] > 0
       /\ p \in journaled => debits[p] = 1
       /\ p \in matched => p \in journaled
       /\ <<p, "journal">> \in late => debits[p] = 1
       /\ <<p, "match">> \in late => p \in journaled
       /\ status[p] = "Settled" => p \in matched

BooksAt(w) ==
  /\ pc[w] = "journal" => debits[Paying(w)] = 1
  /\ pc[w] = "match" => Paying(w) \in journaled
  /\ pc[w] = "settle" => Paying(w) \in matched
  /\ pc[w] = "audit" => status[Paying(w)] = "Settled"

BooksInv == BooksRows /\ \A w \in Workers : BooksAt(w)

(* Jobs and money belong to payments that were sent into execution.        *)
Executed == {"Executing", "Failed", "Settled"}
StartedInv ==
  /\ \A j \in Jobs : jobStatus[j] # "absent" => status[jobPayment[j]] \in Executed
  /\ \A p \in Payments : transfers[p] > 0 => status[p] \in Executed

SagaInv == ShapeInv /\ QueueInv /\ RefInv /\ BooksInv /\ StartedInv

-----------------------------------------------------------------------------
(* What the composition adds                                               *)

(* A handler that will enqueue has drawn the id of its job, and one that   *)
(* retries has found its payment executed.                                 *)
Enqueuer(r) == stage[r] \in {"execute", "execute_commit", "retry_reopen", "retry_enqueue"}

HandlersInv ==
  \A r \in Requests :
    /\ Enqueuer(r) => req[r].job \in Jobs
    /\ stage[r] \in {"retry_reopen", "retry_enqueue"} => status[req[r].payment] \in Executed

(* A job that will be run again, or is being run and not about to complete *)
Live(j) ==
  /\ jobStatus[j] \notin {"absent", "completed"}
  /\ \A w \in Workers : job[w] = j => pc[w] # "complete"

LiveInv ==
  \A p \in Payments : status[p] = "Executing" =>
    \/ \E j \in Jobs : jobPayment[j] = p /\ Live(j)
    \/ Enqueueing(p)

-----------------------------------------------------------------------------
(* What a step of the saga touches                                         *)

(* The steps of a run between its load and its end, faults included        *)
RunStep(w) ==
  \/ PolicyCheck(w) \/ FailPayment(w) \/ EnsureSubmission(w) \/ SubmitTransfer(w)
  \/ RecordSubmitted(w) \/ RecordFailed(w) \/ SaveRef(w) \/ Debit(w) \/ Journal(w)
  \/ Match(w) \/ Settle(w) \/ AuditSettled(w) \/ StepError(w) \/ Timeout(w)

(* The steps that take a job from the queue or give it back                *)
QueueStep(w) ==
  \/ \E S \in SUBSET Jobs : Claim(w, S)
  \/ \E j \in Jobs : Load(w, j)
  \/ CompleteJob(w) \/ LogSuccess(w) \/ FailJob(w) \/ Crash(w) \/ Abort(w)

LEMMA SagaSteps ==
  ASSUME SagaNext
  PROVE  \/ \E w \in Workers : RunStep(w) \/ QueueStep(w)
         \/ \E p \in Payments, call \in Calls : LateEffect(p, call)
  BY DEF SagaNext, Work, RunStep, QueueStep

(* A worker within a run keeps its jobs and is still busy after the step.  *)
LEMMA RunKeepsJobs ==
  ASSUME NEW w \in Workers, RunStep(w)
  PROVE  /\ Busy(w) /\ UNCHANGED <<batch, job, jobRows>>
         /\ \E s \in Step \ {"idle", "load"} : pc' = [pc EXCEPT ![w] = s]
<1>. USE DEF Busy, Move, To, Step, storeVars, jobRows
<1>1. CASE PolicyCheck(w) \/ FailPayment(w) \/ EnsureSubmission(w) \/ SubmitTransfer(w)
  BY <1>1 DEF PolicyCheck, FailPayment, EnsureSubmission, SubmitTransfer
<1>2. CASE RecordSubmitted(w) \/ RecordFailed(w) \/ SaveRef(w) \/ Debit(w) \/ Journal(w)
  BY <1>2 DEF RecordSubmitted, RecordFailed, SaveRef, Debit, Journal
<1>3. CASE Match(w) \/ Settle(w) \/ AuditSettled(w)
  BY <1>3 DEF Match, Settle, AuditSettled
<1>4. CASE StepError(w)
  BY <1>4 DEF StepError
<1>5. CASE Timeout(w)
  BY <1>5 DEF Timeout, Calls
<1>6. QED BY <1>1, <1>2, <1>3, <1>4, <1>5 DEF RunStep

(* The payment of a busy worker is a payment.                              *)
LEMMA PayingType ==
  ASSUME ShapeInv, NEW w \in Workers, Busy(w)
  PROVE  job[w] \in Jobs /\ jobStatus[job[w]] \in {"running", "completed"} /\ Paying(w) \in Payments
  BY DEF ShapeInv, Holds, Paying

(* The ledger posts the first debit of a payment, if the wallet covers it. *)
LEMMA PostDebitEffect ==
  ASSUME ShapeInv, NEW p \in Payments, PostDebit(p)
  PROVE  \/ /\ debits' = debits /\ balance' = balance
            /\ debits[p] > 0 \/ balance < Total[p]
         \/ /\ debits[p] = 0 /\ balance >= Total[p]
            /\ debits' = [debits EXCEPT ![p] = 1]
            /\ balance' = balance - Total[p]
  BY StoreAssumption DEF PostDebit, ShapeInv, SagaTypeOK, StoreTypeOK

(* The only status the saga writes is the end of an execution.             *)
LEMMA SagaMoves ==
  ASSUME ShapeInv, SagaNext, NEW p \in Payments
  PROVE  \/ status'[p] = status[p]
         \/ status[p] = "Executing" /\ status'[p] \in {"Settled", "Failed"}
<1>1. status \in [Payments -> Status \cup {"absent"}]
  BY DEF ShapeInv, SagaTypeOK, StoreTypeOK
<1>2. CASE UNCHANGED status
  BY <1>2
<1>3. CASE ~UNCHANGED status
  <2>1. PICK w \in Workers : FailPayment(w) \/ Settle(w)
    BY <1>3 DEF SagaNext, Work, Claim, Load, PolicyCheck, EnsureSubmission, SubmitTransfer,
                RecordSubmitted, RecordFailed, SaveRef, Debit, Journal, Match, AuditSettled,
                CompleteJob, LogSuccess, FailJob, StepError, Timeout, Crash, Abort, LateEffect,
                storeVars
  <2>2. Paying(w) \in Payments
    BY <2>1, PayingType DEF FailPayment, Settle, Busy
  <2>3. \/ status' = [status EXCEPT ![Paying(w)] = "Failed"] /\ status[Paying(w)] = "Executing"
        \/ /\ status' = [status EXCEPT ![Paying(w)] = "Settled"]
           /\ status[Paying(w)] \in {"Executing", "Settled"}
    BY <1>3, <2>1 DEF FailPayment, Settle, SetStatus, TriggerAccepts, LegalTransitions
  <2>4. QED BY <1>1, <2>2, <2>3
<1>4. QED BY <1>2, <1>3

-----------------------------------------------------------------------------
(* Types                                                                   *)

(* A run touches the books of the payment it pays, and nothing else.       *)
LEMMA RunTypes ==
  ASSUME ShapeInv, NEW w \in Workers, RunStep(w)
  PROVE  SagaTypeOK'
<1>. DEFINE p == Paying(w)
<1>0. Busy(w) /\ p \in Payments /\ UNCHANGED <<batch, job, jobRows>>
  BY RunKeepsJobs, PayingType
<1>1. pc' \in [Workers -> Step]
  BY RunKeepsJobs DEF ShapeInv, SagaTypeOK
<1>2. status' \in [Payments -> Status \cup {"absent"}]
  <2>1. status' = status \/ \E to \in Status : SetStatus(p, to)
    BY DEF RunStep, PolicyCheck, FailPayment, EnsureSubmission, SubmitTransfer, RecordSubmitted,
           RecordFailed, SaveRef, Debit, Journal, Match, Settle, AuditSettled, StepError, Timeout,
           storeVars, Status
  <2>2. QED BY <2>1, SetStatusType DEF ShapeInv, SagaTypeOK, StoreTypeOK
<1>3. outbox' \subseteq (Payments \cup Jobs) \X Action
  <2>1. outbox' = outbox \/ Emit({p}, "Payment settled")
    BY DEF RunStep, PolicyCheck, FailPayment, EnsureSubmission, SubmitTransfer, RecordSubmitted,
           RecordFailed, SaveRef, Debit, Journal, Match, Settle, AuditSettled, StepError, Timeout,
           storeVars
  <2>2. QED BY <1>0, <2>1, EmitType DEF ShapeInv, SagaTypeOK, StoreTypeOK, Action
<1>. HIDE DEF p
<1>4. StoreTypeOK'
  <2>1. balance' = balance \/ balance' = balance - Total[p]
    BY DEF RunStep, PolicyCheck, FailPayment, EnsureSubmission, SubmitTransfer, RecordSubmitted,
           RecordFailed, SaveRef, Debit, PostDebit, Journal, Match, Settle, AuditSettled, StepError,
           Timeout, storeVars, p
  <2>2. balance' \in Int
    BY <1>0, <2>1, StoreAssumption DEF ShapeInv, SagaTypeOK, StoreTypeOK
  <2>3. UNCHANGED paymentRow
    BY DEF RunStep, PolicyCheck, FailPayment, EnsureSubmission, SubmitTransfer, RecordSubmitted,
           RecordFailed, SaveRef, Debit, Journal, Match, Settle, AuditSettled, StepError, Timeout,
           storeVars, paymentRow
  <2>4. QED BY <1>0, <1>2, <1>3, <2>2, <2>3 DEF ShapeInv, SagaTypeOK, StoreTypeOK, paymentRow, jobRows
<1>. USE <1>0, <1>1, <1>4 DEF ShapeInv, SagaTypeOK, Move, Keep, bookVars
<1>5. CASE PolicyCheck(w) \/ FailPayment(w) \/ Settle(w) \/ AuditSettled(w) \/ StepError(w)
  BY <1>5 DEF PolicyCheck, FailPayment, Settle, AuditSettled, StepError
<1>6. CASE EnsureSubmission(w)
  <2>1. submission' \in [Payments -> {"absent", "pending", "submitted", "failed"}]
    BY <1>6 DEF EnsureSubmission, p
  <2>2. ref' \in [Workers -> Nat]
    BY <1>6 DEF EnsureSubmission, p
  <2>3. QED BY <1>6, <2>1, <2>2 DEF EnsureSubmission
<1>7. CASE SubmitTransfer(w)
  <2>1. Reference(w, p) \in Nat
    BY DEF Reference
  <2>2. transfers' \in [Payments -> Nat]
    BY <1>7 DEF SubmitTransfer, Accept, p
  <2>3. memory' \in [Workers -> [Payments -> Nat]]
    <3>1. memory' = memory \/ memory' = [memory EXCEPT ![w] = [@ EXCEPT ![p] = Reference(w, p)]]
      BY <1>7 DEF SubmitTransfer, Accept, p
    <3>2. [memory[w] EXCEPT ![p] = Reference(w, p)] \in [Payments -> Nat]
      BY <2>1
    <3>3. QED BY <3>1, <3>2
  <2>4. ref' \in [Workers -> Nat]
    BY <1>7, <2>1 DEF SubmitTransfer, p
  <2>5. QED BY <1>7, <2>2, <2>3, <2>4 DEF SubmitTransfer
<1>8. CASE RecordSubmitted(w) \/ RecordFailed(w)
  <2>1. submission' \in [Payments -> {"absent", "pending", "submitted", "failed"}]
    BY <1>8 DEF RecordSubmitted, RecordFailed, p
  <2>2. submittedRef' \in [Payments -> Nat]
    BY <1>8 DEF RecordSubmitted, RecordFailed, p
  <2>3. QED BY <1>8, <2>1, <2>2 DEF RecordSubmitted, RecordFailed
<1>9. CASE SaveRef(w)
  BY <1>9 DEF SaveRef, p
<1>10. CASE Debit(w)
  <2>1. debits' \in [Payments -> Nat]
    BY <1>10, PostDebitEffect DEF Debit, p
  <2>2. QED BY <1>10, <2>1 DEF Debit
<1>11. CASE Journal(w) \/ Match(w)
  BY <1>11 DEF Journal, Match, p
<1>12. CASE Timeout(w)
  BY <1>12 DEF Timeout, p
<1>13. QED BY <1>5, <1>6, <1>7, <1>8, <1>9, <1>10, <1>11, <1>12 DEF RunStep

LEMMA QueueTypes ==
  ASSUME ShapeInv, NEW w \in Workers, QueueStep(w)
  PROVE  SagaTypeOK'
<1>. USE DEF ShapeInv, SagaTypeOK
<1>1. CASE \E S \in SUBSET Jobs : Claim(w, S)
  BY <1>1 DEF Claim, To, paymentRow, bookVars, StoreTypeOK, JobStatus, Step
<1>2. CASE \E j \in Jobs : Load(w, j)
  <2>1. PICK j \in Jobs : Load(w, j)
    BY <1>2
  <2>2. jobPayment[j] \in Payments
    BY <2>1 DEF Load, Holds
  <2>3. ref' \in [Workers -> Nat] /\ batch' \in [Workers -> SUBSET Jobs]
    BY <2>1, <2>2 DEF Load, Keep
  <2>4. pc' \in [Workers -> Step]
    BY <2>1 DEF Load, To, Step
  <2>5. QED BY <2>1, <2>3, <2>4, StoreUnchanged DEF Load, bookVars
<1>3. CASE CompleteJob(w)
  BY <1>3 DEF CompleteJob, Move, To, paymentRow, bookVars, StoreTypeOK, JobStatus, Step
<1>4. CASE LogSuccess(w)
  BY <1>4, StoreUnchanged DEF LogSuccess, Finish, To, Keep, bookVars, Step
<1>5. CASE FailJob(w)
  <2>1. job[w] \in Jobs
    BY <1>5, PayingType DEF FailJob, Busy
  <2>2. outbox' \subseteq (Payments \cup Jobs) \X Action
    BY <1>5, <2>1, EmitType DEF FailJob, StoreTypeOK, Action
  <2>3. jobStatus' \in [Jobs -> JobStatus \cup {"absent"}]
    BY <1>5 DEF FailJob, StoreTypeOK, JobStatus
  <2>4. StoreTypeOK'
    BY <1>5, <2>2, <2>3 DEF FailJob, StoreTypeOK, paymentRow
  <2>5. QED BY <1>5, <2>4 DEF FailJob, Finish, To, Keep, bookVars, Step
<1>6. CASE Crash(w)
  BY <1>6, StoreUnchanged DEF Crash, Drop, To, Keep, bookVars, Step
<1>7. CASE Abort(w)
  BY <1>7, StoreUnchanged DEF Abort, Drop, To, Keep, bookVars, Step
<1>8. QED BY <1>1, <1>2, <1>3, <1>4, <1>5, <1>6, <1>7 DEF QueueStep

LEMMA LateTypes ==
  ASSUME ShapeInv, NEW p \in Payments, NEW call \in Calls, LateEffect(p, call)
  PROVE  SagaTypeOK'
<1>1. \/ debits' = debits /\ balance' = balance
      \/ debits' = [debits EXCEPT ![p] = 1] /\ balance' = balance - Total[p]
  BY PostDebitEffect DEF LateEffect
<1>2. debits' \in [Payments -> Nat] /\ balance' \in Int
  BY <1>1, StoreAssumption DEF ShapeInv, SagaTypeOK, StoreTypeOK
<1>3. /\ UNCHANGED <<status, paymentRow, jobRows, outbox, workerVars, submission, submittedRef,
                     providerRef, transfers>>
      /\ journaled' \subseteq Payments /\ matched' \subseteq Payments /\ late' \subseteq late
  BY DEF LateEffect, ShapeInv, SagaTypeOK
<1>4. StoreTypeOK'
  BY <1>2, <1>3 DEF ShapeInv, SagaTypeOK, StoreTypeOK, paymentRow, jobRows
<1>5. QED BY <1>2, <1>3, <1>4 DEF ShapeInv, SagaTypeOK, workerVars

(* A step of the queue for one worker: what it holds afterwards.           *)
LEMMA QueueEffect ==
  ASSUME ShapeInv, NEW w \in Workers, QueueStep(w)
  PROVE  /\ UNCHANGED jobPayment
         /\ \A v \in Workers \ {w} : pc'[v] = pc[v] /\ batch'[v] = batch[v] /\ job'[v] = job[v]
         /\ \/ /\ pc[w] = "idle" /\ pc'[w] = "load" /\ job'[w] = job[w]
               /\ \A j \in batch'[w] : jobStatus[j] \in {"pending", "failed"}
               /\ jobStatus' = [j \in Jobs |-> IF j \in batch'[w] THEN "running" ELSE jobStatus[j]]
               /\ attempts'  = [j \in Jobs |-> IF j \in batch'[w] THEN attempts[j] + 1 ELSE attempts[j]]
            \/ /\ pc[w] = "load" /\ job'[w] \in batch[w] /\ batch'[w] = batch[w] \ {job'[w]}
               /\ pc'[w] \in {"complete", "policy", "fail_job"}
               /\ pc'[w] = "complete" => status[jobPayment[job'[w]]] = "Settled"
               /\ UNCHANGED <<jobStatus, attempts>>
            \/ /\ pc[w] = "complete" /\ pc'[w] = "log" /\ job'[w] = job[w] /\ batch'[w] = batch[w]
               /\ jobStatus' = [jobStatus EXCEPT ![job[w]] = "completed"] /\ UNCHANGED attempts
            \/ /\ pc'[w] \in {"idle", "load"} /\ job'[w] = None /\ batch'[w] \subseteq batch[w]
               /\ UNCHANGED <<jobStatus, attempts>>
            \/ /\ pc[w] = "fail_job" /\ pc'[w] \in {"idle", "load"}
               /\ job'[w] = None /\ batch'[w] = batch[w] /\ UNCHANGED attempts
               /\ \E s \in {"failed", "dead_lettered"} :
                    /\ jobStatus' = [jobStatus EXCEPT ![job[w]] = s]
                    /\ s = "failed" => attempts[job[w]] < MaxAttempts
<1>0. /\ pc \in [Workers -> Step] /\ batch \in [Workers -> SUBSET Jobs]
      /\ job \in [Workers -> Jobs \cup {None}] /\ attempts \in [Jobs -> Nat]
      /\ MaxAttempts \in Nat
  BY SagaAssumption DEF ShapeInv, SagaTypeOK, StoreTypeOK
<1>1. CASE \E S \in SUBSET Jobs : Claim(w, S)
  BY <1>0, <1>1 DEF Claim, To
<1>2. CASE \E j \in Jobs : Load(w, j)
  <2>1. PICK j \in Jobs : Load(w, j)
    BY <1>2
  <2>2. /\ pc[w] = "load" /\ j \in batch[w] /\ UNCHANGED <<jobStatus, attempts, jobPayment>>
        /\ batch' = [batch EXCEPT ![w] = @ \ {j}] /\ job' = [job EXCEPT ![w] = j]
    BY <2>1 DEF Load, storeVars
  <2>3. PICK s \in {"complete", "policy", "fail_job"} :
          /\ pc' = [pc EXCEPT ![w] = s]
          /\ s = "complete" => status[jobPayment[j]] = "Settled"
    BY <2>1 DEF Load, To
  <2>4. QED BY <1>0, <2>2, <2>3
<1>3. CASE CompleteJob(w)
  BY <1>0, <1>3 DEF CompleteJob, Move, To
<1>4. CASE LogSuccess(w)
  BY <1>0, <1>4 DEF LogSuccess, Finish, To, storeVars
<1>5. CASE FailJob(w)
  <2>1. attempts[job[w]] \in Nat
    BY <1>0, <1>5, PayingType DEF FailJob, Busy
  <2>2. \E s \in {"failed", "dead_lettered"} :
           /\ jobStatus' = [jobStatus EXCEPT ![job[w]] = s]
           /\ s = "failed" => attempts[job[w]] < MaxAttempts
    <3>. DEFINE n == attempts[job[w]]
    <3>1. /\ n >= MaxAttempts => jobStatus' = [jobStatus EXCEPT ![job[w]] = "dead_lettered"]
          /\ ~(n >= MaxAttempts) => jobStatus' = [jobStatus EXCEPT ![job[w]] = "failed"]
      BY <1>5 DEF FailJob
    <3>. HIDE DEF n
    <3>2. n \in Nat
      BY <2>1 DEF n
    <3>3. n >= MaxAttempts \/ n < MaxAttempts
      BY <1>0, <3>2
    <3>4. CASE n >= MaxAttempts
      BY <3>1, <3>4
    <3>5. CASE ~(n >= MaxAttempts)
      BY <3>1, <3>3, <3>5 DEF n
    <3>6. QED BY <3>4, <3>5
  <2>3. QED BY <1>0, <1>5, <2>2 DEF FailJob, Finish, To
<1>6. CASE Crash(w) \/ Abort(w)
  BY <1>0, <1>6 DEF Crash, Abort, Drop, To, storeVars
<1>7. QED BY <1>1, <1>2, <1>3, <1>4, <1>5, <1>6 DEF QueueStep

-----------------------------------------------------------------------------
(* Jobs                                                                    *)

(* Other steps than those of the queue, also of payment-service: nobody's  *)
(* jobs change, but for a new one that nobody can hold yet.                *)
LEMMA JobsKept ==
  ASSUME ShapeInv, QueueInv, SagaTypeOK',
         UNCHANGED <<batch, job>>, \A w \in Workers : Busy(w)' <=> Busy(w),
         \/ UNCHANGED jobRows
         \/ \E j \in Jobs, p \in Payments : Enqueue(j, p)
  PROVE  ShapeInv' /\ QueueInv'
<1>1. CASE UNCHANGED jobRows
  BY <1>1 DEF ShapeInv, QueueInv, Holds, jobRows
<1>2. ASSUME NEW j \in Jobs, NEW p \in Payments, Enqueue(j, p)
      PROVE  ShapeInv' /\ QueueInv'
  <2>1. /\ jobStatus[j] = "absent" /\ jobStatus'[j] = "pending" /\ jobPayment'[j] = p
        /\ attempts' = attempts
        /\ \A i \in Jobs \ {j} : jobStatus'[i] = jobStatus[i] /\ jobPayment'[i] = jobPayment[i]
    BY <1>2 DEF Enqueue, ShapeInv, SagaTypeOK, StoreTypeOK
  <2>2. ShapeInv'
    BY <2>1 DEF ShapeInv, Holds
  <2>3. attempts[j] < MaxAttempts
    BY <2>1, SagaAssumption DEF QueueInv
  <2>4. QueueInv'
    BY <2>1, <2>3 DEF QueueInv, Holds
  <2>5. QED BY <2>2, <2>4
<1>3. QED BY <1>1, <1>2

LEMMA JobsQueueStep ==
  ASSUME ShapeInv, QueueInv, NEW w \in Workers, QueueStep(w)
  PROVE  ShapeInv' /\ QueueInv'
<1>. USE DEF Holds
<1>0. /\ UNCHANGED jobPayment
      /\ \A v \in Workers \ {w} : pc'[v] = pc[v] /\ batch'[v] = batch[v] /\ job'[v] = job[v]
      /\ SagaTypeOK' /\ None \notin Jobs /\ MaxAttempts \in Nat
      /\ attempts \in [Jobs -> Nat] /\ batch'[w] \subseteq Jobs
      /\ batch[w] \subseteq Jobs /\ jobStatus \in [Jobs -> JobStatus \cup {"absent"}]
  BY QueueEffect, QueueTypes, StoreAssumption, SagaAssumption DEF ShapeInv, SagaTypeOK, StoreTypeOK
<1>1. CASE /\ pc[w] = "idle" /\ pc'[w] = "load" /\ job'[w] = job[w]
           /\ \A j \in batch'[w] : jobStatus[j] \in {"pending", "failed"}
           /\ jobStatus' = [j \in Jobs |-> IF j \in batch'[w] THEN "running" ELSE jobStatus[j]]
           /\ attempts'  = [j \in Jobs |-> IF j \in batch'[w] THEN attempts[j] + 1 ELSE attempts[j]]
  <2>1. \A v \in Workers, j \in batch'[w] : ~Holds(v, j)
    BY <1>0, <1>1 DEF ShapeInv
  <2>2. ShapeInv'
    BY <1>0, <1>1, <2>1 DEF ShapeInv, Busy
  <2>3. QueueInv'
    BY <1>0, <1>1, <2>1 DEF QueueInv, ShapeInv, Busy
  <2>4. QED BY <2>2, <2>3
<1>2. CASE /\ pc[w] = "load" /\ job'[w] \in batch[w] /\ batch'[w] = batch[w] \ {job'[w]}
           /\ pc'[w] \in {"complete", "policy", "fail_job"}
           /\ UNCHANGED <<jobStatus, attempts>>
  <2>1. ShapeInv'
    BY <1>0, <1>2 DEF ShapeInv, Busy
  <2>2. QueueInv'
    BY <1>0, <1>2 DEF QueueInv, ShapeInv, Busy
  <2>3. QED BY <2>1, <2>2
<1>3. CASE /\ pc[w] = "complete" /\ pc'[w] = "log" /\ job'[w] = job[w] /\ batch'[w] = batch[w]
           /\ jobStatus' = [jobStatus EXCEPT ![job[w]] = "completed"] /\ UNCHANGED attempts
  <2>1. job[w] \in Jobs /\ jobStatus[job[w]] \in {"running", "completed"}
    BY <1>3, PayingType DEF Busy
  <2>2. ShapeInv'
    BY <1>0, <1>3, <2>1 DEF ShapeInv, Busy
  <2>3. QueueInv'
    BY <1>0, <1>3, <2>1 DEF QueueInv, ShapeInv, Busy
  <2>4. QED BY <2>2, <2>3
<1>4. CASE /\ pc'[w] \in {"idle", "load"} /\ job'[w] = None /\ batch'[w] \subseteq batch[w]
           /\ UNCHANGED <<jobStatus, attempts>>
  <2>1. ShapeInv'
    BY <1>0, <1>4 DEF ShapeInv, Busy
  <2>2. QueueInv'
    BY <1>0, <1>4 DEF QueueInv, ShapeInv, Busy
  <2>3. QED BY <2>1, <2>2
<1>5. CASE /\ pc[w] = "fail_job" /\ pc'[w] \in {"idle", "load"}
           /\ job'[w] = None /\ batch'[w] = batch[w] /\ UNCHANGED attempts
           /\ \E s \in {"failed", "dead_lettered"} :
                /\ jobStatus' = [jobStatus EXCEPT ![job[w]] = s]
                /\ s = "failed" => attempts[job[w]] < MaxAttempts
  <2>1. /\ job[w] \in Jobs /\ jobStatus[job[w]] \in {"running", "completed"}
        /\ \A v \in Workers : Holds(v, job[w]) => v = w
        /\ job[w] \notin batch[w]
    BY <1>5, PayingType DEF Busy, QueueInv
  <2>2. ShapeInv'
    BY <1>0, <1>5, <2>1 DEF ShapeInv, Busy
  <2>3. QueueInv'
    BY <1>0, <1>5, <2>1 DEF QueueInv, ShapeInv, Busy
  <2>4. QED BY <2>2, <2>3
<1>6. QED BY QueueEffect, <1>1, <1>2, <1>3, <1>4, <1>5

LEMMA JobsStep ==
  ASSUME ShapeInv, QueueInv, SagaNext
  PROVE  ShapeInv' /\ QueueInv'
<1>1. ASSUME NEW w \in Workers, RunStep(w) PROVE ShapeInv' /\ QueueInv'
  <2>1. \A v \in Workers : Busy(v)' <=> Busy(v)
    BY <1>1, RunKeepsJobs DEF Busy, ShapeInv, SagaTypeOK
  <2>2. QED BY <1>1, <2>1, RunKeepsJobs, RunTypes, JobsKept
<1>2. ASSUME NEW p \in Payments, NEW call \in Calls, LateEffect(p, call)
      PROVE  ShapeInv' /\ QueueInv'
  <2>1. UNCHANGED <<batch, job, jobRows>> /\ \A v \in Workers : Busy(v)' <=> Busy(v)
    BY <1>2 DEF LateEffect, workerVars, Busy
  <2>2. QED BY <1>2, <2>1, LateTypes, JobsKept
<1>3. QED BY <1>1, <1>2, JobsQueueStep, SagaSteps

-----------------------------------------------------------------------------
(* References                                                              *)

(* A step of one worker leaves the others where they were.                 *)
LEMMA OthersStay ==
  ASSUME ShapeInv, NEW w \in Workers, RunStep(w) \/ QueueStep(w), NEW v \in Workers \ {w}
  PROVE  pc'[v] = pc[v] /\ ref'[v] = ref[v] /\ memory'[v] = memory[v] /\ Paying(v)' = Paying(v)
<1>0. /\ pc \in [Workers -> Step] /\ ref \in [Workers -> Nat]
      /\ memory \in [Workers -> [Payments -> Nat]] /\ job \in [Workers -> Jobs \cup {None}]
  BY DEF ShapeInv, SagaTypeOK
<1>1. CASE RunStep(w)
  <2>1. pc'[v] = pc[v] /\ Paying(v)' = Paying(v)
    BY <1>0, <1>1, RunKeepsJobs DEF Paying, jobRows
  <2>2. \/ ref' = ref \/ \E n : ref' = [ref EXCEPT ![w] = n]
    BY <1>1 DEF RunStep, PolicyCheck, FailPayment, EnsureSubmission, SubmitTransfer,
                RecordSubmitted, RecordFailed, SaveRef, Debit, Journal, Match, Settle,
                AuditSettled, StepError, Timeout, Move, Keep
  <2>3. \/ memory' = memory \/ \E m : memory' = [memory EXCEPT ![w] = m]
    BY <1>1 DEF RunStep, PolicyCheck, FailPayment, EnsureSubmission, SubmitTransfer, Accept,
                RecordSubmitted, RecordFailed, SaveRef, Debit, Journal, Match, Settle,
                AuditSettled, StepError, Timeout, Move
  <2>4. QED BY <1>0, <2>1, <2>2, <2>3
<1>2. CASE QueueStep(w)
  <2>1. pc'[v] = pc[v] /\ Paying(v)' = Paying(v)
    BY <1>2, QueueEffect DEF Paying
  <2>2. \/ ref' = ref \/ \E n : ref' = [ref EXCEPT ![w] = n]
    BY <1>2 DEF QueueStep, Claim, Load, CompleteJob, LogSuccess, FailJob, Crash, Abort, Drop,
                Finish, Move, Keep
  <2>3. \/ memory' = memory \/ \E m : memory' = [memory EXCEPT ![w] = m]
    BY <1>2 DEF QueueStep, Claim, Load, CompleteJob, LogSuccess, FailJob, Crash, Abort, Drop,
                Finish, Move
  <2>4. QED BY <1>0, <2>1, <2>2, <2>3
<1>3. QED BY <1>1, <1>2

(* While the provider's transfers and the saved references only grow, a    *)
(* worker that stays where it is keeps what it has.                        *)
LEMMA RefAtKept ==
  ASSUME ShapeInv, ShapeInv', RefInv, NEW v \in Workers,
         pc'[v] = pc[v], ref'[v] = ref[v], Busy(v) => Paying(v)' = Paying(v),
         \A p \in Payments : /\ transfers'[p] >= transfers[p]
                             /\ providerRef[p] > 0 => providerRef'[p] > 0
  PROVE  RefAt(v)'
<1>1. CASE ~Busy(v)
  BY <1>1 DEF RefAt, Busy
<1>2. CASE Busy(v)
  <2>1. Paying(v) \in Payments
    BY <1>2, PayingType
  <2>2. ref[v] \in Nat /\ transfers[Paying(v)] \in Nat /\ transfers'[Paying(v)] \in Nat
    BY <2>1 DEF ShapeInv, SagaTypeOK
  <2>3. QED BY <1>2, <2>1, <2>2 DEF RefInv, RefAt, Busy
<1>3. QED BY <1>1, <1>2

LEMMA RefRun ==
  ASSUME ShapeInv, ShapeInv', RefInv, NEW w \in Workers, RunStep(w)
  PROVE  RefInv' /\ \A p \in Payments : /\ transfers'[p] >= transfers[p]
                                        /\ providerRef[p] > 0 => providerRef'[p] > 0
<1>. DEFINE Grow == \A p \in Payments : /\ transfers'[p] >= transfers[p]
                                        /\ providerRef[p] > 0 => providerRef'[p] > 0
<1>0. /\ pc \in [Workers -> Step] /\ ref \in [Workers -> Nat] /\ memory \in [Workers -> [Payments -> Nat]]
      /\ transfers \in [Payments -> Nat] /\ providerRef \in [Payments -> Nat]
      /\ submittedRef \in [Payments -> Nat]
      /\ submission \in [Payments -> {"absent", "pending", "submitted", "failed"}]
      /\ transfers' \in [Payments -> Nat] /\ ref' \in [Workers -> Nat]
      /\ memory' \in [Workers -> [Payments -> Nat]] /\ late \subseteq Payments \X Calls
  BY DEF ShapeInv, SagaTypeOK
<1>1. PICK p \in Payments : p = Paying(w)
  BY RunKeepsJobs, PayingType
<1>2. Paying(w)' = p /\ Busy(w)
  BY <1>1, RunKeepsJobs DEF Paying, jobRows
<1>3. RefRows /\ RefAt(w)
  BY DEF RefInv
<1>. SUFFICES Grow /\ RefRows' /\ RefAt(w)'
  BY OthersStay, RefAtKept DEF RefInv
<1>. USE <1>0, <1>1, <1>2, <1>3 DEF RefRows, RefAt, Busy, Move, To, Keep
<1>4. CASE \/ FailPayment(w) \/ Settle(w) \/ AuditSettled(w) \/ StepError(w)
           \/ Journal(w) \/ Match(w) \/ Debit(w) \/ PolicyCheck(w)
  <2>1. UNCHANGED <<ref, memory, transfers, submission, submittedRef, providerRef, late>>
    BY <1>4 DEF FailPayment, Settle, AuditSettled, StepError, Journal, Match, Debit, PolicyCheck, bookVars
  <2>2. Grow /\ RefRows'
    BY <2>1
  <2>3. CASE PolicyCheck(w)
    <3>1. /\ pc[w] = "policy"
          /\ \/ pc'[w] \in {"fail_payment", "fail_job", "ensure"}
             \/ pc'[w] = "debit" /\ ref[w] # 0
      BY <2>3 DEF PolicyCheck
    <3>2. QED BY <2>1, <3>1
  <2>4. CASE FailPayment(w) \/ Settle(w) \/ AuditSettled(w) \/ StepError(w)
    <3>1. pc'[w] \in {"complete", "audit", "fail_job", "record_failed"}
      BY <2>4 DEF FailPayment, Settle, AuditSettled, StepError
    <3>2. QED BY <2>1, <3>1
  <2>5. CASE Journal(w) \/ Match(w) \/ Debit(w)
    BY <2>1, <2>5 DEF Journal, Match, Debit
  <2>6. QED BY <1>4, <2>2, <2>3, <2>4, <2>5
<1>5. CASE EnsureSubmission(w)
  BY <1>5 DEF EnsureSubmission
<1>6. CASE SubmitTransfer(w)
  <2>1. memory[w][p] \in Nat /\ memory[w][p] <= transfers[p]
    OBVIOUS
  <2>2. Reference(w, p) \in Nat /\ Reference(w, p) > 0
    BY <2>1 DEF Reference
  <2>3. CASE Accept(w, p)
    <3>1. /\ transfers'[p] >= transfers[p] /\ Reference(w, p) <= transfers'[p]
          /\ \A q \in Payments \ {p} : transfers'[q] = transfers[q]
      BY <2>1, <2>3 DEF Accept, Reference
    <3>2. \A v \in Workers, q \in Payments :
            memory'[v][q] = memory[v][q] \/ (q = p /\ memory'[v][q] = Reference(w, p))
      BY <2>3 DEF Accept
    <3>3. UNCHANGED <<submission, submittedRef, providerRef, late>>
      BY <1>6 DEF SubmitTransfer
    <3>4. Grow
      BY <3>1, <3>3
    <3>5. \A v \in Workers, q \in Payments : memory'[v][q] <= transfers'[q]
      <4>. SUFFICES ASSUME NEW v \in Workers, NEW q \in Payments
                    PROVE  memory'[v][q] <= transfers'[q]
        OBVIOUS
      <4>1. memory[v][q] \in Nat /\ memory[v][q] <= transfers[q] /\ transfers[q] <= transfers'[q]
        BY <3>4
      <4>2. transfers[q] \in Nat /\ transfers'[q] \in Nat
        OBVIOUS
      <4>3. CASE memory'[v][q] = memory[v][q]
        BY <4>1, <4>2, <4>3
      <4>4. CASE q = p /\ memory'[v][q] = Reference(w, p)
        BY <3>1, <4>4
      <4>5. QED BY <3>2, <4>3, <4>4
    <3>6. RefRows'
      BY <3>1, <3>3, <3>4, <3>5
    <3>7. \/ ref'[w] = Reference(w, p) /\ pc'[w] = "record_submitted"
          \/ ref'[w] = ref[w] /\ pc'[w] = "record_failed"
      BY <1>6 DEF SubmitTransfer
    <3>8. RefAt(w)'
      <4>1. ref[w] \in Nat /\ ref[w] <= transfers[p] /\ transfers[p] \in Nat
        BY <1>6 DEF SubmitTransfer
      <4>2. ref'[w] <= transfers'[p]
        BY <2>2, <3>1, <3>7, <4>1
      <4>3. QED BY <2>2, <3>7, <4>2
    <3>9. QED BY <3>4, <3>6, <3>8
  <2>4. CASE UNCHANGED <<transfers, memory, ref>> /\ To(w, "record_failed")
    BY <1>6, <2>4 DEF SubmitTransfer
  <2>5. QED BY <1>6, <2>3, <2>4 DEF SubmitTransfer
<1>7. CASE RecordSubmitted(w) \/ RecordFailed(w)
  <2>1. \A q \in Payments :
          /\ submittedRef'[q] = submittedRef[q] \/ (q = p /\ submittedRef'[q] = ref[w])
          /\ submission'[q] = "submitted" =>
               \/ submission[q] = "submitted" /\ submittedRef'[q] = submittedRef[q]
               \/ q = p /\ pc[w] = "record_submitted" /\ submittedRef'[q] = ref[w]
    BY <1>7 DEF RecordSubmitted, RecordFailed
  <2>2. UNCHANGED <<memory, transfers, providerRef, late>>
    BY <1>7 DEF RecordSubmitted, RecordFailed
  <2>3. Grow /\ RefRows'
    BY <2>1, <2>2
  <2>4. RefAt(w)'
    BY <1>7, <2>2 DEF RecordSubmitted, RecordFailed
  <2>5. QED BY <2>3, <2>4
<1>8. CASE SaveRef(w)
  BY <1>8 DEF SaveRef
<1>9. CASE Timeout(w)
  BY <1>9 DEF Timeout, Calls
<1>10. QED BY <1>4, <1>5, <1>6, <1>7, <1>8, <1>9 DEF RunStep

LEMMA RefQueue ==
  ASSUME ShapeInv, ShapeInv', RefInv, NEW w \in Workers, QueueStep(w)
  PROVE  RefInv' /\ UNCHANGED bookVars
<1>0. /\ pc \in [Workers -> Step] /\ ref \in [Workers -> Nat] /\ job \in [Workers -> Jobs \cup {None}]
      /\ memory \in [Workers -> [Payments -> Nat]]
      /\ transfers \in [Payments -> Nat] /\ providerRef \in [Payments -> Nat]
  BY DEF ShapeInv, SagaTypeOK
<1>1. UNCHANGED bookVars /\ UNCHANGED jobPayment
  BY QueueEffect DEF QueueStep, Claim, Load, CompleteJob, LogSuccess, FailJob, Crash, Abort
<1>2. UNCHANGED <<submission, submittedRef, providerRef, transfers, late>>
  BY <1>1 DEF bookVars
<1>3. RefRows'
  <2>1. memory' = memory \/ memory' = [memory EXCEPT ![w] = [p \in Payments |-> 0]]
    BY DEF QueueStep, Claim, Load, CompleteJob, LogSuccess, FailJob, Crash, Abort, Finish, Move
  <2>2. \A v \in Workers, p \in Payments : memory'[v][p] = memory[v][p] \/ memory'[v][p] = 0
    BY <1>0, <2>1
  <2>3. \A v \in Workers, p \in Payments : memory'[v][p] <= transfers[p]
    BY <1>0, <2>2 DEF RefInv, RefRows
  <2>4. QED BY <1>2, <2>3 DEF RefInv, RefRows
<1>4. RefAt(w)'
  <2>1. CASE pc'[w] \in {"idle", "load"}
    BY <2>1 DEF RefAt, Busy
  <2>2. ASSUME NEW j \in Jobs, Load(w, j) PROVE RefAt(w)'
    <3>1. /\ ref'[w] = providerRef[jobPayment[j]] /\ Paying(w)' = jobPayment[j]
          /\ pc'[w] \in {"complete", "policy", "fail_job"}
      BY <1>0, <1>1, <2>2 DEF Load, Keep, To, Paying
    <3>2. jobPayment[j] \in Payments
      BY <2>2 DEF Load, ShapeInv, Holds
    <3>3. providerRef[jobPayment[j]] <= transfers[jobPayment[j]]
      BY <3>2 DEF RefInv, RefRows
    <3>4. QED BY <1>2, <3>1, <3>3 DEF RefAt
  <2>3. CASE CompleteJob(w)
    <3>1. /\ pc[w] = "complete" /\ pc'[w] = "log" /\ ref'[w] = ref[w] /\ Paying(w)' = Paying(w)
      BY <1>0, <1>1, <2>3 DEF CompleteJob, Move, To, Paying
    <3>2. QED BY <1>2, <3>1 DEF RefInv, RefAt, Busy
  <2>4. CASE \E S \in SUBSET Jobs : Claim(w, S)
    <3>1. pc'[w] = "load"
      BY <1>0, <2>4 DEF Claim, To
    <3>2. QED BY <2>1, <3>1
  <2>5. CASE LogSuccess(w) \/ FailJob(w) \/ Crash(w) \/ Abort(w)
    <3>1. pc'[w] \in {"idle", "load"}
      BY <1>0, <2>5 DEF LogSuccess, FailJob, Crash, Abort, Finish, Drop, To
    <3>2. QED BY <2>1, <3>1
  <2>6. QED BY <2>2, <2>3, <2>4, <2>5 DEF QueueStep
<1>5. ASSUME NEW v \in Workers \ {w} PROVE RefAt(v)'
  BY <1>0, <1>2, OthersStay, RefAtKept
<1>6. QED BY <1>1, <1>3, <1>4, <1>5 DEF RefInv

(* Neither a late call nor a step of payment-service touches a reference.  *)
LEMMA RefKept ==
  ASSUME ShapeInv, ShapeInv', RefInv,
         UNCHANGED <<pc, ref, memory, submission, submittedRef, providerRef, transfers>>,
         late' \subseteq late, \A w \in Workers : Busy(w) => Paying(w)' = Paying(w)
  PROVE  RefInv'
<1>1. RefRows'
  BY DEF RefInv, RefRows
<1>2. \A p \in Payments : transfers[p] \in Nat
  BY DEF ShapeInv, SagaTypeOK
<1>3. \A w \in Workers : RefAt(w)'
  BY <1>2, RefAtKept
<1>4. QED BY <1>1, <1>3 DEF RefInv

LEMMA RefStep ==
  ASSUME ShapeInv, ShapeInv', RefInv, SagaNext
  PROVE  RefInv' /\ \A p \in Payments : /\ transfers'[p] >= transfers[p]
                                        /\ providerRef[p] > 0 => providerRef'[p] > 0
<1>0. \A p \in Payments : transfers[p] \in Nat
  BY DEF ShapeInv, SagaTypeOK
<1>1. ASSUME NEW w \in Workers, QueueStep(w)
      PROVE  RefInv' /\ UNCHANGED <<transfers, providerRef>>
  BY <1>1, RefQueue DEF bookVars
<1>2. ASSUME NEW p \in Payments, NEW call \in Calls, LateEffect(p, call)
      PROVE  RefInv' /\ UNCHANGED <<transfers, providerRef>>
  BY <1>2, RefKept DEF LateEffect, workerVars, jobRows, Paying
<1>3. QED BY <1>0, <1>1, <1>2, RefRun, SagaSteps

-----------------------------------------------------------------------------
(* The books                                                               *)

(* What is written in the books of a payment stays there.                  *)
BooksGrow ==
  /\ journaled \subseteq journaled' /\ matched \subseteq matched'
  /\ \A p \in Payments : /\ debits[p] = 1 => debits'[p] = 1
                         /\ status[p] = "Settled" => status'[p] = "Settled"

LEMMA BooksAtKept ==
  ASSUME ShapeInv, BooksInv, BooksGrow, NEW v \in Workers,
         pc'[v] = pc[v], Busy(v) => Paying(v)' = Paying(v)
  PROVE  BooksAt(v)'
<1>1. CASE ~Busy(v)
  BY <1>1 DEF BooksAt, Busy
<1>2. CASE Busy(v)
  BY <1>2, PayingType DEF BooksInv, BooksAt, BooksGrow
<1>3. QED BY <1>1, <1>2

(* The ledger posts under the lock of the wallet row, also for late calls. *)
LEMMA BooksPost ==
  ASSUME ShapeInv, BooksInv, NEW p \in Payments, PostDebit(p), providerRef[p] > 0
  PROVE  /\ balance' >= 0
         /\ \A q \in Payments : debits'[q] = debits[q] \/ (q = p /\ debits[q] = 0 /\ debits'[q] = 1)
         /\ debits[p] > 0 \/ balance >= Total[p] => debits'[p] = 1
<1>0. balance \in Int /\ balance >= 0 /\ Total[p] \in Nat /\ debits \in [Payments -> Nat] /\ debits[p] <= 1
  BY StoreAssumption DEF ShapeInv, SagaTypeOK, StoreTypeOK, BooksInv, BooksRows
<1>1. CASE debits' = debits /\ balance' = balance /\ (debits[p] > 0 \/ balance < Total[p])
  <2>1. debits[p] > 0 \/ balance >= Total[p] => debits[p] > 0
    BY <1>0, <1>1
  <2>2. debits[p] > 0 => debits[p] = 1
    BY <1>0
  <2>3. QED BY <1>0, <1>1, <2>1, <2>2
<1>2. CASE /\ debits[p] = 0 /\ balance >= Total[p]
           /\ debits' = [debits EXCEPT ![p] = 1] /\ balance' = balance - Total[p]
  <2>1. balance' >= 0
    BY <1>0, <1>2
  <2>2. QED BY <1>0, <1>2, <2>1
<1>3. QED BY <1>1, <1>2, PostDebitEffect

LEMMA BooksRun ==
  ASSUME ShapeInv, ShapeInv', RefInv, RefInv', BooksInv, NEW w \in Workers, RunStep(w),
         \A p \in Payments : providerRef[p] > 0 => providerRef'[p] > 0
  PROVE  BooksInv'
<1>0. /\ pc \in [Workers -> Step] /\ status \in [Payments -> Status \cup {"absent"}]
      /\ debits \in [Payments -> Nat] /\ debits' \in [Payments -> Nat] /\ balance \in Int
      /\ providerRef \in [Payments -> Nat] /\ late \subseteq Payments \X Calls
  BY DEF ShapeInv, SagaTypeOK, StoreTypeOK
<1>1. PICK p \in Payments : p = Paying(w)
  BY RunKeepsJobs, PayingType
<1>2. Paying(w)' = p /\ Busy(w)
  BY <1>1, RunKeepsJobs DEF Paying, jobRows
<1>3. BooksRows /\ BooksAt(w)
  BY DEF BooksInv
<1>. SUFFICES BooksGrow /\ BooksRows' /\ BooksAt(w)'
  BY OthersStay, BooksAtKept DEF BooksInv
<1>4. CASE \/ PolicyCheck(w) \/ EnsureSubmission(w) \/ SubmitTransfer(w) \/ RecordSubmitted(w)
           \/ RecordFailed(w) \/ SaveRef(w) \/ StepError(w) \/ AuditSettled(w)
  <2>1. UNCHANGED <<status, balance, debits, journaled, matched, late>>
    BY <1>4 DEF PolicyCheck, EnsureSubmission, SubmitTransfer, RecordSubmitted, RecordFailed,
                SaveRef, StepError, AuditSettled, storeVars, bookVars
  <2>2. pc'[w] \notin {"journal", "match", "settle", "audit"}
    BY <1>0, <1>4 DEF PolicyCheck, EnsureSubmission, SubmitTransfer, RecordSubmitted, RecordFailed,
                SaveRef, StepError, AuditSettled, Move, To
  <2>3. BooksRows'
    BY <1>3, <2>1 DEF BooksRows
  <2>4. QED BY <2>1, <2>2, <2>3 DEF BooksGrow, BooksAt
<1>5. CASE FailPayment(w) \/ Settle(w)
  <2>1. UNCHANGED <<balance, providerRef, debits, journaled, matched, late>>
    BY <1>5 DEF FailPayment, Settle, bookVars
  <2>2. \A q \in Payments :
          \/ status'[q] = status[q]
          \/ status[q] # "Settled" /\ status'[q] # "Settled"
          \/ q = p /\ pc[w] = "settle" /\ status'[q] = "Settled"
    <3>1. CASE FailPayment(w)
      BY <1>0, <1>1, <3>1 DEF FailPayment, SetStatus
    <3>2. CASE Settle(w)
      BY <1>0, <1>1, <3>2 DEF Settle, SetStatus
    <3>3. QED BY <1>5, <3>1, <3>2
  <2>3. BooksGrow /\ BooksRows'
    BY <1>1, <1>3, <2>1, <2>2 DEF BooksRows, BooksAt, BooksGrow
  <2>4. pc'[w] \in {"complete", "fail_job"} \/ (pc'[w] = "audit" /\ status'[p] = "Settled")
    BY <1>0, <1>1, <1>5 DEF FailPayment, Settle, Move, To, SetStatus
  <2>5. QED BY <1>2, <2>3, <2>4 DEF BooksAt
<1>6. CASE Debit(w)
  <2>1. UNCHANGED <<status, providerRef, journaled, matched, late>> /\ pc[w] = "debit" /\ PostDebit(p)
    BY <1>1, <1>6 DEF Debit
  <2>2. providerRef[p] > 0
    BY <1>1, <2>1 DEF RefInv, RefAt
  <2>3. /\ balance' >= 0
        /\ \A q \in Payments : debits'[q] = debits[q] \/ (q = p /\ debits[q] = 0 /\ debits'[q] = 1)
        /\ debits[p] > 0 \/ balance >= Total[p] => debits'[p] = 1
    BY <2>1, <2>2, BooksPost
  <2>4. BooksGrow
    BY <2>1, <2>3 DEF BooksGrow
  <2>5. BooksRows'
    BY <1>3, <2>1, <2>2, <2>3 DEF BooksRows
  <2>6. \/ pc'[w] = "journal" /\ (debits[p] > 0 \/ balance >= Total[p])
        \/ pc'[w] = "fail_job"
    BY <1>0, <1>1, <1>6 DEF Debit, Move, To
  <2>7. QED BY <1>2, <2>3, <2>4, <2>5, <2>6 DEF BooksAt
<1>7. CASE Journal(w)
  <2>1. /\ UNCHANGED <<status, balance, providerRef, debits, matched, late>> /\ pc[w] = "journal"
        /\ pc'[w] = "match" /\ journaled' = journaled \cup {p} /\ debits[p] = 1
    BY <1>0, <1>1, <1>3, <1>7 DEF Journal, Move, To, storeVars, BooksAt
  <2>2. BooksGrow /\ BooksRows'
    BY <1>3, <2>1 DEF BooksGrow, BooksRows
  <2>3. QED BY <1>2, <2>1, <2>2 DEF BooksAt
<1>8. CASE Match(w)
  <2>1. /\ UNCHANGED <<status, balance, providerRef, debits, journaled, late>> /\ pc[w] = "match"
        /\ pc'[w] = "settle" /\ matched' = matched \cup {p} /\ p \in journaled
    BY <1>0, <1>1, <1>3, <1>8 DEF Match, Move, To, storeVars, BooksAt
  <2>2. BooksGrow /\ BooksRows'
    BY <1>3, <2>1 DEF BooksGrow, BooksRows
  <2>3. QED BY <1>2, <2>1, <2>2 DEF BooksAt
<1>9. CASE Timeout(w)
  <2>1. /\ UNCHANGED <<status, balance, providerRef, debits, journaled, matched>>
        /\ late' = late \cup {<<p, pc[w]>>} /\ pc'[w] = "fail_job"
    BY <1>0, <1>1, <1>9 DEF Timeout, Move, To, storeVars
  <2>2. BooksGrow /\ BooksRows'
    BY <1>1, <1>3, <2>1 DEF BooksGrow, BooksRows, BooksAt
  <2>3. QED BY <2>1, <2>2 DEF BooksAt
<1>10. QED BY <1>4, <1>5, <1>6, <1>7, <1>8, <1>9 DEF RunStep

LEMMA BooksQueue ==
  ASSUME ShapeInv, BooksInv, NEW w \in Workers, QueueStep(w), UNCHANGED bookVars
  PROVE  BooksInv'
<1>1. UNCHANGED <<status, balance>>
  BY DEF QueueStep, Claim, Load, CompleteJob, LogSuccess, FailJob, Crash, Abort, storeVars
<1>2. BooksGrow /\ BooksRows'
  BY <1>1 DEF BooksInv, BooksRows, BooksGrow, bookVars
<1>3. pc'[w] \in {"idle", "load", "complete", "policy", "fail_job", "log"}
  BY QueueEffect
<1>4. BooksAt(w)'
  BY <1>3 DEF BooksAt
<1>5. \A v \in Workers \ {w} : BooksAt(v)'
  BY <1>2, OthersStay, BooksAtKept
<1>6. QED BY <1>2, <1>4, <1>5 DEF BooksInv

(* An abandoned call writes what its worker was about to write.            *)
LEMMA BooksLate ==
  ASSUME ShapeInv, RefInv, BooksInv, NEW p \in Payments, NEW call \in Calls, LateEffect(p, call)
  PROVE  BooksInv'
<1>0. /\ BooksRows /\ providerRef[p] > 0
      /\ UNCHANGED <<status, providerRef, pc>> /\ late' \subseteq late
      /\ \A v \in Workers : Paying(v)' = Paying(v)
  BY DEF BooksInv, RefInv, RefRows, LateEffect, workerVars, jobRows, Paying
<1>1. CASE call = "debit"
  <2>1. PostDebit(p) /\ UNCHANGED <<journaled, matched>>
    BY <1>1 DEF LateEffect
  <2>2. balance' >= 0 /\ \A q \in Payments :
          debits'[q] = debits[q] \/ (q = p /\ debits[q] = 0 /\ debits'[q] = 1)
    BY <1>0, <2>1, BooksPost
  <2>3. BooksGrow
    BY <1>0, <2>1, <2>2 DEF BooksGrow
  <2>4. BooksRows'
    BY <1>0, <2>1, <2>2 DEF BooksRows
  <2>5. QED BY <1>0, <2>3, <2>4, BooksAtKept DEF BooksInv
<1>2. CASE call \in {"journal", "match"}
  <2>1. /\ UNCHANGED <<balance, debits>> /\ <<p, call>> \in late
        /\ \/ call = "journal" /\ journaled' = journaled \cup {p} /\ matched' = matched
           \/ call = "match" /\ matched' = matched \cup {p} /\ journaled' = journaled
    BY <1>2 DEF LateEffect
  <2>2. BooksGrow /\ BooksRows'
    BY <1>0, <2>1 DEF BooksGrow, BooksRows
  <2>3. QED BY <1>0, <2>2, BooksAtKept DEF BooksInv
<1>3. QED BY <1>1, <1>2 DEF Calls

LEMMA BooksStep ==
  ASSUME ShapeInv, ShapeInv', RefInv, BooksInv, SagaNext
  PROVE  BooksInv'
<1>1. ASSUME NEW w \in Workers, QueueStep(w) PROVE BooksInv'
  BY <1>1, RefQueue, BooksQueue
<1>2. QED BY <1>1, RefStep, BooksRun, BooksLate, SagaSteps

-----------------------------------------------------------------------------
(* Jobs and money of payments in execution                                 *)

(* The provider hears of a payment only from a worker that runs its job.   *)
LEMMA TransfersEffect ==
  ASSUME SagaNext
  PROVE  \/ UNCHANGED transfers
         \/ \E w \in Workers :
              /\ SubmitTransfer(w) /\ Accept(w, Paying(w)) /\ Busy(w)
<1>1. CASE \E w \in Workers : SubmitTransfer(w)
  BY <1>1 DEF SubmitTransfer, Busy
<1>2. CASE ~ \E w \in Workers : SubmitTransfer(w)
  BY <1>2 DEF SagaNext, Work, Claim, Load, PolicyCheck, FailPayment, EnsureSubmission,
              RecordSubmitted, RecordFailed, SaveRef, Debit, Journal, Match, Settle, AuditSettled,
              CompleteJob, LogSuccess, FailJob, StepError, Timeout, Crash, Abort, LateEffect, bookVars
<1>3. QED BY <1>1, <1>2

(* The saga makes no job and forgets none.                                 *)
LEMMA SagaJobs ==
  ASSUME ShapeInv, SagaNext
  PROVE  UNCHANGED jobPayment /\ \A j \in Jobs : jobStatus'[j] = "absent" <=> jobStatus[j] = "absent"
<1>0. jobStatus \in [Jobs -> JobStatus \cup {"absent"}]
  BY DEF ShapeInv, SagaTypeOK, StoreTypeOK
<1>1. ASSUME NEW w \in Workers, RunStep(w) PROVE UNCHANGED jobRows
  BY <1>1, RunKeepsJobs
<1>2. ASSUME NEW p \in Payments, NEW call \in Calls, LateEffect(p, call) PROVE UNCHANGED jobRows
  BY <1>2 DEF LateEffect
<1>3. ASSUME NEW w \in Workers, QueueStep(w)
      PROVE  /\ UNCHANGED jobPayment
             /\ \A j \in Jobs : jobStatus'[j] = "absent" <=> jobStatus[j] = "absent"
  <2>1. Busy(w) => jobStatus[job[w]] # "absent"
    BY PayingType
  <2>2. UNCHANGED jobPayment
    BY <1>3, QueueEffect
  <2>3. CASE /\ \A j \in batch'[w] : jobStatus[j] \in {"pending", "failed"}
             /\ jobStatus' = [i \in Jobs |-> IF i \in batch'[w] THEN "running" ELSE jobStatus[i]]
    BY <2>2, <2>3
  <2>4. CASE jobStatus' = jobStatus
    BY <2>2, <2>4
  <2>5. CASE /\ pc[w] \in {"complete", "fail_job"}
             /\ \E s \in {"completed", "failed", "dead_lettered"} :
                  jobStatus' = [jobStatus EXCEPT ![job[w]] = s]
    BY <1>0, <2>1, <2>2, <2>5 DEF Busy
  <2>6. QED BY <1>3, <2>3, <2>4, <2>5, QueueEffect
<1>4. QED BY <1>1, <1>2, <1>3, SagaSteps DEF jobRows

LEMMA StartedStep ==
  ASSUME ShapeInv, StartedInv, SagaNext
  PROVE  StartedInv'
<1>1. \A p \in Payments : status[p] \in Executed => status'[p] \in Executed
  BY SagaMoves DEF Executed
<1>2. \A j \in Jobs : jobStatus'[j] # "absent" => status'[jobPayment'[j]] \in Executed
  BY <1>1, SagaJobs DEF StartedInv, ShapeInv
<1>3. \A p \in Payments : transfers'[p] > 0 => status'[p] \in Executed
  <2>1. CASE UNCHANGED transfers
    BY <1>1, <2>1 DEF StartedInv
  <2>2. ASSUME NEW w \in Workers, Accept(w, Paying(w)), Busy(w)
        PROVE  \A p \in Payments : transfers'[p] > 0 => status'[p] \in Executed
    <3>1. /\ job[w] \in Jobs /\ jobStatus[job[w]] # "absent" /\ Paying(w) \in Payments
      BY <2>2, PayingType
    <3>2. status[Paying(w)] \in Executed
      BY <3>1 DEF StartedInv, Paying
    <3>3. \A p \in Payments \ {Paying(w)} : transfers'[p] = transfers[p]
      BY <2>2 DEF Accept, ShapeInv, SagaTypeOK
    <3>4. QED BY <1>1, <3>1, <3>2, <3>3 DEF StartedInv
  <2>3. QED BY <2>1, <2>2, TransfersEffect
<1>4. QED BY <1>2, <1>3 DEF StartedInv

-----------------------------------------------------------------------------
LEMMA SagaInvInit ==
  ASSUME SagaInit, StoreTypeOK,
         \A j \in Jobs : /\ attempts[j] = 0
                         /\ jobStatus[j] # "absent" =>
                              jobPayment[j] \in Payments /\ status[jobPayment[j]] = "Executing",
         \A p \in Payments : status[p] # "Settled", balance >= 0
  PROVE  SagaInv
<1>1. SagaTypeOK
  BY DEF SagaInit, SagaTypeOK, Step
<1>2. ShapeInv
  <2>1. \A w \in Workers : pc[w] = "idle" /\ job[w] = None /\ batch[w] = {}
    BY DEF SagaInit
  <2>2. \A w \in Workers, j \in Jobs : ~Holds(w, j)
    BY <2>1, StoreAssumption DEF Holds
  <2>3. QED BY <1>1, <2>1, <2>2 DEF ShapeInv, Busy
<1>3. QueueInv
  BY SagaAssumption, StoreAssumption DEF QueueInv, SagaInit, Holds
<1>4. RefInv
  BY DEF RefInv, RefRows, RefAt, SagaInit, Busy
<1>5. BooksInv
  BY DEF BooksInv, BooksRows, BooksAt, SagaInit
<1>6. StartedInv
  BY DEF StartedInv, Executed, SagaInit
<1>7. QED BY <1>2, <1>3, <1>4, <1>5, <1>6 DEF SagaInv

LEMMA SagaStartInv == SagaStart => SagaInv
<1>. SUFFICES ASSUME QueuedInit, SagaInit PROVE SagaInv
  BY DEF SagaStart
<1>1. jobPayment \in [Jobs -> Payments]
  BY DEF QueuedInit
<1>2. \A p \in Payments : status[p] \in {"Executing", "Approved"}
  BY DEF QueuedInit
<1>3. \A j \in Jobs : status[jobPayment[j]] = "Executing"
  BY <1>1 DEF QueuedInit
<1>4. balance \in Int /\ balance >= 0
  <2>1. balance = OpeningBalance
    BY DEF QueuedInit
  <2>2. QED BY <2>1, StoreAssumption
<1>5. StoreTypeOK
  <2>1. outbox \subseteq (Payments \cup Jobs) \X Action
    BY <1>1 DEF QueuedInit, Action
  <2>2. status \in [Payments -> Status \cup {"absent"}]
    BY DEF QueuedInit, Status
  <2>. /\ required = [p \in Payments |-> 0] /\ attempts = [j \in Jobs |-> 0]
       /\ createdBy = [p \in Payments |-> None] /\ approvers = [p \in Payments |-> {AutoPolicy}]
       /\ jobStatus = [j \in Jobs |-> "pending"]
    BY DEF QueuedInit
  <2>3. required \in [Payments -> 0 .. 2] /\ attempts \in [Jobs -> Nat]
    OBVIOUS
  <2>4. /\ createdBy \in [Payments -> Users \cup {None}]
        /\ approvers \in [Payments -> SUBSET (Users \cup {System, AutoPolicy})]
        /\ jobStatus \in [Jobs -> JobStatus \cup {"absent"}]
    BY DEF JobStatus
  <2>5. jobPayment \in [Jobs -> Payments \cup {None}]
    BY <1>1
  <2>6. QED BY <1>4, <2>1, <2>2, <2>3, <2>4, <2>5 DEF StoreTypeOK
<1>6. \A j \in Jobs : attempts[j] = 0
  BY DEF QueuedInit
<1>7. QED BY <1>1, <1>2, <1>3, <1>4, <1>5, <1>6, SagaInvInit

LEMMA SagaInvStep == SagaInv /\ SagaNext => SagaInv'
<1>. SUFFICES ASSUME SagaInv, SagaNext PROVE SagaInv'
  OBVIOUS
<1>1. ShapeInv /\ QueueInv /\ RefInv /\ BooksInv /\ StartedInv
  BY DEF SagaInv
<1>2. ShapeInv' /\ QueueInv'
  BY <1>1, JobsStep
<1>3. RefInv' /\ BooksInv' /\ StartedInv'
  BY <1>1, <1>2, RefStep, BooksStep, StartedStep
<1>4. QED BY <1>2, <1>3 DEF SagaInv

LEMMA SagaInvKept == SagaInv /\ UNCHANGED <<storeVars, sagaVars>> => SagaInv'
  BY DEF SagaInv, ShapeInv, QueueInv, RefInv, BooksInv, StartedInv, SagaTypeOK, StoreTypeOK, Holds,
         Busy, Paying, RefRows, RefAt, BooksRows, BooksAt, storeVars, sagaVars, workerVars, bookVars

(* What the invariant says of the money and of the queue                   *)
LEMMA SagaInvImplies ==
  SagaInv => SagaTypeOK /\ SettledMeansPaid /\ PaidOnce /\ ClaimedOnce /\ BooksInOrder
<1>. SUFFICES ASSUME SagaInv
              PROVE  SagaTypeOK /\ SettledMeansPaid /\ PaidOnce /\ ClaimedOnce /\ BooksInOrder
  OBVIOUS
<1>1. /\ SagaTypeOK /\ BooksRows /\ RefRows /\ QueueInv
      /\ transfers \in [Payments -> Nat] /\ providerRef \in [Payments -> Nat]
      /\ debits \in [Payments -> Nat] /\ journaled \subseteq Payments /\ matched \subseteq Payments
  BY DEF SagaInv, ShapeInv, SagaTypeOK, BooksInv, RefInv
<1>2. SettledMeansPaid
  <2>. SUFFICES ASSUME NEW p \in Payments, status[p] = "Settled"
                PROVE  providerRef[p] \in 1 .. transfers[p] /\ debits[p] = 1 /\ p \in journaled /\ p \in matched
    BY DEF SettledMeansPaid
  <2>1. p \in matched /\ p \in journaled /\ debits[p] = 1 /\ providerRef[p] > 0
    BY <1>1 DEF BooksRows
  <2>2. providerRef[p] <= transfers[p] /\ providerRef[p] \in Nat /\ transfers[p] \in Nat
    BY <1>1 DEF RefRows
  <2>3. QED BY <2>1, <2>2
<1>3. PaidOnce
  <2>1. \A p \in Payments : providerRef[p] \in Nat
    BY <1>1
  <2>2. \A p \in Payments : providerRef[p] > 0 => providerRef[p] # 0
    BY <2>1
  <2>3. QED BY <1>1, <2>2 DEF PaidOnce, BooksRows
<1>4. ClaimedOnce
  BY <1>1 DEF ClaimedOnce, QueueInv
<1>5. BooksInOrder
  BY <1>1 DEF BooksInOrder, BooksRows
<1>6. QED BY <1>1, <1>2, <1>3, <1>4, <1>5

LEMMA SagaInvariant == SagaSpec => []SagaInv
<1>1. SagaInv /\ [SagaNext]_<<storeVars, sagaVars>> => SagaInv'
  BY SagaInvStep, SagaInvKept
<1>2. QED BY <1>1, SagaStartInv, PTL DEF SagaSpec

(* The rows and local variables of the saga keep their types, for any      *)
(* number of workers and jobs and under every fault.                       *)
THEOREM SagaTypes == SagaSpec => []SagaTypeOK
  BY SagaInvariant, SagaInvImplies, PTL

(* However runs overlap, crash, time out and repeat, a Settled payment was *)
(* transferred, debited exactly once, journaled and matched                *)
(* (executePaymentSaga).                                                   *)
THEOREM SagaSettledMeansPaid == SagaSpec => []SettledMeansPaid
  BY SagaInvariant, SagaInvImplies, PTL

(* The wallet is never overdrawn and never pays twice for a payment, nor   *)
(* before the provider's reference is saved, late debits included          *)
(* (POST /wallets/:id/debit).                                              *)
THEOREM SagaPaidOnce == SagaSpec => []PaidOnce
  BY SagaInvariant, SagaInvImplies, PTL

(* No two workers hold one job and no job is claimed more than             *)
(* max_attempts times (claimJobs, failJob).                                *)
THEOREM SagaClaimedOnce == SagaSpec => []ClaimedOnce
  BY SagaInvariant, SagaInvImplies, PTL

(* Journal entries follow debits and Matched rows follow journal entries,  *)
(* also for calls that land after their run gave up.                       *)
THEOREM SagaBooksInOrder == SagaSpec => []BooksInOrder
  BY SagaInvariant, SagaInvImplies, PTL

-----------------------------------------------------------------------------
(* What is recorded in provider_submissions, with one process.  A run that *)
(* submits, or has submitted and not written the outcome, found the payment*)
(* unrecorded, and nobody else can have recorded it since.                 *)
Outstanding == {"submit", "record_submitted", "record_failed"}

UnrecordedInv == \A w \in Workers : pc[w] \in Outstanding => submission[Paying(w)] # "submitted"

(* A recorded payment is neither submitted again nor recorded differently. *)
Final(p) == submission[p] = "submitted" =>
  submission'[p] = "submitted" /\ submittedRef'[p] = submittedRef[p] /\ transfers'[p] = transfers[p]

LEMMA RecordedRun ==
  ASSUME ShapeInv, NEW w \in Workers, RunStep(w), pc[w] \in Outstanding => submission[Paying(w)] # "submitted"
  PROVE  /\ \A p \in Payments : Final(p)
         /\ pc'[w] \in Outstanding => submission'[Paying(w)'] # "submitted"
<1>. DEFINE p == Paying(w)
<1>0. /\ Paying(w)' = p /\ p \in Payments /\ pc \in [Workers -> Step]
      /\ submission \in [Payments -> {"absent", "pending", "submitted", "failed"}]
      /\ submittedRef \in [Payments -> Nat] /\ transfers \in [Payments -> Nat]
  BY RunKeepsJobs, PayingType DEF ShapeInv, SagaTypeOK, Paying, jobRows
<1>1. CASE EnsureSubmission(w)
  <2>1. \/ UNCHANGED submission /\ pc'[w] = "save_ref"
        \/ /\ submission[p] # "submitted"
           /\ submission' = [submission EXCEPT ![p] = IF @ = "absent" THEN "pending" ELSE @]
    BY <1>0, <1>1 DEF EnsureSubmission, To
  <2>2. UNCHANGED <<submittedRef, transfers>>
    BY <1>1 DEF EnsureSubmission
  <2>3. QED BY <1>0, <2>1, <2>2 DEF Final, Outstanding
<1>2. CASE SubmitTransfer(w)
  <2>1. UNCHANGED <<submission, submittedRef>> /\ pc[w] = "submit"
    BY <1>2 DEF SubmitTransfer
  <2>2. \A q \in Payments \ {p} : transfers'[q] = transfers[q]
    BY <1>0, <1>2 DEF SubmitTransfer, Accept
  <2>3. QED BY <1>0, <2>1, <2>2 DEF Final, Outstanding
<1>3. CASE RecordSubmitted(w)
  <2>1. /\ submission' = [submission EXCEPT ![p] = "submitted"]
        /\ submittedRef' = [submittedRef EXCEPT ![p] = ref[w]]
        /\ UNCHANGED transfers /\ pc[w] = "record_submitted" /\ pc'[w] = "save_ref"
    BY <1>0, <1>3 DEF RecordSubmitted, Move, To
  <2>2. QED BY <1>0, <2>1 DEF Final, Outstanding
<1>4. CASE RecordFailed(w)
  <2>1. /\ submission' = [submission EXCEPT ![p] = "failed"]
        /\ UNCHANGED <<submittedRef, transfers>> /\ pc[w] = "record_failed"
    BY <1>4 DEF RecordFailed
  <2>2. QED BY <1>0, <2>1 DEF Final, Outstanding
<1>5. CASE \/ PolicyCheck(w) \/ FailPayment(w) \/ SaveRef(w) \/ Debit(w) \/ Journal(w) \/ Match(w)
           \/ Settle(w) \/ AuditSettled(w) \/ StepError(w) \/ Timeout(w)
  <2>1. UNCHANGED <<submission, submittedRef, transfers>>
    BY <1>5 DEF PolicyCheck, FailPayment, SaveRef, Debit, Journal, Match, Settle, AuditSettled,
                StepError, Timeout, bookVars
  <2>2. pc'[w] \in Outstanding => pc[w] \in Outstanding
    BY <1>0, <1>5 DEF PolicyCheck, FailPayment, SaveRef, Debit, Journal, Match, Settle, AuditSettled,
                StepError, Timeout, Move, To, Outstanding
  <2>3. QED BY <1>0, <2>1, <2>2 DEF Final
<1>6. QED BY <1>1, <1>2, <1>3, <1>4, <1>5 DEF RunStep

LEMMA RecordedQueue ==
  ASSUME ShapeInv, NEW w \in Workers, QueueStep(w)
  PROVE  UNCHANGED <<submission, submittedRef, transfers>> /\ pc'[w] \notin Outstanding
<1>1. pc \in [Workers -> Step]
  BY DEF ShapeInv, SagaTypeOK
<1>2. UNCHANGED <<submission, submittedRef, transfers>>
  BY DEF QueueStep, Claim, Load, CompleteJob, LogSuccess, FailJob, Crash, Abort, bookVars
<1>3. pc'[w] \notin Outstanding
  BY <1>1 DEF QueueStep, Claim, Load, CompleteJob, LogSuccess, FailJob, Crash, Abort, Drop, Finish,
              Move, To, Outstanding
<1>4. QED BY <1>2, <1>3

LEMMA RecordedStep ==
  ASSUME \A v, w \in Workers : v = w, ShapeInv, UnrecordedInv, SagaNext
  PROVE  UnrecordedInv' /\ \A p \in Payments : Final(p)
<1>1. ASSUME NEW w \in Workers, RunStep(w)
      PROVE  UnrecordedInv' /\ \A p \in Payments : Final(p)
  BY <1>1, RecordedRun DEF UnrecordedInv
<1>2. ASSUME NEW w \in Workers, QueueStep(w)
      PROVE  UnrecordedInv' /\ \A p \in Payments : Final(p)
  BY <1>2, RecordedQueue DEF UnrecordedInv, Final
<1>3. ASSUME NEW p \in Payments, NEW call \in Calls, LateEffect(p, call)
      PROVE  UnrecordedInv' /\ \A q \in Payments : Final(q)
  BY <1>3 DEF LateEffect, workerVars, jobRows, Paying, UnrecordedInv, Final
<1>4. QED BY <1>1, <1>2, <1>3, SagaSteps

(* With one worker process, however often it dies, and with every other    *)
(* fault: a recorded submission stays and its payment is not submitted     *)
(* again, although a restarted simulated rail has forgotten its keys       *)
(* (ensureProviderSubmission).                                             *)
THEOREM SagaRecordedIsFinal ==
  ASSUME \A v, w \in Workers : v = w
  PROVE  SagaSpec => RecordedIsFinal
<1>1. SagaStart => UnrecordedInv
  BY DEF SagaStart, SagaInit, UnrecordedInv, Outstanding
<1>2. SagaInv /\ UnrecordedInv /\ [SagaNext]_<<storeVars, sagaVars>> => UnrecordedInv'
  <2>1. UnrecordedInv /\ UNCHANGED <<storeVars, sagaVars>> => UnrecordedInv'
    BY DEF UnrecordedInv, Paying, storeVars, jobRows, sagaVars, workerVars, bookVars
  <2>2. QED BY <2>1, RecordedStep DEF SagaInv
<1>3. SagaInv /\ UnrecordedInv /\ SagaNext
        => \A p \in Payments : submission[p] = "submitted" =>
             /\ submission'[p] = "submitted"
             /\ submittedRef'[p] = submittedRef[p]
             /\ transfers'[p] = transfers[p]
  BY RecordedStep DEF SagaInv, Final
<1>4. QED BY <1>1, <1>2, <1>3, SagaInvariant, PTL DEF SagaSpec, RecordedIsFinal

-----------------------------------------------------------------------------
(* The two services together: a step of the saga                           *)

(* The saga appends events of its own and leaves the rows of the approval  *)
(* alone.                                                                  *)
SagaEvents == {"Payment settled", "Job dead-lettered"}

LEMMA SagaAppends ==
  ASSUME SagaNext
  PROVE  /\ UNCHANGED paymentRow /\ outbox \subseteq outbox'
         /\ \A p, a : <<p, a>> \in outbox' \ outbox => a \in SagaEvents
<1>1. UNCHANGED paymentRow /\ (UNCHANGED outbox \/ \E q, b : b \in SagaEvents /\ Emit({q}, b))
  BY DEF SagaNext, Work, Claim, Load, PolicyCheck, FailPayment, EnsureSubmission, SubmitTransfer,
         RecordSubmitted, RecordFailed, SaveRef, Debit, Journal, Match, Settle, AuditSettled,
         CompleteJob, LogSuccess, FailJob, StepError, Timeout, Crash, Abort, LateEffect,
         storeVars, paymentRow, SagaEvents
<1>2. QED BY <1>1, EmitGrows, EmitOne

LEMMA SagaKeepsEyes ==
  ASSUME EyesInv, SagaInv, SagaNext, UNCHANGED serviceVars
  PROVE  EyesInv'
<1>1. ShapeInv /\ StoreTypeOK'
  BY SagaInvStep DEF SagaInv, ShapeInv, SagaTypeOK
<1>2. TypeInv'
  BY <1>1 DEF EyesInv, TypeInv, ServiceTypeOK, RequestOK, serviceVars
<1>3. \A p \in Payments : \/ status'[p] = status[p]
                          \/ status[p] = "Executing" /\ status'[p] \in {"Settled", "Failed"}
  BY <1>1, SagaMoves
<1>4. RowsInv'
  BY <1>3, SagaAppends, RowsKept DEF EyesInv, Authorised
<1>5. SlotsInv'
  BY <1>3, SagaAppends, SlotsKept DEF EyesInv, serviceVars, paymentRow
<1>6. QED BY <1>2, <1>4, <1>5 DEF EyesInv

LEMMA SagaKeepsHandlers ==
  ASSUME TypeInv, SagaInv, HandlersInv, SagaNext, UNCHANGED serviceVars
  PROVE  HandlersInv'
<1>1. \A p \in Payments : status[p] \in Executed => status'[p] \in Executed
  BY SagaMoves DEF SagaInv, Executed
<1>2. UNCHANGED <<stage, req>>
  BY DEF serviceVars
<1>3. QED BY <1>1, <1>2 DEF HandlersInv, Enqueuer, TypeInv, RequestOK

LEMMA SagaKeepsAudit ==
  ASSUME EyesInv, SagaInv, AuditInv, SagaNext, UNCHANGED serviceVars
  PROVE  AuditInv'
  BY SagaMoves, SagaAppends, AuditSame DEF SagaInv, SagaEvents, serviceVars

(* A job that is still to run stays so, unless its payment's execution     *)
(* ends.                                                                   *)
LEMMA SagaKeepsLive ==
  ASSUME SagaInv, SagaNext, NEW j \in Jobs, Live(j), status'[jobPayment[j]] = "Executing"
  PROVE  Live(j)'
<1>0. /\ ShapeInv /\ pc \in [Workers -> Step] /\ job \in [Workers -> Jobs \cup {None}]
      /\ jobStatus \in [Jobs -> JobStatus \cup {"absent"}] /\ status \in [Payments -> Status \cup {"absent"}]
      /\ jobStatus[j] # "absent" /\ jobStatus[j] # "completed" /\ jobPayment[j] \in Payments
  BY DEF SagaInv, ShapeInv, SagaTypeOK, StoreTypeOK, Live
<1>1. status[jobPayment[j]] = "Executing"
  BY <1>0, SagaMoves
<1>2. ASSUME NEW w \in Workers, RunStep(w) PROVE Live(j)'
  <2>1. UNCHANGED <<job, jobStatus>>
    BY <1>2, RunKeepsJobs DEF jobRows
  <2>2. \A v \in Workers \ {w} : pc'[v] = pc[v]
    BY <1>0, <1>2, OthersStay
  <2>3. ASSUME job[w] = j, pc'[w] = "complete" PROVE FALSE
    <3>1. FailPayment(w) \/ AuditSettled(w)
      BY <1>0, <1>2, <2>3 DEF RunStep, PolicyCheck, EnsureSubmission, SubmitTransfer, RecordSubmitted,
            RecordFailed, SaveRef, Debit, Journal, Match, Settle, StepError, Timeout, Move, To
    <3>2. CASE FailPayment(w)
      <4>1. status' = [status EXCEPT ![jobPayment[j]] = "Failed"]
        BY <1>1, <2>3, <3>2 DEF FailPayment, Paying, SetStatus
      <4>2. QED BY <1>0, <4>1
    <3>3. CASE AuditSettled(w)
      BY <1>1, <2>3, <3>3 DEF AuditSettled, Paying, SagaInv, BooksInv, BooksAt
    <3>4. QED BY <3>1, <3>2, <3>3
  <2>4. QED BY <1>0, <2>1, <2>2, <2>3 DEF Live
<1>3. ASSUME NEW w \in Workers, QueueStep(w) PROVE Live(j)'
  <2>1. \A v \in Workers \ {w} : pc'[v] = pc[v] /\ job'[v] = job[v]
    BY <1>0, <1>3, QueueEffect
  <2>2. \A v \in Workers : job[v] = j => pc[v] # "complete"
    BY DEF Live
  <2>3. jobStatus'[j] # "completed" /\ jobStatus'[j] # "absent"
    <3>1. UNCHANGED jobStatus \/ jobStatus'[j] = jobStatus[j] \/ jobStatus'[j] \in {"running", "failed", "dead_lettered"}
      <4>1. CASE CompleteJob(w)
        BY <1>0, <2>2, <4>1 DEF CompleteJob
      <4>2. CASE FailJob(w)
        <5>1. \E s \in {"failed", "dead_lettered"} : jobStatus' = [jobStatus EXCEPT ![job[w]] = s]
          BY <4>2 DEF FailJob
        <5>2. QED BY <1>0, <5>1
      <4>3. CASE \E S \in SUBSET Jobs : Claim(w, S)
        BY <1>0, <4>3 DEF Claim
      <4>4. CASE (\E i \in Jobs : Load(w, i)) \/ LogSuccess(w) \/ Crash(w) \/ Abort(w)
        BY <4>4 DEF Load, LogSuccess, Crash, Abort, storeVars
      <4>5. QED BY <1>3, <4>1, <4>2, <4>3, <4>4 DEF QueueStep
    <3>2. QED BY <1>0, <3>1
  <2>4. ASSUME job'[w] = j, pc'[w] = "complete" PROVE FALSE
    <3>1. status[jobPayment[job'[w]]] = "Settled"
      BY <1>0, <1>3, <2>4, QueueEffect
    <3>2. QED BY <1>1, <2>4, <3>1
  <2>5. QED BY <2>1, <2>2, <2>3, <2>4 DEF Live
<1>4. ASSUME NEW p \in Payments, NEW call \in Calls, LateEffect(p, call) PROVE Live(j)'
  BY <1>4 DEF LateEffect, workerVars, jobRows, Live
<1>5. QED BY <1>2, <1>3, <1>4, SagaSteps

LEMMA SagaKeepsLiveInv ==
  ASSUME SagaInv, LiveInv, SagaNext, UNCHANGED serviceVars
  PROVE  LiveInv'
<1>. SUFFICES ASSUME NEW p \in Payments, status'[p] = "Executing"
              PROVE  (\E j \in Jobs : jobPayment'[j] = p /\ Live(j)') \/ Enqueueing(p)'
  BY DEF LiveInv
<1>1. status[p] = "Executing"
  BY SagaMoves DEF SagaInv
<1>2. UNCHANGED jobPayment
  BY SagaJobs DEF SagaInv
<1>3. ASSUME NEW j \in Jobs, jobPayment[j] = p, Live(j) PROVE Live(j)'
  BY <1>3, SagaKeepsLive
<1>4. Enqueueing(p)' <=> Enqueueing(p)
  BY DEF Enqueueing, serviceVars
<1>5. QED BY <1>1, <1>2, <1>3, <1>4 DEF LiveInv

-----------------------------------------------------------------------------
(* The two services together: a step of payment-service                    *)

(* It enqueues at most one job, whose payment is then in execution, and    *)
(* never touches the wallet.                                               *)
LEMMA ServiceJobs ==
  ASSUME EyesInv, HandlersInv, ServiceNext
  PROVE  /\ UNCHANGED balance
         /\ \/ UNCHANGED jobRows
            \/ \E j \in Jobs, p \in Payments : Enqueue(j, p) /\ status'[p] \in Executed
<1>1. CASE UNCHANGED storeVars
  BY <1>1 DEF storeVars, jobRows
<1>2. ASSUME NEW r \in Requests, ExecuteCommit(r) \/ RetryEnqueue(r)
      PROVE  /\ UNCHANGED balance
             /\ \/ UNCHANGED jobRows
                \/ \E j \in Jobs, p \in Payments : Enqueue(j, p) /\ status'[p] \in Executed
  <2>1. PICK p \in Payments, j \in Jobs : p = req[r].payment /\ j = req[r].job
    BY <1>2 DEF ExecuteCommit, RetryEnqueue, EyesInv, TypeInv, RequestOK, HandlersInv, Enqueuer
  <2>2. CASE ExecuteCommit(r)
    <3>1. status \in [Payments -> Status \cup {"absent"}]
      BY DEF EyesInv, TypeInv, ServiceTypeOK, StoreTypeOK
    <3>2. /\ UNCHANGED balance
          /\ \/ UNCHANGED jobRows
             \/ status' = [status EXCEPT ![p] = "Executing"] /\ Enqueue(j, p)
      BY <2>1, <2>2 DEF ExecuteCommit, SetStatus
    <3>3. QED BY <3>1, <3>2 DEF Executed
  <2>3. CASE RetryEnqueue(r)
    BY <2>1, <2>3 DEF RetryEnqueue, HandlersInv
  <2>4. QED BY <1>2, <2>2, <2>3
<1>3. ASSUME NEW r \in Requests, \/ CreateInsert(r) \/ CreateCommitLost(r) \/ ApproveBlock(r)
                                 \/ ApproveCommit(r) \/ ExecuteBlock(r) \/ CancelCommit(r) \/ RetryReopen(r)
      PROVE  UNCHANGED balance /\ UNCHANGED jobRows
  BY <1>3 DEF CreateInsert, CreateCommitLost, InsertPayment, ApproveBlock, ApproveCommit, ExecuteBlock,
              BlockFrom, CancelCommit, RetryReopen
<1>4. ASSUME NEW r \in Requests,
             \/ Arrive(r) \/ CreateError(r) \/ Abandon(r) \/ (\E n \in 0 .. 2 : CreateEvaluate(r, n))
             \/ CreateRelease(r) \/ ApproveEvaluate(r) \/ ExecuteEvaluate(r)
      PROVE  UNCHANGED storeVars
  BY <1>4 DEF Arrive, CreateReserve, CreateReplay, ApproveRead, ExecuteRead, CancelRead, RetryRead,
              Begin, CreateError, Abandon, CreateEvaluate, CreateRelease, ApproveEvaluate, ExecuteEvaluate
<1>5. ASSUME NEW S \in SUBSET Payments, ExpireStale(S) PROVE UNCHANGED balance /\ UNCHANGED jobRows
  BY <1>5 DEF ExpireStale
<1>6. ASSUME NEW k \in Keys, SweepKey(k) PROVE UNCHANGED storeVars
  BY <1>6 DEF SweepKey
<1>7. QED BY <1>1, <1>2, <1>3, <1>4, <1>5, <1>6 DEF ServiceNext, Continue

LEMMA ServiceKeepsEyes == EyesInv /\ ServiceNext => EyesInv'
  BY EyesStep DEF OpenNext

(* A handler that goes on, ends or starts, seen from HandlersInv           *)
LEMMA HandlersKept ==
  ASSUME TypeInv, HandlersInv,
         \A p \in Payments : status[p] \in Executed => status'[p] \in Executed,
         \A r \in Requests :
           \/ ~Enqueuer(r)'
           \/ /\ req'[r].job = req[r].job /\ req'[r].payment = req[r].payment
              /\ Enqueuer(r)
              /\ \/ stage[r] \in {"retry_reopen", "retry_enqueue"}
                 \/ stage'[r] \notin {"retry_reopen", "retry_enqueue"}
           \/ /\ req'[r].job \in Jobs
              /\ stage'[r] \in {"retry_reopen", "retry_enqueue"} =>
                   req'[r].payment \in Payments /\ status[req'[r].payment] \in Executed
  PROVE  HandlersInv'
<1>. SUFFICES ASSUME NEW r \in Requests PROVE HandlersInv!(r)'
  BY DEF HandlersInv
<1>1. Enqueuer(r) => req[r].payment \in Payments
  BY DEF TypeInv, RequestOK, Enqueuer
<1>2. stage'[r] \in {"retry_reopen", "retry_enqueue"} => Enqueuer(r)'
  BY DEF Enqueuer
<1>3. QED BY <1>1, <1>2 DEF HandlersInv

LEMMA ServiceKeepsHandlers ==
  ASSUME EyesInv, HandlersInv, ServiceNext
  PROVE  HandlersInv'
<1>. /\ stage \in [Requests -> Stage] /\ req \in [Requests -> Request] /\ TypeInv
  BY DEF EyesInv, TypeInv, ServiceTypeOK
<1>1. \A p \in Payments : status[p] \in Executed => status'[p] \in Executed
  BY ServiceMoves DEF Decision, Executed
<1>2. CASE UNCHANGED <<stage, req>>
  BY <1>1, <1>2, HandlersKept DEF Enqueuer
<1>3. ASSUME NEW r \in Requests, Return(r) PROVE HandlersInv'
  <2>1. stage'[r] = "idle" /\ \A q \in Requests \ {r} : stage'[q] = stage[q] /\ req'[q] = req[q]
    BY <1>3 DEF Return, Goto
  <2>2. QED BY <1>1, <2>1, HandlersKept DEF Enqueuer
<1>4. ASSUME NEW r \in Requests, NEW s, Goto(r, s), UNCHANGED req,
             \/ s \notin {"execute", "execute_commit", "retry_reopen", "retry_enqueue"}
             \/ stage[r] = "execute" /\ s = "execute_commit"
             \/ stage[r] = "retry_reopen" /\ s = "retry_enqueue"
      PROVE  HandlersInv'
  <2>1. stage'[r] = s /\ req' = req /\ \A q \in Requests \ {r} : stage'[q] = stage[q]
    BY <1>4 DEF Goto
  <2>2. QED BY <1>1, <1>4, <2>1, HandlersKept DEF Enqueuer
<1>5. ASSUME NEW r \in Requests, NEW s, Goto(r, s), s \in {"create", "insert"},
             \A q \in Requests \ {r} : req'[q] = req[q]
      PROVE  HandlersInv'
  <2>1. stage'[r] = s /\ \A q \in Requests \ {r} : stage'[q] = stage[q]
    BY <1>5 DEF Goto
  <2>2. QED BY <1>1, <1>5, <2>1, HandlersKept DEF Enqueuer
<1>6. ASSUME NEW r \in Requests, NEW p \in Payments, NEW u, NEW j \in Jobs \cup {None}, NEW s,
             Begin(r, p, u, j, s),
             s \in {"execute", "retry_reopen", "retry_enqueue"} => j \in Jobs,
             s \in {"retry_reopen", "retry_enqueue"} => status[p] \in Executed,
             s # "execute_commit"
      PROVE  HandlersInv'
  <2>1. /\ stage'[r] = s /\ req'[r].job = j /\ req'[r].payment = p
        /\ \A q \in Requests \ {r} : stage'[q] = stage[q] /\ req'[q] = req[q]
    BY <1>6 DEF Begin, Goto, Locals
  <2>2. QED BY <1>1, <1>6, <2>1, HandlersKept DEF Enqueuer
<1>7. ASSUME NEW r \in Requests, Arrive(r) PROVE HandlersInv'
  <2>1. CASE \E p \in Payments, u \in Actors, k \in Keys \cup {None}, b \in Bodies : CreateReserve(r, p, u, k, b)
    <3>1. Goto(r, "create") /\ \A q \in Requests \ {r} : req'[q] = req[q]
      BY <2>1 DEF CreateReserve
    <3>2. QED BY <1>5, <3>1
  <2>2. CASE \E k \in Keys, b \in Bodies : CreateReplay(r, k, b)
    BY <1>2, <2>2 DEF CreateReplay
  <2>3. CASE (\E p \in Payments, u \in Actors : ApproveRead(r, p, u)) \/ (\E p \in Payments : CancelRead(r, p))
    BY <1>6, <2>3 DEF ApproveRead, CancelRead
  <2>4. CASE \E p \in Payments, j \in Jobs : ExecuteRead(r, p, j)
    BY <1>6, <2>4 DEF ExecuteRead
  <2>5. CASE \E p \in Payments, j \in Jobs : RetryRead(r, p, j)
    BY <1>6, <2>5 DEF RetryRead, Executed
  <2>6. QED BY <1>7, <2>1, <2>2, <2>3, <2>4, <2>5 DEF Arrive
<1>8. ASSUME NEW r \in Requests, Continue(r) PROVE HandlersInv'
  <2>1. CASE \E n \in 0 .. 2 : CreateEvaluate(r, n)
    <3>1. Goto(r, "insert") /\ \A q \in Requests \ {r} : req'[q] = req[q]
      BY <2>1 DEF CreateEvaluate
    <3>2. QED BY <1>5, <3>1
  <2>2. CASE \/ CreateInsert(r) \/ CreateRelease(r) \/ ApproveBlock(r) \/ ApproveCommit(r)
             \/ ExecuteBlock(r) \/ ExecuteCommit(r) \/ CancelCommit(r) \/ RetryEnqueue(r)
    BY <1>3, <2>2 DEF CreateInsert, CreateRelease, ApproveBlock, ApproveCommit, ExecuteBlock,
                      ExecuteCommit, CancelCommit, RetryEnqueue, BlockFrom
  <2>3. CASE ApproveEvaluate(r) \/ ExecuteEvaluate(r)
    <3>1. \/ Return(r)
          \/ /\ UNCHANGED req
             /\ \/ Goto(r, "approve_block") \/ Goto(r, "approve_commit") \/ Goto(r, "execute_block")
                \/ stage[r] = "execute" /\ Goto(r, "execute_commit")
      BY <2>3 DEF ApproveEvaluate, ExecuteEvaluate
    <3>2. QED BY <1>3, <1>4, <3>1
  <2>4. CASE RetryReopen(r)
    BY <1>4, <2>4 DEF RetryReopen
  <2>5. QED BY <1>8, <2>1, <2>2, <2>3, <2>4 DEF Continue
<1>9. ASSUME NEW r \in Requests, CreateError(r) \/ CreateCommitLost(r) \/ Abandon(r) PROVE HandlersInv'
  BY <1>3, <1>4, <1>9 DEF CreateError, CreateCommitLost, Abandon
<1>10. ASSUME (\E S \in SUBSET Payments : ExpireStale(S)) \/ (\E k \in Keys : SweepKey(k))
       PROVE  UNCHANGED <<stage, req>>
  BY <1>10 DEF ExpireStale, SweepKey, serviceVars
<1>11. QED BY <1>2, <1>7, <1>8, <1>9, <1>10 DEF ServiceNext

(* It enqueues jobs under ids of their own, so a run keeps its payment.    *)
LEMMA ServiceKeepsPaying ==
  ASSUME EyesInv, HandlersInv, ShapeInv, ServiceNext, UNCHANGED sagaVars
  PROVE  /\ \A j \in Jobs : jobStatus[j] # "absent" =>
              jobStatus'[j] = jobStatus[j] /\ jobPayment'[j] = jobPayment[j]
         /\ \A w \in Workers : Busy(w) => Paying(w)' = Paying(w)
<1>0. UNCHANGED job
  BY DEF sagaVars, workerVars
<1>1. \/ UNCHANGED jobRows
      \/ \E j \in Jobs, p \in Payments : Enqueue(j, p)
  BY ServiceJobs
<1>2. \A j \in Jobs : jobStatus[j] # "absent" =>
        jobStatus'[j] = jobStatus[j] /\ jobPayment'[j] = jobPayment[j]
  BY <1>1 DEF Enqueue, jobRows, ShapeInv, SagaTypeOK, StoreTypeOK
<1>3. \A w \in Workers : Busy(w) => job[w] \in Jobs /\ jobStatus[job[w]] # "absent"
  BY PayingType
<1>4. QED BY <1>0, <1>2, <1>3 DEF Paying

(* What the saga holds, a step of payment-service leaves alone: no status  *)
(* it writes starts or ends in Settled, and no payment leaves execution.   *)
LEMMA ServiceKeepsSaga ==
  ASSUME EyesInv, HandlersInv, SagaInv, ServiceNext, UNCHANGED sagaVars
  PROVE  SagaInv'
<1>0. /\ UNCHANGED <<pc, batch, job, ref, memory, submission, submittedRef, providerRef, transfers,
                     debits, journaled, matched, late>>
      /\ ShapeInv /\ QueueInv /\ RefInv /\ BooksInv /\ StartedInv
  BY DEF sagaVars, workerVars, bookVars, SagaInv
<1>1. /\ UNCHANGED balance
      /\ \/ UNCHANGED jobRows
         \/ \E j \in Jobs, p \in Payments : Enqueue(j, p) /\ status'[p] \in Executed
  BY ServiceJobs
<1>2. \A p \in Payments : /\ status'[p] = "Settled" <=> status[p] = "Settled"
                          /\ status[p] \in Executed => status'[p] \in Executed
  BY ServiceMoves DEF Decision, Executed
<1>3. SagaTypeOK'
  <2>1. StoreTypeOK'
    BY ServiceKeepsEyes DEF EyesInv, TypeInv, ServiceTypeOK
  <2>2. QED BY <1>0, <2>1 DEF ShapeInv, SagaTypeOK
<1>4. ShapeInv' /\ QueueInv'
  <2>1. \A w \in Workers : Busy(w)' <=> Busy(w)
    BY <1>0 DEF Busy
  <2>2. QED BY <1>0, <1>1, <1>3, <2>1, JobsKept
<1>5. \A j \in Jobs : jobStatus[j] # "absent" =>
        jobStatus'[j] = jobStatus[j] /\ jobPayment'[j] = jobPayment[j]
  BY <1>0, ServiceKeepsPaying
<1>6. \A w \in Workers : Busy(w) => Paying(w)' = Paying(w)
  BY <1>0, ServiceKeepsPaying
<1>7. RefInv'
  BY <1>0, <1>4, <1>6, RefKept
<1>8. BooksInv'
  <2>1. BooksGrow
    BY <1>0, <1>2 DEF BooksGrow
  <2>2. BooksRows'
    BY <1>0, <1>1, <1>2 DEF BooksInv, BooksRows
  <2>3. QED BY <1>0, <1>6, <2>1, <2>2, BooksAtKept DEF BooksInv
<1>9. StartedInv'
  <2>1. \A p \in Payments : transfers'[p] > 0 => status'[p] \in Executed
    BY <1>0, <1>2 DEF StartedInv
  <2>2. \A j \in Jobs : jobStatus[j] # "absent" => status'[jobPayment'[j]] \in Executed
    BY <1>0, <1>2, <1>5 DEF StartedInv, ShapeInv
  <2>3. \A j \in Jobs : jobStatus'[j] # "absent" /\ jobStatus[j] = "absent" =>
          status'[jobPayment'[j]] \in Executed
    BY <1>0, <1>1 DEF Enqueue, jobRows, ShapeInv, SagaTypeOK, StoreTypeOK
  <2>4. QED BY <2>1, <2>2, <2>3 DEF StartedInv
<1>10. QED BY <1>4, <1>7, <1>8, <1>9 DEF SagaInv

(* The job a payment waits for keeps waiting, or the retry that reopened   *)
(* the payment enqueues one, provided that no request dies half-way.       *)
LEMMA ServiceKeepsLiveInv ==
  ASSUME "abandon" \notin ServiceFaults,
         EyesInv, HandlersInv, SagaInv, LiveInv, ServiceNext, UNCHANGED sagaVars
  PROVE  LiveInv'
<1>0. /\ UNCHANGED <<pc, job>> /\ ShapeInv
      /\ stage \in [Requests -> Stage] /\ req \in [Requests -> Request]
      /\ status \in [Payments -> Status \cup {"absent"}]
      /\ jobStatus \in [Jobs -> JobStatus \cup {"absent"}] /\ jobPayment \in [Jobs -> Payments \cup {None}]
  BY DEF sagaVars, workerVars, SagaInv, EyesInv, TypeInv, ServiceTypeOK, StoreTypeOK
<1>1. ASSUME NEW j \in Jobs, NEW p \in Payments, Enqueue(j, p)
      PROVE  jobPayment'[j] = p /\ Live(j)'
  <2>1. /\ jobStatus[j] = "absent" /\ jobStatus'[j] = "pending" /\ jobPayment'[j] = p
    BY <1>0, <1>1 DEF Enqueue
  <2>2. \A w \in Workers : job[w] # j
    BY <1>0, <2>1 DEF ShapeInv, Holds
  <2>3. QED BY <1>0, <2>1, <2>2 DEF Live
<1>2. ASSUME NEW j \in Jobs, Live(j) PROVE jobPayment'[j] = jobPayment[j] /\ Live(j)'
  <2>1. jobStatus'[j] = jobStatus[j] /\ jobPayment'[j] = jobPayment[j]
    <3>1. \/ UNCHANGED jobRows \/ \E i \in Jobs, p \in Payments : Enqueue(i, p)
      BY ServiceJobs
    <3>2. QED BY <1>0, <1>2, <3>1 DEF Enqueue, jobRows, Live
  <2>2. QED BY <1>0, <1>2, <2>1 DEF Live
<1>3. \A p \in Payments : status'[p] = "Executing" /\ status[p] # "Executing" =>
        \/ \E j \in Jobs : Enqueue(j, p)
        \/ Enqueueing(p)'
  <2>1. ASSUME NEW r \in Requests, ExecuteCommit(r), NEW p \in Payments, status'[p] # status[p]
        PROVE  \E j \in Jobs : Enqueue(j, p)
    BY <1>0, <2>1 DEF ExecuteCommit, SetStatus, HandlersInv, Enqueuer
  <2>2. ASSUME NEW r \in Requests, RetryReopen(r), NEW p \in Payments, status'[p] # status[p]
        PROVE  Enqueueing(p)'
    <3>1. stage'[r] = "retry_enqueue" /\ req'[r].payment = req[r].payment
      BY <1>0, <2>2 DEF RetryReopen, Goto
    <3>2. p = req[r].payment
      BY <1>0, <2>2 DEF RetryReopen, SetStatus
    <3>3. QED BY <3>1, <3>2 DEF Enqueueing
  <2>3. ASSUME NEW r \in Requests, CreateInsert(r) \/ CreateCommitLost(r), NEW p \in Payments, status'[p] = "Executing"
        PROVE  status[p] = "Executing"
    <3>1. req[r].initial # "Executing" /\ status' = [status EXCEPT ![req[r].payment] = req[r].initial]
      BY <2>3 DEF CreateInsert, CreateCommitLost, InsertPayment, EyesInv, SlotsInv
    <3>2. QED BY <1>0, <2>3, <3>1
  <2>4. ASSUME NEW r \in Requests, NEW p \in Payments, status'[p] = "Executing",
               ApproveBlock(r) \/ ApproveCommit(r) \/ ExecuteBlock(r) \/ CancelCommit(r) \/ RetryEnqueue(r)
        PROVE  status[p] = "Executing"
    BY <1>0, <2>4 DEF ApproveBlock, ApproveCommit, ExecuteBlock, CancelCommit, RetryEnqueue, BlockFrom, SetStatus
  <2>5. ASSUME NEW S \in SUBSET Payments, ExpireStale(S), NEW p \in Payments, status'[p] = "Executing"
        PROVE  status[p] = "Executing"
    BY <2>5 DEF ExpireStale
  <2>6. ASSUME \/ \E r \in Requests :
                    \/ Arrive(r) \/ CreateError(r) \/ Abandon(r) \/ (\E n \in 0 .. 2 : CreateEvaluate(r, n))
                    \/ CreateRelease(r) \/ ApproveEvaluate(r) \/ ExecuteEvaluate(r)
               \/ \E k \in Keys : SweepKey(k)
        PROVE  UNCHANGED status
    BY <2>6 DEF Arrive, CreateReserve, CreateReplay, ApproveRead, ExecuteRead, CancelRead, RetryRead,
              Begin, CreateError, Abandon, CreateEvaluate, CreateRelease, ApproveEvaluate, ExecuteEvaluate,
              SweepKey, storeVars
  <2>7. QED BY <2>1, <2>2, <2>3, <2>4, <2>5, <2>6 DEF ServiceNext, Continue
<1>4. ASSUME NEW r \in Requests, stage[r] = "retry_enqueue"
      PROVE  \/ stage'[r] = "retry_enqueue" /\ req'[r].payment = req[r].payment
             \/ \E j \in Jobs : Enqueue(j, req[r].payment)
  <2>1. ASSUME NEW q \in Requests \ {r},
               \/ Return(q)
               \/ \E s \in Stage : Goto(q, s) /\ \A x \in Requests \ {q} : req'[x] = req[x]
        PROVE  stage'[r] = "retry_enqueue" /\ req'[r].payment = req[r].payment
    BY <1>0, <1>4, <2>1 DEF Return, Goto
  <2>2. ASSUME NEW q \in Requests, Arrive(q)
        PROVE  stage'[r] = "retry_enqueue" /\ req'[r].payment = req[r].payment
    <3>1. stage[q] = "idle" /\ \/ UNCHANGED <<stage, req>>
                               \/ /\ \E s \in Stage : Goto(q, s)
                                  /\ \A x \in Requests \ {q} : req'[x] = req[x]
      BY <1>0, <2>2 DEF Arrive, CreateReserve, CreateReplay, ApproveRead, ExecuteRead, CancelRead,
                        RetryRead, Begin, Stage
    <3>2. QED BY <1>4, <2>1, <3>1
  <2>3. ASSUME NEW q \in Requests, Continue(q) \/ CreateError(q) \/ CreateCommitLost(q)
        PROVE  \/ q = r /\ RetryEnqueue(r)
               \/ q # r /\ \/ Return(q)
                           \/ \E s \in Stage : Goto(q, s) /\ \A x \in Requests \ {q} : req'[x] = req[x]
    <3>1. q = r => RetryEnqueue(r)
      BY <1>4, <2>3 DEF Continue, CreateEvaluate, CreateInsert, CreateRelease, ApproveEvaluate, ApproveBlock,
           ApproveCommit, ExecuteEvaluate, ExecuteBlock, ExecuteCommit, CancelCommit, RetryReopen,
           CreateError, CreateCommitLost
    <3>2. \/ Return(q)
          \/ \E s \in Stage : Goto(q, s) /\ \A x \in Requests \ {q} : req'[x] = req[x]
      BY <1>0, <2>3 DEF Continue, CreateEvaluate, CreateInsert, CreateRelease, ApproveEvaluate, ApproveBlock,
           ApproveCommit, ExecuteEvaluate, ExecuteBlock, ExecuteCommit, CancelCommit, RetryReopen,
           RetryEnqueue, CreateError, CreateCommitLost, BlockFrom, Stage
    <3>3. QED BY <3>1, <3>2
  <2>4. RetryEnqueue(r) => \E j \in Jobs : Enqueue(j, req[r].payment)
    BY <1>4 DEF RetryEnqueue, HandlersInv, Enqueuer
  <2>5. ASSUME (\E S \in SUBSET Payments : ExpireStale(S)) \/ (\E k \in Keys : SweepKey(k))
        PROVE  UNCHANGED <<stage, req>>
    BY <2>5 DEF ExpireStale, SweepKey, serviceVars
  <2>6. ~ \E q \in Requests : Abandon(q)
    BY DEF Abandon
  <2>7. QED BY <1>4, <2>1, <2>2, <2>3, <2>4, <2>5, <2>6 DEF ServiceNext
<1>5. SUFFICES ASSUME NEW p \in Payments, status'[p] = "Executing"
               PROVE  (\E j \in Jobs : jobPayment'[j] = p /\ Live(j)') \/ Enqueueing(p)'
  BY DEF LiveInv
<1>6. CASE status[p] # "Executing"
  BY <1>1, <1>3, <1>5, <1>6
<1>7. CASE \E j \in Jobs : jobPayment[j] = p /\ Live(j)
  BY <1>2, <1>7
<1>8. CASE Enqueueing(p)
  <2>1. PICK r \in Requests : stage[r] = "retry_enqueue" /\ req[r].payment = p
    BY <1>8 DEF Enqueueing
  <2>2. QED BY <1>1, <1>4, <2>1 DEF Enqueueing
<1>9. QED BY <1>6, <1>7, <1>8 DEF LiveInv

-----------------------------------------------------------------------------
(* The two services together: the invariant and what follows from it       *)
SystemInv == EyesInv /\ AuditInv /\ HandlersInv /\ SagaInv

LEMMA SystemInit == Init => SystemInv
<1>. SUFFICES ASSUME Init PROVE SystemInv
  OBVIOUS
<1>1. StoreInit /\ ServiceInit /\ SagaInit
  BY DEF Init
<1>2. EyesInv /\ AuditInv
  BY <1>1, EyesInit, AuditInit
<1>3. HandlersInv
  BY <1>1 DEF ServiceInit, HandlersInv, Enqueuer
<1>4. SagaInv
  <2>1. StoreTypeOK
    BY <1>2 DEF EyesInv, TypeInv, ServiceTypeOK
  <2>2. (\A p \in Payments : status[p] = "absent") /\ (\A j \in Jobs : jobStatus[j] = "absent" /\ attempts[j] = 0)
    BY <1>1 DEF StoreInit
  <2>3. balance >= 0
    BY <1>1, StoreAssumption DEF StoreInit
  <2>4. QED BY <1>1, <2>1, <2>2, <2>3, SagaInvInit
<1>5. QED BY <1>2, <1>3, <1>4 DEF SystemInv

LEMMA SystemStep == SystemInv /\ [Next]_vars => SystemInv'
<1>1. ASSUME SystemInv, ServiceNext, UNCHANGED sagaVars PROVE SystemInv'
  BY <1>1, ServiceKeepsEyes, ServiceKeepsAudit, ServiceKeepsHandlers, ServiceKeepsSaga DEF SystemInv
<1>2. ASSUME SystemInv, SagaNext, UNCHANGED serviceVars PROVE SystemInv'
  BY <1>2, SagaKeepsEyes, SagaKeepsAudit, SagaKeepsHandlers, SagaInvStep DEF SystemInv, EyesInv
<1>3. ASSUME SystemInv, UNCHANGED vars PROVE SystemInv'
  <2>1. SagaInv' /\ EyesInv'
    BY <1>3, SagaInvKept, EyesStep DEF SystemInv, vars
  <2>2. AuditInv' /\ HandlersInv'
    BY <1>3, AuditSame DEF SystemInv, HandlersInv, Enqueuer, vars, storeVars, serviceVars
  <2>3. QED BY <2>1, <2>2 DEF SystemInv
<1>4. QED BY <1>1, <1>2, <1>3 DEF Next

LEMMA SystemInvariant == Spec => []SystemInv
  BY SystemInit, SystemStep, PTL DEF Spec

(* What SystemInv says of the runs' properties: StartedInv is what keeps   *)
(* money from moving for a payment that never started.                     *)
LEMMA SystemInvImplies ==
  SystemInv => /\ TypeOK /\ FourEyes /\ VoidMovesNoMoney
               /\ SettledMeansPaid /\ PaidOnce /\ ClaimedOnce /\ BooksInOrder
<1>. SUFFICES ASSUME SystemInv
              PROVE  /\ TypeOK /\ FourEyes /\ VoidMovesNoMoney
                     /\ SettledMeansPaid /\ PaidOnce /\ ClaimedOnce /\ BooksInOrder
  OBVIOUS
<1>1. SagaTypeOK /\ SettledMeansPaid /\ PaidOnce /\ ClaimedOnce /\ BooksInOrder
  BY SagaInvImplies DEF SystemInv
<1>2. TypeOK /\ FourEyes
  BY <1>1 DEF SystemInv, EyesInv, TypeInv, TypeOK, RowsInv
<1>3. VoidMovesNoMoney
  <2>. SUFFICES ASSUME NEW p \in Payments, status[p] \in NotStarted
                PROVE  transfers[p] = 0 /\ debits[p] = 0
    BY DEF VoidMovesNoMoney
  <2>1. /\ transfers[p] \in Nat /\ debits[p] \in Nat /\ providerRef[p] \in Nat
        /\ debits[p] <= 1 /\ (debits[p] = 1 => providerRef[p] > 0) /\ providerRef[p] <= transfers[p]
    BY DEF SystemInv, SagaInv, ShapeInv, SagaTypeOK, BooksInv, BooksRows, RefInv, RefRows
  <2>2. ~(transfers[p] > 0)
    BY DEF SystemInv, SagaInv, StartedInv, Executed, NotStarted
  <2>3. QED BY <2>1, <2>2
<1>4. QED BY <1>1, <1>2, <1>3

(* Every variable of the two services keeps its type, with any number of   *)
(* requests, workers, payments and jobs.                                   *)
THEOREM SystemTypes == Spec => []TypeOK
  BY SystemInvariant, SystemInvImplies, PTL

(* Four eyes holds also while the saga moves the same rows.                *)
THEOREM SystemFourEyes == Spec => []FourEyes
  BY SystemInvariant, SystemInvImplies, PTL

(* A payment that was not authorised, or that was blocked or cancelled,    *)
(* costs nothing, however evaluations, cancellations, executions and       *)
(* settlements of it overlap (payments.mjs, executePaymentSaga).           *)
THEOREM SystemVoidMovesNoMoney == Spec => []VoidMovesNoMoney
  BY SystemInvariant, SystemInvImplies, PTL

(* What payment-service and the saga each guarantee alone they guarantee   *)
(* together: retries, cancellations and new payments come in between.      *)
THEOREM SystemKeepsParts ==
  Spec => [](SettledMeansPaid /\ PaidOnce /\ ClaimedOnce /\ BooksInOrder)
  BY SystemInvariant, SystemInvImplies, PTL

(* Every decision of payment-service but a retry's is recorded by an event *)
(* of its own also while the saga moves the same payments.                 *)
THEOREM SystemDecisionsAudited == Spec => DecisionsAudited
<1>1. SystemInv /\ Next
        => \A p \in Payments : Decided(p) /\ status[p] # "Failed" => RecordedNow(p)
  <2>1. SystemInv /\ SagaNext => \A p \in Payments : ~Decided(p)
    BY SagaMoves DEF SystemInv, SagaInv, Decided
  <2>2. QED BY <2>1, ServiceRecords DEF Next, SystemInv
<1>2. UNCHANGED vars => UNCHANGED <<storeVars, serviceVars>>
  BY DEF vars
<1>3. QED BY <1>1, <1>2, SystemInvariant, PTL DEF Spec, DecisionsAudited

(* An operator's retry does not disturb what is recorded either: with one  *)
(* worker process a recorded submission is final in the composition too.   *)
THEOREM SystemRecordedIsFinal ==
  ASSUME \A v, w \in Workers : v = w
  PROVE  Spec => RecordedIsFinal
<1>1. Init => UnrecordedInv
  BY DEF Init, SagaInit, UnrecordedInv, Outstanding
<1>2. SystemInv /\ ServiceNext /\ UNCHANGED sagaVars
        => \A w \in Workers : Busy(w) => Paying(w)' = Paying(w)
  BY ServiceKeepsPaying DEF SystemInv, SagaInv
<1>3. SystemInv /\ UnrecordedInv /\ [Next]_vars => UnrecordedInv'
  <2>1. ASSUME SystemInv, UnrecordedInv, ServiceNext, UNCHANGED sagaVars PROVE UnrecordedInv'
    BY <1>2, <2>1 DEF UnrecordedInv, Outstanding, Busy, sagaVars, workerVars, bookVars
  <2>2. UnrecordedInv /\ UNCHANGED vars => UnrecordedInv'
    BY DEF UnrecordedInv, Paying, vars, storeVars, jobRows, sagaVars, workerVars, bookVars
  <2>3. QED BY <2>1, <2>2, RecordedStep DEF Next, SystemInv, SagaInv
<1>4. SystemInv /\ UnrecordedInv /\ [Next]_vars
        => \A p \in Payments : submission[p] = "submitted" =>
             /\ submission'[p] = "submitted"
             /\ submittedRef'[p] = submittedRef[p]
             /\ transfers'[p] = transfers[p]
  <2>1. UNCHANGED sagaVars => UNCHANGED <<submission, submittedRef, transfers>>
    BY DEF sagaVars, bookVars
  <2>2. UNCHANGED vars => UNCHANGED sagaVars
    BY DEF vars
  <2>3. SystemInv /\ UnrecordedInv /\ SagaNext => \A p \in Payments : Final(p)
    BY RecordedStep DEF SystemInv, SagaInv
  <2>4. QED BY <2>1, <2>2, <2>3 DEF Next, Final
<1>5. QED BY <1>1, <1>3, <1>4, SystemInvariant, PTL DEF Spec, RecordedIsFinal

(* An Executing payment always has a job that will still run, or a retry   *)
(* about to enqueue one, as long as no request dies between the two        *)
(* transactions of a retry (executePayment, retryExecution).               *)
THEOREM SystemExecutingHasJob ==
  ASSUME "abandon" \notin ServiceFaults
  PROVE  Spec => []ExecutingHasJob
<1>1. Init => LiveInv
  BY DEF Init, StoreInit, LiveInv
<1>2. SystemInv /\ LiveInv /\ [Next]_vars => LiveInv'
  <2>1. LiveInv /\ UNCHANGED vars => LiveInv'
    BY DEF LiveInv, Live, Enqueueing, vars, storeVars, serviceVars, sagaVars, workerVars
  <2>2. QED BY <2>1, ServiceKeepsLiveInv, SagaKeepsLiveInv DEF SystemInv, Next
<1>3. LiveInv => ExecutingHasJob
  BY DEF LiveInv, Live, ExecutingHasJob
<1>4. QED BY <1>1, <1>2, <1>3, SystemInvariant, PTL DEF Spec

-----------------------------------------------------------------------------
(* Refinement: the two services implement PaymentContract                  *)

(* A step of one payment's status is a step of its phase.                  *)
LEMMA EnterPhase ==
  ASSUME NEW q \in Payments, NEW to, PhaseOf(status'[q]) = to,
         \A p \in Payments \ {q} : status'[p] = status[p], UNCHANGED <<transfers, debits>>
  PROVE  Contract!Enter(q, to)
  BY DEF Contract!Enter

LEMMA PhaseSame ==
  ASSUME \A p \in Payments : status'[p] = status[p], UNCHANGED <<transfers, debits>>
  PROVE  UNCHANGED Contract!contractVars
  BY DEF Contract!contractVars

(* payment-service writes the row of one payment, or expires several.      *)
LEMMA ServiceTouches ==
  ASSUME EyesInv, ServiceNext
  PROVE  \/ \A p \in Payments : status'[p] = status[p]
         \/ \E q \in Payments : \A p \in Payments \ {q} : status'[p] = status[p]
         \/ \E S \in SUBSET Payments : ExpireStale(S)
<1>0. status \in [Payments -> Status \cup {"absent"}]
  BY DEF EyesInv, TypeInv, ServiceTypeOK, StoreTypeOK
<1>1. ASSUME NEW r \in Requests,
             \/ CreateInsert(r) \/ CreateCommitLost(r) \/ ApproveBlock(r) \/ ApproveCommit(r)
             \/ ExecuteBlock(r) \/ ExecuteCommit(r) \/ CancelCommit(r) \/ RetryReopen(r) \/ RetryEnqueue(r)
      PROVE  \E q \in Payments : \A p \in Payments \ {q} : status'[p] = status[p]
  <2>1. PICK q \in Payments : q = req[r].payment
    BY <1>1 DEF EyesInv, TypeInv, RequestOK, CreateInsert, CreateCommitLost, ApproveBlock, ApproveCommit,
                ExecuteBlock, ExecuteCommit, CancelCommit, RetryReopen, RetryEnqueue
  <2>2. UNCHANGED status \/ \E to : status' = [status EXCEPT ![q] = to]
    BY <1>1, <2>1 DEF CreateInsert, CreateCommitLost, InsertPayment, ApproveBlock, ApproveCommit, ExecuteBlock,
                      ExecuteCommit, CancelCommit, RetryReopen, RetryEnqueue, BlockFrom, SetStatus
  <2>3. QED BY <1>0, <2>2
<1>2. ASSUME \/ \E r \in Requests :
                  \/ Arrive(r) \/ CreateError(r) \/ Abandon(r) \/ (\E n \in 0 .. 2 : CreateEvaluate(r, n))
                  \/ CreateRelease(r) \/ ApproveEvaluate(r) \/ ExecuteEvaluate(r)
             \/ \E k \in Keys : SweepKey(k)
      PROVE  UNCHANGED status
  BY <1>2 DEF Arrive, CreateReserve, CreateReplay, ApproveRead, ExecuteRead, CancelRead, RetryRead,
              Begin, CreateError, Abandon, CreateEvaluate, CreateRelease, ApproveEvaluate, ExecuteEvaluate,
              SweepKey, storeVars
<1>3. QED BY <1>1, <1>2 DEF ServiceNext, Continue

LEMMA ServiceImplements ==
  ASSUME EyesInv, ServiceNext, UNCHANGED sagaVars
  PROVE  Contract!ContractNext \/ UNCHANGED Contract!contractVars
<1>0. UNCHANGED <<transfers, debits>> /\ \A p \in Payments : status'[p] = status[p] \/ Decision(p)
  BY ServiceMoves DEF sagaVars, bookVars
<1>1. CASE \A p \in Payments : status'[p] = status[p]
  BY <1>0, <1>1, PhaseSame
<1>2. ASSUME NEW q \in Payments, \A p \in Payments \ {q} : status'[p] = status[p], Decision(q)
      PROVE  Contract!ContractNext
  <2>. DEFINE ph == [p \in Payments |-> PhaseOf(status[p])]
  <2>1. Contract!Enter(q, PhaseOf(status'[q]))
    BY <1>0, <1>2, EnterPhase
  <2>2. ph[q] = PhaseOf(status[q])
    OBVIOUS
  <2>3. CASE status[q] = "absent"
    <3>1. PhaseOf(status[q]) = "none" /\ PhaseOf(status'[q]) \in {"proposed", "authorised", "void"}
      BY <1>2, <2>3 DEF Decision, PhaseOf
    <3>2. Contract!Propose(q)
      BY <2>1, <2>2, <3>1 DEF Contract!Propose
    <3>3. QED BY <3>2 DEF Contract!ContractNext
  <2>4. CASE status[q] = "Pending approval" /\ status'[q] = "Approved"
    <3>1. PhaseOf(status[q]) = "proposed" /\ PhaseOf(status'[q]) = "authorised"
      BY <2>4 DEF PhaseOf
    <3>2. Contract!Authorise(q)
      BY <2>1, <2>2, <3>1 DEF Contract!Authorise
    <3>3. QED BY <3>2 DEF Contract!ContractNext
  <2>5. CASE status[q] = "Approved" /\ status'[q] = "Executing"
    <3>1. PhaseOf(status[q]) = "authorised" /\ PhaseOf(status'[q]) = "executing"
      BY <2>5 DEF PhaseOf
    <3>2. Contract!Execute(q)
      BY <2>1, <2>2, <3>1 DEF Contract!Execute
    <3>3. QED BY <3>2 DEF Contract!ContractNext
  <2>6. CASE status[q] = "Failed" /\ status'[q] = "Executing"
    <3>1. PhaseOf(status[q]) = "failed" /\ PhaseOf(status'[q]) = "executing"
      BY <2>6 DEF PhaseOf
    <3>2. Contract!Reopen(q)
      BY <2>1, <2>2, <3>1 DEF Contract!Reopen
    <3>3. QED BY <3>2 DEF Contract!ContractNext
  <2>7. CASE status[q] \in {"Pending approval", "Approved"} /\ status'[q] \in {"Blocked", "Cancelled"}
    <3>1. PhaseOf(status[q]) \in {"proposed", "authorised"} /\ PhaseOf(status'[q]) = "void"
      BY <2>7 DEF PhaseOf
    <3>2. Contract!Void({q})
      BY <1>0, <1>2, <2>2, <3>1 DEF Contract!Void
    <3>3. QED BY <3>2 DEF Contract!ContractNext
  <2>8. QED BY <1>2, <2>3, <2>4, <2>5, <2>6, <2>7 DEF Decision
<1>3. ASSUME NEW S \in SUBSET Payments, ExpireStale(S) PROVE Contract!ContractNext
  <2>1. \A p \in Payments : status'[p] = IF p \in S THEN "Cancelled" ELSE status[p]
    BY <1>3 DEF ExpireStale
  <2>2. \A p \in S : PhaseOf(status[p]) = "proposed" /\ PhaseOf(status'[p]) = "void"
    BY <1>3, <2>1 DEF ExpireStale, PhaseOf
  <2>3. Contract!Void(S)
    BY <1>0, <2>1, <2>2 DEF Contract!Void
  <2>4. QED BY <2>3 DEF Contract!ContractNext
<1>4. QED BY <1>0, <1>1, <1>2, <1>3, ServiceTouches

(* The saga ends an execution, or has the provider transfer, or debits.    *)
LEMMA SagaTouches ==
  ASSUME SagaNext
  PROVE  \/ UNCHANGED <<status, transfers, debits>>
         \/ /\ UNCHANGED <<transfers, debits>>
            /\ \E w \in Workers : FailPayment(w) \/ Settle(w)
         \/ /\ UNCHANGED <<status, debits>>
            /\ \E w \in Workers : SubmitTransfer(w)
         \/ /\ UNCHANGED <<status, transfers>>
            /\ \/ \E w \in Workers : Debit(w)
               \/ \E p \in Payments, call \in Calls : LateEffect(p, call)
<1>1. ASSUME NEW w \in Workers,
             \/ \E S \in SUBSET Jobs : Claim(w, S)
             \/ \E j \in Jobs : Load(w, j)
             \/ PolicyCheck(w) \/ EnsureSubmission(w) \/ RecordSubmitted(w)
             \/ RecordFailed(w) \/ SaveRef(w) \/ Journal(w) \/ Match(w) \/ AuditSettled(w)
             \/ CompleteJob(w) \/ LogSuccess(w) \/ FailJob(w) \/ StepError(w) \/ Timeout(w)
             \/ Crash(w) \/ Abort(w)
      PROVE  UNCHANGED <<status, transfers, debits>>
  BY <1>1 DEF Claim, Load, PolicyCheck, EnsureSubmission, RecordSubmitted, RecordFailed, SaveRef, Journal,
              Match, AuditSettled, CompleteJob, LogSuccess, FailJob, StepError, Timeout, Crash, Abort,
              storeVars, bookVars
<1>2. ASSUME NEW w \in Workers, FailPayment(w) \/ Settle(w)
      PROVE  UNCHANGED <<transfers, debits>>
  BY <1>2 DEF FailPayment, Settle, bookVars
<1>3. ASSUME NEW w \in Workers, SubmitTransfer(w)
      PROVE  UNCHANGED <<status, debits>>
  BY <1>3 DEF SubmitTransfer, storeVars
<1>4. ASSUME NEW w \in Workers, Debit(w)
      PROVE  UNCHANGED <<status, transfers>>
  BY <1>4 DEF Debit, storeVars
<1>5. ASSUME NEW p \in Payments, NEW call \in Calls, LateEffect(p, call)
      PROVE  UNCHANGED <<status, transfers>>
  BY <1>5 DEF LateEffect, storeVars
<1>6. QED BY <1>1, <1>2, <1>3, <1>4, <1>5 DEF SagaNext, Work

LEMMA SagaImplements ==
  ASSUME SystemInv, SagaNext
  PROVE  Contract!ContractNext \/ UNCHANGED Contract!contractVars
<1>. DEFINE ph   == [p \in Payments |-> PhaseOf(status[p])]
            sent == {p \in Payments : transfers[p] > 0}
            paid == {p \in Payments : debits[p] > 0}
<1>0. /\ ShapeInv /\ RefInv /\ BooksInv /\ StartedInv
      /\ status \in [Payments -> Status \cup {"absent"}]
      /\ transfers \in [Payments -> Nat] /\ debits \in [Payments -> Nat] /\ providerRef \in [Payments -> Nat]
  BY DEF SystemInv, SagaInv, ShapeInv, SagaTypeOK, StoreTypeOK
<1>1. CASE UNCHANGED <<status, transfers, debits>>
  BY <1>1, PhaseSame
<1>2. ASSUME UNCHANGED <<transfers, debits>>, NEW w \in Workers, FailPayment(w) \/ Settle(w)
      PROVE  Contract!ContractNext \/ UNCHANGED Contract!contractVars
  <2>1. PICK q \in Payments : q = Paying(w)
    BY <1>0, <1>2, PayingType DEF FailPayment, Settle, Busy
  <2>2. \/ status' = status
        \/ /\ status[q] = "Executing" /\ status' = [status EXCEPT ![q] = "Failed"]
        \/ /\ pc[w] = "settle" /\ status[q] \in {"Executing", "Settled"}
           /\ status' = [status EXCEPT ![q] = "Settled"]
    BY <1>2, <2>1 DEF FailPayment, Settle, SetStatus, TriggerAccepts, LegalTransitions
  <2>3. CASE status' = status \/ (status[q] = "Settled" /\ status' = [status EXCEPT ![q] = "Settled"])
    BY <1>0, <1>2, <2>3, PhaseSame
  <2>4. CASE status[q] = "Executing" /\ status' = [status EXCEPT ![q] = "Failed"]
    <3>1. Contract!Enter(q, "failed")
      BY <1>0, <1>2, <2>4, EnterPhase DEF PhaseOf
    <3>2. ph[q] = "executing"
      BY <2>4 DEF PhaseOf
    <3>3. QED BY <3>1, <3>2 DEF Contract!Fail, Contract!ContractNext
  <2>5. CASE pc[w] = "settle" /\ status[q] = "Executing" /\ status' = [status EXCEPT ![q] = "Settled"]
    <3>1. Contract!Enter(q, "settled")
      BY <1>0, <1>2, <2>5, EnterPhase DEF PhaseOf
    <3>2. ph[q] = "executing"
      BY <2>5 DEF PhaseOf
    <3>3. debits[q] = 1
      BY <1>0, <2>1, <2>5 DEF BooksInv, BooksAt, BooksRows
    <3>4. q \in paid
      BY <3>3
    <3>5. QED BY <3>1, <3>2, <3>4 DEF Contract!Settle, Contract!ContractNext
  <2>6. QED BY <2>2, <2>3, <2>4, <2>5
<1>3. ASSUME UNCHANGED <<status, debits>>, NEW w \in Workers, SubmitTransfer(w)
      PROVE  Contract!ContractNext \/ UNCHANGED Contract!contractVars
  <2>1. PICK q \in Payments : q = Paying(w)
    BY <1>0, <1>3, PayingType DEF SubmitTransfer, Busy
  <2>2. transfers' = transfers \/ transfers' = [transfers EXCEPT ![q] = transfers[q] + 1]
    BY <1>0, <1>3, <2>1 DEF SubmitTransfer, Accept
  <2>3. CASE transfers' = transfers
    BY <1>3, <2>3, PhaseSame
  <2>4. CASE transfers' = [transfers EXCEPT ![q] = transfers[q] + 1]
    <3>1. transfers'[q] > 0 /\ \A p \in Payments \ {q} : transfers'[p] = transfers[p]
      BY <1>0, <2>4
    <3>2. {p \in Payments : transfers'[p] > 0} = sent \cup {q}
      BY <3>1
    <3>3. status[q] \in Executed
      <4>1. job[w] \in Jobs /\ jobStatus[job[w]] # "absent"
        BY <1>0, <1>3, PayingType DEF SubmitTransfer, Busy
      <4>2. QED BY <1>0, <2>1, <4>1 DEF StartedInv, Paying
    <3>4. ph[q] \in {"executing", "failed", "settled"}
      BY <3>3 DEF Executed, PhaseOf
    <3>5. Contract!Send(q)
      BY <1>3, <3>2, <3>4 DEF Contract!Send, Contract!Started
    <3>6. QED BY <3>5 DEF Contract!ContractNext
  <2>5. QED BY <2>2, <2>3, <2>4
<1>4. ASSUME UNCHANGED <<status, transfers>>, NEW q \in Payments, PostDebit(q), providerRef[q] > 0
      PROVE  Contract!ContractNext \/ UNCHANGED Contract!contractVars
  <2>1. debits' = debits \/ (debits[q] = 0 /\ debits' = [debits EXCEPT ![q] = 1])
    BY <1>0, <1>4, PostDebitEffect
  <2>2. CASE debits' = debits
    BY <1>4, <2>2, PhaseSame
  <2>3. CASE debits[q] = 0 /\ debits' = [debits EXCEPT ![q] = 1]
    <3>1. {p \in Payments : debits'[p] > 0} = paid \cup {q} /\ q \notin paid
      BY <1>0, <2>3
    <3>2. transfers[q] > 0
      BY <1>0, <1>4 DEF RefInv, RefRows
    <3>3. status[q] \in Executed \ {"Settled"}
      <4>1. status[q] \in Executed
        BY <1>0, <3>2 DEF StartedInv
      <4>2. status[q] = "Settled" => debits[q] = 1
        BY <1>0 DEF BooksInv, BooksRows
      <4>3. QED BY <2>3, <4>1, <4>2
    <3>4. ph[q] \in {"executing", "failed"} /\ q \in sent
      BY <3>2, <3>3 DEF Executed, PhaseOf
    <3>5. Contract!Pay(q)
      BY <1>4, <3>1, <3>4 DEF Contract!Pay, Contract!Started
    <3>6. QED BY <3>5 DEF Contract!ContractNext
  <2>4. QED BY <2>1, <2>2, <2>3
<1>5. ASSUME UNCHANGED <<status, transfers>>, NEW w \in Workers, Debit(w)
      PROVE  Contract!ContractNext \/ UNCHANGED Contract!contractVars
  <2>1. Paying(w) \in Payments /\ PostDebit(Paying(w))
    BY <1>0, <1>5, PayingType DEF Debit, Busy
  <2>2. providerRef[Paying(w)] > 0
    BY <1>0, <1>5 DEF RefInv, RefAt, Debit
  <2>3. QED BY <1>4, <1>5, <2>1, <2>2
<1>6. ASSUME UNCHANGED <<status, transfers>>, NEW p \in Payments, NEW call \in Calls, LateEffect(p, call)
      PROVE  Contract!ContractNext \/ UNCHANGED Contract!contractVars
  <2>1. providerRef[p] > 0
    BY <1>0, <1>6 DEF RefInv, RefRows, LateEffect
  <2>2. PostDebit(p) \/ UNCHANGED debits
    BY <1>6 DEF LateEffect
  <2>3. QED BY <1>1, <1>4, <1>6, <2>1, <2>2
<1>7. QED BY <1>1, <1>2, <1>3, <1>5, <1>6, SagaTouches

(* Every behaviour of payment-service and job-worker together, their       *)
(* faults included, is a behaviour of PaymentContract.                     *)
THEOREM SystemImplementsContract == Spec => ImplementsContract
<1>1. Init => Contract!ContractInit
  <2>. SUFFICES ASSUME Init PROVE Contract!ContractInit
    OBVIOUS
  <2>1. \A p \in Payments : status[p] = "absent" /\ transfers[p] = 0 /\ debits[p] = 0
    BY DEF Init, StoreInit, SagaInit
  <2>2. \A p \in Payments : PhaseOf(status[p]) = "none"
    BY <2>1 DEF PhaseOf
  <2>3. {p \in Payments : transfers[p] > 0} = {} /\ {p \in Payments : debits[p] > 0} = {}
    BY <2>1
  <2>4. QED BY <2>2, <2>3 DEF Contract!ContractInit
<1>2. SystemInv /\ [Next]_vars => [Contract!ContractNext]_(Contract!contractVars)
  <2>1. UNCHANGED vars => UNCHANGED Contract!contractVars
    BY DEF vars, storeVars, sagaVars, bookVars, Contract!contractVars
  <2>2. QED BY <2>1, ServiceImplements, SagaImplements DEF SystemInv, Next
<1>3. QED BY <1>1, <1>2, SystemInvariant, PTL DEF Spec, ImplementsContract, Contract!ContractSpec

-----------------------------------------------------------------------------
(* The keys of payment-service, in the composition                         *)

(* The saga touches no idempotency key of payment-service.                 *)
THEOREM SystemKeepsKeys ==
  ASSUME "commit" \notin ServiceFaults
  PROVE  Spec => [](OnePaymentPerKey /\ ReplayIsOriginal)
<1>1. Init => KeysInv
  BY KeysInit DEF Init
<1>2. SystemInv /\ SystemInv' /\ KeysInv /\ [Next]_vars => KeysInv'
  <2>1. KeysInv /\ ServiceNext => KeysInv'
    BY KeysStep DEF OpenNext
  <2>2. SystemInv' /\ KeysInv /\ UNCHANGED serviceVars => KeysInv'
    BY KeysSame DEF SystemInv, EyesInv, KeysInv, serviceVars, keyRows, history, Holding, Creating
  <2>3. UNCHANGED vars => UNCHANGED serviceVars
    BY DEF vars
  <2>4. QED BY <2>1, <2>2, <2>3 DEF Next
<1>3. KeysInv => OnePaymentPerKey /\ ReplayIsOriginal
  BY KeysImply
<1>4. QED BY <1>1, <1>2, <1>3, SystemInvariant, PTL DEF Spec
=============================================================================
