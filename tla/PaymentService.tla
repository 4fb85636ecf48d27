--------------------------- MODULE PaymentService ---------------------------
(***************************************************************************)
(* payment-service: the HTTP handlers of services/payment-service/src, and *)
(* the two clean-up jobs that write its tables.                            *)
(*                                                                         *)
(* A request slot runs one handler at a time.  A handler reads the payment *)
(* once, awaits the policy service, and only then opens the transaction    *)
(* that writes; every await is a step boundary, so other requests and      *)
(* workers act between the read and the write.  req[r] holds what the      *)
(* handler read before the await and still uses after it.                  *)
(***************************************************************************)
EXTENDS PaymentStore

CONSTANTS
  Requests,      \* requests that can be in flight at once
  Keys,          \* Idempotency-Key values clients send
  Bodies,        \* request bodies, told apart by hashRequest
  AuthRequired,  \* AUTH_REQUIRED = "true"
  ServiceFaults  \* "abandon": a request dies between two steps;
                 \* "commit": a COMMIT succeeds but its reply is lost;
                 \* "commit_unkeyed": that, of a create without a key only

ASSUME ServiceAssumption ==
  /\ AuthRequired \in BOOLEAN
  /\ ServiceFaults \subseteq {"abandon", "commit", "commit_unkeyed"}
  /\ None \notin Keys \cup Bodies

VARIABLES
  stage,       \* where the handler of a request slot is
  req,         \* its local variables
  keyStatus,   \* idempotency_keys.status, "absent" without a row
  keyBody,     \* idempotency_keys.request_hash
  keyPayment,  \* idempotency_keys.payment_id
  \* History, for the properties only:
  madeUnder,   \* the key each payment was created under, until that key is swept
  answers      \* <<key, body, payment>> of the creates answered with a payment

serviceVars == <<stage, req, keyStatus, keyBody, keyPayment, madeUnder, answers>>
keyRows     == <<keyStatus, keyBody, keyPayment>>
history     == <<madeUnder, answers>>

Stage == {"idle", "create", "insert", "release", "approve", "approve_block",
          "approve_commit", "execute", "execute_block", "execute_commit",
          "cancel_commit", "retry_reopen", "retry_enqueue"}

(* The identity a request acts for; the gateway always supplies one when   *)
(* authentication is on.                                                   *)
Actors == IF AuthRequired THEN Users ELSE Users \cup {None}
ApproverId(u) == IF u = None THEN System ELSE u

Request == [payment : Payments \cup {None}, user : Users \cup {None},
            key : Keys \cup {None}, body : Bodies \cup {None},
            initial : Status \cup {"absent"}, needs : 0 .. 2,
            job : Jobs \cup {None}]

Locals(p, u, k, b, j) == [payment |-> p, user |-> u, key |-> k, body |-> b,
                          initial |-> "absent", needs |-> 0, job |-> j]
Blank == Locals(None, None, None, None, None)

ServiceTypeOK ==
  /\ StoreTypeOK
  /\ stage      \in [Requests -> Stage]
  /\ req        \in [Requests -> Request]
  /\ keyStatus  \in [Keys -> {"absent", "pending", "done"}]
  /\ keyBody    \in [Keys -> Bodies \cup {None}]
  /\ keyPayment \in [Keys -> Payments \cup {None}]
  /\ madeUnder  \in [Payments -> Keys \cup {None}]
  /\ answers \subseteq Keys \X Bodies \X Payments

-----------------------------------------------------------------------------
Goto(r, to) == stage' = [stage EXCEPT ![r] = to]

(* The handler returns or throws: the slot is free and its locals are gone *)
Return(r) == Goto(r, "idle") /\ req' = [req EXCEPT ![r] = Blank]

(* Ids that createId and gen_random_uuid have not handed out yet *)
NewPayment(p) == status[p] = "absent" /\ \A q \in Requests : req[q].payment # p
NewJob(j)     == jobStatus[j] = "absent" /\ \A q \in Requests : req[q].job # j

(* A handler that has read payment p and goes on to stage to *)
Begin(r, p, u, j, to) ==
  /\ stage[r] = "idle"
  /\ Goto(r, to)
  /\ req' = [req EXCEPT ![r] = Locals(p, u, None, None, j)]
  /\ UNCHANGED <<storeVars, keyRows, history>>

-----------------------------------------------------------------------------
(* createPayment *)

(* Mutant: a pending key is reserved again *)
CreateReservePending(r, p, u, k, b) ==
  /\ stage[r] = "idle"
  /\ NewPayment(p)
  /\ IF k = None
       THEN UNCHANGED <<keyStatus, keyBody>>
       ELSE /\ keyStatus[k] # "done"
            /\ keyStatus' = [keyStatus EXCEPT ![k] = "pending"]
            /\ keyBody'   = [keyBody EXCEPT ![k] = b]
  /\ Goto(r, "create")
  /\ req' = [req EXCEPT ![r] = Locals(p, u, k, b, None)]
  /\ UNCHANGED <<storeVars, keyPayment, history>>

(* reserveIdempotencyKey, outcome "reserved"; a request without a key      *)
(* skips it.  The id createId will return is picked here, so that no       *)
(* create runs out of the finitely many ids half-way.                      *)
CreateReserve(r, p, u, k, b) ==
  /\ stage[r] = "idle"
  /\ NewPayment(p)
  /\ IF k = None
       THEN UNCHANGED <<keyStatus, keyBody>>
       ELSE /\ keyStatus[k] = "absent"
            /\ keyStatus' = [keyStatus EXCEPT ![k] = "pending"]
            /\ keyBody'   = [keyBody EXCEPT ![k] = b]
  /\ Goto(r, "create")
  /\ req' = [req EXCEPT ![r] = Locals(p, u, k, b, None)]
  /\ UNCHANGED <<storeVars, keyPayment, history>>

(* Mutant: the request hash is not compared *)
CreateReplayAnyBody(r, k, b) ==
  /\ stage[r] = "idle"
  /\ keyStatus[k] = "done"
  /\ answers' = answers \cup {<<k, b, keyPayment[k]>>}
  /\ UNCHANGED <<storeVars, stage, req, keyRows, madeUnder>>

(* reserveIdempotencyKey, outcome "done": the first payment is the answer. *)
(* The outcomes "hash_mismatch" and "pending" only raise.                  *)
CreateReplay(r, k, b) ==
  /\ stage[r] = "idle"
  /\ keyStatus[k] = "done" /\ keyBody[k] = b
  /\ answers' = answers \cup {<<k, b, keyPayment[k]>>}
  /\ UNCHANGED <<storeVars, stage, req, keyRows, madeUnder>>

(* buildPaymentShape and POST /evaluate.  required_approvals comes from an *)
(* earlier GET /policies, so the two need not agree on the policy.         *)
CreateEvaluate(r, n) ==
  /\ stage[r] = "create"
  /\ \E verdict \in Verdict(req[r].payment) :
       req' = [req EXCEPT ![r] = [@ EXCEPT !.needs = n, !.initial =
                 CASE verdict = "Blocked" -> "Blocked"
                   [] verdict = "Clear" /\ n = 0 -> "Approved"
                   [] OTHER -> "Pending approval"]]
  /\ Goto(r, "insert")
  /\ UNCHANGED <<storeVars, keyRows, history>>

(* The rows the insert transaction writes.  A key it completes is there:    *)
(* only the create that reserved a pending key releases it.                *)
InsertPayment(r) ==
  LET p == req[r].payment
      k == req[r].key
      auto == req[r].initial = "Approved"
  IN /\ status'    = [status EXCEPT ![p] = req[r].initial]
     /\ required'  = [required EXCEPT ![p] = req[r].needs]
     /\ createdBy' = [createdBy EXCEPT ![p] = req[r].user]
     /\ approvers' = [approvers EXCEPT ![p] = IF auto THEN {AutoPolicy} ELSE {}]
     /\ IF k = None
          THEN UNCHANGED <<keyStatus, keyPayment>>
          ELSE /\ keyStatus'  = [keyStatus EXCEPT ![k] = "done"]
               /\ keyPayment' = [keyPayment EXCEPT ![k] = p]
     /\ madeUnder' = [madeUnder EXCEPT ![p] = k]
     /\ Emit({p}, CASE req[r].initial = "Blocked" -> "Payment blocked"
                    [] auto -> "Payment auto-approved"
                    [] OTHER -> "Payment created")
     /\ UNCHANGED <<jobRows, balance, keyBody>>

CreateInsert(r) ==
  /\ stage[r] = "insert"
  /\ InsertPayment(r)
  /\ answers' = IF req[r].key = None THEN answers
                ELSE answers \cup {<<req[r].key, req[r].body, req[r].payment>>}
  /\ Return(r)

(* The transaction commits, but withTransaction sees an error *)
CreateCommitLost(r) ==
  /\ \/ "commit" \in ServiceFaults
     \/ "commit_unkeyed" \in ServiceFaults /\ req[r].key = None
  /\ stage[r] = "insert"
  /\ InsertPayment(r)
  /\ Goto(r, "release")
  /\ UNCHANGED <<req, answers>>

(* Mutant: an error does not release the key *)
CreateErrorKeepsKey(r) ==
  /\ stage[r] \in {"create", "insert"}
  /\ Return(r)
  /\ UNCHANGED <<storeVars, keyRows, history>>

(* Anything thrown after the reservation lands in the catch block *)
CreateError(r) ==
  /\ stage[r] \in {"create", "insert"}
  /\ Goto(r, "release")
  /\ UNCHANGED <<storeVars, req, keyRows, history>>

(* releaseIdempotencyKey deletes the row whatever its status is *)
CreateRelease(r) ==
  /\ stage[r] = "release"
  /\ LET k == req[r].key IN
       IF k = None
         THEN UNCHANGED keyRows
         ELSE /\ keyStatus'  = [keyStatus EXCEPT ![k] = "absent"]
              /\ keyBody'    = [keyBody EXCEPT ![k] = None]
              /\ keyPayment' = [keyPayment EXCEPT ![k] = None]
  /\ Return(r)
  /\ UNCHANGED <<storeVars, history>>

-----------------------------------------------------------------------------
(* approvePayment *)

(* Any other status returns or throws before anything is written *)
ApproveRead(r, p, u) ==
  /\ status[p] = "Pending approval"
  /\ Begin(r, p, u, None, "approve")

(* Mutant: the creator may approve *)
SelfApprovalAllowed(r) == FALSE

(* evaluatePayment, then the creator-cannot-approve check.  GET /policies  *)
(* never reports selfApprovalAllowed, so the check is unconditional.       *)
SelfApproval(r) ==
  /\ AuthRequired
  /\ createdBy[req[r].payment] # None
  /\ createdBy[req[r].payment] = ApproverId(req[r].user)

ApproveEvaluate(r) ==
  /\ stage[r] = "approve"
  /\ \E verdict \in Verdict(req[r].payment) :
       \/ verdict = "Blocked" /\ Goto(r, "approve_block") /\ UNCHANGED req
       \/ verdict = "Review" /\ Return(r)
       \/ verdict = "Clear" /\ SelfApproval(r) /\ Return(r)
       \/ verdict = "Clear" /\ ~SelfApproval(r) /\ Goto(r, "approve_commit") /\ UNCHANGED req
  /\ UNCHANGED <<storeVars, keyRows, history>>

(* transitionInTx to "Blocked": guarded by the status under FOR UPDATE, but *)
(* the audit event is appended whether or not the transition happened       *)
BlockFrom(r, from, action) ==
  LET p == req[r].payment
  IN /\ IF status[p] = from THEN SetStatus(p, "Blocked") ELSE UNCHANGED status
     /\ Emit({p}, action)
     /\ Return(r)
     /\ UNCHANGED <<paymentRow, jobRows, balance, keyRows, history>>

ApproveBlock(r) ==
  /\ stage[r] = "approve_block"
  /\ BlockFrom(r, "Pending approval", "Payment blocked")

(* The FOR UPDATE re-read, the approval row with its UNIQUE(payment_id,    *)
(* approver_id), the distinct count and the status it implies.  The event  *)
(* names the count; here it only tells the last approval from an earlier.  *)
ApproveCommit(r) ==
  /\ stage[r] = "approve_commit"
  /\ LET p == req[r].payment
         a == ApproverId(req[r].user)
         now == approvers[p] \cup {a}
     IN IF status[p] = "Pending approval" /\ a \notin approvers[p]
          THEN /\ approvers' = [approvers EXCEPT ![p] = now]
               /\ SetStatus(p, IF Cardinality(now) >= required[p]
                                 THEN "Approved" ELSE "Pending approval")
               /\ Emit({p}, IF Cardinality(now) >= required[p]
                              THEN "Payment approved" ELSE "Approval counted")
          ELSE UNCHANGED <<approvers, status, outbox>>
  /\ Return(r)
  /\ UNCHANGED <<required, createdBy, jobRows, balance, keyRows, history>>

-----------------------------------------------------------------------------
(* executePayment *)

ExecuteRead(r, p, j) ==
  /\ status[p] = "Approved"
  /\ NewJob(j)
  /\ Begin(r, p, None, j, "execute")

ExecuteEvaluate(r) ==
  /\ stage[r] = "execute"
  /\ \E verdict \in Verdict(req[r].payment) :
       \/ verdict = "Blocked" /\ Goto(r, "execute_block") /\ UNCHANGED req
       \/ verdict = "Clear" /\ Goto(r, "execute_commit") /\ UNCHANGED req
       \/ verdict = "Review" /\ Return(r)
  /\ UNCHANGED <<storeVars, keyRows, history>>

ExecuteBlock(r) ==
  /\ stage[r] = "execute_block"
  /\ BlockFrom(r, "Approved", "Execution blocked")

(* Mutant: the job is left to somebody else *)
ExecuteCommitNoJob(r) ==
  /\ stage[r] = "execute_commit"
  /\ LET p == req[r].payment
     IN IF status[p] = "Approved"
          THEN SetStatus(p, "Executing") /\ Emit({p}, "Execution enqueued")
          ELSE UNCHANGED <<status, outbox>>
  /\ Return(r)
  /\ UNCHANGED <<paymentRow, jobRows, balance, keyRows, history>>

(* The guarded transition, the job and the audit event in one transaction; *)
(* concurrent_modification rolls it back                                   *)
ExecuteCommit(r) ==
  /\ stage[r] = "execute_commit"
  /\ LET p == req[r].payment
     IN IF status[p] = "Approved"
          THEN /\ SetStatus(p, "Executing")
               /\ Enqueue(req[r].job, p)
               /\ Emit({p}, "Execution enqueued")
          ELSE UNCHANGED <<status, jobRows, outbox>>
  /\ Return(r)
  /\ UNCHANGED <<paymentRow, balance, keyRows, history>>

-----------------------------------------------------------------------------
(* cancelPayment *)

(* Mutant: a failed payment may be cancelled, as the trigger allows *)
CancellableOrFailed == {"Pending approval", "Approved", "Failed"}

Cancellable == {"Pending approval", "Approved"}

CancelRead(r, p) ==
  /\ status[p] \in Cancellable
  /\ Begin(r, p, None, None, "cancel_commit")

CancelCommit(r) ==
  /\ stage[r] = "cancel_commit"
  /\ LET p == req[r].payment
     IN IF status[p] \in Cancellable
          THEN SetStatus(p, "Cancelled") /\ Emit({p}, "Payment cancelled")
          ELSE UNCHANGED <<status, outbox>>
  /\ Return(r)
  /\ UNCHANGED <<paymentRow, jobRows, balance, keyRows, history>>

-----------------------------------------------------------------------------
(* retryExecution: the reopening UPDATE and the enqueue commit separately *)

RetryRead(r, p, j) ==
  /\ status[p] \in {"Executing", "Failed"}
  /\ NewJob(j)
  /\ Begin(r, p, None, j, IF status[p] = "Failed" THEN "retry_reopen" ELSE "retry_enqueue")

RetryReopen(r) ==
  /\ stage[r] = "retry_reopen"
  /\ LET p == req[r].payment
     IN IF status[p] = "Failed" THEN SetStatus(p, "Executing") ELSE UNCHANGED status
  /\ Goto(r, "retry_enqueue")
  /\ UNCHANGED <<paymentRow, jobRows, outbox, balance, req, keyRows, history>>

RetryEnqueue(r) ==
  /\ stage[r] = "retry_enqueue"
  /\ Enqueue(req[r].job, req[r].payment)
  /\ Return(r)
  /\ UNCHANGED <<status, paymentRow, outbox, balance, keyRows, history>>

-----------------------------------------------------------------------------
(* The process dies, or a statement fails, between two steps of a handler *)
Abandon(r) ==
  /\ "abandon" \in ServiceFaults
  /\ stage[r] # "idle"
  /\ Return(r)
  /\ UNCHANGED <<storeVars, keyRows, history>>

(* Mutant: payments expire without an event *)
ExpireSilently(S) ==
  /\ S # {} /\ \A p \in S : status[p] = "Pending approval"
  /\ status' = [p \in Payments |-> IF p \in S THEN "Cancelled" ELSE status[p]]
  /\ UNCHANGED <<paymentRow, jobRows, outbox, balance, serviceVars>>

(* What the saga does to the row of an Executing payment and to its wallet; *)
(* SettlementSaga has the steps                                            *)
ExecutionEnds(p, to) ==
  /\ status[p] = "Executing" /\ to \in {"Settled", "Failed"}
  /\ to = "Settled" => balance >= Total[p]
  /\ SetStatus(p, to)
  /\ balance' = IF to = "Settled" THEN balance - Total[p] ELSE balance
  /\ UNCHANGED <<paymentRow, jobRows, outbox, serviceVars>>

(* expireStalePayments: one UPDATE cancels those older than 72 hours, S *)
ExpireStale(S) ==
  /\ S # {} /\ \A p \in S : status[p] = "Pending approval"
  /\ status' = [p \in Payments |-> IF p \in S THEN "Cancelled" ELSE status[p]]
  /\ Emit(S, "Payment expired")
  /\ UNCHANGED <<paymentRow, jobRows, balance, serviceVars>>

(* sweepIdempotencyKeys: a key that was done for 48 hours is forgotten *)
SweepKey(k) ==
  /\ keyStatus[k] = "done"
  /\ keyStatus'  = [keyStatus EXCEPT ![k] = "absent"]
  /\ keyBody'    = [keyBody EXCEPT ![k] = None]
  /\ keyPayment' = [keyPayment EXCEPT ![k] = None]
  /\ madeUnder'  = [p \in Payments |-> IF madeUnder[p] = k THEN None ELSE madeUnder[p]]
  /\ answers'    = {a \in answers : a[1] # k}
  /\ UNCHANGED <<storeVars, stage, req>>

-----------------------------------------------------------------------------
ServiceInit ==
  /\ stage      = [r \in Requests |-> "idle"]
  /\ req        = [r \in Requests |-> Blank]
  /\ keyStatus  = [k \in Keys |-> "absent"]
  /\ keyBody    = [k \in Keys |-> None]
  /\ keyPayment = [k \in Keys |-> None]
  /\ madeUnder  = [p \in Payments |-> None]
  /\ answers = {}

(* A request that reaches the service *)
Arrive(r) ==
  \/ \E p \in Payments, u \in Actors, k \in Keys \cup {None}, b \in Bodies :
       CreateReserve(r, p, u, k, b)
  \/ \E k \in Keys, b \in Bodies : CreateReplay(r, k, b)
  \/ \E p \in Payments, u \in Actors : ApproveRead(r, p, u)
  \/ \E p \in Payments, j \in Jobs : ExecuteRead(r, p, j)
  \/ \E p \in Payments : CancelRead(r, p)
  \/ \E p \in Payments, j \in Jobs : RetryRead(r, p, j)

(* A handler that runs on *)
Continue(r) ==
  \/ \E n \in 0 .. 2 : CreateEvaluate(r, n)
  \/ CreateInsert(r)
  \/ CreateRelease(r)
  \/ ApproveEvaluate(r)
  \/ ApproveBlock(r)
  \/ ApproveCommit(r)
  \/ ExecuteEvaluate(r)
  \/ ExecuteBlock(r)
  \/ ExecuteCommit(r)
  \/ CancelCommit(r)
  \/ RetryReopen(r)
  \/ RetryEnqueue(r)

ServiceNext ==
  \/ \E r \in Requests : Arrive(r)
  \/ \E r \in Requests : Continue(r)
  \/ \E r \in Requests : CreateError(r)
  \/ \E r \in Requests : CreateCommitLost(r)
  \/ \E r \in Requests : Abandon(r)
  \/ \E S \in SUBSET Payments : ExpireStale(S)
  \/ \E k \in Keys : SweepKey(k)

ServiceStart == StoreInit /\ ServiceInit

(* The service with a worker as its environment *)
OpenNext == ServiceNext \/ \E p \in Payments, to \in {"Settled", "Failed"} : ExecutionEnds(p, to)

ServiceSpec == ServiceStart /\ [][OpenNext]_<<storeVars, serviceVars>>

-----------------------------------------------------------------------------
(* The statuses a payment can only have once it was authorised *)
Authorised == {"Approved", "Executing", "Settled", "Failed"}

(* Four eyes: an authorised payment has as many distinct approvers as its  *)
(* policy demanded, and nobody ever approves a payment he created, however *)
(* requests that read the payment earlier interleave (approvePayment).     *)
FourEyes ==
  \A p \in Payments :
    /\ status[p] \in Authorised => Cardinality(approvers[p]) >= required[p]
    /\ AuthRequired => createdBy[p] \notin approvers[p]

(* Between two sweeps an Idempotency-Key creates at most one payment, with *)
(* any number of concurrent, repeated and failed creates under it          *)
(* (createPayment, reserveIdempotencyKey, releaseIdempotencyKey).          *)
OnePaymentPerKey ==
  \A p, q \in Payments : p # q /\ madeUnder[p] # None => madeUnder[p] # madeUnder[q]

(* Every create answered under one key is answered with the same payment   *)
(* and was asked with the same body: a replay returns the original, and a  *)
(* different body is refused (reserveIdempotencyKey).                      *)
ReplayIsOriginal ==
  \A x, y \in answers : x[1] = y[1] => x = y

(* ARCHITECTURE.md: "domain services write platform.outbox_events in the   *)
(* same transaction as the state change".  The audit events that record a  *)
(* change of status to s, and that the step that makes it adds one of them *)
AuditOf(s) ==
  CASE s = "Pending approval" -> {"Payment created"}
    [] s = "Approved"  -> {"Payment approved", "Payment auto-approved"}
    [] s = "Blocked"   -> {"Payment blocked", "Execution blocked"}
    [] s = "Executing" -> {"Execution enqueued"}
    [] s = "Cancelled" -> {"Payment cancelled", "Payment expired"}
RecordedNow(p) == \E action \in AuditOf(status'[p]) : <<p, action>> \in outbox' \ outbox

(* The changes of status payment-service makes; the other two end a saga   *)
Decided(p) == status'[p] # status[p] /\ status'[p] \notin {"Settled", "Failed"}

(* Whoever proposes, approves, blocks, executes, cancels or expires a      *)
(* payment records that very change in the transaction that makes it,      *)
(* whatever other requests wrote about the payment since it was read (the  *)
(* handlers of payments.mjs and expireStalePayments).  One change is left  *)
(* out, of which it is false: retryExecution sends a Failed payment back   *)
(* into execution by an UPDATE that no event commits with, where           *)
(* docs/ARCHITECTURE.md says domain services write their outbox events "in *)
(* the same transaction as the state change".                              *)
DecisionsAudited ==
  [][\A p \in Payments : Decided(p) /\ status[p] # "Failed" => RecordedNow(p)]_<<storeVars, serviceVars>>

(* A client told to retry with the same key is eventually let through:     *)
(* reserveIdempotencyKey's "pending" is an in-progress signal, not a state *)
(* a key stays in.                                                         *)
PendingKeysResolve ==
  \A k \in Keys : keyStatus[k] = "pending" ~> keyStatus[k] # "pending"

(* A handler that has started runs on unless its process dies; clients owe nothing *)
ServiceFairness == \A r \in Requests : WF_<<storeVars, serviceVars>>(Continue(r))
FairServiceSpec == ServiceSpec /\ ServiceFairness
=============================================================================
