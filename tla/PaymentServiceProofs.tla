------------------------ MODULE PaymentServiceProofs ------------------------
(***************************************************************************)
(* What payment-service guarantees by itself, for any number of payments,  *)
(* requests, users and keys.                                               *)
(***************************************************************************)
EXTENDS PaymentService, FiniteSetTheorems, TLAPS

(* A request that is being served is about a payment, and one that is      *)
(* creating it carries a body.  The type of outbox and answers rests on it.*)
RequestOK ==
  /\ \A r \in Requests :
       /\ stage[r] # "idle" => req[r].payment \in Payments
       /\ stage[r] \in {"create", "insert"} => req[r].body \in Bodies
  /\ \A k \in Keys : keyStatus[k] = "done" => keyPayment[k] \in Payments

TypeInv == ServiceTypeOK /\ RequestOK

-----------------------------------------------------------------------------
(* What the helpers do to the types *)

LEMMA SlotType ==
  ASSUME NEW r \in Requests, NEW s \in Stage, NEW l \in Request,
         stage \in [Requests -> Stage], req \in [Requests -> Request],
         stage' = [stage EXCEPT ![r] = s], req' = [req EXCEPT ![r] = l]
  PROVE  stage' \in [Requests -> Stage] /\ req' \in [Requests -> Request]
  OBVIOUS

LEMMA BlankType == Blank \in Request
  BY DEF Blank, Locals, Request

LEMMA EvaluatedType ==
  ASSUME NEW l \in Request, NEW n \in 0 .. 2, NEW i \in Status
  PROVE  [l EXCEPT !.needs = n, !.initial = i] \in Request
  BY DEF Request

LEMMA EmitType ==
  ASSUME outbox \subseteq (Payments \cup Jobs) \X Action,
         NEW S \in SUBSET (Payments \cup Jobs), NEW a \in Action, Emit(S, a)
  PROVE  outbox' \subseteq (Payments \cup Jobs) \X Action
  BY DEF Emit

LEMMA SetStatusType ==
  ASSUME status \in [Payments -> Status \cup {"absent"}],
         NEW p, NEW to \in Status, SetStatus(p, to)
  PROVE  status' \in [Payments -> Status \cup {"absent"}]
  BY DEF SetStatus

LEMMA EnqueueType ==
  ASSUME StoreTypeOK, NEW j, NEW p \in Payments, Enqueue(j, p)
  PROVE  /\ jobStatus' \in [Jobs -> JobStatus \cup {"absent"}]
         /\ jobPayment' \in [Jobs -> Payments \cup {None}]
         /\ attempts' \in [Jobs -> Nat]
  BY DEF Enqueue, StoreTypeOK, JobStatus

-----------------------------------------------------------------------------
LEMMA TypeInit == StoreInit /\ ServiceInit => TypeInv
<1>1. StoreInit /\ ServiceInit => ServiceTypeOK
  BY StoreAssumption, BlankType DEF StoreInit, ServiceInit, ServiceTypeOK, StoreTypeOK, Stage
<1>2. ServiceInit => RequestOK
  BY DEF ServiceInit, RequestOK
<1>3. QED BY <1>1, <1>2 DEF TypeInv

LEMMA CreateReserveType ==
  ASSUME TypeInv, NEW r \in Requests, NEW p \in Payments, NEW u \in Actors,
         NEW k \in Keys \cup {None}, NEW b \in Bodies, CreateReserve(r, p, u, k, b)
  PROVE  TypeInv'
<1>. USE DEF TypeInv
<1>1. StoreTypeOK'
  BY DEF CreateReserve, ServiceTypeOK, StoreTypeOK, storeVars
<1>2. stage' \in [Requests -> Stage] /\ req' \in [Requests -> Request]
  <2>1. Locals(p, u, k, b, None) \in Request
    BY DEF Locals, Request, Actors
  <2>2. QED BY <2>1, SlotType DEF CreateReserve, ServiceTypeOK, Goto, Stage
<1>3. /\ keyStatus' \in [Keys -> {"absent", "pending", "done"}]
      /\ keyBody' \in [Keys -> Bodies \cup {None}]
  BY ServiceAssumption DEF CreateReserve, ServiceTypeOK
<1>4. ServiceTypeOK'
  BY <1>1, <1>2, <1>3 DEF ServiceTypeOK, CreateReserve, history
<1>5. RequestOK'
  BY <1>2, <1>3 DEF RequestOK, CreateReserve, Goto, Locals, ServiceTypeOK
<1>6. QED BY <1>4, <1>5

LEMMA CreateType ==
  ASSUME TypeInv, NEW r \in Requests,
         \/ \E k \in Keys, b \in Bodies : CreateReplay(r, k, b)
         \/ \E n \in 0 .. 2 : CreateEvaluate(r, n)
         \/ CreateError(r)
         \/ CreateRelease(r)
  PROVE  TypeInv'
<1>. USE DEF TypeInv
<1>1. CASE \E k \in Keys, b \in Bodies : CreateReplay(r, k, b)
  <2>1. StoreTypeOK' /\ RequestOK'
    BY <1>1 DEF CreateReplay, ServiceTypeOK, StoreTypeOK, RequestOK, storeVars, keyRows
  <2>2. answers' \subseteq Keys \X Bodies \X Payments
    BY <1>1 DEF CreateReplay, ServiceTypeOK, RequestOK
  <2>3. QED BY <1>1, <2>1, <2>2 DEF CreateReplay, ServiceTypeOK, keyRows
<1>2. CASE \E n \in 0 .. 2 : CreateEvaluate(r, n)
  <2>1. StoreTypeOK'
    BY <1>2 DEF CreateEvaluate, ServiceTypeOK, StoreTypeOK, storeVars
  <2>2. PICK n \in 0 .. 2, i \in Status :
          req' = [req EXCEPT ![r] = [@ EXCEPT !.needs = n, !.initial = i]]
    BY <1>2 DEF CreateEvaluate, Status
  <2>3. req' \in [Requests -> Request]
    BY <2>2, EvaluatedType DEF ServiceTypeOK
  <2>4. \A q \in Requests : req'[q].payment = req[q].payment /\ req'[q].body = req[q].body
    BY <2>2 DEF ServiceTypeOK, Request
  <2>5. stage' = [stage EXCEPT ![r] = "insert"] /\ stage[r] = "create" /\ UNCHANGED keyRows
    BY <1>2 DEF CreateEvaluate, Goto
  <2>6. RequestOK'
    BY <2>4, <2>5 DEF RequestOK, ServiceTypeOK, keyRows
  <2>7. QED
    BY <1>2, <2>1, <2>3, <2>5, <2>6 DEF CreateEvaluate, ServiceTypeOK, keyRows, history, Stage
<1>3. CASE CreateError(r)
  BY <1>3 DEF CreateError, ServiceTypeOK, StoreTypeOK, RequestOK, storeVars, keyRows, history,
     Goto, Stage
<1>4. CASE CreateRelease(r)
  <2>1. StoreTypeOK'
    BY <1>4 DEF CreateRelease, ServiceTypeOK, StoreTypeOK, storeVars
  <2>2. stage' \in [Requests -> Stage] /\ req' \in [Requests -> Request]
    BY <1>4, SlotType, BlankType DEF CreateRelease, Return, Goto, ServiceTypeOK, Stage
  <2>3. /\ keyStatus' \in [Keys -> {"absent", "pending", "done"}]
        /\ keyBody' \in [Keys -> Bodies \cup {None}]
        /\ keyPayment' \in [Keys -> Payments \cup {None}]
    BY <1>4 DEF CreateRelease, ServiceTypeOK, keyRows
  <2>4. RequestOK'
    BY <1>4, <2>2, <2>3 DEF CreateRelease, RequestOK, ServiceTypeOK, keyRows, Return, Goto, Request
  <2>5. QED BY <1>4, <2>1, <2>2, <2>3, <2>4 DEF CreateRelease, ServiceTypeOK, history
<1>5. QED BY <1>1, <1>2, <1>3, <1>4

LEMMA InsertType ==
  ASSUME TypeInv, NEW r \in Requests, CreateInsert(r) \/ CreateCommitLost(r)
  PROVE  TypeInv'
<1>. USE DEF TypeInv
<1>1. stage[r] = "insert" /\ InsertPayment(r)
  BY DEF CreateInsert, CreateCommitLost
<1>2. /\ req[r] \in Request
      /\ req[r].payment \in Payments /\ req[r].body \in Bodies
  BY <1>1 DEF RequestOK, ServiceTypeOK
<1>3. StoreTypeOK'
  <2>1. outbox' \subseteq (Payments \cup Jobs) \X Action
    <3>. DEFINE a == CASE req[r].initial = "Blocked"  -> "Payment blocked"
                        [] req[r].initial = "Approved" -> "Payment auto-approved"
                        [] OTHER                       -> "Payment created"
    <3>1. Emit({req[r].payment}, a)
      BY <1>1 DEF InsertPayment
    <3>2. a \in Action
      BY DEF Action
    <3>. HIDE DEF a
    <3>3. QED BY <1>2, <3>1, <3>2, EmitType DEF ServiceTypeOK, StoreTypeOK
  <2>2. QED
    BY <1>1, <1>2, <2>1 DEF InsertPayment, ServiceTypeOK, StoreTypeOK, jobRows, Request, Status
<1>4. stage' \in [Requests -> Stage] /\ req' \in [Requests -> Request]
  BY SlotType, BlankType DEF CreateInsert, CreateCommitLost, Return, Goto, ServiceTypeOK, Stage
<1>5. /\ keyStatus' \in [Keys -> {"absent", "pending", "done"}]
      /\ keyBody' \in [Keys -> Bodies \cup {None}]
      /\ keyPayment' \in [Keys -> Payments \cup {None}]
      /\ madeUnder' \in [Payments -> Keys \cup {None}]
  BY <1>1, <1>2 DEF InsertPayment, ServiceTypeOK, Request
<1>6. answers' \subseteq Keys \X Bodies \X Payments
  BY <1>2 DEF CreateInsert, CreateCommitLost, ServiceTypeOK, Request
<1>7. ServiceTypeOK'
  BY <1>3, <1>4, <1>5, <1>6 DEF ServiceTypeOK
<1>8. \/ stage' = [stage EXCEPT ![r] = "idle"] /\ req' = [req EXCEPT ![r] = Blank]
      \/ stage' = [stage EXCEPT ![r] = "release"] /\ req' = req
  BY DEF CreateInsert, CreateCommitLost, Return, Goto
<1>9. RequestOK'
  <2>1. \A q \in Requests : q # r => stage'[q] = stage[q] /\ req'[q] = req[q]
    BY <1>8 DEF ServiceTypeOK
  <2>2. stage'[r] = "idle" \/ (stage'[r] = "release" /\ req'[r] = req[r])
    BY <1>8 DEF ServiceTypeOK
  <2>3. \A k \in Keys : keyStatus'[k] = "done" =>
          keyPayment'[k] \in Payments
    BY <1>1, <1>2 DEF InsertPayment, ServiceTypeOK, RequestOK
  <2>4. QED BY <1>2, <2>1, <2>2, <2>3 DEF RequestOK
<1>10. QED BY <1>7, <1>9

(* A handler that starts, and one that ends *)
LEMMA BeginType ==
  ASSUME TypeInv, NEW r \in Requests, NEW p \in Payments, NEW u \in Users \cup {None},
         NEW j \in Jobs \cup {None}, NEW s \in Stage \ {"create", "insert"},
         Begin(r, p, u, j, s)
  PROVE  TypeInv'
<1>. USE DEF TypeInv
<1>1. Locals(p, u, None, None, j) \in Request
  BY DEF Locals, Request
<1>2. stage' \in [Requests -> Stage] /\ req' \in [Requests -> Request]
  BY <1>1, SlotType DEF Begin, Goto, ServiceTypeOK
<1>3. ServiceTypeOK'
  BY <1>2 DEF Begin, ServiceTypeOK, StoreTypeOK, storeVars, keyRows, history
<1>4. RequestOK'
  BY <1>2 DEF Begin, Goto, Locals, RequestOK, ServiceTypeOK, storeVars, keyRows
<1>5. QED BY <1>3, <1>4

LEMMA EndType ==
  ASSUME TypeInv, NEW r \in Requests, Return(r), StoreTypeOK', UNCHANGED <<keyRows, history>>
  PROVE  TypeInv'
<1>. USE DEF TypeInv
<1>1. stage' \in [Requests -> Stage] /\ req' \in [Requests -> Request]
  BY SlotType, BlankType DEF Return, Goto, ServiceTypeOK, Stage
<1>2. ServiceTypeOK'
  BY <1>1 DEF ServiceTypeOK, keyRows, history
<1>3. RequestOK'
  BY <1>1 DEF Return, Goto, RequestOK, ServiceTypeOK, keyRows
<1>4. QED BY <1>2, <1>3

(* A handler that only moves on *)
LEMMA GotoType ==
  ASSUME TypeInv, NEW r \in Requests, NEW s \in Stage \ {"create", "insert"},
         stage[r] # "idle", Goto(r, s), StoreTypeOK', UNCHANGED <<req, keyRows, history>>
  PROVE  TypeInv'
  BY DEF TypeInv, Goto, ServiceTypeOK, RequestOK, keyRows, history

LEMMA StoreUnchanged == StoreTypeOK /\ UNCHANGED storeVars => StoreTypeOK'
  BY DEF StoreTypeOK, storeVars

LEMMA EvaluateType ==
  ASSUME TypeInv, NEW r \in Requests, ApproveEvaluate(r) \/ ExecuteEvaluate(r)
  PROVE  TypeInv'
<1>1. StoreTypeOK' /\ UNCHANGED <<keyRows, history>> /\ stage[r] # "idle"
  BY StoreUnchanged DEF TypeInv, ServiceTypeOK, ApproveEvaluate, ExecuteEvaluate
<1>2. \/ Return(r)
      \/ /\ UNCHANGED req
         /\ \/ Goto(r, "approve_block") \/ Goto(r, "approve_commit")
            \/ Goto(r, "execute_block") \/ Goto(r, "execute_commit")
  BY DEF ApproveEvaluate, ExecuteEvaluate
<1>3. {"approve_block", "approve_commit", "execute_block", "execute_commit"}
        \subseteq Stage \ {"create", "insert"}
  BY DEF Stage
<1>4. QED BY <1>1, <1>2, <1>3, EndType, GotoType

(* A commit whose effect is an update of the status, of the approvals, an  *)
(* enqueued job and an event, each of them optional.                       *)
LEMMA CommitType ==
  ASSUME TypeInv, NEW r \in Requests, stage[r] # "idle",
         UNCHANGED <<required, createdBy, balance>>,
         UNCHANGED status \/ \E to \in Status : SetStatus(req[r].payment, to),
         UNCHANGED outbox \/ \E a \in Action : Emit({req[r].payment}, a),
         UNCHANGED jobRows \/ Enqueue(req[r].job, req[r].payment),
         approvers' \in [Payments -> SUBSET (Users \cup {System, AutoPolicy})]
  PROVE  StoreTypeOK'
<1>1. req[r].payment \in Payments /\ StoreTypeOK
  BY DEF TypeInv, RequestOK, ServiceTypeOK
<1>2. status' \in [Payments -> Status \cup {"absent"}]
  BY <1>1, SetStatusType DEF StoreTypeOK
<1>3. outbox' \subseteq (Payments \cup Jobs) \X Action
  BY <1>1, EmitType DEF StoreTypeOK
<1>4. /\ jobStatus' \in [Jobs -> JobStatus \cup {"absent"}]
      /\ jobPayment' \in [Jobs -> Payments \cup {None}]
      /\ attempts' \in [Jobs -> Nat]
  BY <1>1, EnqueueType DEF StoreTypeOK, jobRows
<1>5. QED BY <1>1, <1>2, <1>3, <1>4 DEF StoreTypeOK

LEMMA WriteType ==
  ASSUME TypeInv, NEW r \in Requests,
         \/ ApproveBlock(r)  \/ ApproveCommit(r) \/ ExecuteBlock(r) \/ ExecuteCommit(r)
         \/ CancelCommit(r)  \/ RetryReopen(r)   \/ RetryEnqueue(r) \/ Abandon(r)
  PROVE  TypeInv'
<1>. DEFINE p == req[r].payment
<1>0. /\ StoreTypeOK /\ stage \in [Requests -> Stage] /\ req[r] \in Request
      /\ {"Blocked", "Approved", "Pending approval", "Executing", "Cancelled"} \subseteq Status
      /\ {"Payment blocked", "Execution blocked", "Payment approved", "Approval counted",
          "Execution enqueued", "Payment cancelled"} \subseteq Action
      /\ approvers \in [Payments -> SUBSET (Users \cup {System, AutoPolicy})]
  BY DEF TypeInv, ServiceTypeOK, StoreTypeOK, Status, Action
<1>1. CASE ApproveBlock(r)
  <2>1. StoreTypeOK'
    BY <1>0, <1>1, CommitType DEF ApproveBlock, BlockFrom, paymentRow
  <2>2. QED BY <1>1, <2>1, EndType DEF ApproveBlock, BlockFrom
<1>2. CASE ApproveCommit(r)
  <2>1. ApproverId(req[r].user) \in Users \cup {System, AutoPolicy}
    BY <1>0 DEF ApproverId, Request
  <2>2. approvers' \in [Payments -> SUBSET (Users \cup {System, AutoPolicy})]
    <3>. DEFINE a == ApproverId(req[r].user)
    <3>1. approvers' = approvers \/ approvers' = [approvers EXCEPT ![p] = approvers[p] \cup {a}]
      BY <1>2 DEF ApproveCommit
    <3>2. a \in Users \cup {System, AutoPolicy} /\ p \in Payments
      BY <1>2, <2>1 DEF TypeInv, RequestOK, ApproveCommit
    <3>. HIDE DEF a, p
    <3>3. approvers[p] \cup {a} \in SUBSET (Users \cup {System, AutoPolicy})
      BY <1>0, <3>2
    <3>4. QED BY <1>0, <3>1, <3>3
  <2>3. UNCHANGED outbox \/ \E a \in {"Payment approved", "Approval counted"} : Emit({p}, a)
    BY <1>2 DEF ApproveCommit
  <2>4. UNCHANGED status \/ \E to \in {"Approved", "Pending approval"} : SetStatus(p, to)
    BY <1>2 DEF ApproveCommit
  <2>5. StoreTypeOK'
    BY <1>0, <1>2, <2>2, <2>3, <2>4, CommitType DEF ApproveCommit, jobRows
  <2>6. QED BY <1>2, <2>5, EndType DEF ApproveCommit
<1>3. CASE ExecuteBlock(r)
  <2>1. StoreTypeOK'
    BY <1>0, <1>3, CommitType DEF ExecuteBlock, BlockFrom, paymentRow
  <2>2. QED BY <1>3, <2>1, EndType DEF ExecuteBlock, BlockFrom
<1>4. CASE ExecuteCommit(r)
  <2>1. StoreTypeOK'
    BY <1>0, <1>4, CommitType DEF ExecuteCommit, paymentRow
  <2>2. QED BY <1>4, <2>1, EndType DEF ExecuteCommit
<1>5. CASE CancelCommit(r)
  <2>1. StoreTypeOK'
    BY <1>0, <1>5, CommitType DEF CancelCommit, paymentRow
  <2>2. QED BY <1>5, <2>1, EndType DEF CancelCommit
<1>6. CASE RetryReopen(r)
  <2>1. StoreTypeOK'
    BY <1>0, <1>6, CommitType DEF RetryReopen, paymentRow
  <2>2. QED BY <1>6, <2>1, GotoType DEF RetryReopen, Stage
<1>7. CASE RetryEnqueue(r)
  <2>1. StoreTypeOK'
    BY <1>0, <1>7, CommitType DEF RetryEnqueue, paymentRow
  <2>2. QED BY <1>7, <2>1, EndType DEF RetryEnqueue
<1>8. CASE Abandon(r)
  BY <1>0, <1>8, StoreUnchanged, EndType DEF Abandon
<1>9. QED BY <1>1, <1>2, <1>3, <1>4, <1>5, <1>6, <1>7, <1>8

LEMMA CleanupType ==
  ASSUME TypeInv, (\E S \in SUBSET Payments : ExpireStale(S)) \/ (\E k \in Keys : SweepKey(k))
  PROVE  TypeInv'
<1>. USE DEF TypeInv
<1>1. ASSUME NEW S \in SUBSET Payments, ExpireStale(S) PROVE TypeInv'
  <2>1. outbox' \subseteq (Payments \cup Jobs) \X Action
    BY <1>1, EmitType DEF ExpireStale, ServiceTypeOK, StoreTypeOK, Action
  <2>2. StoreTypeOK'
    BY <1>1, <2>1 DEF ExpireStale, ServiceTypeOK, StoreTypeOK, Status, paymentRow, jobRows
  <2>3. QED BY <1>1, <2>2 DEF ExpireStale, ServiceTypeOK, RequestOK, serviceVars
<1>2. ASSUME NEW k \in Keys, SweepKey(k) PROVE TypeInv'
  <2>1. StoreTypeOK'
    BY <1>2, StoreUnchanged DEF SweepKey, ServiceTypeOK
  <2>2. QED BY <1>2, <2>1 DEF SweepKey, ServiceTypeOK, RequestOK
<1>3. QED BY <1>1, <1>2

(* Every step of the service keeps the types. *)
LEMMA EnvironmentType ==
  ASSUME TypeInv, NEW p \in Payments, NEW to \in {"Settled", "Failed"}, ExecutionEnds(p, to)
  PROVE  TypeInv'
<1>1. status' \in [Payments -> Status \cup {"absent"}]
  BY SetStatusType DEF ExecutionEnds, TypeInv, ServiceTypeOK, StoreTypeOK, Status
<1>2. balance' \in Int
  BY StoreAssumption DEF ExecutionEnds, TypeInv, ServiceTypeOK, StoreTypeOK
<1>3. StoreTypeOK'
  BY <1>1, <1>2 DEF ExecutionEnds, paymentRow, jobRows, TypeInv, ServiceTypeOK, StoreTypeOK
<1>4. QED
  BY <1>3 DEF ExecutionEnds, serviceVars, TypeInv, ServiceTypeOK, RequestOK

LEMMA TypeStep == TypeInv /\ [OpenNext]_<<storeVars, serviceVars>> => TypeInv'
<1>1. ASSUME TypeInv, NEW r \in Requests, Arrive(r) PROVE TypeInv'
  <2>1. CASE \E p \in Payments, u \in Actors, k \in Keys \cup {None}, b \in Bodies :
               CreateReserve(r, p, u, k, b)
    BY <1>1, <2>1, CreateReserveType
  <2>2. CASE \E k \in Keys, b \in Bodies : CreateReplay(r, k, b)
    BY <1>1, <2>2, CreateType
  <2>3. CASE \E p \in Payments, u \in Actors : ApproveRead(r, p, u)
    BY <1>1, <2>3, BeginType DEF ApproveRead, Actors, Stage
  <2>4. CASE \E p \in Payments, j \in Jobs : ExecuteRead(r, p, j)
    BY <1>1, <2>4, BeginType DEF ExecuteRead, Stage
  <2>5. CASE \E p \in Payments : CancelRead(r, p)
    BY <1>1, <2>5, BeginType DEF CancelRead, Stage
  <2>6. CASE \E p \in Payments, j \in Jobs : RetryRead(r, p, j)
    BY <1>1, <2>6, BeginType DEF RetryRead, Stage
  <2>7. QED BY <1>1, <2>1, <2>2, <2>3, <2>4, <2>5, <2>6 DEF Arrive
<1>2. ASSUME TypeInv, NEW r \in Requests, Continue(r) PROVE TypeInv'
  BY <1>2, CreateType, InsertType, EvaluateType, WriteType DEF Continue
<1>3. ASSUME TypeInv, UNCHANGED <<storeVars, serviceVars>> PROVE TypeInv'
  BY <1>3, StoreUnchanged DEF TypeInv, ServiceTypeOK, RequestOK, serviceVars
<1>4. QED
  BY <1>1, <1>2, <1>3, CreateType, InsertType, WriteType, CleanupType, EnvironmentType
     DEF OpenNext, ServiceNext

-----------------------------------------------------------------------------
(* Four eyes.  FourEyes is not inductive: it needs to know that nobody     *)
(* approved a payment before its row existed, that an id is handed out     *)
(* once, that an auto-approved payment demands no approver, and that the   *)
(* self-approval check of a request about to commit still holds.           *)
RowsInv ==
  /\ \A p \in Payments : status[p] = "absent" => approvers[p] = {}
  /\ \A p \in Payments : IsFiniteSet(approvers[p])
  /\ FourEyes

Creating(r) == stage[r] \in {"create", "insert"}

SlotsInv ==
  \A r \in Requests :
    /\ Creating(r) =>
         /\ status[req[r].payment] = "absent"
         /\ \A q \in Requests \ {r} : req[q].payment # req[r].payment
    /\ stage[r] = "insert" =>
         /\ req[r].initial \in {"Blocked", "Approved", "Pending approval"}
         /\ req[r].initial = "Approved" => req[r].needs = 0
    /\ stage[r] \in {"approve", "approve_commit"} => status[req[r].payment] # "absent"
    /\ stage[r] = "approve_commit" => ~SelfApproval(r)

EyesInv == TypeInv /\ RowsInv /\ SlotsInv

LEMMA EyesInit == StoreInit /\ ServiceInit => EyesInv
<1>. SUFFICES ASSUME StoreInit, ServiceInit PROVE EyesInv
  OBVIOUS
<1>1. TypeInv
  BY TypeInit
<1>2. RowsInv
  <2>1. \A p \in Payments : approvers[p] = {} /\ status[p] = "absent"
    BY DEF StoreInit
  <2>2. \A p \in Payments : IsFiniteSet(approvers[p])
    BY <2>1, FS_EmptySet
  <2>3. FourEyes
    BY <2>1 DEF FourEyes, Authorised
  <2>4. QED BY <2>1, <2>2, <2>3 DEF RowsInv
<1>3. SlotsInv
  BY DEF ServiceInit, SlotsInv, Creating
<1>4. QED BY <1>1, <1>2, <1>3 DEF EyesInv

(* A step that moves a payment from one authorised status to another, or   *)
(* out of them, leaves the rows as they should be.                         *)
LEMMA RowsKept ==
  ASSUME RowsInv, UNCHANGED paymentRow,
         \A p \in Payments :
           \/ status'[p] = status[p]
           \/ /\ status[p] # "absent" /\ status'[p] # "absent"
              /\ status'[p] \in Authorised => status[p] \in Authorised
  PROVE  RowsInv'
  BY DEF RowsInv, FourEyes, paymentRow

(* A step after which no request creates or approves that did not before   *)
LEMMA SlotsKept ==
  ASSUME TypeInv, SlotsInv, UNCHANGED createdBy,
         \A p \in Payments : status'[p] = "absent" <=> status[p] = "absent",
         \/ UNCHANGED <<stage, req>>
         \/ \E r \in Requests : Return(r)
         \/ /\ UNCHANGED req
            /\ \E r \in Requests, s \in Stage \ {"create", "insert", "approve", "approve_commit"} :
                  Goto(r, s)
  PROVE  SlotsInv'
<1>. /\ stage \in [Requests -> Stage] /\ req \in [Requests -> Request]
     /\ \A q \in Requests : stage[q] # "idle" => req[q].payment \in Payments
  BY DEF TypeInv, ServiceTypeOK, RequestOK
<1>0. \A a, b \in Requests : Creating(a) /\ a # b => req[b].payment # req[a].payment
  BY DEF SlotsInv
<1>1. CASE UNCHANGED <<stage, req>>
  BY <1>1 DEF SlotsInv, Creating, SelfApproval
<1>2. ASSUME NEW r \in Requests, Return(r) PROVE SlotsInv'
  <2>1. /\ stage'[r] = "idle" /\ req'[r].payment = None
        /\ \A q \in Requests \ {r} : stage'[q] = stage[q] /\ req'[q] = req[q]
    BY <1>2 DEF Return, Goto, Blank, Locals
  <2>2. None \notin Payments
    BY StoreAssumption
  <2>. SUFFICES ASSUME NEW q \in Requests \ {r}
                PROVE  SlotsInv!(q)'
    BY <2>1 DEF SlotsInv, Creating
  <2>3. stage'[q] = stage[q] /\ req'[q] = req[q]
    BY <2>1
  <2>4. Creating(q) => \A x \in Requests \ {q} : req'[x].payment # req'[q].payment
    <3>. SUFFICES ASSUME Creating(q), NEW x \in Requests \ {q}
                  PROVE  req'[x].payment # req[q].payment
      BY <2>3
    <3>1. req[q].payment \in Payments
      BY DEF Creating
    <3>2. CASE x = r
      BY <2>1, <2>2, <3>1, <3>2
    <3>3. CASE x # r
      BY <1>0, <2>1, <3>3
    <3>4. QED BY <3>2, <3>3
  <2>5. QED BY <2>3, <2>4 DEF SlotsInv, Creating, SelfApproval
<1>3. ASSUME UNCHANGED req, NEW r \in Requests,
             NEW s \in Stage \ {"create", "insert", "approve", "approve_commit"}, Goto(r, s)
      PROVE  SlotsInv'
  <2>1. /\ stage'[r] = s /\ req' = req
        /\ \A q \in Requests \ {r} : stage'[q] = stage[q]
    BY <1>3 DEF Goto
  <2>2. QED BY <2>1 DEF SlotsInv, Creating, SelfApproval
<1>4. QED BY <1>1, <1>2, <1>3

LEMMA RowsSame == RowsInv /\ UNCHANGED storeVars => RowsInv'
  BY DEF RowsInv, FourEyes, storeVars

(* A request starts about payment p, which no request is creating, and     *)
(* either creates p, an unused id, or works on an existing row.            *)
LEMMA SlotsStart ==
  ASSUME TypeInv, SlotsInv, UNCHANGED storeVars, NEW r \in Requests, NEW p \in Payments,
         \A q \in Requests \ {r} : stage'[q] = stage[q] /\ req'[q] = req[q],
         req'[r].payment = p,
         \/ stage'[r] = "create" /\ NewPayment(p)
         \/ stage'[r] \notin {"create", "insert", "approve_commit"} /\ status[p] # "absent"
  PROVE  SlotsInv'
<1>1. \A a, b \in Requests : Creating(a) /\ a # b => req[b].payment # req[a].payment
  BY DEF SlotsInv
<1>2. \A a \in Requests : Creating(a) => status[req[a].payment] = "absent"
  BY DEF SlotsInv
<1>3. \A a \in Requests \ {r} : req[a].payment = p => status[p] # "absent" \/ stage'[r] # "create"
  BY DEF NewPayment
<1>. SUFFICES ASSUME NEW q \in Requests PROVE SlotsInv!(q)'
  BY DEF SlotsInv
<1>4. CASE q = r
  BY <1>4 DEF Creating, NewPayment, storeVars
<1>5. CASE q # r
  <2>1. stage'[q] = stage[q] /\ req'[q] = req[q] /\ UNCHANGED <<status, createdBy>>
    BY <1>5 DEF storeVars
  <2>2. ASSUME Creating(q), NEW x \in Requests \ {q} PROVE req'[x].payment # req[q].payment
    <3>1. CASE x = r
      BY <1>2, <1>5, <2>2, <3>1 DEF NewPayment
    <3>2. CASE x # r
      BY <1>1, <2>2, <3>2
    <3>3. QED BY <3>1, <3>2
  <2>3. QED BY <2>1, <2>2 DEF SlotsInv, Creating, SelfApproval
<1>6. QED BY <1>4, <1>5

LEMMA ArriveEyes ==
  ASSUME EyesInv, NEW r \in Requests, Arrive(r)
  PROVE  RowsInv' /\ SlotsInv'
<1>. TypeInv /\ RowsInv /\ SlotsInv /\ stage \in [Requests -> Stage] /\ req \in [Requests -> Request]
  BY DEF EyesInv, TypeInv, ServiceTypeOK
<1>0. UNCHANGED storeVars
  BY DEF Arrive, CreateReserve, CreateReplay, ApproveRead, ExecuteRead, CancelRead, RetryRead, Begin
<1>1. RowsInv'
  BY <1>0, RowsSame
<1>2. ASSUME NEW p \in Payments, NEW u, NEW k, NEW b, CreateReserve(r, p, u, k, b)
      PROVE  SlotsInv'
  BY <1>0, <1>2, SlotsStart DEF CreateReserve, Goto, Locals
<1>3. ASSUME NEW k, NEW b, CreateReplay(r, k, b) PROVE SlotsInv'
  BY <1>3, SlotsKept DEF CreateReplay, storeVars
<1>4. ASSUME NEW p \in Payments, NEW u, NEW j, NEW s, Begin(r, p, u, j, s), status[p] # "absent",
             s \notin {"create", "insert", "approve_commit"}
      PROVE  SlotsInv'
  BY <1>0, <1>4, SlotsStart DEF Begin, Goto, Locals
<1>5. QED
  BY <1>1, <1>2, <1>3, <1>4
     DEF Arrive, ApproveRead, ExecuteRead, CancelRead, RetryRead, Cancellable

(* Steps of a create between its reservation and its insertion, and the    *)
(* evaluations of the other handlers: no row changes.                      *)
LEMMA LocalEyes ==
  ASSUME EyesInv, NEW r \in Requests,
         \/ \E n \in 0 .. 2 : CreateEvaluate(r, n)
         \/ CreateError(r) \/ CreateRelease(r) \/ Abandon(r)
         \/ ApproveEvaluate(r) \/ ExecuteEvaluate(r)
  PROVE  RowsInv' /\ SlotsInv'
<1>. TypeInv /\ RowsInv /\ SlotsInv /\ stage \in [Requests -> Stage] /\ req \in [Requests -> Request]
  BY DEF EyesInv, TypeInv, ServiceTypeOK
<1>0. UNCHANGED storeVars
  BY DEF CreateEvaluate, CreateError, CreateRelease, Abandon, ApproveEvaluate, ExecuteEvaluate
<1>1. RowsInv'
  BY <1>0, RowsSame
<1>2. UNCHANGED createdBy /\ \A p \in Payments : status'[p] = "absent" <=> status[p] = "absent"
  BY <1>0 DEF storeVars
<1>3. {"release", "approve_block", "execute_block", "execute_commit"}
        \subseteq Stage \ {"create", "insert", "approve", "approve_commit"}
  BY DEF Stage
<1>4. CASE CreateError(r) \/ CreateRelease(r) \/ Abandon(r) \/ ExecuteEvaluate(r)
  BY <1>1, <1>2, <1>3, <1>4, SlotsKept DEF CreateError, CreateRelease, Abandon, ExecuteEvaluate
<1>5. ASSUME NEW n \in 0 .. 2, CreateEvaluate(r, n) PROVE SlotsInv'
  <2>1. PICK verdict : req' = [req EXCEPT ![r] = [@ EXCEPT !.needs = n, !.initial =
                 CASE verdict = "Blocked" -> "Blocked"
                   [] verdict = "Clear" /\ n = 0 -> "Approved"
                   [] OTHER -> "Pending approval"]]
    BY <1>5 DEF CreateEvaluate
  <2>2. /\ req'[r].payment = req[r].payment
        /\ req'[r].initial \in {"Blocked", "Approved", "Pending approval"}
        /\ req'[r].initial = "Approved" => req'[r].needs = 0
        /\ \A q \in Requests \ {r} : req'[q] = req[q]
    BY <2>1 DEF Request
  <2>3. /\ stage[r] = "create" /\ stage'[r] = "insert"
        /\ \A q \in Requests \ {r} : stage'[q] = stage[q]
    BY <1>5 DEF CreateEvaluate, Goto
  <2>4. \A a, b \in Requests : Creating(a) /\ a # b => req[b].payment # req[a].payment
    BY DEF SlotsInv
  <2>5. \A q \in Requests : req'[q].payment = req[q].payment
    BY <2>2
  <2>. \A q \in Requests : Creating(q)' <=> Creating(q)
    <3>. SUFFICES ASSUME NEW q \in Requests PROVE Creating(q)' <=> Creating(q)
      OBVIOUS
    <3>1. CASE q = r
      BY <2>3, <3>1 DEF Creating
    <3>2. CASE q # r
      BY <2>3, <3>2 DEF Creating
    <3>3. QED BY <3>1, <3>2
  <2>. SUFFICES ASSUME NEW q \in Requests PROVE SlotsInv!(q)'
    BY DEF SlotsInv
  <2>6. Creating(q)' => /\ status'[req'[q].payment] = "absent"
                        /\ \A x \in Requests \ {q} : req'[x].payment # req'[q].payment
    BY <1>0, <2>4, <2>5 DEF SlotsInv, storeVars
  <2>7. CASE q = r
    BY <2>2, <2>3, <2>6, <2>7
  <2>8. CASE q # r
    BY <1>0, <2>2, <2>3, <2>6, <2>8 DEF SlotsInv, SelfApproval, storeVars
  <2>9. QED BY <2>7, <2>8
<1>6. ASSUME ApproveEvaluate(r) PROVE SlotsInv'
  <2>1. CASE Return(r) \/ (Goto(r, "approve_block") /\ UNCHANGED req)
    BY <1>2, <1>3, <2>1, SlotsKept
  <2>2. CASE Goto(r, "approve_commit") /\ UNCHANGED req /\ ~SelfApproval(r)
    <3>1. /\ stage[r] = "approve" /\ stage'[r] = "approve_commit" /\ req' = req
          /\ \A q \in Requests \ {r} : stage'[q] = stage[q]
      BY <1>6, <2>2 DEF ApproveEvaluate, Goto
    <3>2. UNCHANGED <<status, createdBy>> /\ status[req[r].payment] # "absent"
      BY <1>0, <3>1 DEF storeVars, SlotsInv
    <3>. SUFFICES ASSUME NEW q \in Requests PROVE SlotsInv!(q)'
      BY DEF SlotsInv
    <3>3. CASE q = r
      BY <2>2, <3>1, <3>2, <3>3 DEF Creating, SelfApproval
    <3>4. CASE q # r
      BY <3>1, <3>2, <3>4 DEF SlotsInv, Creating, SelfApproval
    <3>5. QED BY <3>3, <3>4
  <2>3. QED BY <1>6, <2>1, <2>2 DEF ApproveEvaluate
<1>7. QED BY <1>1, <1>4, <1>5, <1>6

(* The insertion: the new row has no approver but policy:auto, and that    *)
(* one only if no approval is demanded.                                    *)
LEMMA InsertEyes ==
  ASSUME EyesInv, NEW r \in Requests, CreateInsert(r) \/ CreateCommitLost(r)
  PROVE  RowsInv' /\ SlotsInv'
<1>. DEFINE p == req[r].payment
<1>. TypeInv /\ RowsInv /\ SlotsInv /\ stage \in [Requests -> Stage] /\ req \in [Requests -> Request]
  BY DEF EyesInv, TypeInv, ServiceTypeOK
<1>1. /\ stage[r] = "insert" /\ InsertPayment(r) /\ p \in Payments
      /\ status[p] = "absent" /\ req[r].user \in Users \cup {None}
      /\ req[r].initial \in {"Blocked", "Approved", "Pending approval"}
      /\ req[r].initial = "Approved" => req[r].needs = 0
  BY DEF CreateInsert, CreateCommitLost, TypeInv, RequestOK, SlotsInv, Creating, Request
<1>2. /\ status'[p] = req[r].initial /\ required'[p] = req[r].needs
      /\ createdBy'[p] = req[r].user
      /\ approvers'[p] = IF req[r].initial = "Approved" THEN {AutoPolicy} ELSE {}
      /\ \A q \in Payments \ {p} : /\ status'[q] = status[q] /\ required'[q] = required[q]
                                    /\ createdBy'[q] = createdBy[q] /\ approvers'[q] = approvers[q]
  BY <1>1 DEF InsertPayment, TypeInv, ServiceTypeOK, StoreTypeOK
<1>3. RowsInv'
  <2>1. IsFiniteSet(approvers'[p])
    BY <1>2, FS_EmptySet, FS_Singleton
  <2>2. AutoPolicy \notin Users \cup {None} /\ Cardinality({AutoPolicy}) = 1
    BY StoreAssumption, FS_Singleton
  <2>. HIDE DEF p
  <2>3. status'[p] \in Authorised => Cardinality(approvers'[p]) >= required'[p]
    <3>1. CASE req[r].initial = "Approved"
      <4>1. approvers'[p] = {AutoPolicy} /\ required'[p] = 0
        BY <1>1, <1>2, <3>1
      <4>2. QED BY <2>2, <4>1
    <3>2. CASE req[r].initial \in {"Blocked", "Pending approval"}
      BY <1>2, <3>2 DEF Authorised
    <3>3. QED BY <1>1, <3>1, <3>2
  <2>6. createdBy'[p] \notin approvers'[p]
    <3>1. CASE req[r].initial = "Approved"
      BY <1>1, <1>2, <2>2, <3>1
    <3>2. CASE req[r].initial # "Approved"
      BY <1>2, <3>2
    <3>3. QED BY <3>1, <3>2
  <2>4. status'[p] # "absent"
    BY <1>1, <1>2
  <2>5. QED BY <1>2, <2>1, <2>3, <2>4, <2>6 DEF RowsInv, FourEyes
<1>4. SlotsInv'
  <2>1. /\ stage'[r] \in {"idle", "release"}
        /\ \A q \in Requests \ {r} : stage'[q] = stage[q] /\ req'[q] = req[q]
        /\ req'[r].payment \in {None, p}
    BY DEF CreateInsert, CreateCommitLost, Return, Goto, Blank, Locals
  <2>2. \A a, b \in Requests : Creating(a) /\ a # b => req[b].payment # req[a].payment
    BY DEF SlotsInv
  <2>3. \A q \in Requests \ {r} : stage[q] # "idle" => req[q].payment \in Payments \ {p}
    BY <1>1, <2>2 DEF TypeInv, RequestOK, Creating
  <2>. SUFFICES ASSUME NEW q \in Requests PROVE SlotsInv!(q)'
    BY DEF SlotsInv
  <2>4. CASE q = r
    BY <2>1, <2>4 DEF Creating
  <2>5. CASE q # r
    <3>1. stage'[q] = stage[q] /\ req'[q] = req[q]
      BY <2>1, <2>5
    <3>2. ASSUME Creating(q), NEW x \in Requests \ {q} PROVE req'[x].payment # req[q].payment
      <4>1. req[q].payment \in Payments \ {p}
        BY <2>3, <2>5, <3>2 DEF Creating
      <4>. HIDE DEF p
      <4>2. CASE x = r
        BY <2>1, <4>1, <4>2, StoreAssumption
      <4>3. CASE x # r
        BY <2>1, <2>2, <3>2, <4>3
      <4>4. QED BY <4>2, <4>3
    <3>3. CASE stage[q] = "idle"
      BY <3>1, <3>3 DEF Creating
    <3>4. CASE stage[q] # "idle"
      <4>1. /\ req[q].payment \in Payments \ {p}
            /\ status'[req[q].payment] = status[req[q].payment]
            /\ createdBy'[req[q].payment] = createdBy[req[q].payment]
        BY <1>2, <2>3, <2>5, <3>4
      <4>. HIDE DEF p
      <4>2. QED BY <3>1, <3>2, <4>1 DEF SlotsInv, Creating, SelfApproval
    <3>5. QED BY <3>3, <3>4
  <2>6. QED BY <2>4, <2>5
<1>5. QED BY <1>3, <1>4

(* The approval: the approver is new to the row, is not the creator, and   *)
(* the payment becomes approved exactly when the distinct count allows it. *)
LEMMA ApproveCommitEyes ==
  ASSUME EyesInv, NEW r \in Requests, ApproveCommit(r)
  PROVE  RowsInv' /\ SlotsInv'
<1>. DEFINE p == req[r].payment
            a == ApproverId(req[r].user)
            now == approvers[p] \cup {a}
<1>. TypeInv /\ RowsInv /\ SlotsInv /\ stage \in [Requests -> Stage] /\ req \in [Requests -> Request]
  BY DEF EyesInv, TypeInv, ServiceTypeOK
<1>1. /\ stage[r] = "approve_commit" /\ p \in Payments /\ ~SelfApproval(r)
      /\ Return(r) /\ UNCHANGED <<required, createdBy>>
  BY DEF ApproveCommit, TypeInv, RequestOK, SlotsInv
<1>2. CASE UNCHANGED <<approvers, status>>
  <2>1. UNCHANGED paymentRow /\ UNCHANGED status
    BY <1>1, <1>2 DEF paymentRow
  <2>2. QED BY <1>1, <2>1, RowsKept, SlotsKept DEF paymentRow
<1>3. CASE /\ status[p] = "Pending approval" /\ a \notin approvers[p]
           /\ approvers' = [approvers EXCEPT ![p] = now]
           /\ SetStatus(p, IF Cardinality(now) >= required[p] THEN "Approved" ELSE "Pending approval")
  <2>1. /\ approvers'[p] = now
        /\ \A q \in Payments \ {p} : approvers'[q] = approvers[q] /\ status'[q] = status[q]
        /\ status'[p] = IF Cardinality(now) >= required[p] THEN "Approved" ELSE "Pending approval"
    BY <1>1, <1>3 DEF SetStatus, TypeInv, ServiceTypeOK, StoreTypeOK
  <2>2. IsFiniteSet(now)
    BY <1>1, FS_AddElement DEF RowsInv
  <2>3. AuthRequired => createdBy[p] \notin now
    <3>1. AuthRequired => createdBy[p] \notin approvers[p]
      BY <1>1 DEF RowsInv, FourEyes
    <3>2. createdBy[p] \in Users \cup {None} /\ req[r].user \in Users \cup {None}
      BY <1>1 DEF TypeInv, ServiceTypeOK, StoreTypeOK, Request
    <3>3. AuthRequired => createdBy[p] # a
      BY <1>1, <3>2, StoreAssumption DEF SelfApproval, ApproverId
    <3>4. QED BY <3>1, <3>3
  <2>. HIDE DEF now, a
  <2>4. status'[p] \in Authorised => Cardinality(approvers'[p]) >= required'[p]
    BY <1>1, <2>1 DEF Authorised
  <2>5. RowsInv'
    <3>. HIDE DEF p
    <3>1. status'[p] # "absent"
      BY <2>1
    <3>2. QED BY <1>1, <2>1, <2>2, <2>3, <2>4, <3>1 DEF RowsInv, FourEyes
  <2>6. \A q \in Payments : status'[q] = "absent" <=> status[q] = "absent"
    <3>. HIDE DEF p
    <3>1. QED BY <1>3, <2>1
  <2>7. QED BY <1>1, <2>5, <2>6, SlotsKept
<1>4. QED BY <1>2, <1>3 DEF ApproveCommit

(* A guarded transition of one row, made by a request that neither creates *)
(* nor approves: status[p] changes from a status to another or not at all. *)
LEMMA MoveEyes ==
  ASSUME EyesInv, NEW p \in Payments, NEW from \in Status, NEW to \in Status,
         to \in Authorised => from \in Authorised,
         UNCHANGED paymentRow,
         \/ UNCHANGED status
         \/ status[p] = from /\ SetStatus(p, to),
         \/ UNCHANGED <<stage, req>>
         \/ \E r \in Requests : Return(r)
         \/ /\ UNCHANGED req
            /\ \E r \in Requests, s \in Stage \ {"create", "insert", "approve", "approve_commit"} :
                  Goto(r, s)
  PROVE  RowsInv' /\ SlotsInv'
<1>1. \A q \in Payments : \/ status'[q] = status[q]
                          \/ status[q] = from /\ status'[q] = to
  BY DEF SetStatus, EyesInv, TypeInv, ServiceTypeOK, StoreTypeOK
<1>2. from # "absent" /\ to # "absent"
  BY DEF Status
<1>3. UNCHANGED createdBy
  BY DEF paymentRow
<1>4. QED BY <1>1, <1>2, <1>3, RowsKept, SlotsKept DEF EyesInv

LEMMA TransitionEyes ==
  ASSUME EyesInv, NEW r \in Requests,
         \/ ApproveBlock(r) \/ ExecuteBlock(r) \/ ExecuteCommit(r) \/ CancelCommit(r)
         \/ RetryReopen(r) \/ RetryEnqueue(r)
  PROVE  RowsInv' /\ SlotsInv'
<1>. DEFINE p == req[r].payment
<1>. stage[r] # "idle" => p \in Payments
  BY DEF EyesInv, TypeInv, RequestOK
<1>1. CASE ApproveBlock(r)
  BY <1>1, MoveEyes DEF ApproveBlock, BlockFrom, Status, Authorised
<1>2. CASE ExecuteBlock(r)
  BY <1>2, MoveEyes DEF ExecuteBlock, BlockFrom, Status, Authorised
<1>3. CASE ExecuteCommit(r)
  BY <1>3, MoveEyes DEF ExecuteCommit, Status, Authorised
<1>4. CASE CancelCommit(r)
  BY <1>4, MoveEyes DEF CancelCommit, Cancellable, Status, Authorised
<1>5. CASE RetryReopen(r)
  BY <1>5, MoveEyes DEF RetryReopen, Stage, Status, Authorised
<1>6. CASE RetryEnqueue(r)
  BY <1>6, MoveEyes DEF RetryEnqueue, Status, Authorised
<1>7. QED BY <1>1, <1>2, <1>3, <1>4, <1>5, <1>6

LEMMA CleanupEyes ==
  ASSUME EyesInv,
         (\E S \in SUBSET Payments : ExpireStale(S)) \/ (\E k \in Keys : SweepKey(k))
  PROVE  RowsInv' /\ SlotsInv'
<1>1. ASSUME NEW S \in SUBSET Payments, ExpireStale(S) PROVE RowsInv' /\ SlotsInv'
  <2>1. \A q \in Payments : \/ status'[q] = status[q]
                            \/ status[q] = "Pending approval" /\ status'[q] = "Cancelled"
    BY <1>1 DEF ExpireStale
  <2>2. UNCHANGED <<paymentRow, createdBy, stage, req>>
    BY <1>1 DEF ExpireStale, paymentRow, serviceVars
  <2>3. QED BY <2>1, <2>2, RowsKept, SlotsKept DEF EyesInv, Authorised
<1>2. ASSUME NEW k \in Keys, SweepKey(k) PROVE RowsInv' /\ SlotsInv'
  BY <1>2, RowsSame, SlotsKept DEF SweepKey, EyesInv, storeVars
<1>3. QED BY <1>1, <1>2

LEMMA EnvironmentEyes ==
  ASSUME EyesInv, NEW p \in Payments, NEW to \in {"Settled", "Failed"}, ExecutionEnds(p, to)
  PROVE  RowsInv' /\ SlotsInv'
<1>1. \A q \in Payments : \/ status'[q] = status[q]
                          \/ status[q] = "Executing" /\ status'[q] \in {"Settled", "Failed"}
  BY DEF ExecutionEnds, SetStatus, EyesInv, TypeInv, ServiceTypeOK, StoreTypeOK
<1>2. UNCHANGED <<paymentRow, createdBy, stage, req>>
  BY DEF ExecutionEnds, paymentRow, serviceVars
<1>3. QED BY <1>1, <1>2, RowsKept, SlotsKept DEF EyesInv, Authorised

LEMMA EyesStep == EyesInv /\ [OpenNext]_<<storeVars, serviceVars>> => EyesInv'
<1>. SUFFICES ASSUME EyesInv, [OpenNext]_<<storeVars, serviceVars>>
              PROVE  RowsInv' /\ SlotsInv'
  BY TypeStep DEF EyesInv
<1>1. ASSUME NEW r \in Requests, Continue(r) PROVE RowsInv' /\ SlotsInv'
  BY <1>1, LocalEyes, InsertEyes, ApproveCommitEyes, TransitionEyes DEF Continue
<1>2. CASE UNCHANGED <<storeVars, serviceVars>>
  BY <1>2, RowsSame, SlotsKept DEF EyesInv, storeVars, serviceVars
<1>3. QED
  BY <1>1, <1>2, ArriveEyes, LocalEyes, InsertEyes, CleanupEyes, EnvironmentEyes
     DEF OpenNext, ServiceNext

-----------------------------------------------------------------------------
(* Every variable of payment-service and of the tables it writes keeps its *)
(* type, and a request past its reading step is about an existing id       *)
(* (handlers of payments.mjs).                                             *)
THEOREM ServiceType == ServiceSpec => []ServiceTypeOK
<1>1. TypeInv => ServiceTypeOK
  BY DEF TypeInv
<1>2. QED BY <1>1, TypeInit, TypeStep, PTL DEF ServiceSpec, ServiceStart

(* Four eyes holds for any number of payments, approvers, interleaved      *)
(* requests and failures: no payment is authorised with fewer distinct     *)
(* approvers than it requires or by its creator (approvePayment).          *)
THEOREM ServiceFourEyes == ServiceSpec => []FourEyes
<1>1. EyesInv => FourEyes
  BY DEF EyesInv, RowsInv
<1>2. QED BY <1>1, EyesInit, EyesStep, PTL DEF ServiceSpec, ServiceStart

-----------------------------------------------------------------------------
(* Every change of status payment-service makes, and the audit event that  *)
(* is in the outbox after it.  Reopening a failed payment writes none.     *)
Written(p, action) == <<p, action>> \in outbox'

Decision(p) ==
  \/ status[p] = "absent" /\ status'[p] = "Pending approval" /\ Written(p, "Payment created")
  \/ status[p] = "absent" /\ status'[p] = "Approved" /\ Written(p, "Payment auto-approved")
  \/ status[p] = "absent" /\ status'[p] = "Blocked" /\ Written(p, "Payment blocked")
  \/ status[p] = "Pending approval" /\ status'[p] = "Approved" /\ Written(p, "Payment approved")
  \/ status[p] = "Pending approval" /\ status'[p] = "Blocked" /\ Written(p, "Payment blocked")
  \/ status[p] = "Approved" /\ status'[p] = "Blocked" /\ Written(p, "Execution blocked")
  \/ /\ status[p] \in {"Pending approval", "Approved"} /\ status'[p] = "Cancelled"
     /\ Written(p, "Payment cancelled") \/ Written(p, "Payment expired")
  \/ status[p] = "Approved" /\ status'[p] = "Executing" /\ Written(p, "Execution enqueued")
  \/ status[p] = "Failed" /\ status'[p] = "Executing"

(* A transaction about q changes the status of q at most.                  *)
LEMMA DecideOne ==
  ASSUME StoreTypeOK, NEW q \in Payments, NEW to,
         status[q] # to, status' = [status EXCEPT ![q] = to],
         outbox \subseteq outbox', Decision(q)
  PROVE  outbox \subseteq outbox' /\ \A p \in Payments : status'[p] = status[p] \/ Decision(p)
  BY DEF StoreTypeOK

LEMMA EmitGrows ==
  ASSUME NEW S, NEW a, Emit(S, a)
  PROVE  outbox \subseteq outbox' /\ \A s \in S : Written(s, a)
  BY DEF Emit, Written

LEMMA EmitOne ==
  ASSUME NEW p, NEW a, NEW q, NEW b, Emit({q}, b), <<p, a>> \in outbox' \ outbox
  PROVE  p = q /\ a = b
  BY DEF Emit

LEMMA CommitMoves ==
  ASSUME EyesInv, NEW r \in Requests,
         \/ ApproveBlock(r) \/ ApproveCommit(r) \/ ExecuteBlock(r) \/ ExecuteCommit(r)
         \/ CancelCommit(r) \/ RetryReopen(r)   \/ RetryEnqueue(r)
  PROVE  outbox \subseteq outbox' /\ \A p \in Payments : status'[p] = status[p] \/ Decision(p)
<1>1. PICK q \in Payments : q = req[r].payment
  BY DEF EyesInv, TypeInv, RequestOK, ApproveBlock, ApproveCommit, ExecuteBlock, ExecuteCommit,
         CancelCommit, RetryReopen, RetryEnqueue
<1>2. StoreTypeOK
  BY DEF EyesInv, TypeInv, ServiceTypeOK
<1>3. status'[q] # status[q] => \A to : status' = [status EXCEPT ![q] = to] => status'[q] = to
  BY <1>2 DEF StoreTypeOK
<1>4. CASE UNCHANGED status /\ (UNCHANGED outbox \/ \E a : Emit({q}, a))
  BY <1>4, EmitGrows
<1>5. CASE ApproveBlock(r) \/ ExecuteBlock(r)
  <2>1. PICK from, a : /\ BlockFrom(r, from, a)
                       /\ \/ from = "Pending approval" /\ a = "Payment blocked"
                          \/ from = "Approved" /\ a = "Execution blocked"
    BY <1>5 DEF ApproveBlock, ExecuteBlock
  <2>2. Emit({q}, a) /\ (UNCHANGED status \/ (status[q] = from /\ status' = [status EXCEPT ![q] = "Blocked"]))
    BY <1>1, <2>1 DEF BlockFrom, SetStatus
  <2>3. CASE status[q] = from /\ status' = [status EXCEPT ![q] = "Blocked"]
    <3>0. status'[q] = "Blocked" /\ Written(q, a)
      BY <1>2, <2>2, <2>3, EmitGrows DEF StoreTypeOK
    <3>1. Decision(q)
      BY <2>1, <2>3, <3>0 DEF Decision
    <3>2. QED BY <1>2, <2>1, <2>2, <2>3, <3>1, EmitGrows, DecideOne
  <2>4. QED BY <1>4, <2>2, <2>3
<1>6. CASE ApproveCommit(r)
  <2>1. \/ UNCHANGED <<status, outbox>>
        \/ /\ status[q] = "Pending approval"
           /\ \/ Emit({q}, "Payment approved") /\ status' = [status EXCEPT ![q] = "Approved"]
              \/ Emit({q}, "Approval counted") /\ status' = [status EXCEPT ![q] = "Pending approval"]
    BY <1>1, <1>6 DEF ApproveCommit, SetStatus
  <2>2. CASE /\ Emit({q}, "Payment approved") /\ status[q] = "Pending approval"
             /\ status' = [status EXCEPT ![q] = "Approved"]
    <3>1. Decision(q)
      BY <1>2, <2>2, EmitGrows DEF Decision, StoreTypeOK
    <3>2. QED BY <1>2, <2>2, <3>1, EmitGrows, DecideOne
  <2>3. CASE /\ Emit({q}, "Approval counted") /\ status[q] = "Pending approval"
             /\ status' = [status EXCEPT ![q] = "Pending approval"]
    <3>1. status' = status
      BY <1>2, <2>3 DEF StoreTypeOK
    <3>2. QED BY <1>4, <2>3, <3>1
  <2>4. QED BY <1>4, <2>1, <2>2, <2>3
<1>7. CASE ExecuteCommit(r) \/ CancelCommit(r)
  <2>1. \/ UNCHANGED <<status, outbox>>
        \/ /\ status[q] = "Approved" /\ status' = [status EXCEPT ![q] = "Executing"]
           /\ Emit({q}, "Execution enqueued")
        \/ /\ status[q] \in Cancellable /\ status' = [status EXCEPT ![q] = "Cancelled"]
           /\ Emit({q}, "Payment cancelled")
    BY <1>1, <1>7 DEF ExecuteCommit, CancelCommit, SetStatus
  <2>2. CASE /\ status[q] = "Approved" /\ status' = [status EXCEPT ![q] = "Executing"]
             /\ Emit({q}, "Execution enqueued")
    <3>1. Decision(q)
      BY <1>2, <2>2, EmitGrows DEF Decision, StoreTypeOK
    <3>2. QED BY <1>2, <2>2, <3>1, EmitGrows, DecideOne
  <2>3. CASE /\ status[q] \in Cancellable /\ status' = [status EXCEPT ![q] = "Cancelled"]
             /\ Emit({q}, "Payment cancelled")
    <3>1. Decision(q) /\ status[q] # "Cancelled"
      BY <1>2, <2>3, EmitGrows DEF Decision, StoreTypeOK, Cancellable
    <3>2. QED BY <1>2, <2>3, <3>1, EmitGrows, DecideOne
  <2>4. QED BY <1>4, <2>1, <2>2, <2>3
<1>8. CASE RetryReopen(r) \/ RetryEnqueue(r)
  <2>1. UNCHANGED outbox /\ (UNCHANGED status \/ (status[q] = "Failed" /\ status' = [status EXCEPT ![q] = "Executing"]))
    BY <1>1, <1>8 DEF RetryReopen, RetryEnqueue, SetStatus
  <2>2. CASE status[q] = "Failed" /\ status' = [status EXCEPT ![q] = "Executing"]
    <3>1. Decision(q)
      BY <1>2, <2>2 DEF Decision, StoreTypeOK
    <3>2. QED BY <1>2, <2>1, <2>2, <3>1, DecideOne
  <2>3. QED BY <1>4, <2>1, <2>2
<1>9. QED BY <1>5, <1>6, <1>7, <1>8

LEMMA InsertMoves ==
  ASSUME EyesInv, NEW r \in Requests, CreateInsert(r) \/ CreateCommitLost(r)
  PROVE  outbox \subseteq outbox' /\ \A p \in Payments : status'[p] = status[p] \/ Decision(p)
<1>1. PICK q \in Payments, to \in {"Blocked", "Approved", "Pending approval"} :
        q = req[r].payment /\ to = req[r].initial
  BY DEF CreateInsert, CreateCommitLost, EyesInv, TypeInv, RequestOK, SlotsInv
<1>2. StoreTypeOK /\ status[q] = "absent" /\ InsertPayment(r)
  BY <1>1 DEF CreateInsert, CreateCommitLost, EyesInv, TypeInv, ServiceTypeOK, SlotsInv, Creating
<1>3. /\ status' = [status EXCEPT ![q] = to]
      /\ Emit({q}, CASE to = "Blocked" -> "Payment blocked"
                     [] to = "Approved" -> "Payment auto-approved"
                     [] OTHER -> "Payment created")
  BY <1>1, <1>2 DEF InsertPayment
<1>4. status'[q] = to
  BY <1>2, <1>3 DEF StoreTypeOK
<1>5. Decision(q)
  <2>1. CASE to = "Blocked"
    BY <1>2, <1>3, <1>4, <2>1, EmitGrows DEF Decision
  <2>2. CASE to = "Approved"
    BY <1>2, <1>3, <1>4, <2>2, EmitGrows DEF Decision
  <2>3. CASE to = "Pending approval"
    BY <1>2, <1>3, <1>4, <2>3, EmitGrows DEF Decision
  <2>4. QED BY <1>1, <2>1, <2>2, <2>3
<1>6. outbox \subseteq outbox'
  BY <1>3 DEF Emit
<1>7. QED BY <1>2, <1>3, <1>5, <1>6, DecideOne

LEMMA ServiceMoves ==
  ASSUME EyesInv, ServiceNext
  PROVE  outbox \subseteq outbox' /\ \A p \in Payments : status'[p] = status[p] \/ Decision(p)
<1>1. CASE UNCHANGED storeVars
  BY <1>1 DEF storeVars
<1>2. ASSUME NEW S \in SUBSET Payments, ExpireStale(S)
      PROVE  outbox \subseteq outbox' /\ \A p \in Payments : status'[p] = status[p] \/ Decision(p)
  BY <1>2, EmitGrows DEF ExpireStale, Decision
<1>3. ASSUME NEW r \in Requests, Continue(r)
      PROVE  outbox \subseteq outbox' /\ \A p \in Payments : status'[p] = status[p] \/ Decision(p)
  <2>1. CASE (\E n \in 0 .. 2 : CreateEvaluate(r, n)) \/ CreateRelease(r) \/ ApproveEvaluate(r) \/ ExecuteEvaluate(r)
    BY <1>1, <2>1 DEF CreateEvaluate, CreateRelease, ApproveEvaluate, ExecuteEvaluate
  <2>2. QED BY <1>3, <2>1, CommitMoves, InsertMoves DEF Continue
<1>4. ASSUME NEW r \in Requests, Arrive(r) \/ CreateError(r) \/ Abandon(r) PROVE UNCHANGED storeVars
  BY <1>4 DEF Arrive, CreateReserve, CreateReplay, ApproveRead, ExecuteRead, CancelRead, RetryRead,
              Begin, CreateError, Abandon
<1>5. ASSUME NEW k \in Keys, SweepKey(k) PROVE UNCHANGED storeVars
  BY <1>5 DEF SweepKey
<1>6. QED BY <1>1, <1>2, <1>3, <1>4, <1>5, InsertMoves DEF ServiceNext

(* That the event is a new one takes two more facts.  A handler about to   *)
(* block a payment writes its event even when the payment has moved on, so *)
(* the payment must be known to be past the status the event belongs to;   *)
(* and what belongs to a later status has not been written yet.            *)
PassedAt(r, s) ==
  /\ stage[r] = "approve_block" => s # "absent"
  /\ stage[r] \in {"execute", "execute_block"} => s \notin {"absent", "Pending approval"}

PassedInv == \A r \in Requests : PassedAt(r, status[req[r].payment])

Unwritten(s) ==
  (IF s = "absent" THEN {"Payment created", "Payment auto-approved"} ELSE {})
    \cup (IF s \in {"absent", "Pending approval"}
            THEN {"Payment blocked", "Payment approved"} ELSE {})
    \cup (IF s \in {"absent", "Pending approval", "Approved"}
            THEN {"Execution blocked", "Execution enqueued", "Payment cancelled", "Payment expired"}
            ELSE {})

FreshInv == \A p \in Payments : \A a \in Unwritten(status[p]) : <<p, a>> \notin outbox

AuditInv == PassedInv /\ FreshInv

LEMMA AuditInit == StoreInit /\ ServiceInit => AuditInv
  BY DEF StoreInit, ServiceInit, AuditInv, PassedInv, PassedAt, FreshInv

(* No status is followed by an earlier one.                                *)
Forward(p) ==
  \/ status'[p] = status[p]
  \/ Decision(p)
  \/ status[p] = "Executing" /\ status'[p] \in {"Settled", "Failed"}

LEMMA ForwardWrites ==
  ASSUME NEW p, Forward(p)
  PROVE  /\ Unwritten(status'[p]) \subseteq Unwritten(status[p])
         /\ status[p] # "absent" => status'[p] # "absent"
         /\ status[p] \notin {"absent", "Pending approval"} => status'[p] \notin {"absent", "Pending approval"}
  BY DEF Forward, Decision, Unwritten

LEMMA FreshKept ==
  ASSUME FreshInv, \A p \in Payments : Forward(p),
         \A p \in Payments : \A a : <<p, a>> \in outbox' \ outbox => a \notin Unwritten(status'[p])
  PROVE  FreshInv'
<1>. SUFFICES ASSUME NEW p \in Payments, NEW a \in Unwritten(status'[p]) PROVE <<p, a>> \notin outbox'
  BY DEF FreshInv
<1>1. a \in Unwritten(status[p])
  BY ForwardWrites
<1>2. <<p, a>> \notin outbox
  BY <1>1 DEF FreshInv
<1>3. QED BY <1>2

(* How a handler comes to a stage from which it may block a payment.       *)
Comes(q) ==
  \/ stage'[q] \notin {"approve_block", "execute", "execute_block"}
  \/ stage[q] = stage'[q] /\ req'[q] = req[q]
  \/ stage[q] = "approve" /\ stage'[q] = "approve_block" /\ req'[q] = req[q]
  \/ stage[q] = "execute" /\ stage'[q] = "execute_block" /\ req'[q] = req[q]
  \/ /\ stage'[q] = "execute" /\ req'[q].payment \in Payments
     /\ status[req'[q].payment] = "Approved"

LEMMA BlockersMove ==
  ASSUME TypeInv, ServiceNext, NEW q \in Requests
  PROVE  Comes(q)
<1>. stage \in [Requests -> Stage] /\ req \in [Requests -> Request]
  BY DEF TypeInv, ServiceTypeOK
<1>. USE DEF Return, Goto, Comes
<1>1. ASSUME NEW r \in Requests, Arrive(r) PROVE Comes(q)
  <2>1. CASE r # q
    BY <1>1, <2>1 DEF Arrive, CreateReserve, CreateReplay, ApproveRead, ExecuteRead, CancelRead, RetryRead, Begin
  <2>2. CASE \E p \in Payments, j \in Jobs : ExecuteRead(r, p, j)
    BY <2>2 DEF ExecuteRead, Begin, Locals
  <2>3. CASE \E p \in Payments, u \in Actors : ApproveRead(r, p, u)
    BY <2>3 DEF ApproveRead, Begin
  <2>4. CASE (\E p \in Payments : CancelRead(r, p)) \/ (\E p \in Payments, j \in Jobs : RetryRead(r, p, j))
    BY <2>4 DEF CancelRead, RetryRead, Begin
  <2>5. CASE \/ \E p \in Payments, u \in Actors, k \in Keys \cup {None}, b \in Bodies : CreateReserve(r, p, u, k, b)
             \/ \E k \in Keys, b \in Bodies : CreateReplay(r, k, b)
    BY <2>5 DEF CreateReserve, CreateReplay
  <2>6. QED BY <1>1, <2>2, <2>3, <2>4, <2>5 DEF Arrive
<1>2. ASSUME NEW r \in Requests, Continue(r) PROVE Comes(q)
  <2>1. CASE (\E n \in 0 .. 2 : CreateEvaluate(r, n)) \/ CreateInsert(r) \/ CreateRelease(r)
    BY <2>1 DEF CreateEvaluate, CreateInsert, CreateRelease
  <2>2. CASE ApproveEvaluate(r) \/ ExecuteEvaluate(r)
    BY <2>2 DEF ApproveEvaluate, ExecuteEvaluate
  <2>3. CASE \/ ApproveBlock(r) \/ ApproveCommit(r) \/ ExecuteBlock(r) \/ ExecuteCommit(r)
             \/ CancelCommit(r) \/ RetryReopen(r) \/ RetryEnqueue(r)
    BY <2>3 DEF ApproveBlock, BlockFrom, ApproveCommit, ExecuteBlock, ExecuteCommit, CancelCommit,
                RetryReopen, RetryEnqueue
  <2>4. QED BY <1>2, <2>1, <2>2, <2>3 DEF Continue
<1>3. ASSUME NEW r \in Requests, CreateError(r) \/ CreateCommitLost(r) \/ Abandon(r) PROVE Comes(q)
  BY <1>3 DEF CreateError, CreateCommitLost, Abandon
<1>4. ASSUME \/ \E S \in SUBSET Payments : ExpireStale(S)
             \/ \E k \in Keys : SweepKey(k)
      PROVE  Comes(q)
  BY <1>4 DEF ExpireStale, SweepKey, serviceVars
<1>5. QED BY <1>1, <1>2, <1>3, <1>4 DEF ServiceNext

LEMMA PassedKept ==
  ASSUME EyesInv, PassedInv, \A q \in Requests : Comes(q), \A p \in Payments : Forward(p)
  PROVE  PassedInv'
<1>. SUFFICES ASSUME NEW q \in Requests PROVE PassedAt(q, status[req[q].payment])'
  BY DEF PassedInv
<1>1. stage[q] # "idle" => req[q].payment \in Payments
  BY DEF EyesInv, TypeInv, RequestOK
<1>2. PassedAt(q, status[req[q].payment]) /\ (stage[q] = "approve" => status[req[q].payment] # "absent")
  BY DEF PassedInv, EyesInv, SlotsInv
<1>3. CASE stage'[q] = "execute" /\ req'[q].payment \in Payments /\ status[req'[q].payment] = "Approved"
  BY <1>3, ForwardWrites DEF PassedAt
<1>4. CASE stage'[q] \in {"approve_block", "execute", "execute_block"} /\ req'[q] = req[q] /\ stage[q] # "idle"
           /\ (stage[q] = stage'[q] \/ (stage[q] = "approve" /\ stage'[q] = "approve_block")
                 \/ (stage[q] = "execute" /\ stage'[q] = "execute_block"))
  BY <1>1, <1>2, <1>4, ForwardWrites DEF PassedAt
<1>5. CASE stage'[q] \notin {"approve_block", "execute", "execute_block"}
  BY <1>5 DEF PassedAt
<1>6. QED BY <1>3, <1>4, <1>5 DEF Comes

(* Every event a step adds belongs to the status the step leaves, or to an *)
(* earlier one.                                                            *)
LEMMA ServiceWrites ==
  ASSUME EyesInv, PassedInv, ServiceNext,
         NEW p \in Payments, NEW a, <<p, a>> \in outbox' \ outbox
  PROVE  a \notin Unwritten(status'[p])
<1>0. StoreTypeOK
  BY DEF EyesInv, TypeInv, ServiceTypeOK
<1>1. ASSUME NEW S \in SUBSET Payments, ExpireStale(S) PROVE a \notin Unwritten(status'[p])
  BY <1>1 DEF ExpireStale, Emit, Unwritten
<1>2. ASSUME NEW r \in Requests, CreateInsert(r) \/ CreateCommitLost(r)
      PROVE  a \notin Unwritten(status'[p])
  <2>1. PICK q \in Payments, to \in {"Blocked", "Approved", "Pending approval"} :
          /\ status' = [status EXCEPT ![q] = to]
          /\ Emit({q}, CASE to = "Blocked" -> "Payment blocked"
                         [] to = "Approved" -> "Payment auto-approved"
                         [] OTHER -> "Payment created")
    BY <1>2 DEF CreateInsert, CreateCommitLost, InsertPayment, EyesInv, TypeInv, RequestOK, SlotsInv
  <2>2. p = q /\ status'[p] = to
    BY <1>0, <2>1 DEF Emit, StoreTypeOK
  <2>3. QED BY <2>1, <2>2 DEF Emit, Unwritten
<1>3. ASSUME NEW r \in Requests, ApproveBlock(r) \/ ExecuteBlock(r)
      PROVE  a \notin Unwritten(status'[p])
  <2>1. p = req[r].payment
    <3>1. \E b \in {"Payment blocked", "Execution blocked"} : Emit({req[r].payment}, b)
      BY <1>3 DEF ApproveBlock, ExecuteBlock, BlockFrom
    <3>2. QED BY <3>1, EmitOne
  <2>2. PassedAt(r, status[p])
    BY <2>1 DEF PassedInv
  <2>3. CASE ApproveBlock(r)
    <3>1. a = "Payment blocked" /\ status[p] # "absent"
      BY <2>2, <2>3 DEF ApproveBlock, BlockFrom, Emit, PassedAt
    <3>2. status'[p] \notin {"absent", "Pending approval"}
      BY <1>0, <2>1, <2>3, <3>1 DEF ApproveBlock, BlockFrom, SetStatus, StoreTypeOK
    <3>3. QED BY <3>1, <3>2 DEF Unwritten
  <2>4. CASE ExecuteBlock(r)
    <3>1. a = "Execution blocked" /\ status[p] \notin {"absent", "Pending approval"}
      BY <2>2, <2>4 DEF ExecuteBlock, BlockFrom, Emit, PassedAt
    <3>2. status'[p] \notin {"absent", "Pending approval", "Approved"}
      BY <1>0, <2>1, <2>4, <3>1 DEF ExecuteBlock, BlockFrom, SetStatus, StoreTypeOK
    <3>3. QED BY <3>1, <3>2 DEF Unwritten
  <2>5. QED BY <1>3, <2>3, <2>4
<1>4. ASSUME NEW r \in Requests, ApproveCommit(r) \/ ExecuteCommit(r) \/ CancelCommit(r)
      PROVE  a \notin Unwritten(status'[p])
  <2>. DEFINE q == req[r].payment
  <2>1. \/ UNCHANGED outbox
        \/ Emit({q}, "Approval counted")
        \/ Emit({q}, "Payment approved") /\ status' = [status EXCEPT ![q] = "Approved"]
        \/ Emit({q}, "Execution enqueued") /\ status' = [status EXCEPT ![q] = "Executing"]
        \/ Emit({q}, "Payment cancelled") /\ status' = [status EXCEPT ![q] = "Cancelled"]
    BY <1>4 DEF ApproveCommit, ExecuteCommit, CancelCommit, SetStatus
  <2>. HIDE DEF q
  <2>2. \/ a = "Approval counted"
        \/ a = "Payment approved" /\ status' = [status EXCEPT ![p] = "Approved"]
        \/ a = "Execution enqueued" /\ status' = [status EXCEPT ![p] = "Executing"]
        \/ a = "Payment cancelled" /\ status' = [status EXCEPT ![p] = "Cancelled"]
    BY <2>1, EmitOne
  <2>3. QED BY <1>0, <2>2 DEF Unwritten, StoreTypeOK
<1>5. ASSUME NEW r \in Requests,
             \/ Arrive(r) \/ CreateError(r) \/ Abandon(r)
             \/ (\E n \in 0 .. 2 : CreateEvaluate(r, n)) \/ CreateRelease(r)
             \/ ApproveEvaluate(r) \/ ExecuteEvaluate(r) \/ RetryReopen(r) \/ RetryEnqueue(r)
      PROVE  UNCHANGED outbox
  BY <1>5 DEF Arrive, CreateReserve, CreateReplay, ApproveRead, ExecuteRead, CancelRead, RetryRead,
              Begin, CreateError, Abandon, CreateEvaluate, CreateRelease, ApproveEvaluate,
              ExecuteEvaluate, RetryReopen, RetryEnqueue, storeVars
<1>6. ASSUME NEW k \in Keys, SweepKey(k) PROVE UNCHANGED outbox
  BY <1>6 DEF SweepKey, storeVars
<1>7. QED BY <1>1, <1>2, <1>3, <1>4, <1>5, <1>6 DEF ServiceNext, Continue

LEMMA ServiceKeepsAudit ==
  ASSUME EyesInv, AuditInv, ServiceNext
  PROVE  AuditInv'
<1>1. \A p \in Payments : Forward(p)
  BY ServiceMoves DEF Forward
<1>2. PassedInv'
  BY <1>1, BlockersMove, PassedKept DEF AuditInv, EyesInv
<1>3. FreshInv'
  BY <1>1, ServiceWrites, FreshKept DEF AuditInv
<1>4. QED BY <1>2, <1>3 DEF AuditInv

(* A step that ends executions, or none, and leaves the requests alone     *)
LEMMA AuditSame ==
  ASSUME EyesInv, AuditInv, UNCHANGED <<stage, req>>,
         \A p \in Payments : \/ status'[p] = status[p]
                             \/ status[p] = "Executing" /\ status'[p] \in {"Settled", "Failed"},
         \A p \in Payments : \A a : <<p, a>> \in outbox' \ outbox => a \in {"Payment settled", "Job dead-lettered"}
  PROVE  AuditInv'
<1>1. \A p \in Payments : Forward(p)
  BY DEF Forward
<1>2. PassedInv'
  BY <1>1, PassedKept DEF AuditInv, Comes
<1>3. \A s : Unwritten(s) \cap {"Payment settled", "Job dead-lettered"} = {}
  BY DEF Unwritten
<1>4. FreshInv'
  BY <1>1, <1>3, FreshKept DEF AuditInv
<1>5. QED BY <1>2, <1>4 DEF AuditInv

LEMMA EndSame ==
  ASSUME StoreTypeOK, NEW p \in Payments, NEW to \in {"Settled", "Failed"}, ExecutionEnds(p, to)
  PROVE  \A q \in Payments : \/ status'[q] = status[q]
                             \/ status[q] = "Executing" /\ status'[q] \in {"Settled", "Failed"}
  BY DEF ExecutionEnds, SetStatus, StoreTypeOK

(* The step that decides writes an event of its own.                       *)
LEMMA DecisionRecorded ==
  ASSUME FreshInv, NEW p \in Payments, Decision(p), status[p] # "Failed"
  PROVE  RecordedNow(p)
<1>1. PICK a \in AuditOf(status'[p]) : Written(p, a) /\ a \in Unwritten(status[p])
  BY DEF Decision, AuditOf, Unwritten
<1>2. QED BY <1>1 DEF RecordedNow, Written, FreshInv

LEMMA ServiceRecords ==
  ASSUME EyesInv, AuditInv, ServiceNext, NEW p \in Payments, Decided(p), status[p] # "Failed"
  PROVE  RecordedNow(p)
  BY ServiceMoves, DecisionRecorded DEF AuditInv, Decided

(* Every change of status but a retry's adds an audit event of its own in  *)
(* the step that makes it, with any number of requests in flight           *)
(* (withTransaction and appendOutboxEvents in the handlers).               *)
THEOREM ServiceDecisionsAudited == ServiceSpec => DecisionsAudited
<1>1. EyesInv /\ AuditInv /\ [OpenNext]_<<storeVars, serviceVars>> => AuditInv'
  <2>1. ASSUME EyesInv, AuditInv, NEW p \in Payments, NEW to \in {"Settled", "Failed"}, ExecutionEnds(p, to)
        PROVE  AuditInv'
    <3>1. UNCHANGED <<stage, req, outbox>>
      BY <2>1 DEF ExecutionEnds, serviceVars
    <3>2. QED BY <2>1, <3>1, EndSame, AuditSame DEF EyesInv, TypeInv, ServiceTypeOK
  <2>2. EyesInv /\ AuditInv /\ UNCHANGED <<storeVars, serviceVars>> => AuditInv'
    BY AuditSame DEF storeVars, serviceVars
  <2>3. QED BY <2>1, <2>2, ServiceKeepsAudit DEF OpenNext
<1>2. EyesInv /\ AuditInv /\ OpenNext
        => \A p \in Payments : Decided(p) /\ status[p] # "Failed" => RecordedNow(p)
  <2>1. ASSUME EyesInv, NEW q \in Payments, NEW to \in {"Settled", "Failed"}, ExecutionEnds(q, to)
        PROVE  \A p \in Payments : ~Decided(p)
    BY <2>1, EndSame DEF Decided, EyesInv, TypeInv, ServiceTypeOK
  <2>2. QED BY <2>1, ServiceRecords DEF OpenNext
<1>3. QED BY <1>1, <1>2, AuditInit, EyesInit, EyesStep, PTL DEF ServiceSpec, ServiceStart, DecisionsAudited

-----------------------------------------------------------------------------
(* Idempotency keys.  A create holds its key, pending, from the reservation*)
(* to the insertion or the release; a payment and an answer are those of a *)
(* done key.  It rests on a COMMIT of a keyed create not being reported as *)
(* an error: the release would delete the key of a payment that exists.    *)
Holding(r) == stage[r] \in {"create", "insert", "release"} /\ req[r].key # None

HoldersInv ==
  \A r \in Requests : Holding(r) =>
    /\ keyStatus[req[r].key] = "pending"
    /\ Creating(r) => keyBody[req[r].key] = req[r].body
    /\ \A q \in Requests \ {r} : Holding(q) => req[q].key # req[r].key

MadeInv ==
  \A p \in Payments : madeUnder[p] # None =>
    keyStatus[madeUnder[p]] = "done" /\ keyPayment[madeUnder[p]] = p

AnswersInv ==
  \A k \in Keys, b \in Bodies, p \in Payments : <<k, b, p>> \in answers =>
    keyStatus[k] = "done" /\ keyBody[k] = b /\ keyPayment[k] = p

KeysInv == TypeInv /\ HoldersInv /\ MadeInv /\ AnswersInv

LEMMA KeysInit == StoreInit /\ ServiceInit => KeysInv
<1>1. ServiceInit => HoldersInv /\ MadeInv /\ AnswersInv
  BY DEF ServiceInit, HoldersInv, Holding, MadeInv, AnswersInv
<1>2. QED BY <1>1, TypeInit DEF KeysInv

(* Steps that leave the keys alone, and after which a request holds a key  *)
(* only if it did before.                                                  *)
LEMMA KeysSame ==
  ASSUME KeysInv, UNCHANGED <<keyRows, history>>,
         \A r \in Requests :
           /\ Holding(r)' => Holding(r) /\ req'[r].key = req[r].key
           /\ Holding(r)' /\ Creating(r)' => Creating(r) /\ req'[r].body = req[r].body
  PROVE  HoldersInv' /\ MadeInv' /\ AnswersInv'
<1>1. HoldersInv'
  BY DEF KeysInv, HoldersInv, keyRows
<1>2. MadeInv' /\ AnswersInv'
  BY DEF KeysInv, MadeInv, AnswersInv, keyRows, history
<1>3. QED BY <1>1, <1>2

(* A request that ends, or goes on without its key.                        *)
LEMMA KeysLeft ==
  ASSUME KeysInv, UNCHANGED <<keyRows, history>>, NEW r \in Requests,
         \/ Return(r)
         \/ /\ UNCHANGED req
            /\ \E s \in Stage \ {"create", "insert"} :
                  Goto(r, s) /\ (s = "release" => Creating(r))
  PROVE  HoldersInv' /\ MadeInv' /\ AnswersInv'
<1>. stage \in [Requests -> Stage] /\ req \in [Requests -> Request]
  BY DEF KeysInv, TypeInv, ServiceTypeOK
<1>1. CASE Return(r)
  <2>1. stage'[r] = "idle" /\ \A q \in Requests \ {r} : stage'[q] = stage[q] /\ req'[q] = req[q]
    BY <1>1 DEF Return, Goto
  <2>2. \A q \in Requests : /\ Holding(q)' => Holding(q) /\ req'[q].key = req[q].key
                            /\ Holding(q)' /\ Creating(q)' => Creating(q) /\ req'[q].body = req[q].body
    BY <2>1 DEF Holding, Creating
  <2>3. QED BY <2>2, KeysSame
<1>2. ASSUME UNCHANGED req, NEW s \in Stage \ {"create", "insert"}, Goto(r, s), s = "release" => Creating(r)
      PROVE  HoldersInv' /\ MadeInv' /\ AnswersInv'
  <2>1. stage'[r] = s /\ req' = req /\ \A q \in Requests \ {r} : stage'[q] = stage[q]
    BY <1>2 DEF Goto
  <2>2. \A q \in Requests : /\ Holding(q)' => Holding(q) /\ req'[q].key = req[q].key
                            /\ Holding(q)' /\ Creating(q)' => Creating(q) /\ req'[q].body = req[q].body
    BY <1>2, <2>1 DEF Holding, Creating
  <2>3. QED BY <2>2, KeysSame
<1>3. QED BY <1>1, <1>2

LEMMA ArriveKeys ==
  ASSUME KeysInv, NEW r \in Requests, Arrive(r)
  PROVE  HoldersInv' /\ MadeInv' /\ AnswersInv'
<1>. /\ stage \in [Requests -> Stage] /\ req \in [Requests -> Request]
     /\ HoldersInv /\ MadeInv /\ AnswersInv /\ None \notin Keys
  BY ServiceAssumption DEF KeysInv, TypeInv, ServiceTypeOK
<1>1. ASSUME NEW p \in Payments, NEW u, NEW k \in Keys \cup {None}, NEW b \in Bodies,
             CreateReserve(r, p, u, k, b)
      PROVE  HoldersInv' /\ MadeInv' /\ AnswersInv'
  <2>1. /\ stage'[r] = "create" /\ req'[r].key = k /\ req'[r].body = b
        /\ \A q \in Requests \ {r} : stage'[q] = stage[q] /\ req'[q] = req[q]
        /\ UNCHANGED <<keyPayment, madeUnder, answers>>
    BY <1>1 DEF CreateReserve, Goto, Locals, history
  <2>2. /\ \A q \in Requests \ {r} : Holding(q)' <=> Holding(q)
        /\ \A q \in Requests \ {r} : Creating(q)' <=> Creating(q)
    BY <2>1 DEF Holding, Creating
  <2>3. CASE k = None
    <3>1. UNCHANGED <<keyStatus, keyBody>> /\ ~Holding(r)'
      BY <1>1, <2>1, <2>3 DEF CreateReserve, Holding
    <3>2. QED BY <2>1, <2>2, <3>1 DEF HoldersInv, MadeInv, AnswersInv
  <2>4. CASE k # None
    <3>1. /\ k \in Keys /\ keyStatus[k] = "absent" /\ keyStatus'[k] = "pending" /\ keyBody'[k] = b
          /\ \A x \in Keys \ {k} : keyStatus'[x] = keyStatus[x] /\ keyBody'[x] = keyBody[x]
      BY <1>1, <2>4 DEF CreateReserve, KeysInv, TypeInv, ServiceTypeOK
    <3>2. \A q \in Requests \ {r} : Holding(q) => req[q].key \in Keys \ {k}
      BY <3>1 DEF HoldersInv, Holding, Request
    <3>3. HoldersInv'
      BY <2>1, <2>2, <3>1, <3>2 DEF HoldersInv
    <3>4. \A p2 \in Payments : madeUnder[p2] \in Keys \cup {None}
      BY DEF KeysInv, TypeInv, ServiceTypeOK
    <3>5. MadeInv' /\ AnswersInv'
      BY <2>1, <3>1, <3>4 DEF MadeInv, AnswersInv
    <3>6. QED BY <3>3, <3>5
  <2>5. QED BY <2>3, <2>4
<1>2. ASSUME NEW k \in Keys, NEW b \in Bodies, CreateReplay(r, k, b)
      PROVE  HoldersInv' /\ MadeInv' /\ AnswersInv'
  <2>1. UNCHANGED <<stage, req, keyStatus, keyBody, keyPayment, madeUnder>>
    BY <1>2 DEF CreateReplay, keyRows
  <2>2. HoldersInv' /\ MadeInv'
    BY <2>1 DEF HoldersInv, MadeInv, Holding, Creating
  <2>3. AnswersInv'
    BY <1>2, <2>1 DEF AnswersInv, CreateReplay
  <2>4. QED BY <2>2, <2>3
<1>3. ASSUME NEW p, NEW u, NEW j, NEW s, Begin(r, p, u, j, s), s \notin {"create", "insert", "release"}
      PROVE  HoldersInv' /\ MadeInv' /\ AnswersInv'
  <2>1. /\ stage'[r] = s
        /\ \A q \in Requests \ {r} : stage'[q] = stage[q] /\ req'[q] = req[q]
        /\ UNCHANGED <<keyRows, history>>
    BY <1>3 DEF Begin, Goto
  <2>2. \A q \in Requests : /\ Holding(q)' => Holding(q) /\ req'[q].key = req[q].key
                            /\ Holding(q)' /\ Creating(q)' => Creating(q) /\ req'[q].body = req[q].body
    BY <1>3, <2>1 DEF Holding, Creating
  <2>3. QED BY <2>1, <2>2, KeysSame
<1>4. QED BY <1>1, <1>2, <1>3 DEF Arrive, ApproveRead, ExecuteRead, CancelRead, RetryRead

(* A create evaluates, inserts or releases: its key is its own.            *)
LEMMA CreateKeys ==
  ASSUME "commit" \notin ServiceFaults, KeysInv, NEW r \in Requests,
         \/ \E n \in 0 .. 2 : CreateEvaluate(r, n)
         \/ CreateInsert(r) \/ CreateCommitLost(r) \/ CreateRelease(r) \/ CreateError(r)
  PROVE  HoldersInv' /\ MadeInv' /\ AnswersInv'
<1>. /\ stage \in [Requests -> Stage] /\ req \in [Requests -> Request]
     /\ HoldersInv /\ MadeInv /\ AnswersInv /\ None \notin Keys
     /\ req[r].key \in Keys \cup {None}
  BY ServiceAssumption DEF KeysInv, TypeInv, ServiceTypeOK, Request
<1>0. /\ keyStatus \in [Keys -> {"absent", "pending", "done"}]
      /\ keyBody \in [Keys -> Bodies \cup {None}] /\ keyPayment \in [Keys -> Payments \cup {None}]
      /\ madeUnder \in [Payments -> Keys \cup {None}]
      /\ \A q \in Requests : req[q].key \in Keys \cup {None}
  BY DEF KeysInv, TypeInv, ServiceTypeOK, Request
<1>1. ASSUME NEW n \in 0 .. 2, CreateEvaluate(r, n) PROVE HoldersInv' /\ MadeInv' /\ AnswersInv'
  <2>1. PICK i : req' = [req EXCEPT ![r] = [@ EXCEPT !.needs = n, !.initial = i]]
    BY <1>1 DEF CreateEvaluate
  <2>2. \A q \in Requests : req'[q].key = req[q].key /\ req'[q].body = req[q].body
    BY <2>1 DEF Request
  <2>3. /\ stage[r] = "create" /\ stage'[r] = "insert" /\ UNCHANGED <<keyRows, history>>
        /\ \A q \in Requests \ {r} : stage'[q] = stage[q]
    BY <1>1 DEF CreateEvaluate, Goto
  <2>4. \A q \in Requests : /\ Holding(q)' => Holding(q) /\ req'[q].key = req[q].key
                            /\ Holding(q)' /\ Creating(q)' => Creating(q) /\ req'[q].body = req[q].body
    BY <2>2, <2>3 DEF Holding, Creating
  <2>5. QED BY <2>3, <2>4, KeysSame
<1>2. CASE CreateError(r)
  BY <1>2, KeysLeft DEF CreateError, Creating, Stage
<1>3. CASE CreateInsert(r) \/ CreateCommitLost(r)
  <2>1. PICK p \in Payments, b \in Bodies, k \in Keys \cup {None} :
          p = req[r].payment /\ b = req[r].body /\ k = req[r].key
    BY <1>3 DEF CreateInsert, CreateCommitLost, KeysInv, TypeInv, RequestOK
  <2>2. /\ Creating(r) /\ madeUnder' = [madeUnder EXCEPT ![p] = k] /\ UNCHANGED keyBody
        /\ IF k = None THEN UNCHANGED <<keyStatus, keyPayment>>
           ELSE /\ keyStatus' = [keyStatus EXCEPT ![k] = "done"]
                /\ keyPayment' = [keyPayment EXCEPT ![k] = p]
        /\ \/ k = None /\ answers' = answers
           \/ k # None /\ answers' = answers \cup {<<k, b, p>>} /\ stage'[r] = "idle"
    BY <1>3, <2>1 DEF CreateInsert, CreateCommitLost, InsertPayment, Creating, Return, Goto
  <2>3. /\ \A q \in Requests \ {r} : stage'[q] = stage[q] /\ req'[q] = req[q]
        /\ stage'[r] \in {"idle", "release"} /\ (stage'[r] = "release" => req'[r] = req[r])
    BY <1>3 DEF CreateInsert, CreateCommitLost, Return, Goto
  <2>4. ~Holding(r)'
    BY <2>1, <2>2, <2>3 DEF Holding
  <2>5. \A q \in Requests \ {r} : (Holding(q)' <=> Holding(q)) /\ (Creating(q)' <=> Creating(q))
    BY <2>3 DEF Holding, Creating
  <2>6. CASE k = None
    <3>1. HoldersInv'
      BY <2>2, <2>3, <2>4, <2>5, <2>6 DEF HoldersInv
    <3>2. MadeInv' /\ AnswersInv'
      BY <1>0, <2>2, <2>6 DEF MadeInv, AnswersInv
    <3>3. QED BY <3>1, <3>2
  <2>7. CASE k # None
    <3>1. Holding(r) /\ k \in Keys /\ keyStatus[k] = "pending" /\ keyBody[k] = b
      BY <2>1, <2>2, <2>7 DEF Holding, Creating, HoldersInv
    <3>2. \A q \in Requests \ {r} : Holding(q) => req[q].key \in Keys \ {k}
      BY <1>0, <2>1, <3>1 DEF HoldersInv, Holding
    <3>3. /\ keyStatus'[k] = "done" /\ keyPayment'[k] = p
          /\ \A x \in Keys \ {k} : keyStatus'[x] = keyStatus[x] /\ keyPayment'[x] = keyPayment[x]
      BY <1>0, <2>2, <2>7, <3>1
    <3>4. HoldersInv'
      BY <2>2, <2>3, <2>4, <2>5, <3>2, <3>3 DEF HoldersInv
    <3>5. MadeInv'
      BY <1>0, <2>2, <3>1, <3>3 DEF MadeInv
    <3>6. AnswersInv'
      <4>. SUFFICES ASSUME NEW k2 \in Keys, NEW b2 \in Bodies, NEW p2 \in Payments,
                           <<k2, b2, p2>> \in answers'
                    PROVE  keyStatus'[k2] = "done" /\ keyBody[k2] = b2 /\ keyPayment'[k2] = p2
        BY <2>2 DEF AnswersInv
      <4>1. CASE <<k2, b2, p2>> \in answers
        BY <3>1, <3>3, <4>1 DEF AnswersInv
      <4>2. CASE <<k2, b2, p2>> = <<k, b, p>>
        BY <3>1, <3>3, <4>2
      <4>3. QED BY <2>2, <2>7, <4>1, <4>2
    <3>7. QED BY <3>4, <3>5, <3>6
  <2>8. QED BY <2>6, <2>7
<1>4. CASE CreateRelease(r)
  <2>1. /\ stage[r] = "release" /\ stage'[r] = "idle" /\ UNCHANGED <<madeUnder, answers>>
        /\ \A q \in Requests \ {r} : stage'[q] = stage[q] /\ req'[q] = req[q]
    BY <1>4 DEF CreateRelease, Return, Goto, history
  <2>2. /\ ~Holding(r)'
        /\ \A q \in Requests \ {r} : (Holding(q)' <=> Holding(q)) /\ (Creating(q)' <=> Creating(q))
    BY <2>1 DEF Holding, Creating
  <2>3. PICK k \in Keys \cup {None} : k = req[r].key
    OBVIOUS
  <2>4. CASE k = None
    <3>1. UNCHANGED <<keyStatus, keyBody, keyPayment>>
      BY <1>4, <2>3, <2>4 DEF CreateRelease, keyRows
    <3>2. QED BY <2>1, <2>2, <3>1 DEF HoldersInv, MadeInv, AnswersInv
  <2>5. CASE k # None
    <3>1. k \in Keys /\ keyStatus[k] = "pending"
      BY <2>1, <2>3, <2>5 DEF HoldersInv, Holding
    <3>2. \A q \in Requests \ {r} : Holding(q) => req[q].key \in Keys \ {k}
      BY <1>0, <2>1, <2>3, <2>5 DEF HoldersInv, Holding
    <3>3. \A x \in Keys \ {k} : /\ keyStatus'[x] = keyStatus[x] /\ keyBody'[x] = keyBody[x]
                                /\ keyPayment'[x] = keyPayment[x]
      BY <1>0, <1>4, <2>3, <2>5 DEF CreateRelease
    <3>4. HoldersInv'
      BY <2>1, <2>2, <3>2, <3>3 DEF HoldersInv
    <3>5. MadeInv' /\ AnswersInv'
      BY <1>0, <2>1, <3>1, <3>3 DEF MadeInv, AnswersInv
    <3>6. QED BY <3>4, <3>5
  <2>6. QED BY <2>4, <2>5
<1>5. QED BY <1>1, <1>2, <1>3, <1>4

LEMMA SweepKeys ==
  ASSUME KeysInv, NEW k \in Keys, SweepKey(k)
  PROVE  HoldersInv' /\ MadeInv' /\ AnswersInv'
<1>1. /\ keyStatus[k] = "done" /\ UNCHANGED <<stage, req>>
      /\ \A x \in Keys \ {k} : /\ keyStatus'[x] = keyStatus[x] /\ keyBody'[x] = keyBody[x]
                               /\ keyPayment'[x] = keyPayment[x]
  BY DEF SweepKey, KeysInv, TypeInv, ServiceTypeOK
<1>2. \A r \in Requests : Holding(r) => req[r].key \in Keys \ {k}
  BY <1>1 DEF KeysInv, TypeInv, ServiceTypeOK, Request, HoldersInv, Holding
<1>3. HoldersInv'
  BY <1>1, <1>2 DEF KeysInv, HoldersInv, Holding, Creating
<1>4. MadeInv'
  <2>1. \A p \in Payments : madeUnder'[p] = IF madeUnder[p] = k THEN None ELSE madeUnder[p]
    BY DEF SweepKey
  <2>2. \A p \in Payments : madeUnder[p] \in Keys \cup {None}
    BY DEF KeysInv, TypeInv, ServiceTypeOK
  <2>3. QED BY <1>1, <2>1, <2>2 DEF KeysInv, MadeInv
<1>5. AnswersInv'
  <2>1. \A x \in Keys, b \in Bodies, p \in Payments :
          <<x, b, p>> \in answers' => <<x, b, p>> \in answers /\ x # k
    BY DEF SweepKey
  <2>2. QED BY <1>1, <2>1 DEF KeysInv, AnswersInv
<1>6. QED BY <1>3, <1>4, <1>5

LEMMA KeysStep ==
  ASSUME "commit" \notin ServiceFaults
  PROVE  KeysInv /\ [OpenNext]_<<storeVars, serviceVars>> => KeysInv'
<1>. SUFFICES ASSUME KeysInv, [OpenNext]_<<storeVars, serviceVars>>
              PROVE  HoldersInv' /\ MadeInv' /\ AnswersInv'
  BY TypeStep DEF KeysInv
<1>1. ASSUME UNCHANGED serviceVars PROVE HoldersInv' /\ MadeInv' /\ AnswersInv'
  BY <1>1, KeysSame DEF serviceVars, keyRows, history, Holding, Creating
<1>2. CASE UNCHANGED <<storeVars, serviceVars>>
  BY <1>1, <1>2
<1>3. ASSUME NEW S \in SUBSET Payments, ExpireStale(S) PROVE UNCHANGED serviceVars
  BY <1>3 DEF ExpireStale
<1>4. ASSUME NEW p \in Payments, NEW to, ExecutionEnds(p, to) PROVE UNCHANGED serviceVars
  BY <1>4 DEF ExecutionEnds
<1>5. ASSUME NEW r \in Requests,
             \/ ApproveEvaluate(r) \/ ApproveBlock(r) \/ ApproveCommit(r) \/ ExecuteEvaluate(r)
             \/ ExecuteBlock(r) \/ ExecuteCommit(r) \/ CancelCommit(r) \/ RetryReopen(r)
             \/ RetryEnqueue(r) \/ Abandon(r)
      PROVE  HoldersInv' /\ MadeInv' /\ AnswersInv'
  <2>1. UNCHANGED <<keyRows, history>>
    BY <1>5 DEF ApproveEvaluate, ApproveBlock, ApproveCommit, ExecuteEvaluate, ExecuteBlock,
                ExecuteCommit, CancelCommit, RetryReopen, RetryEnqueue, Abandon, BlockFrom
  <2>2. \/ Return(r)
        \/ /\ UNCHANGED req
           /\ \E s \in {"approve_block", "approve_commit", "execute_block", "execute_commit",
                        "retry_enqueue"} : Goto(r, s)
    BY <1>5 DEF ApproveEvaluate, ApproveBlock, ApproveCommit, ExecuteEvaluate, ExecuteBlock,
                ExecuteCommit, CancelCommit, RetryReopen, RetryEnqueue, Abandon, BlockFrom
  <2>3. QED BY <2>1, <2>2, KeysLeft DEF Stage
<1>6. QED
  BY <1>1, <1>2, <1>3, <1>4, <1>5, ArriveKeys, CreateKeys, SweepKeys
     DEF OpenNext, ServiceNext, Continue

LEMMA KeysImply == KeysInv => OnePaymentPerKey /\ ReplayIsOriginal
<1>1. KeysInv => OnePaymentPerKey
  BY DEF KeysInv, MadeInv, OnePaymentPerKey
<1>2. KeysInv => ReplayIsOriginal
  <2>. SUFFICES ASSUME KeysInv, NEW x \in answers, NEW y \in answers, x[1] = y[1] PROVE x = y
    BY DEF ReplayIsOriginal
  <2>1. answers \subseteq Keys \X Bodies \X Payments
    BY DEF KeysInv, TypeInv, ServiceTypeOK
  <2>2. PICK k \in Keys, b \in Bodies, p \in Payments : x = <<k, b, p>>
    BY <2>1
  <2>3. PICK c \in Bodies, q \in Payments : y = <<k, c, q>>
    BY <2>1, <2>2
  <2>4. QED BY <2>2, <2>3 DEF KeysInv, AnswersInv
<1>3. QED BY <1>1, <1>2

(* Between two sweeps a key creates at most one payment, whatever creates  *)
(* under it overlap, fail and repeat; if the error of a COMMIT that        *)
(* succeeded could reach a keyed create, the release in its catch block    *)
(* would break this (createPayment, releaseIdempotencyKey).                *)
THEOREM ServiceOnePaymentPerKey ==
  ASSUME "commit" \notin ServiceFaults
  PROVE  ServiceSpec => []OnePaymentPerKey
  BY KeysImply, KeysInit, KeysStep, PTL DEF ServiceSpec, ServiceStart

(* Under the same condition, all answers under one key name one payment    *)
(* and were asked with one body (reserveIdempotencyKey).                   *)
THEOREM ServiceReplayIsOriginal ==
  ASSUME "commit" \notin ServiceFaults
  PROVE  ServiceSpec => []ReplayIsOriginal
  BY KeysImply, KeysInit, KeysStep, PTL DEF ServiceSpec, ServiceStart
=============================================================================
