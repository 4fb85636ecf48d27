----------------------- MODULE PolicedPaymentsProofs -----------------------
(***************************************************************************)
(* A payment that executes has the approvals the policy of that moment     *)
(* asks for, for any number of payments, requests and policy editors, any  *)
(* amounts and any thresholds.                                             *)
(***************************************************************************)
EXTENDS PolicedPayments, PaymentServiceProofs

(* ExecutedAsPolicyDemands needs four facts that the steps keep: what      *)
(* PaymentService guarantees by itself (EyesInv); policy:auto approves     *)
(* only payments that need nobody; a request about to commit an execution  *)
(* has been asked for no more approvals than its payment carries; and      *)
(* neither has any payment that executed since.                            *)
AutoInv == \A p \in Payments : AutoPolicy \in approvers[p] => required[p] = 0

QuoteInv ==
  \A r \in Requests : stage[r] = "execute_commit" =>
    quoted[r] \in 0 .. 2 /\ quoted[r] <= required[req[r].payment]

DemandInv == \A p \in Payments : status[p] \in Executed => demanded[p] <= required[p]

PolicedInv == EyesInv /\ PolicyTypeOK /\ AutoInv /\ QuoteInv /\ DemandInv

-----------------------------------------------------------------------------
(* Refinement                                                              *)

(* requiredApprovalsFor answers 0, 1 or 2.                                 *)
LEMMA RequiredApprovalsRange ==
  ASSUME NEW a, NEW p
  PROVE  RequiredApprovals(a, p) \in 0 .. 2
  BY DEF RequiredApprovals

LEMMA QuotedRange ==
  ASSUME PolicyTypeOK, NEW r \in Requests, quoted[r] # None
  PROVE  quoted[r] \in 0 .. 2
  BY DEF PolicyTypeOK

(* Every step under a policy is one payment-service may take under some    *)
(* answers of the policy service, or leaves the service alone.             *)
LEMMA PolicedStep ==
  ASSUME PolicyTypeOK, [PolicedNext]_policedVars
  PROVE  [OpenNext]_<<storeVars, serviceVars>>
<1>1. ASSUME NEW r \in Requests, PolicedContinue(r)
      PROVE  Continue(r) \/ UNCHANGED <<storeVars, serviceVars>>
  <2>1. CASE QuotePolicy(r)
    BY <2>1 DEF QuotePolicy
  <2>2. CASE PolicedCreate(r)
    BY <2>2, QuotedRange DEF PolicedCreate, Continue
  <2>3. CASE PolicedApprove(r) \/ PolicedExecute(r) \/ PolicedCommit(r) \/ Unpoliced(r)
    BY <2>3 DEF PolicedApprove, PolicedExecute, PolicedCommit, Unpoliced, Continue
  <2>4. QED BY <1>1, <2>1, <2>2, <2>3 DEF PolicedContinue
<1>2. ASSUME NEW r \in Requests, PolicedStop(r)
      PROVE  CreateError(r) \/ Abandon(r)
  BY <1>2 DEF PolicedStop
<1>3. ASSUME NEW e \in Editors, EditPolicy(e)
      PROVE  UNCHANGED <<storeVars, serviceVars>>
  BY <1>3 DEF EditPolicy, ReadPolicy, SetThresholds, SetAssets
<1>4. Elsewhere => OpenNext
  BY DEF Elsewhere, OpenNext, ServiceNext
<1>5. UNCHANGED policedVars => UNCHANGED <<storeVars, serviceVars>>
  BY DEF policedVars
<1>6. QED BY <1>1, <1>2, <1>3, <1>4, <1>5 DEF PolicedNext, OpenNext, ServiceNext

-----------------------------------------------------------------------------
(* Types                                                                   *)

LEMMA EditType ==
  ASSUME PolicyTypeOK, NEW e \in Editors, EditPolicy(e)
  PROVE  PolicyTypeOK'
<1>1. CASE \E what \in {"thresholds", "assets"} : ReadPolicy(e, what)
  <2>1. PICK what \in {"thresholds", "assets"} : ReadPolicy(e, what)
    BY <1>1
  <2>2. [doing |-> what, read |-> policy] \in Edit
    BY DEF Edit, PolicyTypeOK
  <2>3. editor' \in [Editors -> Edit]
    BY <2>1, <2>2 DEF ReadPolicy, PolicyTypeOK
  <2>4. QED BY <2>1, <2>3 DEF ReadPolicy, PolicyTypeOK
<1>2. ASSUME Edited(e) PROVE editor' \in [Editors -> Edit]
  BY <1>2 DEF Edited, PolicyTypeOK, Edit
<1>3. CASE \E low, high \in Thresholds, limit \in Limits : SetThresholds(e, low, high, limit)
  <2>1. PICK low \in Thresholds, high \in Thresholds, limit \in Limits :
          SetThresholds(e, low, high, limit)
    BY <1>3
  <2>2. policy' \in Policy /\ Valid(policy')
    BY <2>1 DEF SetThresholds, PolicyTypeOK, Policy, Valid
  <2>3. QED BY <1>2, <2>1, <2>2 DEF SetThresholds, PolicyTypeOK
<1>4. CASE \E a \in Assets, enabled \in BOOLEAN : SetAssets(e, a, enabled)
  <2>1. PICK a \in Assets, enabled \in BOOLEAN : SetAssets(e, a, enabled)
    BY <1>4
  <2>2. editor[e] \in Edit /\ Doing(e, "assets")
    BY <2>1 DEF SetAssets, PolicyTypeOK
  <2>3. editor[e].read.allowedAssets \subseteq Assets
    BY <2>2 DEF Doing, Edit, Policy, NoEdit
  <2>4. PICK list \in SUBSET Assets : policy' = [policy EXCEPT !.allowedAssets = list]
    BY <2>1, <2>3 DEF SetAssets
  <2>5. policy' \in Policy /\ Valid(policy')
    BY <2>4 DEF PolicyTypeOK, Policy, Valid
  <2>6. QED BY <1>2, <2>1, <2>5 DEF SetAssets, PolicyTypeOK
<1>5. QED BY <1>1, <1>3, <1>4 DEF EditPolicy

LEMMA QuoteType ==
  ASSUME PolicyTypeOK, NEW r, NEW n \in 0 .. 2 \cup {None}, Quote(r, n)
  PROVE  quoted' \in [Requests -> 0 .. 2 \cup {None}]
  BY DEF PolicyTypeOK, Quote

LEMMA PolicyTypeStep ==
  ASSUME PolicedInv, [PolicedNext]_policedVars
  PROVE  PolicyTypeOK'
<1>. PolicyTypeOK /\ QuoteInv
  BY DEF PolicedInv
<1>1. ASSUME UNCHANGED <<policyRow, demanded>>, NEW r, NEW n \in 0 .. 2 \cup {None}, Quote(r, n)
      PROVE  PolicyTypeOK'
  BY <1>1, QuoteType DEF PolicyTypeOK, policyRow
<1>2. UNCHANGED policyVars => PolicyTypeOK'
  BY DEF PolicyTypeOK, policyVars
<1>3. ASSUME NEW r \in Requests, PolicedContinue(r) PROVE PolicyTypeOK'
  <2>1. CASE QuotePolicy(r) \/ PolicedCreate(r) \/ PolicedExecute(r)
    BY <1>1, <2>1, RequiredApprovalsRange DEF QuotePolicy, PolicedCreate, PolicedExecute
  <2>2. CASE PolicedApprove(r) \/ (Unpoliced(r) /\ UNCHANGED policyVars)
    BY <1>2, <2>2 DEF PolicedApprove
  <2>3. CASE PolicedCommit(r)
    <3>1. quoted[r] \in 0 .. 2
      BY <2>3 DEF PolicedCommit, ExecuteCommit, QuoteInv
    <3>2. demanded' \in [Payments -> 0 .. 2]
      BY <2>3, <3>1 DEF PolicedCommit, PolicyTypeOK
    <3>3. quoted' \in [Requests -> 0 .. 2 \cup {None}]
      BY <2>3, QuoteType DEF PolicedCommit
    <3>4. QED BY <2>3, <3>2, <3>3 DEF PolicedCommit, PolicyTypeOK, policyRow
  <2>4. QED BY <1>3, <2>1, <2>2, <2>3 DEF PolicedContinue
<1>4. ASSUME NEW r \in Requests, PolicedStop(r) PROVE PolicyTypeOK'
  BY <1>1, <1>4 DEF PolicedStop
<1>5. QED BY <1>2, <1>3, <1>4, EditType DEF PolicedNext, policedVars, policyVars

-----------------------------------------------------------------------------
(* Approvals asked for                                                     *)

(* A step that approves nothing, inserts nothing and lets nothing execute  *)
LEMMA RowsQuiet ==
  ASSUME AutoInv, DemandInv, UNCHANGED <<required, approvers, demanded>>,
         \A p \in Payments : status'[p] \in Executed => status[p] \in Executed
  PROVE  AutoInv' /\ DemandInv'
  BY DEF AutoInv, DemandInv

(* A step of one request, after which it is not about to commit an execution *)
LEMMA SlotQuiet ==
  ASSUME QuoteInv, NEW r \in Requests, stage'[r] # "execute_commit",
         \A q \in Requests \ {r} : /\ stage'[q] = stage[q] /\ req'[q] = req[q]
                                   /\ quoted'[q] = quoted[q],
         \A q \in Requests \ {r} : stage[q] = "execute_commit" =>
           required'[req[q].payment] = required[req[q].payment]
  PROVE  QuoteInv'
  BY DEF QuoteInv

(* Where a step of request r takes it *)
LEMMA SlotMoves ==
  ASSUME TypeInv, PolicyTypeOK, NEW r \in Requests
  PROVE  /\ \A s : Goto(r, s) =>
              stage'[r] = s /\ \A q \in Requests \ {r} : stage'[q] = stage[q]
         /\ \A l : req' = [req EXCEPT ![r] = l] =>
              req'[r] = l /\ \A q \in Requests \ {r} : req'[q] = req[q]
         /\ \A n : Quote(r, n) =>
              quoted'[r] = n /\ \A q \in Requests \ {r} : quoted'[q] = quoted[q]
  BY DEF TypeInv, ServiceTypeOK, PolicyTypeOK, Goto, Quote

(* A step of request r that approves nothing, inserts nothing, lets nothing *)
(* execute and is not followed by the commit of an execution               *)
LEMMA StepQuiet ==
  ASSUME PolicedInv, NEW r \in Requests, UNCHANGED <<required, approvers, demanded>>,
         \A p \in Payments : status'[p] \in Executed => status[p] \in Executed,
         NEW s, s # "execute_commit", NEW l,
         Goto(r, s), req' = [req EXCEPT ![r] = l] \/ UNCHANGED req,
         UNCHANGED quoted \/ \E n : Quote(r, n)
  PROVE  AutoInv' /\ DemandInv' /\ QuoteInv'
<1>. AutoInv /\ DemandInv /\ QuoteInv /\ TypeInv /\ PolicyTypeOK
  BY DEF PolicedInv, EyesInv
<1>1. AutoInv' /\ DemandInv'
  BY RowsQuiet
<1>2. /\ stage'[r] = s
      /\ \A q \in Requests \ {r} : /\ stage'[q] = stage[q] /\ req'[q] = req[q]
                                   /\ quoted'[q] = quoted[q]
  BY SlotMoves
<1>3. QED BY <1>1, <1>2, SlotQuiet

LEMMA ReturnQuiet ==
  ASSUME PolicedInv, NEW r \in Requests, UNCHANGED <<required, approvers, demanded>>,
         \A p \in Payments : status'[p] \in Executed => status[p] \in Executed,
         Return(r), UNCHANGED quoted \/ \E n : Quote(r, n)
  PROVE  AutoInv' /\ DemandInv' /\ QuoteInv'
  BY StepQuiet DEF Return

(* Nothing about the service changes but, perhaps, what is remembered of it *)
LEMMA NoneQuiet ==
  ASSUME PolicedInv, UNCHANGED <<required, approvers, demanded, stage, req, quoted>>,
         \A p \in Payments : status'[p] \in Executed => status[p] \in Executed
  PROVE  AutoInv' /\ DemandInv' /\ QuoteInv'
  BY RowsQuiet DEF PolicedInv, QuoteInv

LEMMA StatusQuiet ==
  ASSUME PolicedInv, NEW p, NEW to, SetStatus(p, to), to \in Executed => status[p] \in Executed
  PROVE  \A q \in Payments : status'[q] \in Executed => status[q] \in Executed
  BY DEF SetStatus, PolicedInv, EyesInv, TypeInv, ServiceTypeOK, StoreTypeOK

LEMMA ArriveQuiet ==
  ASSUME PolicedInv, NEW r \in Requests, Arrive(r), UNCHANGED policyVars
  PROVE  AutoInv' /\ DemandInv' /\ QuoteInv'
<1>1. UNCHANGED <<required, approvers, demanded, quoted, status>>
  BY DEF Arrive, CreateReserve, CreateReplay, ApproveRead, ExecuteRead, CancelRead, RetryRead,
     Begin, storeVars, policyVars
<1>2. ASSUME NEW p, NEW u, NEW k, NEW b, CreateReserve(r, p, u, k, b)
      PROVE  AutoInv' /\ DemandInv' /\ QuoteInv'
  BY <1>1, <1>2, StepQuiet DEF CreateReserve
<1>3. ASSUME NEW k, NEW b, CreateReplay(r, k, b)
      PROVE  AutoInv' /\ DemandInv' /\ QuoteInv'
  BY <1>1, <1>3, NoneQuiet DEF CreateReplay
<1>4. ASSUME NEW p, NEW u, NEW j, NEW s, s # "execute_commit", Begin(r, p, u, j, s)
      PROVE  AutoInv' /\ DemandInv' /\ QuoteInv'
  BY <1>1, <1>4, StepQuiet DEF Begin
<1>5. QED
  BY <1>2, <1>3, <1>4 DEF Arrive, ApproveRead, ExecuteRead, CancelRead, RetryRead

(* The inserted row was nobody's before: no request is about to execute it. *)
LEMMA InsertQuiet ==
  ASSUME PolicedInv, NEW r \in Requests, CreateInsert(r) \/ CreateCommitLost(r),
         UNCHANGED policyVars
  PROVE  AutoInv' /\ DemandInv' /\ QuoteInv'
<1>. DEFINE p == req[r].payment
<1>. AutoInv /\ DemandInv /\ QuoteInv /\ SlotsInv /\ TypeInv /\ PolicyTypeOK
  BY DEF PolicedInv, EyesInv
<1>1. stage[r] = "insert" /\ InsertPayment(r) /\ UNCHANGED <<quoted, demanded>>
  BY DEF CreateInsert, CreateCommitLost, policyVars
<1>2. /\ p \in Payments /\ req[r].initial \in {"Blocked", "Approved", "Pending approval"}
      /\ req[r].initial = "Approved" => req[r].needs = 0
      /\ \A q \in Requests \ {r} : req[q].payment # p
  BY <1>1 DEF TypeInv, RequestOK, SlotsInv, Creating
<1>3. /\ status' = [status EXCEPT ![p] = req[r].initial]
      /\ required' = [required EXCEPT ![p] = req[r].needs]
      /\ approvers' = [approvers EXCEPT ![p] = IF req[r].initial = "Approved" THEN {AutoPolicy} ELSE {}]
  BY <1>1 DEF InsertPayment
<1>4. /\ status \in [Payments -> Status \cup {"absent"}] /\ required \in [Payments -> 0 .. 2]
      /\ approvers \in [Payments -> SUBSET (Users \cup {System, AutoPolicy})]
  BY DEF TypeInv, ServiceTypeOK, StoreTypeOK
<1>. HIDE DEF p
<1>5. AutoInv'
  BY <1>2, <1>3, <1>4 DEF AutoInv
<1>6. DemandInv'
  BY <1>1, <1>2, <1>3, <1>4 DEF DemandInv, Executed
<1>7. QuoteInv'
  <2>1. /\ stage'[r] \in {"idle", "release"}
        /\ \A q \in Requests \ {r} : stage'[q] = stage[q] /\ req'[q] = req[q]
    BY SlotMoves DEF CreateInsert, CreateCommitLost, Return
  <2>2. ASSUME NEW q \in Requests \ {r}, stage[q] = "execute_commit"
        PROVE  required'[req[q].payment] = required[req[q].payment]
    <3>1. req[q].payment \in Payments /\ req[q].payment # p
      BY <1>2, <2>2 DEF TypeInv, RequestOK
    <3>2. QED BY <1>2, <1>3, <1>4, <3>1
  <2>3. QED BY <1>1, <2>1, <2>2, SlotQuiet
<1>8. QED BY <1>5, <1>6, <1>7

(* An approver of a request is never policy:auto.                          *)
LEMMA ApproveCommitQuiet ==
  ASSUME PolicedInv, NEW r \in Requests, ApproveCommit(r), UNCHANGED policyVars
  PROVE  AutoInv' /\ DemandInv' /\ QuoteInv'
<1>. DEFINE a == ApproverId(req[r].user)
<1>. AutoInv /\ DemandInv /\ QuoteInv /\ TypeInv /\ PolicyTypeOK
  BY DEF PolicedInv, EyesInv
<1>1. UNCHANGED <<required, quoted, demanded>> /\ Return(r) /\ stage[r] = "approve_commit"
  BY DEF ApproveCommit, policyVars
<1>2. req[r].user \in Users \cup {None} /\ req[r].payment \in Payments
  BY <1>1 DEF TypeInv, ServiceTypeOK, RequestOK, Request
<1>3. a # AutoPolicy
  BY <1>2, StoreAssumption DEF ApproverId
<1>4. AutoInv'
  <2>1. CASE UNCHANGED approvers
    BY <1>1, <2>1 DEF AutoInv
  <2>2. CASE approvers' = [approvers EXCEPT ![req[r].payment] = approvers[req[r].payment] \cup {a}]
    <3>. HIDE DEF a
    <3>1. approvers \in [Payments -> SUBSET (Users \cup {System, AutoPolicy})]
      BY DEF TypeInv, ServiceTypeOK, StoreTypeOK
    <3>2. QED BY <1>1, <1>2, <1>3, <2>2, <3>1 DEF AutoInv
  <2>3. QED BY <2>1, <2>2 DEF ApproveCommit
<1>5. \A q \in Payments : status'[q] \in Executed => status[q] \in Executed
  <2>1. CASE UNCHANGED status
    BY <2>1
  <2>2. CASE \E to \in {"Approved", "Pending approval"} : SetStatus(req[r].payment, to)
    BY <2>2, StatusQuiet DEF Executed
  <2>3. QED BY <2>1, <2>2 DEF ApproveCommit
<1>6. DemandInv'
  BY <1>1, <1>5 DEF DemandInv
<1>7. QuoteInv'
  BY <1>1, SlotMoves, SlotQuiet DEF Return
<1>8. QED BY <1>4, <1>6, <1>7

(* The other steps that do not ask the policy                              *)
LEMMA UnpolicedQuiet ==
  ASSUME PolicedInv, NEW r \in Requests, Unpoliced(r), UNCHANGED policyVars
  PROVE  AutoInv' /\ DemandInv' /\ QuoteInv'
<1>. UNCHANGED <<demanded, quoted>>
  BY DEF policyVars
<1>1. CASE CreateRelease(r)
  BY <1>1, ReturnQuiet DEF CreateRelease, storeVars
<1>2. ASSUME NEW from, NEW action, BlockFrom(r, from, action)
      PROVE  AutoInv' /\ DemandInv' /\ QuoteInv'
  <2>1. \A q \in Payments : status'[q] \in Executed => status[q] \in Executed
    BY <1>2, StatusQuiet DEF BlockFrom, Executed
  <2>2. QED BY <1>2, <2>1, ReturnQuiet DEF BlockFrom, paymentRow
<1>3. CASE CancelCommit(r)
  <2>1. \A q \in Payments : status'[q] \in Executed => status[q] \in Executed
    BY <1>3, StatusQuiet DEF CancelCommit, Executed
  <2>2. QED BY <1>3, <2>1, ReturnQuiet DEF CancelCommit, paymentRow
<1>4. CASE RetryReopen(r)
  <2>1. \A q \in Payments : status'[q] \in Executed => status[q] \in Executed
    BY <1>4, StatusQuiet DEF RetryReopen, Executed
  <2>2. QED BY <1>4, <2>1, StepQuiet DEF RetryReopen, paymentRow
<1>5. CASE RetryEnqueue(r)
  BY <1>5, ReturnQuiet DEF RetryEnqueue, paymentRow
<1>6. QED
  BY <1>1, <1>2, <1>3, <1>4, <1>5, InsertQuiet, ApproveCommitQuiet
     DEF Unpoliced, ApproveBlock, ExecuteBlock

-----------------------------------------------------------------------------
(* The steps that ask the policy                                           *)

LEMMA QuoteQuiet ==
  ASSUME PolicedInv, NEW r \in Requests, QuotePolicy(r)
  PROVE  AutoInv' /\ DemandInv' /\ QuoteInv'
<1>. AutoInv /\ DemandInv /\ QuoteInv /\ TypeInv /\ PolicyTypeOK
  BY DEF PolicedInv, EyesInv
<1>1. /\ UNCHANGED <<stage, req, required, approvers, status, demanded>>
      /\ stage[r] = "create" /\ \E n : Quote(r, n)
  BY DEF QuotePolicy, serviceVars, storeVars
<1>2. AutoInv' /\ DemandInv'
  BY <1>1, RowsQuiet
<1>3. QuoteInv'
  BY <1>1, SlotMoves, SlotQuiet
<1>4. QED BY <1>2, <1>3

LEMMA CreateQuiet ==
  ASSUME PolicedInv, NEW r \in Requests, PolicedCreate(r)
  PROVE  AutoInv' /\ DemandInv' /\ QuoteInv'
<1>1. /\ UNCHANGED <<required, approvers, status, demanded>> /\ Goto(r, "insert")
      /\ Quote(r, None) /\ \E l : req' = [req EXCEPT ![r] = l]
  BY DEF PolicedCreate, CreateEvaluate, storeVars
<1>2. QED BY <1>1, StepQuiet

LEMMA ApproveQuiet ==
  ASSUME PolicedInv, NEW r \in Requests, PolicedApprove(r)
  PROVE  AutoInv' /\ DemandInv' /\ QuoteInv'
<1>1. UNCHANGED <<required, approvers, status, demanded, quoted>>
  BY DEF PolicedApprove, ApproveEvaluate, storeVars, policyVars
<1>2. CASE Return(r)
  BY <1>1, <1>2, ReturnQuiet
<1>3. ASSUME NEW s \in {"approve_block", "approve_commit"}, Goto(r, s), UNCHANGED req
      PROVE  AutoInv' /\ DemandInv' /\ QuoteInv'
  BY <1>1, <1>3, StepQuiet
<1>4. QED BY <1>2, <1>3 DEF PolicedApprove, ApproveEvaluate

(* The evaluation that lets a payment execute has compared the approvals   *)
(* it carries with those the policy asks for.                              *)
LEMMA ExecuteQuiet ==
  ASSUME PolicedInv, NEW r \in Requests, PolicedExecute(r)
  PROVE  AutoInv' /\ DemandInv' /\ QuoteInv'
<1>. DEFINE p == req[r].payment
            n == RequiredApprovals(AmountEur[p], policy)
<1>. AutoInv /\ DemandInv /\ QuoteInv /\ TypeInv /\ PolicyTypeOK
  BY DEF PolicedInv, EyesInv
<1>1. UNCHANGED <<required, approvers, status, demanded>> /\ \E m : Quote(r, m)
  BY DEF PolicedExecute, ExecuteEvaluate, storeVars
<1>2. CASE Return(r)
  BY <1>1, <1>2, ReturnQuiet
<1>3. CASE Goto(r, "execute_block") /\ UNCHANGED req
  BY <1>1, <1>3, StepQuiet
<1>4. CASE Goto(r, "execute_commit") /\ UNCHANGED req
  <2>1. /\ stage'[r] = "execute_commit"
        /\ \A q \in Requests \ {r} : stage'[q] = stage[q]
    BY <1>4, SlotMoves
  <2>2. Quote(r, n) /\ PolicyClears(p, required[p])
    BY <2>1 DEF PolicedExecute
  <2>3. quoted'[r] = n /\ \A q \in Requests \ {r} : quoted'[q] = quoted[q]
    BY <2>2, SlotMoves
  <2>4. n \in 0 .. 2 /\ n <= required[p]
    <3>1. n \in 0 .. 2
      BY RequiredApprovalsRange
    <3>2. required[p] >= n
      BY <2>2 DEF PolicyClears
    <3>. HIDE DEF n
    <3>3. required[p] \in 0 .. 2
      BY DEF PolicedExecute, ExecuteEvaluate, TypeInv, RequestOK, ServiceTypeOK, StoreTypeOK
    <3>4. QED BY <3>1, <3>2, <3>3
  <2>5. QuoteInv'
    <3>. HIDE DEF n
    <3>1. QED BY <1>1, <1>4, <2>1, <2>3, <2>4 DEF QuoteInv
  <2>6. QED BY <1>1, <2>5, RowsQuiet
<1>5. QED BY <1>2, <1>3, <1>4 DEF PolicedExecute, ExecuteEvaluate

LEMMA CommitQuiet ==
  ASSUME PolicedInv, NEW r \in Requests, PolicedCommit(r)
  PROVE  AutoInv' /\ DemandInv' /\ QuoteInv'
<1>. DEFINE p == req[r].payment
<1>. AutoInv /\ DemandInv /\ QuoteInv /\ TypeInv /\ PolicyTypeOK
  BY DEF PolicedInv, EyesInv
<1>1. UNCHANGED <<required, approvers>> /\ Return(r) /\ Quote(r, None) /\ stage[r] = "execute_commit"
  BY DEF PolicedCommit, ExecuteCommit, paymentRow
<1>2. p \in Payments /\ quoted[r] \in 0 .. 2 /\ quoted[r] <= required[p]
  BY <1>1 DEF QuoteInv, TypeInv, RequestOK
<1>3. DemandInv'
  <2>1. CASE status[p] = "Approved"
    <3>1. SetStatus(p, "Executing") /\ demanded' = [demanded EXCEPT ![p] = quoted[r]]
      BY <2>1 DEF PolicedCommit, ExecuteCommit
    <3>2. demanded'[p] <= required'[p]
      BY <1>1, <1>2, <3>1 DEF PolicyTypeOK
    <3>3. \A q \in Payments \ {p} : status'[q] = status[q] /\ demanded'[q] = demanded[q]
      BY <3>1 DEF SetStatus, PolicyTypeOK, TypeInv, ServiceTypeOK, StoreTypeOK
    <3>4. QED BY <1>1, <3>2, <3>3 DEF DemandInv
  <2>2. CASE status[p] # "Approved"
    BY <1>1, <2>2 DEF PolicedCommit, ExecuteCommit, DemandInv
  <2>3. QED BY <2>1, <2>2
<1>4. AutoInv'
  BY <1>1 DEF AutoInv
<1>5. QuoteInv'
  BY <1>1, SlotMoves, SlotQuiet DEF Return
<1>6. QED BY <1>3, <1>4, <1>5

LEMMA StopQuiet ==
  ASSUME PolicedInv, NEW r \in Requests, PolicedStop(r)
  PROVE  AutoInv' /\ DemandInv' /\ QuoteInv'
<1>1. UNCHANGED <<required, approvers, status, demanded>> /\ Quote(r, None)
  BY DEF PolicedStop, CreateError, Abandon, storeVars
<1>2. CASE CreateError(r)
  BY <1>1, <1>2, StepQuiet DEF CreateError
<1>3. CASE Abandon(r)
  BY <1>1, <1>3, ReturnQuiet DEF Abandon
<1>4. QED BY <1>2, <1>3 DEF PolicedStop

LEMMA ElsewhereQuiet ==
  ASSUME PolicedInv, Elsewhere, UNCHANGED policyVars
  PROVE  AutoInv' /\ DemandInv' /\ QuoteInv'
<1>. UNCHANGED <<demanded, quoted>>
  BY DEF policyVars
<1>1. ASSUME NEW S \in SUBSET Payments, ExpireStale(S)
      PROVE  AutoInv' /\ DemandInv' /\ QuoteInv'
  BY <1>1, NoneQuiet DEF ExpireStale, paymentRow, serviceVars, Executed
<1>2. ASSUME NEW k \in Keys, SweepKey(k)
      PROVE  AutoInv' /\ DemandInv' /\ QuoteInv'
  BY <1>2, NoneQuiet DEF SweepKey, storeVars
<1>3. ASSUME NEW p \in Payments, NEW to \in {"Settled", "Failed"}, ExecutionEnds(p, to)
      PROVE  AutoInv' /\ DemandInv' /\ QuoteInv'
  <2>1. \A q \in Payments : status'[q] \in Executed => status[q] \in Executed
    BY <1>3, StatusQuiet DEF ExecutionEnds, Executed
  <2>2. QED BY <1>3, <2>1, NoneQuiet DEF ExecutionEnds, paymentRow, serviceVars
<1>4. QED BY <1>1, <1>2, <1>3, ArriveQuiet, InsertQuiet DEF Elsewhere

-----------------------------------------------------------------------------
LEMMA PolicedStart == ServiceStart /\ PolicyInit => PolicedInv
<1>. SUFFICES ASSUME ServiceStart, PolicyInit PROVE PolicedInv
  OBVIOUS
<1>1. EyesInv
  BY EyesInit DEF ServiceStart
<1>2. PolicyTypeOK
  BY DEF PolicyInit, PolicyTypeOK, Edit
<1>3. AutoInv /\ QuoteInv /\ DemandInv
  BY DEF ServiceStart, StoreInit, ServiceInit, AutoInv, QuoteInv, DemandInv, Executed
<1>4. QED BY <1>1, <1>2, <1>3 DEF PolicedInv

LEMMA PolicedStepInv == PolicedInv /\ [PolicedNext]_policedVars => PolicedInv'
<1>. SUFFICES ASSUME PolicedInv, [PolicedNext]_policedVars
              PROVE  AutoInv' /\ DemandInv' /\ QuoteInv'
  <2>1. PolicedInv /\ [PolicedNext]_policedVars => EyesInv' /\ PolicyTypeOK'
    BY PolicedStep, EyesStep, PolicyTypeStep DEF PolicedInv
  <2>2. QED BY <2>1 DEF PolicedInv
<1>1. CASE \E r \in Requests : PolicedContinue(r)
  BY <1>1, QuoteQuiet, CreateQuiet, ApproveQuiet, ExecuteQuiet, CommitQuiet, UnpolicedQuiet
     DEF PolicedContinue
<1>2. CASE \E r \in Requests : PolicedStop(r)
  BY <1>2, StopQuiet
<1>3. CASE \E e \in Editors : EditPolicy(e)
  BY <1>3, NoneQuiet DEF EditPolicy, ReadPolicy, SetThresholds, SetAssets, storeVars, serviceVars
<1>4. CASE Elsewhere /\ UNCHANGED policyVars
  BY <1>4, ElsewhereQuiet
<1>5. CASE UNCHANGED policedVars
  BY <1>5, NoneQuiet DEF policedVars, policyVars, storeVars, serviceVars
<1>6. QED BY <1>1, <1>2, <1>3, <1>4, <1>5 DEF PolicedNext

LEMMA PolicedDemands == PolicedInv => ExecutedAsPolicyDemands
<1>. SUFFICES ASSUME PolicedInv, NEW p \in Payments, status[p] \in Executed
              PROVE  Cardinality(People(p)) >= demanded[p]
  BY DEF ExecutedAsPolicyDemands
<1>1. /\ IsFiniteSet(approvers[p])
      /\ AuthRequired => createdBy[p] \notin approvers[p]
      /\ Cardinality(approvers[p]) >= required[p]
  BY DEF PolicedInv, EyesInv, RowsInv, FourEyes, Authorised, Executed
<1>2. /\ demanded[p] \in 0 .. 2 /\ required[p] \in 0 .. 2 /\ demanded[p] <= required[p]
      /\ AutoPolicy \in approvers[p] => required[p] = 0
  BY DEF PolicedInv, EyesInv, TypeInv, ServiceTypeOK, StoreTypeOK, PolicyTypeOK, DemandInv, AutoInv
<1>3. Cardinality(People(p)) \in Nat /\ Cardinality(approvers[p]) \in Nat
  <2>1. People(p) \subseteq approvers[p] /\ IsFiniteSet(approvers[p])
    BY <1>1 DEF People
  <2>2. QED BY <2>1, FS_Subset, FS_CardinalityType
<1>4. CASE demanded[p] = 0
  BY <1>3, <1>4
<1>5. CASE demanded[p] # 0
  <2>1. AutoPolicy \notin approvers[p]
    BY <1>2, <1>5
  <2>2. People(p) = approvers[p]
    BY <1>1, <2>1 DEF People
  <2>3. QED BY <1>1, <1>2, <1>3, <2>2
<1>6. QED BY <1>4, <1>5

-----------------------------------------------------------------------------
(* payment-service asking a policy that is edited under it does nothing    *)
(* payment-service could not do under some answers (evaluate,              *)
(* createPayment, approvePayment, executePayment): what is proved of it by *)
(* itself holds here.                                                      *)
THEOREM PolicedImplementsService == PolicedSpec => ServiceSpec
<1>1. ServiceStart /\ PolicyInit => PolicedInv
  BY PolicedStart
<1>2. PolicedInv => PolicyTypeOK
  BY DEF PolicedInv
<1>3. QED BY <1>1, <1>2, PolicedStep, PolicedStepInv, PTL DEF PolicedSpec, ServiceSpec

(* A payment that executes has been approved by as many people as the      *)
(* policy asked when it let it execute, whoever edited the policy in       *)
(* between and however requests interleave ("Approval threshold" of        *)
(* evaluate, executePayment).                                              *)
THEOREM PolicedExecutions == PolicedSpec => []ExecutedAsPolicyDemands
  BY PolicedStart, PolicedStepInv, PolicedDemands, PTL DEF PolicedSpec

(* The row of the policy keeps its type and stays one that validatePolicy  *)
(* accepts, although edits write what others read (POST /policies, POST    *)
(* /policies/assets).                                                      *)
THEOREM PolicedPolicyType == PolicedSpec => []PolicyTypeOK
<1>1. PolicedInv => PolicyTypeOK
  BY DEF PolicedInv
<1>2. QED BY <1>1, PolicedStart, PolicedStepInv, PTL DEF PolicedSpec
=============================================================================
