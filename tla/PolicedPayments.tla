-------------------------- MODULE PolicedPayments --------------------------
(***************************************************************************)
(* payment-service together with the tenant's row of policy.policies       *)
(* (services/policy-service/src): its thresholds, its limit and its list   *)
(* of allowed assets, which operators edit while payments are made.        *)
(*                                                                         *)
(* A create asks policy-service twice: GET /policies, from which it takes  *)
(* the number of approvals, and later POST /evaluate, which judges that    *)
(* number by the policy of its own moment; an approval and an execution    *)
(* are evaluated again.  PaymentService lets every evaluation answer as it *)
(* likes; here the three checks that depend on this row decide, and the    *)
(* others (provider, screening, concentration) keep that freedom.          *)
(***************************************************************************)
EXTENDS PaymentService

CONSTANTS
  Editors,     \* requests that can edit the policy at once
  Assets,      \* assets of the allowlist
  Asset,       \* Asset[p]: what payment p is made in
  AmountEur,   \* AmountEur[p]: its amount converted to EUR
  Thresholds,  \* bound: values operators choose for the two thresholds
  Limits       \* bound: values they choose for the hard transfer limit

ASSUME PolicyAssumption ==
  /\ Asset \in [Payments -> Assets]
  /\ AmountEur \in [Payments -> Nat]
  /\ Thresholds \subseteq Nat /\ Limits \subseteq Nat \ {0}
  /\ \E low, high \in Thresholds : low <= high
  /\ Limits # {}
  /\ "Blocked" \in Verdicts
  /\ None \notin 0 .. 2

VARIABLES
  policy,    \* the row of policy.policies
  editor,    \* what an edit read of it before it writes
  quoted,    \* approvals the policy asked of a request's payment when last read
  \* History, for the property only:
  demanded   \* approvals the policy asked when it let a payment execute

policyRow  == <<policy, editor>>
policyVars == <<policy, editor, quoted, demanded>>
policedVars == <<storeVars, serviceVars, policyVars>>

Policy == [approvalThreshold : Thresholds, secondApprovalThreshold : Thresholds,
           hardTransferLimit : Limits, allowedAssets : SUBSET Assets]

(* validatePolicy, and the CHECK constraints of the table *)
Valid(p) == p.approvalThreshold <= p.secondApprovalThreshold

NoEdit == [doing |-> "nothing"]
Edit == {NoEdit} \cup [doing : {"thresholds", "assets"}, read : Policy]

PolicyTypeOK ==
  /\ policy \in Policy /\ Valid(policy)
  /\ editor \in [Editors -> Edit]
  /\ quoted \in [Requests -> 0 .. 2 \cup {None}]
  /\ demanded \in [Payments -> 0 .. 2]

PolicyInit ==
  /\ policy \in Policy /\ Valid(policy)
  /\ editor = [e \in Editors |-> NoEdit]
  /\ quoted = [r \in Requests |-> None]
  /\ demanded = [p \in Payments |-> 0]

-----------------------------------------------------------------------------
(* evaluate.mjs and policy-math.mjs *)

RequiredApprovals(amount, p) ==
  IF amount >= p.secondApprovalThreshold THEN 2
  ELSE IF amount >= p.approvalThreshold THEN 1 ELSE 0

(* Mutant: the approvals the payment carries are not judged again *)
PolicyClearsUncounted(p, needs) ==
  /\ Asset[p] \in policy.allowedAssets
  /\ AmountEur[p] <= policy.hardTransferLimit

(* The checks Asset allowlist, Transfer limit and Approval threshold of a *)
(* payment that needs so many approvals                                    *)
PolicyClears(p, needs) ==
  /\ Asset[p] \in policy.allowedAssets
  /\ AmountEur[p] <= policy.hardTransferLimit
  /\ needs >= RequiredApprovals(AmountEur[p], policy)

-----------------------------------------------------------------------------
(* policy-service's POST handlers: a SELECT, then an UPDATE of columns that *)
(* no lock protects in between                                             *)

ReadPolicy(e, what) ==
  /\ editor[e] = NoEdit
  /\ editor' = [editor EXCEPT ![e] = [doing |-> what, read |-> policy]]
  /\ UNCHANGED <<storeVars, serviceVars, policy, quoted, demanded>>

Doing(e, what) == editor[e] # NoEdit /\ editor[e].doing = what
Edited(e) == editor' = [editor EXCEPT ![e] = NoEdit]

(* POST /policies: the body's numbers replace what was read, the result is *)
(* validated, and all the numbers are written                              *)
SetThresholds(e, low, high, limit) ==
  /\ Doing(e, "thresholds")
  /\ low \in Thresholds \cup {editor[e].read.approvalThreshold}
  /\ high \in Thresholds \cup {editor[e].read.secondApprovalThreshold}
  /\ limit \in Limits \cup {editor[e].read.hardTransferLimit}
  /\ low <= high
  /\ policy' = [policy EXCEPT !.approvalThreshold = low, !.secondApprovalThreshold = high,
                              !.hardTransferLimit = limit]
  /\ Edited(e)
  /\ UNCHANGED <<storeVars, serviceVars, quoted, demanded>>

(* POST /policies/assets/:assetId: the list that was read, with or without *)
(* the asset, replaces the list of the row                                 *)
SetAssets(e, a, enabled) ==
  /\ Doing(e, "assets")
  /\ policy' = [policy EXCEPT !.allowedAssets =
       IF enabled THEN editor[e].read.allowedAssets \cup {a} ELSE editor[e].read.allowedAssets \ {a}]
  /\ Edited(e)
  /\ UNCHANGED <<storeVars, serviceVars, quoted, demanded>>

EditPolicy(e) ==
  \/ \E what \in {"thresholds", "assets"} : ReadPolicy(e, what)
  \/ \E low, high \in Thresholds, limit \in Limits : SetThresholds(e, low, high, limit)
  \/ \E a \in Assets, enabled \in BOOLEAN : SetAssets(e, a, enabled)

-----------------------------------------------------------------------------
(* payment-service under this policy *)

Quote(r, n) == quoted' = [quoted EXCEPT ![r] = n]

(* GET /policies in createPayment *)
QuotePolicy(r) ==
  /\ stage[r] = "create" /\ quoted[r] = None
  /\ Quote(r, RequiredApprovals(AmountEur[req[r].payment], policy))
  /\ UNCHANGED <<storeVars, serviceVars, policyRow, demanded>>

PolicedCreate(r) ==
  /\ quoted[r] # None
  /\ CreateEvaluate(r, quoted[r])
  /\ PolicyClears(req[r].payment, quoted[r]) \/ req'[r].initial = "Blocked"
  /\ Quote(r, None)
  /\ UNCHANGED <<policyRow, demanded>>

PolicedApprove(r) ==
  /\ ApproveEvaluate(r)
  /\ LET p == req[r].payment IN PolicyClears(p, required[p]) \/ stage'[r] = "approve_block"
  /\ UNCHANGED policyVars

PolicedExecute(r) ==
  /\ ExecuteEvaluate(r)
  /\ LET p == req[r].payment IN
       /\ PolicyClears(p, required[p]) \/ stage'[r] = "execute_block"
       /\ Quote(r, IF stage'[r] = "execute_commit"
                     THEN RequiredApprovals(AmountEur[p], policy) ELSE None)
  /\ UNCHANGED <<policyRow, demanded>>

PolicedCommit(r) ==
  /\ ExecuteCommit(r)
  /\ LET p == req[r].payment IN
       demanded' = IF status[p] = "Approved" THEN [demanded EXCEPT ![p] = quoted[r]] ELSE demanded
  /\ Quote(r, None)
  /\ UNCHANGED policyRow

(* The handler goes no further, and forgets what it read *)
PolicedStop(r) ==
  /\ CreateError(r) \/ Abandon(r)
  /\ Quote(r, None)
  /\ UNCHANGED <<policyRow, demanded>>

(* Steps that do not ask the policy *)
Unpoliced(r) ==
  \/ CreateInsert(r) \/ CreateRelease(r)
  \/ ApproveBlock(r) \/ ApproveCommit(r)
  \/ ExecuteBlock(r)
  \/ CancelCommit(r)
  \/ RetryReopen(r) \/ RetryEnqueue(r)

PolicedContinue(r) ==
  \/ QuotePolicy(r)
  \/ PolicedCreate(r)
  \/ PolicedApprove(r)
  \/ PolicedExecute(r)
  \/ PolicedCommit(r)
  \/ Unpoliced(r) /\ UNCHANGED policyVars

(* Requests arriving, lost commit replies, clean-up jobs and the worker *)
Elsewhere ==
  \/ \E r \in Requests : Arrive(r) \/ CreateCommitLost(r)
  \/ \E S \in SUBSET Payments : ExpireStale(S)
  \/ \E k \in Keys : SweepKey(k)
  \/ \E p \in Payments, to \in {"Settled", "Failed"} : ExecutionEnds(p, to)

PolicedNext ==
  \/ \E r \in Requests : PolicedContinue(r) \/ PolicedStop(r)
  \/ \E e \in Editors : EditPolicy(e)
  \/ Elsewhere /\ UNCHANGED policyVars

PolicedSpec == ServiceStart /\ PolicyInit /\ [][PolicedNext]_policedVars

(* A handler that has started runs on unless its process dies *)
PolicedFairness == \A r \in Requests : WF_policedVars(PolicedContinue(r))
FairPolicedSpec == PolicedSpec /\ PolicedFairness

-----------------------------------------------------------------------------
(* However the policy is edited between the read that fixed the number of  *)
(* approvals, the evaluations and the approvals themselves, a payment that *)
(* was ever let through to execution has the approval of as many people,   *)
(* its creator not among them, as the policy asked when it let it through  *)
(* (the "Approval threshold" check of evaluate, and executePayment).       *)
Executed == {"Executing", "Settled", "Failed"}
People(p) == approvers[p] \ ({AutoPolicy} \cup (IF AuthRequired THEN {createdBy[p]} ELSE {}))
ExecutedAsPolicyDemands ==
  \A p \in Payments : status[p] \in Executed => Cardinality(People(p)) >= demanded[p]
=============================================================================
