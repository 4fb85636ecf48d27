\* Creates, approvals and executions of a payment while an operator edits the policy; a COMMIT
\* may lose its reply, but no process dies.
CONSTANTS
  p1 = p1  j1 = j1  ann = ann  bob = bob  r1 = r1  r2 = r2  k1 = k1  b1 = b1  e1 = e1  eurc = eurc
  Payments = {p1}
  Jobs = {j1}
  Users = {ann, bob}
  System = System
  AutoPolicy = AutoPolicy
  None = None
  Total <- MCTotal
  OpeningBalance = 1
  Verdicts = {"Clear", "Review", "Blocked"}
  Requests = {r1, r2}
  Keys = {k1}
  Bodies = {b1}
  AuthRequired = TRUE
  ServiceFaults = {"commit"}
  Editors = {e1}
  Assets = {eurc}
  Asset <- MCAsset
  AmountEur <- MCAmount
  Thresholds = {2, 3}
  Limits = {1, 2}
SPECIFICATION FairPolicedSpec
INVARIANTS ExecutedAsPolicyDemands
PROPERTY PendingKeysResolve
\* Ids are finite: once all are used and every payment is over, nothing is left to do.
CHECK_DEADLOCK FALSE
