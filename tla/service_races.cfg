\* Two requests race on two payments and one key; requests may die between steps, and the COMMIT
\* of a create without a key may lose its reply (under a key, the retry makes a second payment).
\* The wallet can pay for one of the payments.
CONSTANTS
  p1 = p1  p2 = p2  j1 = j1  j2 = j2  ann = ann  bob = bob  r1 = r1  r2 = r2  k1 = k1  b1 = b1  b2 = b2
  Payments = {p1, p2}
  Jobs = {j1, j2}
  Users = {ann, bob}
  System = System
  AutoPolicy = AutoPolicy
  None = None
  Total <- MCTotal
  OpeningBalance = 1
  Verdicts = {"Clear", "Review", "Blocked"}
  Requests = {r1, r2}
  Keys = {k1}
  Bodies = {b1, b2}
  AuthRequired = TRUE
  ServiceFaults = {"abandon", "commit_unkeyed"}
SPECIFICATION ServiceSpec
INVARIANTS FourEyes OnePaymentPerKey ReplayIsOriginal
PROPERTY DecisionsAudited
SYMMETRY ServiceSymmetry
\* Ids are finite: once all are used and every payment is over, nothing is left to do.
CHECK_DEADLOCK FALSE
