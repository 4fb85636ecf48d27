\* One worker that never dies, on the simulated rail that remembers keys per process.
CONSTANTS
  p1 = p1  p2 = p2  j1 = j1  j2 = j2  w1 = w1  w2 = w2
  Payments = {p1, p2}
  Jobs = {j1, j2}
  Users = {}
  System = System
  AutoPolicy = AutoPolicy
  None = None
  Total <- MCTotal
  OpeningBalance = 2
  Verdicts = {"Clear", "Review", "Blocked"}
  Workers = {w1}
  MaxAttempts = 2
  BatchLimit = 2
  Faults = {"step", "timeout", "reject", "ambiguous"}
SPECIFICATION FairSagaSpec
INVARIANT OneTransfer
PROPERTIES  JobsEnd
\* Ids are finite: once all are used and every payment is over, nothing is left to do.
CHECK_DEADLOCK FALSE
