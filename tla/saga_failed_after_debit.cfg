\* One worker, one job, one payment that costs all there is; a step after the debit throws.
CONSTANTS
  p1 = p1  p2 = p2  j1 = j1  j2 = j2  w1 = w1  w2 = w2
  Payments = {p1}
  Jobs = {j1}
  Users = {}
  System = System
  AutoPolicy = AutoPolicy
  None = None
  Total <- MCTotal
  OpeningBalance = 1
  Verdicts = {"Clear"}
  Workers = {w1}
  MaxAttempts = 2
  BatchLimit = 1
  Faults = {"step"}
SPECIFICATION SagaSpec
INVARIANT NeverFailedAfterDebit
\* Ids are finite: once all are used and every payment is over, nothing is left to do.
CHECK_DEADLOCK FALSE
