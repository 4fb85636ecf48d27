\* Two payments of 1 and 2 draw on a wallet of 2, in batches of up to two jobs.
CONSTANTS
  p1 = p1  p2 = p2  j1 = j1  j2 = j2  w1 = w1  w2 = w2
  Payments = {p1, p2}
  Jobs = {j1, j2}
  Users = {}
  System = System
  AutoPolicy = AutoPolicy
  None = None
  Total <- MCTotal
  OpeningBalance = 2
  Verdicts = {"Clear", "Review", "Blocked"}
  Workers = {w1, w2}
  MaxAttempts = 2
  BatchLimit = 2
  Faults = {"step", "timeout", "reject", "ambiguous", "crash", "abort"}
SPECIFICATION SagaSpec
INVARIANTS SettledMeansPaid PaidOnce ClaimedOnce BooksInOrder
SYMMETRY WorkerSymmetry
\* Ids are finite: once all are used and every payment is over, nothing is left to do.
CHECK_DEADLOCK FALSE
