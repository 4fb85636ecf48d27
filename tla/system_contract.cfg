\* One payment from its creation to its end: two racing requests, two workers, every saga fault.
CONSTANTS
  p1 = p1  p2 = p2  j1 = j1  j2 = j2  ann = ann  bob = bob  r1 = r1  r2 = r2  w1 = w1  w2 = w2  b1 = b1
  Payments = {p1}
  Jobs = {j1, j2}
  Users = {ann}
  System = System
  AutoPolicy = AutoPolicy
  None = None
  Total <- MCTotal
  OpeningBalance = 1
  Verdicts = {"Clear", "Blocked"}
  Requests = {r1, r2}
  Keys = {}
  Bodies = {b1}
  AuthRequired = FALSE
  ServiceFaults = {}
  Workers = {w1, w2}
  MaxAttempts = 1
  BatchLimit = 1
  Faults = {"step", "timeout", "reject", "ambiguous", "crash", "abort"}
SPECIFICATION Spec
INVARIANTS VoidMovesNoMoney ExecutingHasJob
PROPERTY ImplementsContract
SYMMETRY SystemSymmetry
\* Ids are finite: once all are used and every payment is over, nothing is left to do.
CHECK_DEADLOCK FALSE
