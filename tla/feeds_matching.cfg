\* Two statements that share a transfer, one webhook, two overlapping runs.
CONSTANTS
  p1 = p1  s1 = s1  s2 = s2  l1 = l1  l2 = l2  e1 = e1  m1 = m1  m2 = m2
  Payments = {p1}
  Statements = {s1, s2}
  Lines = {l1, l2}
  Events = {e1}
  Runs = {m1, m2}
  None = None
  StatementOf <- MCStatementOf
  RefOf <- MCRefOf
  Order <- MCOrder
  Differs <- MCDiffers
  Twins <- MCTwins
  Period <- MCPeriod
  EventRef <- MCEventRef
  InFlight = {p1}
  MaxAttempts <- MCMaxAttempts
  MaxResolves = 1
SPECIFICATION FeedsSpec
INVARIANTS
  FeedsType
  MatchedRowOnce
  MatchedLineHasRow
  ExceptionExplained
  ProcessedIsQueued
CHECK_DEADLOCK FALSE
SYMMETRY MCSymmetry
