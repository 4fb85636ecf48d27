\* Two workers; the dead-letter check of one tenant, the chains of two; one fault.
CONSTANTS
  Workers = {w1, w2}
  Tenants = {1, 2}
  CheckTenant <- MCCheckTenant
  DeadLetterChecks <- MCDeadLetterChecks
  None = None
  MaxPending = 1
  MaxFaults = 1
SPECIFICATION FairMonitorSpec
INVARIANTS
  NewestTellsOpen
PROPERTIES
  AlertsFollow
  ChainAlertsFollow
