\* Two relays, an audit event, an alert, an event without a route and a direct append; every fault.
CONSTANTS
  ra = ra  rb = rb  h1 = h1  h2 = h2  login = login
  Events = {1, 2, 3}
  Inserts = {2}
  Unrouted = {3}
  Direct = {login}
  Relays = {ra, rb}
  Handlers = {h1, h2}
  BatchSize = 1
  MaxRetries = 2
  RelayFaults = {"timeout", "consumer", "commit", "mark", "cycle", "crash", "operator"}
  Nobody = Nobody
SPECIFICATION RelaySpec
INVARIANTS AppliedOnce PublishedIsApplied AppendsSerialize
SYMMETRY RelaySymmetry
\* Once every event is published nothing is left to do.
CHECK_DEADLOCK FALSE
