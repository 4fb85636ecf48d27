\* One relay that lives, two audit events, an event without a route and a direct append:
\* a chain of up to three rows.
CONSTANTS
  ra = ra  rb = rb  h1 = h1  h2 = h2  login = login
  Events = {1, 2, 3}
  Inserts = {}
  Unrouted = {2}
  Direct = {login}
  Relays = {ra}
  Handlers = {h1, h2}
  BatchSize = 2
  MaxRetries = 2
  RelayFaults = {"timeout", "consumer"}
  Nobody = Nobody
SPECIFICATION FairRelaySpec
INVARIANT ChainVerifies
PROPERTY EventsEnd
\* Once every event is published or dead-lettered nothing is left to do.
CHECK_DEADLOCK FALSE
