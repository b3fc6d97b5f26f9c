SPECIFICATION FairSpec
CONSTANTS
  Timeout = 1
  Lifetime = 5
  tokenExpiryMargin = 3
  Interval = 3
  rawStateTTL = 6
  Base = 1
  Max = 3
  RetryAfters = {4}
  maxAttempts = 3
  MaxFaults = 3
INVARIANTS TokenOutlivesRequest
PROPERTIES DataComesBack
