SPECIFICATION Spec
CONSTANTS
  Providers = {1, 2, 3}
  Types = {}
  Categories = {}
  Unknown = Unknown
  Window = 1
  MaxSeen = 2
  Inputs <- MCInputs
INVARIANT ReturnsWinner
CHECK_DEADLOCK FALSE
