SPECIFICATION FairSpec
CONSTANTS
  a1 = a1
  z1 = z1
  e1 = e1
  e2 = e2
  Missing = Missing
  None = None
  Garbled = Garbled
  Aircraft = {a1}
  Zones = {z1}
  EnvZones = {}
  Entries = {e1, e2}
  EnvEntries = {e1}
  Watches <- MCWatches
  Readings <- InSome
  DeltaThreshold = 1
  WarningThreshold = 2
  Silence = 1
  evictAfterMultiple = 1
  Horizon = 0
  MaxTime = 2
  MaxLag = 0
  MaxUpdates = 1
  MaxEdits = 2
  MaxFaults = 1
PROPERTIES EventuallyHandled EventuallyFlagged EventuallyForgotten EventuallyEffective
CHECK_DEADLOCK FALSE
