SPECIFICATION Spec
CONSTANTS
  a1 = a1
  z1 = z1
  e1 = e1
  e2 = e2
  Missing = Missing
  None = None
  Garbled = Garbled
  Aircraft = {a1}
  Zones = {z1}
  EnvZones = {z1}
  Entries = {}
  EnvEntries = {}
  Watches <- MCWatches
  Readings <- Core
  DeltaThreshold = 1
  WarningThreshold = 2
  Silence = 1
  evictAfterMultiple = 2
  Horizon = 1
  MaxTime = 3
  MaxLag = 1
  MaxUpdates = 2
  MaxEdits = 0
  MaxFaults = 1
INVARIANTS TypeOK EventsTellContainment AckedIsHandled DeltaBaselines
PROPERTIES StaleNeedsSighting
CHECK_DEADLOCK FALSE
