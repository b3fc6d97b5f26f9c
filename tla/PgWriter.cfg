SPECIFICATION FairSpec
CONSTANTS
  a1 = a1
  e1 = e1
  Aircraft = {a1}
  Events = {e1}
  Interval = 2
  evictAfterMultiple = 2
  Retention = 4
  eventMaxDeliver = 2
  MaxTime = 5
  MaxLag = 0
  MaxUpdates = 2
  MaxGarbled = 0
  MaxLives = 2
  MaxFaults = 1
INVARIANTS OneRowPerInterval SkipsOnlyAfterRow
PROPERTIES EventsSettle
CHECK_DEADLOCK FALSE
