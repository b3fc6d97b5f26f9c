SPECIFICATION FairReplaySpec
CONSTANTS
  a1 = a1
  Aircraft = {a1}
  Events = {}
  Interval = 1
  evictAfterMultiple = 6
  Retention = 1
  eventMaxDeliver = 1
  MaxTime = 2
  MaxLag = 1
  MaxUpdates = 2
  MaxGarbled = 1
  MaxLives = 1
  MaxFaults = 0
  Windows = {2}
  MaxRows = 2
  FetchBatch = 1
  MaxCalls = 2
INVARIANTS FrameIsLatest StreamPartComplete PlayerShowsWhatWasAsked
PROPERTIES LoadingEnds
CHECK_DEADLOCK FALSE
