SPECIFICATION FairSpec
CONSTANTS
  a1 = a1
  Aircraft = {a1}
  Providers = {1, 2}
  Types = {}
  Categories = {}
  Unknown = Unknown
  Window = 1
  Shapes <- MCShapes
  Absent = Absent
  Never = Never
  RawTTL = 3
  HotTTL = 1
  MaxTime = 3
  Garblers = {2}
  MaxFaults = 1
INVARIANTS TypeOK GeoCoversHot DedupTracksStream NoRedundantPublish
PROPERTIES PublishedWasPersisted RegressBounded EventuallyPublished EventuallyPruned
CHECK_DEADLOCK FALSE
