SPECIFICATION FairSpec
CONSTANTS
  c1 = c1
  Clients = {c1}
  a = a
  b = b
  Cells = {a, b}
  Undecodable = Undecodable
  Payloads = {a}
  Viewports = {{a}}
  NoSeq = NoSeq
  BufSize = 2
  MaxBacklog = 2
  MaxSeq = 4
  MaxPans = 1
INVARIANTS TypeOK NoDuplicateDelivery GapsAreAccountedFor
PROPERTIES ResumePointAdvances EventuallyCaughtUp
CHECK_DEADLOCK FALSE
