SPECIFICATION Spec
CONSTANTS
  c1 = c1
  Clients = {c1}
  a = a
  b = b
  Cells = {a, b}
  Undecodable = Undecodable
  Payloads = {a}
  Viewports = {{a}}
  NoSeq = NoSeq
  BufSize = 1
  MaxBacklog = 2
  MaxSeq = 3
  MaxPans = 1
INVARIANT DroppedIsRecoverable
CHECK_DEADLOCK FALSE
