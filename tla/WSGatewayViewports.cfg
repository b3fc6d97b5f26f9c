SPECIFICATION Spec
CONSTANTS
  c1 = c1
  Clients = {c1}
  a = a
  b = b
  Cells = {a, b}
  Undecodable = Undecodable
  Payloads = {a, b, Undecodable}
  Viewports = {{a}, {a, b}}
  NoSeq = NoSeq
  BufSize = 1
  MaxBacklog = 2
  MaxSeq = 2
  MaxPans = 1
INVARIANT ViewportsAgree
PROPERTY ImplementsFeed
CHECK_DEADLOCK FALSE
