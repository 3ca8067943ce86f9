CONSTANTS
  Conns = {c1, c2}
  Types = {"presence"}
  SendCap = 1
  QueueCap = 1
  MaxConn = 2
  NoConn = NoConn
  MaxSeq = 1
SPECIFICATION Spec
INVARIANT NoPanics
CHECK_DEADLOCK FALSE
