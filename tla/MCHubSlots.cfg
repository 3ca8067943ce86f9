CONSTANTS
  Conns = {c1, c2}
  Types = {"presence"}
  SendCap = 1
  QueueCap = 1
  MaxConn = 1
  NoConn = NoConn
  MaxSeq = 1
SPECIFICATION Spec
INVARIANTS SlotAccounting
PROPERTIES ImplementsSlotPool SlotReleased ReaderReturns
CHECK_DEADLOCK FALSE
