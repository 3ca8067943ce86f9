CONSTANTS
  Conns = {c1, c2}
  Types = {"presence"}
  SendCap = 1
  QueueCap = 1
  MaxConn = 2
  NoConn = NoConn
  MaxSeq = 2
SPECIFICATION Spec
SYMMETRY Symmetry
INVARIANTS TypeOK HubNeverPanics PanicOnlyInShutdown HubInv MapMatchesChannels DeliveryOrder
CHECK_DEADLOCK FALSE
