CONSTANTS
  Activities = {empty, game}
  Empty = empty
  NoSource = nosource
  Clients = {c1}
  EventCap = 1
  BroadcastCap = 2
  SendCap = 2
  MaxEvents = 4
  MaxSessions = 2
SPECIFICATION Spec
INVARIANTS TypeOK LatestReaches StateTruthful
PROPERTIES LossReachesClients
CHECK_DEADLOCK FALSE
