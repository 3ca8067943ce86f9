CONSTANTS
  MaxSessions = 2
  MaxAttempts = 3
  EventCap = 1
  BaseInterval = 40
  MaxInterval = 60
  MaxDuration = 127
  AutoReconnect = TRUE
SPECIFICATION Spec
INVARIANTS SessionInv BackoffExact
PROPERTIES HungSessionEnds RecoversOrGivesUp EndAnnounced LiveSessionDrained LoopReturns
CHECK_DEADLOCK FALSE
