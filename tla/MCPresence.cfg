CONSTANTS
  Activities = {empty, game}
  Empty = empty
  Subs = {s1, s2}
  SemCap = 1
  MaxGen = 2
  MaxStarts = 2
SPECIFICATION Spec
INVARIANTS PresenceInv
PROPERTIES ImplementsFeed Converges StopReturns NotifyTerminates
CHECK_DEADLOCK FALSE
