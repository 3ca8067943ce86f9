CONSTANTS
  Base = 1
  Cap = 3
  OutCap = 1
  MaxDials = 2
  MaxMsgs = 2
SPECIFICATION Spec
INVARIANTS CommandInv
PROPERTIES ShownInOrder LossNoticed DialsAgain
CHECK_DEADLOCK FALSE
