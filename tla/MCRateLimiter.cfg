CONSTANTS
  IPs = {a, b}
  Rate = 2
  Window = 2
  MaxTime = 5
SPECIFICATION Spec
INVARIANTS WindowBound BurstInv
CHECK_DEADLOCK FALSE
