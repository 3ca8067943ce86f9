CONSTANTS
  Tabs = {t1, t2}
  Tokens = {k1, k2}
  NoToken = none
  TTL = 2
  BaseDelay = 1
  MaxDelay = 3
  MaxOpens = 3
  MaxRestarts = 1
  MaxDrops = 1
SPECIFICATION Spec
PROPERTY CookieValidated
CHECK_DEADLOCK FALSE
