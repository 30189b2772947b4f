CONSTANTS
  BUF_LEN = 3
  DEPTH = 2
  THRESHOLD = 1
  DEFAULT_TIMEOUT = 2
  INT_MAX = 4
  Counts = {0, 1, 3}
  Timeouts = {0}
  Limits <- MCLimits
SPECIFICATION FairSpec
INVARIANTS TypeOK InOrder NoLostWakeup AsPromised
PROPERTY CallsReturn
CHECK_DEADLOCK FALSE
