SPECIFICATION Spec
CONSTANTS
  Sockets = {s1, s2, s3}
  None = None
  MaxEpoch = 1
  MaxRefreshes = 1
INVARIANTS LiveSocketListens
CHECK_DEADLOCK FALSE
