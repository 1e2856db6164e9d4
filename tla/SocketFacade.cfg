SPECIFICATION Spec
CONSTANTS
  Sockets = {s1, s2, s3, s4}
  None = None
  MaxEpoch = 2
  MaxRefreshes = 1
SYMMETRY SocketSymmetry
INVARIANTS TypeOK LiveSocketOfThisEpoch JoinedRebuildIsCurrent RebuildingIsReal DiscardedStaysOff
CHECK_DEADLOCK FALSE
