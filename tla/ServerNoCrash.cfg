SPECIFICATION FairSpec
CONSTANTS
  Trainees = {t1, t2}
  Admins = {}
  Cids = {m1, m2}
  ShortCids = {m2}
  Channels = {"socket"}
  Calls = {c1, c2, c3}
  Missing = Missing
  None = None
  MaxCrashes = 0
  DbErrors = TRUE
  LostCommitReplies = FALSE
INVARIANTS FailedCallStoredNothing DedupedWasBroadcast
PROPERTIES CallsAnswered

CHECK_DEADLOCK FALSE
