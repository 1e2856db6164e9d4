SPECIFICATION Spec
CONSTANTS
  Trainees = {t1}
  Admins = {a1}
  Cids = {m1, m2}
  ShortCids = {}
  Channels = {"socket"}
  Calls = {c1, c2, c3}
  Missing = Missing
  None = None
  MaxCrashes = 0
  DbErrors = FALSE
  LostCommitReplies = FALSE
INVARIANTS SummaryIsNewest

CHECK_DEADLOCK FALSE
