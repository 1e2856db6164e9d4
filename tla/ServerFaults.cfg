SPECIFICATION Spec
CONSTANTS
  Trainees = {t1}
  Admins = {a1}
  Cids = {m1}
  ShortCids = {}
  Channels = {"socket", "rest"}
  Calls = {c1, c2, c3}
  Missing = Missing
  None = None
  MaxCrashes = 1
  DbErrors = TRUE
  LostCommitReplies = TRUE
SYMMETRY CallSymmetry
INVARIANTS TypeOK OneRowPerMessage AckNamesTheRow UnreadCountsUnseen SummaryIsOfARow AnnouncedOnce
PROPERTIES ImplementsPromise
CHECK_DEADLOCK FALSE
