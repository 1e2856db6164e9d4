CONSTANTS
  LastMsg = 2
  Own = {2}
  Editable = {1, 2}
  Deletable = {1, 2}
  PageLimit = 1
  MaxTurns = 2
  MaxMoves = 3
  PinMsgs = {a, b}
  Mine = {a, b}
  PinCalls = {p, q}
SPECIFICATION PageSpec
INVARIANTS PageTypeOK NoDuplicates SettledListIsCurrent OneTraineePin
PROPERTIES OnlyDeletionRemoves
CHECK_DEADLOCK FALSE
