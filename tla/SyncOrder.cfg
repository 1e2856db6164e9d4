CONSTANTS
  LastMsg = 2
  Own = {}
  Editable = {}
  Deletable = {}
  PageLimit = 1
  MaxTurns = 2
  MaxMoves = 2
  PinMsgs = {a}
  Mine = {}
  PinCalls = {}
SPECIFICATION PageSpec
PROPERTIES PreservedAreNewest
CHECK_DEADLOCK FALSE
