SPECIFICATION Spec
CONSTANTS
  Problems = {"p"}
  Verdicts = {"AC"}
  MaxRows = 1
  MaxFails = 0
  MaxMoves = 0
INVARIANT SocketMissesNothing
CHECK_DEADLOCK FALSE
