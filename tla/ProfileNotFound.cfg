SPECIFICATION Spec
CONSTANTS
  Members = {"ann", "bob"}
  Me = "ann"
  Ghost = "ghost"
  None = None
  MaxVisits = 1
  MaxEdits = 2
  MaxFails = 1
INVARIANT NotFoundIsTrue
CHECK_DEADLOCK FALSE
