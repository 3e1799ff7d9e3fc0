SPECIFICATION Spec
CONSTANTS
  Submission = {s1}
  Unreadable = {}
  Worker = {w1}
  Verdict = {AC, RE}
  InternalError = RE
  None = None
  MaxAttempts = 1
  MaxFaults = 1
  MaxStalls = 0
  MaxLapses = 0
  MaxRuns = 2
INVARIANT OwnListIsInHand
CHECK_DEADLOCK FALSE
