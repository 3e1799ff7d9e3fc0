SPECIFICATION FairSpec
CONSTANTS
  Submission = {s1, s2}
  Unreadable = {s2}
  Worker = {w1, w2}
  Verdict = {RE}
  InternalError = RE
  None = None
  MaxAttempts = 1
  MaxFaults = 0
  MaxStalls = 0
  MaxLapses = 0
  MaxRuns = 2
PROPERTIES
  EveryoneAnswered
  BoxesSwept
CHECK_DEADLOCK FALSE
