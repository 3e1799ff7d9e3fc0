SPECIFICATION Spec
CONSTANTS
  Submission = {s1, s2}
  Unreadable = {s2}
  Worker = {w1, w2}
  Verdict = {RE}
  InternalError = RE
  None = None
  MaxAttempts = 1
  MaxFaults = 1
  MaxStalls = 1
  MaxLapses = 1
  MaxRuns = 2
SYMMETRY WorkerSymmetry
INVARIANTS
  TypeOK
  NoSubmissionLost
  WorkInHandIsKept
  OneJudge
  PoisonBounded
CHECK_DEADLOCK FALSE
