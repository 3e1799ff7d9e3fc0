SPECIFICATION FairSpec
CONSTANTS
  Submission = {s1}
  Unreadable = {}
  Worker = {w1, w2}
  Consumer = {c1}
  Verdict = {"RE"}
  InternalError = "RE"
  Unknown = {}
  None = None
  MaxAttempts = 1
  MaxTries = 1
  MaxFaults = 0
  MaxStalls = 0
  MaxLapses = 0
  MaxRuns = 2
  MaxFailures = 1
  MaxConsumerFaults = 0
  MaxExits = 1
  MaxPushFaults = 1
INVARIANT NothingLost
PROPERTIES ImplementsLifecycle EverySubmissionSettled
CHECK_DEADLOCK FALSE
