SPECIFICATION FairSpec
CONSTANTS
  Submission = {s1}
  Verdict = {"AC", "RE", "XX"}
  Consumer = {c1, c2}
  Unknown = {"XX"}
  None = None
  MaxTries = 1
  MaxFailures = 2
  MaxFaults = 1
  MaxExits = 1
  MaxArrivals = 2
INVARIANTS
  TypeOK
  NoResultLost
  ToldOnce
  GivenUpOnlyAfterRetries
PROPERTIES
  VerdictFinal
  EveryResultSettled
CHECK_DEADLOCK FALSE
