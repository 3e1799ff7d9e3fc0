SPECIFICATION Spec
CONSTANTS
  Hooks = {"problems", "standings", "contests"}
  PageSize = 1
  MaxChanges = 3
  Owner = Owner
  Other = Other
  None = None
  BellRows = 2
  MaxBatch = 2
  MaxCounts = 1
  MaxSeens = 1
  MaxSignOuts = 1
  Problems = {"p", "q"}
  Verdicts = {"AC"}
  FlowRows = 1
  MaxMoves = 1
  MaxFails = 1
INVARIANTS ListTellsTheTruth NextAccountInheritsNothing LastAskedWins ListIsCurrent
PROPERTIES SearchSettles ShownRowsReachTheServer CountCatchesUp EverySubmitIsAnswered
CHECK_DEADLOCK FALSE
