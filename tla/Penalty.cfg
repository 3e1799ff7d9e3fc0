SPECIFICATION Spec
CONSTANTS
  Contestants = {ann}
  Problems = {p}
  Verdicts = {"AC", "WA"}
  Consumers = {c1}
  Beats = {}
  None = None
  MaxSubs = 2
  MaxFails = 0
INVARIANT PenaltyIsTheFormula
CHECK_DEADLOCK FALSE
