SPECIFICATION RoundSpec
CONSTANTS
  Contestants = {ann, bob}
  Problems = {p, q}
  Verdicts = {"AC", "WA"}
  Consumers = {c1, c2}
  Beats = {b1, b2}
  None = None
  MaxSubs = 3
  MaxFails = 1
  Readers = {r1, r2}
  Writers = {consumer, rating}
  MaxVersion = 2
  MaxReads = 3
  Viewers = {"page", "rail"}
  Pages = 2
  MaxEvents = 2
  MaxClicks = 3
  MaxLost = 1
INVARIANTS RatedOnceAndTold ScoreCountsSolved  ShownIsAsTold DoubleClickSettles
PROPERTY FinalTableArrives
CHECK_DEADLOCK FALSE
