SPECIFICATION Spec
CONSTANTS
  Accounts = {ann, bob}
  None = None
  MaxPairs = 3
  MaxCalls = 2
  MaxMishaps = 1
  MaxTries = 2
  MaxMoves = 3
  Members = {Me, Other}
  Me = Me
  Ghost = Ghost
  MaxVisits = 1
  MaxEdits = 2
  MaxFails = 1
  PageSize = 1
  MaxRows = 3
  MaxPages = 2
  Slots = {"solo", "round"}
  Gone = "old"
  Typed = {""}
  MaxSubmits = 1
  MaxForeign = 1
SYMMETRY AccountSymmetry
INVARIANTS SessionSurvivesExpiry SignedOutStaysOut ShownIsSignedIn LandsWhereItStarted BlocksAgree ProfileIsCurrent FeedSkipsNothing ShownIsSubmitted ReloadKeepsWork
PROPERTY FeedKeepsItsPlace
CHECK_DEADLOCK FALSE
