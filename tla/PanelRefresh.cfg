SPECIFICATION Spec
CONSTANTS
  Viewers = {"page"}
  Pages = 2
  MaxEvents = 1
PROPERTY RefreshKeepsThePlace
CHECK_DEADLOCK FALSE
