SPECIFICATION TurnSpec
CONSTANTS
  MaxId = 9
  MaxSteps = 3
  MaxResumes = 1
  EventCap = 2
INVARIANT LandsOnce
