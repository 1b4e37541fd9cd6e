SPECIFICATION PumpSpec
CONSTANTS
  Writers = "terminal"
  MaxIssues = 2
  Cap = 2
INVARIANT SubmitOnePiece
CHECK_DEADLOCK FALSE
