SPECIFICATION FairSpec
CONSTANTS
  Prompts = {p1, p2}
  NoPrompt = NoPrompt
  MaxSteering = 2
  MaxSteps = 2
PROPERTIES
  CancelEnds
  Closes
  WordsSettle
