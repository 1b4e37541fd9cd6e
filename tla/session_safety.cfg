SPECIFICATION RSpec
CONSTANTS
  Prompts = {p1, p2, p3}
  NoPrompt = NoPrompt
  MaxSteering = 2
  MaxSteps = 2
SYMMETRY Symmetry
INVARIANTS
  TypeOK
  WordsInPlace
  OneWordReadout
PROPERTIES
  StopsAreKept
  QueueSharesFate
  Refines
