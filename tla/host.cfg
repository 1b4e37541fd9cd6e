CONSTANTS
  Override = ""
  Default = "d"
  Broken = {"x"}
  Confs <- SomeConfs
  Noted = {"a"}
  Filed = {"b"}
  Levels = {0, 1}
  MaxChanges = 3
  Posts = {p1, p2}
  MaxTokens = 2
  MaxStarts = 2
  NoToken = NoToken
  Writers = "raw"
  MaxIssues = 3
  Cap = 1
  MaxParts = 2
  MaxChunks = 1
  MaxBlocks = 3
  MaxDeltas = 1
  AtOnce = 2
  MaxSeen = 2
  Servers = {"server"}
SPECIFICATION Spec
INVARIANTS
  TokenKept
  InputAccounted
  AdaptersAreTrue
  WireIsTrue
  SettingsHeld
  ToolAnswersAreTrue
  ForkIsPaired
PROPERTIES
  ChangesAreExact
  LoadIsWhatWasSaved
  CallsReturn
CHECK_DEADLOCK FALSE
