SPECIFICATION Spec
CONSTANTS
  MaxTools = 2
  MaxServers = 0
  MaxTasks = 1
  Keys = {"tab", "ctrl+g", "ctrl+a", "y", "n", "esc", "c", "enter"}
  Texts = {"words", ":cancel"}
  Themes <- SomeThemes
  StartThemes = {"dark", ""}
  Filters = {{"light", "solar", "1", "2"}, {"3"}}
  Lists <- SomeLists
  MaySaveFail = TRUE
  MaxKeys = 6
INVARIANTS
  PaintIsTrue
  TranscriptHolds
  KeysAreRead
  DialogsAgree
PROPERTIES
  ShowsChange
  NoTraceStays
  QuitEnds
CHECK_DEADLOCK FALSE
