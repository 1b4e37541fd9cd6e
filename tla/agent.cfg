CONSTANTS
  Calls = {c1, c2}
  ResultCap = 1
  MaxId = 8
  MaxSteps = 3
  MaxResumes = 1
  EventCap = 2
SPECIFICATION AgentSpec
INVARIANTS
  TypeOK
  HistoriesAgree
  RequestsAreDue
  RecordIsWhatRan
  ToolsRunInTurn
PROPERTIES
  TasksEnd
