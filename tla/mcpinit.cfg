SPECIFICATION MCSpec
CONSTANTS
  Servers = {s1, s2}
  OAuth = {s1}
  EventCaps = {2, 12}
  MaxAnswers = 2
  Idle = Idle
  Callers = {c1}
  Get = Get
  Nobody = Nobody
INVARIANTS
  TypeOK
  ToldIsSo
  NobodyForgotten
PROPERTIES
  InitEnds
CHECK_DEADLOCK FALSE
