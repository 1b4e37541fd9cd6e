SPECIFICATION CodeSpec
CONSTANTS
  Callers = {a}
  Hello = h
  PipeCap = 1
  MaxChatter = 1
INVARIANTS
  TypeOK
  TableAgrees
PROPERTIES
  StaleSticks
  CallsEnd
