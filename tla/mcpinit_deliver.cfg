SPECIFICATION FairSpec
CONSTANTS
  Servers = {s1}
  OAuth = {s1}
  EventCaps = {1}
  MaxAnswers = 2
  Idle = Idle
CHECK_DEADLOCK FALSE
PROPERTY
  DeliverReturns
