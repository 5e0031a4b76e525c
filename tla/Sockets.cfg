SPECIFICATION LifeFairSpec
CONSTANTS
  i1 = i1
  u1 = u1
  Instances <- OneInstance
  Sockets <- ThreeSockets
  Failures <- UnsubFails
  MaxCommands = 4
  Pages <- OnePage
  Home <- There
  MaxCalls <- Twice
  MaxFaults = 1
INVARIANTS
  LifeTypeOK
  OccupiedIsHeard
  OneLine
  AnsweringSurvives
PROPERTIES
  
  OccupiedGetsSubscribed
  GoneLeave
  Reconnects
CHECK_DEADLOCK FALSE
