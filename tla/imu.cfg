SPECIFICATION FairSpec
CONSTANTS
  B = 2
  MaxIncrement = 2
  QueueSize = 6
  Axes = 2
  Measures = 1
  ServiceStuck = 2
  BusyLimit = 2
  LogicStuck = 28
  MaxTurns = 2
  MaxEvents = 2
  MaxPiled = 2
INVARIANTS
  ImuTypeOK
  StepsAreReal
PROPERTIES
  AnswersFit
  StepsKeepComing
