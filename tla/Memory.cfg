CONSTANTS
  NumApps = 2
  NumPorts = 2
  NumChannels = 2
  EnabledPorts <- MCEnabledPorts
  AppSpan = 2
  Address = {0, 1}
  XlateDepth = 1
  MergeDepth = 1
  ArbDepth = 1
  TagDepth = 2
  RespDepth = 2
  OutDepth = 1
  MaxSent = 4
  Deaf <- MCDeaf
SPECIFICATION Spec
INVARIANTS
  TypeOK
  AnswersInOrder
  ReadsSeeWrites
  RoomForAnswers
PROPERTY ReadsAnswered
CHECK_DEADLOCK FALSE
