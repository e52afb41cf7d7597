SPECIFICATION MCSpec
CONSTANTS
  Calls <- MCCalls
  Lengths = {5}
  MaxGid = 2
  MaxLog = 3
  Clients = {c1, c2}
  Worker = Worker
  NoCall = NoCall
INVARIANTS
  ServerTypeOK
  EngineHeldByOne
PROPERTIES
  EngineSpec
  RequestAnswered
  WaitingTaskTaken
  ShutdownCompletes
CHECK_DEADLOCK FALSE
