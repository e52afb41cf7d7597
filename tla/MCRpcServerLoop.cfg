SPECIFICATION MCSpec
CONSTANTS
  Calls <- MCFewCalls
  Lengths = {5}
  MaxGid = 2
  MaxLog = 3
  Clients = {c1, c2}
  Worker = Worker
  NoCall = NoCall
PROPERTY
  BackgroundLoopGoesOn
CHECK_DEADLOCK FALSE
