SPECIFICATION MCSpec
CONSTANTS
  Calls <- MCCalls
  Lengths = {5}
  MaxGid = 3
  MaxLog = 4
INVARIANTS
  EngineTypeOK
  SnapshotExact
  NothingRunnableLeft
PROPERTY
  OutcomeOnlyFromWaiting
