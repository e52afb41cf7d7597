SPECIFICATION MCSpec
CONSTANTS
  a = a
  b = b
  Files = {a, b}
  Length = 3
  Tasks <- MCTasks
  OldFiles <- MCOldFiles
  MaxAttempts = 2
SYMMETRY MCSymmetry
INVARIANTS
  TransferTypeOK
  ControlBacked
  CompleteHolds
  FirstAttemptExact
