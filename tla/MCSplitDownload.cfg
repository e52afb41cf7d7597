SPECIFICATION SplitSpec
CONSTANTS
  Lengths <- MCLengths
  Splits <- MCSplits
\* The download ends, done or failed.
CHECK_DEADLOCK FALSE
INVARIANTS
  SplitTypeOK
  PartsJoin
  NothingMissing
