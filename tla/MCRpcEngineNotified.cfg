SPECIFICATION MCSpec
CONSTANTS
  Calls <- MCCalls
  Lengths = {0, 5}
  MaxGid = 2
  MaxLog = 5
PROPERTY
  StatusChangesAreNotified
