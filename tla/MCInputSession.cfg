SPECIFICATION MCSpec
CONSTANTS
  Uris <- MCUris
  Keys = {"split", "select-file"}
  Values = {"1", "x", "c"}
  InputFiles <- MCInputFiles
  Arguments <- MCArguments
  ReadsAs <- MCReadsAs
  Magnets = {"magnet", "bad magnet"}
  BadMagnets = {"bad magnet"}
  Numbers = {"1"}
  ShortUri = "cut"
  ShortValue = "c"
  None = None
  MaxTasks = 2
INVARIANTS
  SessionTypeOK
  SavedReadsBack
  CutReadsAsFront
  AllOrNothing
