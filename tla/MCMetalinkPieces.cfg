SPECIFICATION UploadSpec
CONSTANTS
  f = f
  g = g
  Names = {f, g}
  Numbers = {"1"}
  Words = {"w"}
  None = None
  MaxFiles = 1
  MaxFacts = 2
  Torrents <- MCTorrents
  Symbols <- MCSymbols
  Headers <- MCHeaders
  Size <- MCSize
  Selections <- MCSelections
  MaxUsize = 9
SYMMETRY MCSymmetry
INVARIANT ChecksumIsTheFiles
CHECK_DEADLOCK FALSE
