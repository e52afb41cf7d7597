SPECIFICATION ControlSpec
CONSTANTS
  c1 = c1
  c2 = c2
  short = short
  long = long
  i1 = i1
  i2 = i2
  i3 = i3
  i4 = i4
  Callers = {c1, c2}
  Versions = {short, long}
  Inodes = {i1, i2, i3, i4}
  NoInode = NoInode
  Nothing = Nothing
  Garbage = Garbage
  Parts <- MCParts
SYMMETRY MCSymmetry
INVARIANTS
  ControlTypeOK
  TempUnseen
PROPERTY
  FileContract
