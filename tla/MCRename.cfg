SPECIFICATION RenameSpec
CONSTANTS
  None = None
  p1 = p1
  p2 = p2
  n1 = n1
  h1 = h1
  i1 = i1
  i2 = i2
  Paths = {p1, p2}
  Nodes = {n1}
  Handles = {h1}
  Inodes = {i1, i2}
  NumBlocks = 1
  MaxWrites = 3
  DBFaults = FALSE
  Ops = {}
  TornFlush = FALSE
  MaxCrashes = 1
  MaxRenames = 1
  RenameFaults = TRUE
SYMMETRY MCSymmetry
INVARIANT RenameHonoured
CONSTRAINT MCBound
