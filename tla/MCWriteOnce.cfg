SPECIFICATION Spec
CONSTANTS
  None = None
  p1 = p1
  n1 = n1
  n2 = n2
  h1 = h1
  h2 = h2
  i1 = i1
  i2 = i2
  Paths = {p1}
  Nodes = {n1}
  Handles = {h1, h2}
  Inodes = {i1}
  NumBlocks = 2
  MaxWrites = 2
  DBFaults = FALSE
  Ops = {"stat", "mtime", "remove"}
  TornFlush = FALSE
  MaxCrashes = 1
SYMMETRY MCSymmetry
INVARIANTS Durable FreshUnlessPutBack
PROPERTY KeepsPromises
