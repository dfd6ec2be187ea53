SPECIFICATION GatewaySpec
CONSTANTS
  None = None
  p1 = p1
  n1 = n1
  h1 = h1
  i1 = i1
  i2 = i2
  Paths = {p1}
  Nodes = {n1}
  Handles = {h1}
  Inodes = {i1, i2}
  NumBlocks = 1
  MaxWrites = 2
  DBFaults = TRUE
  Ops = {"stat", "rewrite"}
  TornFlush = FALSE
  MaxCrashes = 1
SYMMETRY MCSymmetry
INVARIANT DurableUnlessRaced
CONSTRAINT MCBound
