SPECIFICATION FairSpec
CONSTANTS
  None = None
  p1 = p1
  n1 = n1
  n2 = n2
  h1 = h1
  h2 = h2
  i1 = i1
  i2 = i2
  Paths = {p1}
  Nodes = {n1}
  Handles = {h1}
  Inodes = {i1, i2}
  NumBlocks = 1
  MaxWrites = 3
  DBFaults = FALSE
  Ops = {"rewrite"}
  TornFlush = FALSE
  MaxCrashes = 1

PROPERTIES DanglingHealed NeverStuck
