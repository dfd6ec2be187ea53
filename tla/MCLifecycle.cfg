SPECIFICATION LifeFairSpec
CONSTANTS
  None = None
  p1 = p1
  p2 = p2
  Paths = {p1, p2}
  Inodes = {}
  NumBlocks = 2
  MaxWrites = 3
  DBFaults = FALSE
  ObjectSizes = {1, 2}
  MaxDeaths = 2
INVARIANT LifeTypeOK
PROPERTIES ImplementsS3Sync PurgesOnlyGone PopulatedFirst Converges
