SPECIFICATION FairSpec
CONSTANTS
  None = None
  a = a
  ab = ab
  c = c
  f = f
  g = g
  Files = {f, g}
  Dirs = {a, ab, c}
  Above <- MCAbove
  Rank <- MCRank
  Like <- MCLike
  MaxChanges = 2
INVARIANTS TypeOK Rooted
PROPERTY EverythingShown
