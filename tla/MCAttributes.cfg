SPECIFICATION Spec
CONSTANTS
  None = None
  Null = Null
  Replaced = Replaced
  f1 = f1
  f2 = f2
  d1 = d1
  c1 = c1
  c2 = c2
  Files = {f1, f2}
  Dirs = {d1}
  Calls = {c1, c2}
  MaxWrites = 2
  Asked <- MCAsked
  Named = {"acl"}
SYMMETRY MCSymmetry
INVARIANTS TypeOK AttributesKept
CONSTRAINT MCBound
