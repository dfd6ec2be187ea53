SPECIFICATION Spec
CONSTANTS
  None = None
  f1 = f1
  f2 = f2
  c0 = c0
  c1 = c1
  c2 = c2
  r1 = r1
  r2 = r2
  r3 = r3
  Files = {f1}
  Ids = {c0, c1, c2}
  Readers = {r1, r2}
  MaxChunks = 1
  MaxVersion = 0
  MaxDrift = 4
  Ops = {"evict", "cancel", "restart", "refuse"}
SYMMETRY MCSymmetry

INVARIANTS NeverUndercounts Bounded
