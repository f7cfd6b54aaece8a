SPECIFICATION Spec
CONSTANTS
  Proc = {p1, p2}
  Digest = {d1, d2}
  Case = {c1, c2}
  Batch = 1
  None = None
INVARIANTS
  LinkedHasObject
