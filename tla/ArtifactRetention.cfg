SPECIFICATION Spec
CONSTANTS
  Proc = {p1, p2}
  Digest = {d1, d2, d3}
  Case = {c1, c2}
  Batch = 2
  None = None
INVARIANTS
  LinkedHasObjectUnlessMixed
PROPERTIES
  AuthorityKept
  PruneReconciles
