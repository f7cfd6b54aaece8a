SPECIFICATION Spec
CONSTANTS
  Poller = {p1}
  Case = {c1}
  Limit = 2
  Unparsable = {}
  MaxRecord = 4
  None = None
INVARIANT
  GapIsReported
