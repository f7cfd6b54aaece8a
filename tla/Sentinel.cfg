SPECIFICATION FairSpec
CONSTANTS
  Poller = {p1, p2}
  Case = {c1}
  Limit = 2
  Unparsable = {4}
  MaxRecord = 4
  None = None
INVARIANTS
  NothingSkipped
PROPERTIES
  EventuallyCaptured
  StopIsReported
