SPECIFICATION SpecNoFaults
CONSTANTS
  Proc = {p1, p2}
  Case = {c1, c2}
  Probe = {b1, b2}
  None = None
  Service = Service
  Isolated = {b1}
  Run <- MCFewRuns
INVARIANTS
  FailedSourceIsAResult
CHECK_DEADLOCK FALSE
