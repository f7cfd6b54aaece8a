SPECIFICATION Spec
CONSTANTS
  Probe = {b1, b2}
  Isolated = {b1}
  Registered = {b1}
  FailureThreshold = 2
  Cooldown = 2
  Timeout = 1
  Grace = 0
  MaxTime = 3
  MaxElapsed = 2
  MaxFailures = 3
  None = None
INVARIANTS
  TrialResolved
