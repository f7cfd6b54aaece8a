SPECIFICATION ProtocolSpec
CONSTANTS
  Probe = {b1, b2, b3}
  Isolated = {b1, b3}
  Registered = {b1}
  Stray = {"noise", "scalar", "garbled"}
  FailureThreshold = 2
  Cooldown = 1
  Timeout = 1
  Grace = 1
  MaxTime = 2
  MaxElapsed = 2
  MaxFailures = 4
  None = None
INVARIANTS
  PartialEvidenceKept
  NoWorkerLeft
PROPERTIES
  RefusalJustified
  CooldownHonoured
  OkIffWhole
  IsolatedRunsEnd
