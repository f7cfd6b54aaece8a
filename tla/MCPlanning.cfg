SPECIFICATION PlanningSpec
CONSTANTS
  p1 = p1
  p2 = p2
  b1 = b1
  b2 = b2
  c1 = c1
  d1 = d1
  d2 = d2
  v1 = v1
  v2 = v2
  Proc <- MCProc
  Probe <- MCProbe
  Common <- MCCommon
  Ttl <- MCTtl
  Signal <- MCSignal
  Value <- MCValue
  Candidate <- MCCandidate
  Cost <- MCCost
  Worth <- MCWorth
  Id <- MCId
  MinimumValue = 1
  Relevant <- MCRelevant
  Budget <- MCBudget
  Limit <- MCLimit
  MaxTime = 2
  MaxCases = 2
  None = None
SYMMETRY Symmetry
INVARIANTS
  HistoryIsTheChanges
  InvalidationHonoured
  PlanIsGreedy
PROPERTIES
  FreshWasReadRecently
