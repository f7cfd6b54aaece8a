SPECIFICATION Spec
CONSTANTS
  c1 = c1
  None = None
  Case = {c1}
  Evidence = {1, 2, 3}
  Coverage = {4}
  CaseOf <- MCCaseOf
  BatchSize = 2
  MaxEvidence = 1
  MaxTime = 1
  Filter <- MCFilter
  Facts <- MCFacts
  FirstFacts = 2
  PageLimit = {1, 2}
  Pending <- MCPending
  Category <- MCCategory
  Score <- MCScore
  Line <- MCLine
  Header = 20
  AddedLine = 4
  NoneLine = 1
  OmittedLine = 5
  EvidenceLimit = 3
  CoverageLimit = 1
  MaxChars = {29, 44, 57}
  MaxRevision = 3
CONSTRAINT OneAtATime
INVARIANTS
  SkippedOnlyInATie
  TwiceOnlyBehindAnInsertion
  DeltasCoverBrief
  BriefFillsBudget
  DiverseBeforeDeep
