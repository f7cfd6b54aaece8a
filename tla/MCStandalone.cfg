SPECIFICATION MCSpec
CONSTANTS
  Caller = {t1, t2}
  MaxCalls = 2
  Stop = Stop
  None = None
  s1 = s1
  s2 = s2
  Source <- MCSource
  Offered <- MCOffered
  MaxSize = 2
  MaxOffers = 5
  NoReport = NoReport
  k1 = k1
  k2 = k2
  k3 = k3
  Key <- MCKey
  ObservedAt = {1, 2}
  MaxGroups = 2
  MaxAdds = 5
  Limit <- MCLimit
  RawLimit <- MCRawLimit
  MaxRows = 3
  Ranks = {0, 1}
  MaxLines = 3
  MaxCells = 5
  MaxErrors = 1
  Probed = {"dll", "event_channel"}
  CacheTtl = 2
  MaxNow = 4
  MaxSetBack = 1
  NotCached = NotCached
INVARIANTS
  InOrderOnce
  HangsOnlyInTheRace
  QueueAccounts
  UrgentFirst
  GroupsTellTheStory
  EvictedOnlyForLater
  OutrankedOnlyBehindRawLimit
  ShortMeansComplete
  AttributedToItsSection
  LostForAReason
  AnswersAreRecent
PROPERTIES
  InTimeIsAnswered
  CloseReturns
CHECK_DEADLOCK FALSE
