SPECIFICATION FairSpec
CONSTANTS
  c1 = c1
  c2 = c2
  c3 = c3
  k1 = k1
  k2 = k2
  k3 = k3
  v1 = v1
  Channels <- MixedChannels
  ChannelList <- MixedList
  Priority <- MixedPriorities
  KeyList <- MixedKeyLists
  Keys = {k1, k2, k3}
  Handlers = {h1}
  Plans <- SinglePlans
  Convs = {v1}
  NoConv = noconv
  NoKey = nokey
  Prober = prober
  MaxAttempts = 2
  MaxStarts = 1
  Base = 1
  MaxCool = 2
  Threshold = 1
  MaxClock = 0
  MaxReports = 12
  MaxChanges = 0
  MaxRestarts = 0
  MaxWriteErrors = 0
INVARIANT TypeOK
INVARIANT GivesUpLate
INVARIANT HigherPriorityFirst
INVARIANT CallsBounded
PROPERTY HealthImplemented
PROPERTY EveryAbandonedRequestEnds
CHECK_DEADLOCK FALSE
