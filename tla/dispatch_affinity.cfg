SPECIFICATION Spec
CONSTANTS
  c1 = c1
  c2 = c2
  c3 = c3
  k1 = k1
  k2 = k2
  k3 = k3
  v1 = v1
  Channels <- MixedChannels
  ChannelList <- MixedList
  Priority <- EqualPriorities
  KeyList <- MixedKeyLists
  Keys = {k1, k2, k3}
  Handlers = {h1}
  Plans <- TalkPlans
  Convs = {v1}
  NoConv = noconv
  NoKey = nokey
  Prober = prober
  MaxAttempts = 2
  MaxStarts = 2
  Base = 1
  MaxCool = 2
  Threshold = 1
  MaxClock = 0
  MaxReports = 2
  MaxChanges = 0
  MaxRestarts = 1
  MaxWriteErrors = 0
INVARIANT StickyChannel
INVARIANT EachKeyOnce
CHECK_DEADLOCK FALSE
