SPECIFICATION Spec
CONSTANTS
  m1 = m1
  m2 = m2
  m3 = m3
  k1 = k1
  k2 = k2
  k3 = k3
  k4 = k4
  h1 = h1
  h2 = h2
  Models <- SomeModels
  AutoModel = auto
  NoModel = nomodel
  NoList = nolist
  Tier <- SomeTier
  Vision <- SomeVision
  Handlers = {h1, h2}
  Keys = {k1, k2, k3, k4}
  KeyRow <- SomeKeys
  PlaygroundKey = k1
  Asks <- SomeAsks
  Tables <- SomeTables
  Tasks <- SomeTasks
  Latencies <- SomeLatencies
  MaxWrites = 1
INVARIANT TypeOK
INVARIANT CandidatesSound
INVARIANT FailoverThorough
INVARIANT AccountedOnce
INVARIANT FreshListIsCurrent
CHECK_DEADLOCK FALSE
