SPECIFICATION Spec
CONSTANTS
  Handlers = {h1, h2}
  Savers = {a1, a2}
  Events = {e1}
  Spike = spike
  Configs <- SomeConfigs
  Idle = idle
  QueueCap = 1
  Window = 2
  MinTotal = 2
  SpikeCool = 2
  DedupeCap = 1
  DedupeAge = 1
  MaxClock = 2
  MaxRequests = 3
  MaxRaises = 2
  MaxSaves = 2
  MaxRestarts = 1
SYMMETRY Alike
INVARIANT ConfigSettled
INVARIANT SilenceEarned
INVARIANT ErrorRateHonest
CHECK_DEADLOCK FALSE
