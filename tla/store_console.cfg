SPECIFICATION Spec
CONSTANTS
  s1 = s1
  s2 = s2
  m1 = m1
  m2 = m2
  Chans = {c1, c2}
  Live0 = {c1}
  Secrets = {s1, s2}
  Models = {m1, m2}
  Admins = {a1, a2}
  Readers = {p1}
  Updates <- Bodies
  Nil = nil
  MaxOps = 2
  MaxSwitches = 2
  MaxReads = 1
  MaxFailures = 1
SYMMETRY AdminsAlike
INVARIANT TypeOK
INVARIANT IdsKeepTheirSecret
INVARIANT InterruptedKeysArePrefix
INVARIANT SwitchSurvivesUpdates
PROPERTY NoModelLost
CHECK_DEADLOCK FALSE
