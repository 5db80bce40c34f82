SPECIFICATION Spec
CONSTANTS
  s1 = s1
  s2 = s2
  m1 = m1
  m2 = m2
  Chans = {c1}
  Live0 = {c1}
  Secrets = {s1, s2}
  Models = {m1, m2}
  Admins = {a1}
  Readers = {p1}
  Updates <- OneList
  Nil = nil
  MaxOps = 2
  MaxSwitches = 1
  MaxReads = 0
  MaxFailures = 1
INVARIANT SwitchAlwaysKept
CHECK_DEADLOCK FALSE
