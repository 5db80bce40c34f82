SPECIFICATION Spec
CONSTANTS
  k1 = k1
  r1 = r1
  r2 = r2
  Keys = {k1}
  NoKey = nokey
  Reqs = {r1, r2}
  Limits <- WindowLimits
  Charges <- MixedCharges
  Window = 2
  DayLen = 2
  MonthDays = 2
  TzOffset = 1
  Rate = 7
  MaxClock = 3
  MaxStarts = 4
  MaxUpdates = 0
  MaxRestarts = 1
SYMMETRY HandlersAlike
INVARIANT RestartForgetsOnlyUnsettled
INVARIANT OvershootBounded
PROPERTY RpmBoundedByWait
PROPERTY TpmNeverExceeded
PROPERTY RpmRefusalJustified
CHECK_DEADLOCK FALSE
