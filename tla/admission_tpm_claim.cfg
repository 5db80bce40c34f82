SPECIFICATION Spec
CONSTANTS
  k1 = k1
  r1 = r1
  r2 = r2
  Keys = {k1}
  NoKey = nokey
  Reqs = {r1, r2}
  Limits <- TokenLimits
  Charges <- MixedCharges
  Window = 3
  DayLen = 2
  MonthDays = 2
  TzOffset = 1
  Rate = 7
  MaxClock = 4
  MaxStarts = 5
  MaxUpdates = 0
  MaxRestarts = 0
SYMMETRY HandlersAlike
PROPERTY TpmRefusalJustified
CHECK_DEADLOCK FALSE
