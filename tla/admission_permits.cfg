SPECIFICATION Spec
CONSTANTS
  k1 = k1
  r1 = r1
  r2 = r2
  r3 = r3
  Keys = {k1}
  NoKey = nokey
  Reqs = {r1, r2, r3}
  Limits <- PermitLimits
  Charges <- PermitCharges
  Window = 2
  DayLen = 1
  MonthDays = 2
  TzOffset = 1
  Rate = 7
  MaxClock = 1
  MaxStarts = 4
  MaxUpdates = 2
  MaxRestarts = 1
SYMMETRY HandlersAlike
INVARIANT TypeOK
INVARIANT PermitsExact
INVARIANT PermitsBounded
PROPERTY PermitsImplemented
CHECK_DEADLOCK FALSE
