SPECIFICATION FairSpec
CONSTANTS
  k1 = k1
  k2 = k2
  handler = handler
  prober = prober
  Keys <- TwoKeys
  Reporters <- OneHandlerAndProber
  Prober = prober
  Base = 2
  MaxCool = 3
  Threshold = 2
  MaxClock = 2
  MaxReports = 3
  MaxChanges = 1
  MaxRestarts = 1
  MaxWriteErrors = 1
INVARIANT TypeOK
INVARIANT CoolingMeansFailing
INVARIANT CooldownEarned
INVARIANT OneAlertPerRun
PROPERTY OrderlyRestartKeepsCooldowns
PROPERTY HealthyKeysRecover
CHECK_DEADLOCK FALSE
