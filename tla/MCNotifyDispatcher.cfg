CONSTANTS
  Keys = {"k1", "k2"}
  Configs <- MCConfigs
  Config0 <- Aggregating
  MaxQueue = 1
  MaxWindows = 2
  MaxRetries = 1
  MaxAlerts = 4
  MaxReloads = 1
  MaxTime = 4
  LastDispatch = 2
SPECIFICATION DispatcherFairSpec
INVARIANTS
  NotifyInv
  NeverOversleeps
PROPERTIES
  StopReturns
CHECK_DEADLOCK FALSE
