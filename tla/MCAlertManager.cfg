CONSTANTS
  RuleIds = {"baseline", "yaml"}
  throttle_seconds = 2
  retention_days = 1
  retention_max = 2
  SaveInterval = 2
  YearLen = 2
  MaxClock = 3
  MaxCliRows = 1
  MaxRaised = 5
SPECIFICATION AlertManagerSpec
INVARIANTS
  EveryAlertAccounted
  ThrottleIsHonest
PROPERTIES
  OldestOfAWriterGoFirst
CHECK_DEADLOCK FALSE
