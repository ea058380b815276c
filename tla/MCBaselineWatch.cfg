CONSTANTS
  RuleIds = {"baseline", "baseline-check", "yaml"}
  throttle_seconds = 1
  retention_days = 0
  retention_max = 0
  SaveInterval = 1
  YearLen = 1
  MaxClock = 2
  MaxCliRows = 0
  MaxRaised = 0
  Files = {"a", "b"}
  YamlRule <- MCYamlRule
  kBaselineRuleId = "baseline"
  kBaselineCheckRuleId = "baseline-check"
  Debounce = 2
  MaxOps = 2
  MaxRestarts = 1
SPECIFICATION Spec
INVARIANTS
  SilenceIsExplained
CHECK_DEADLOCK FALSE
