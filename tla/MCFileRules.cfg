CONSTANTS
  Files = {"conf", "data"}
  Procs = {"p1", "p2"}
  Exes = {"tee", "dd"}
  RuleIds = {"r1", "r2"}
  Configs = {"boot", "moved", "torn"}
  Broken = {"torn"}
  Config0 = "boot"
  RulesIn <- MCRulesIn
  Baselined = {"data"}
  PidOf <- OnePid
  Exe0 <- MCExe0
  Alive0 = {"p1"}
  NoExe = "none"
  MaxRulesPerIno = 2
  MaxCacheSize = 1
  MaxEvents = 2
  MaxEdits = 1
  MaxExecs = 1
SPECIFICATION FairSpec
INVARIANTS
  RulesIndependent
  OneGeneration
  CacheFresh
PROPERTIES
  SuppressionHasCause
  ReloadTakesEffect
