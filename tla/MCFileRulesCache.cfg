CONSTANTS
  Files = {"conf", "data"}
  Procs = {"p1", "p2"}
  Exes = {"tee", "dd"}
  RuleIds = {"r1", "r2"}
  Configs = {"boot", "moved", "torn"}
  Broken = {"torn"}
  Config0 = "boot"
  RulesIn <- MCRulesIn
  Baselined = {"data"}
  PidOf <- OnePid
  Exe0 <- TrustedAtFirst
  Alive0 = {"p1"}
  NoExe = "none"
  MaxRulesPerIno = 2
  MaxCacheSize = 1
  MaxEvents = 1
  MaxEdits = 0
  MaxExecs = 0
SPECIFICATION Spec
PROPERTIES
  SuppressedByOwnRule
