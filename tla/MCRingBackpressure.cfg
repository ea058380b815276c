CONSTANTS
  Hooks = {h1, h2}
  Targets <- MCTargets
  RingSize = 3
  MaxCalls = 2
  WarningPct = 33
  HighPct = 66
  OverloadPct = 99
SPECIFICATION FairSpec
INVARIANTS
  RingInv
  NoLostWakeup
  BlockSurvivesFullRing
PROPERTIES
  EverySubmittedIsConsumed
