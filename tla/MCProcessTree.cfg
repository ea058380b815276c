CONSTANTS
  N = 3
  AtStart <- MCAtStart
  Sizes = {2, 3}
  kMaxAncestors = 2
  MaxCache = 1
  HiCap = 2
  MaxForks = 2
  MaxExecs = 1
SPECIFICATION FairSpec
INVARIANTS
  TreeInv
  Mirror
  ChainIsTrue
  ActorOfInstance
  ParentOfActor
PROPERTIES
  TombstonesGoAway
CHECK_DEADLOCK FALSE
