CONSTANTS
  Events = {e1, e2, e3, e4}
  BatchSize = 2
  MaxFaults = 2
  MaxCrashes = 1
SPECIFICATION Spec
INVARIANTS
  StoreInv
  BatchAtomic
CHECK_DEADLOCK FALSE
