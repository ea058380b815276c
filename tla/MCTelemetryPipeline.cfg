CONSTANTS
  RingOrder <- TwoLanes
  HiRings = {"proc"}
  PerRing <- MCPerRing
  Transient <- MCTransient
  HiCapacity = 1
  LoCapacity = 1
  BatchSize = 2
  MaxFaults = 1
SPECIFICATION FairSpec
INVARIANTS
  PipeInv
  OnlyLateEventsStranded
PROPERTIES
  UsesStore
  StopTerminates
