CONSTANTS
  Producers = {p1, p2}
  Consumers = {c1, c2}
  Capacity = 2
  MaxPush = 2
SPECIFICATION FairSpec
INVARIANTS
  NoSlotRace
PROPERTIES
  ImplementsFifo
  RefusalsAreTrue
  EventuallyDelivered
