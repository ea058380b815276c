SPECIFICATION Spec
CONSTANTS
  f1 = f1
  f2 = f2
  k1 = k1
  v1 = v1
  v2 = v2
  p1 = p1
  p2 = p2
  Procs = {p1, p2}
  Nobody = Nobody
  Paths = {f1, f2, k1}
  Params = {k1}
  Versions = {v1, v2}
  Absent = Absent
  ParamValue = v1
  Disk0 <- MCDisk0
  Legacy0 <- MCLegacy0
  Ops <- MCOps
  MaxRuns = 3
  MaxUpsets = 1
SYMMETRY Symmetry
INVARIANTS
  EntriesExplained
  SnapshotsAccounted
PROPERTIES
  SnapshotTakesEffect
  NothingPresentIsDropped
  ImplementsLedger
CHECK_DEADLOCK FALSE
