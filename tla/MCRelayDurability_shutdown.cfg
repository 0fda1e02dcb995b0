SPECIFICATION Spec
CONSTANTS
  p1 = p1
  p2 = p2
  o1 = o1
  o2 = o2
  o3 = o3
  FLUSH = FLUSH
  Proc = {p1}
  Op = {o1, o2}
  Detached = {o2}
  Throws = {}
  Backing = "file"
  MaxFaults = 0
  MaxBoots = 1
INVARIANT SnapshotMatchesMemory
CHECK_DEADLOCK FALSE
