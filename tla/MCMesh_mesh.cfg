SPECIFICATION MeshSpec
CONSTANTS
  p1 = p1
  p2 = p2
  p3 = p3
  o1 = o1
  o2 = o2
  FLUSH = FLUSH
  Proc = {p1, p2}
  Op = {o1, o2}
  Detached = {o2}
  Throws = {}
  Backing = "sql"
  MaxFaults = 1
  MaxBoots = 3
  Instance = {p1, p2, p3}
  Keyed = {p2, p3}
  MaxPairs = 4
  phone = phone
  r1 = r1
  r2 = r2
  r3 = r3
  Linkable = {phone}
  Relay = {r1, r2, r3}
  Home = {r2, r3}
  Seeker = {r1}
  a1 = a1
  a2 = a2
  Canonical = {a1, a2}
  Offered <- Bundles
  BootPeers <- MeshEndpoints
  Greeted <- MeshGreeted
  Alpha = 2
  Nearest = 2
  MaxQueries = 2
  CopyFactor = 1
  MaxPublished = 2
  MaxSearches = 1
  MaxMeshFaults = 1
INVARIANT MeshTypeOK
INVARIANT SnapshotMatchesMemory
INVARIANT AnswersStayPinned
INVARIANT HandleAnswerIsAlone
INVARIANT OneIdentity
PROPERTY PinnedOnlyGrow
PROPERTY RowOnlyGrows
CHECK_DEADLOCK FALSE
