SPECIFICATION DiscoverySpec
CONSTANTS
  phone = phone
  r1 = r1
  r2 = r2
  r3 = r3
  Linkable = {phone}
  Relay = {r1, r2, r3}
  Home = {r2, r3}
  Seeker = {r1}
  a1 = a1
  a2 = a2
  Canonical = {a1, a2}
  Offered <- Bundles
  BootPeers <- MeshEndpoints
  Greeted <- MeshGreeted
  Alpha = 2
  Nearest = 2
  MaxQueries = 2
  CopyFactor = 1
  MaxPublished = 2
  MaxSearches = 1
  MaxMeshFaults = 1
PROPERTY HigherRouteCached
CHECK_DEADLOCK FALSE
