-------------------------------- MODULE MCMesh --------------------------------
(* An instance of a relay's parts: two processes that save, three that boot   *)
(* and pin an identity, three relays in a mesh.                               *)
EXTENDS Mesh, MCDiscovery

CONSTANTS p1, p2, p3, o1, o2
=============================================================================
