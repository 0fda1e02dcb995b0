------------------------- MODULE MCRelayDurability -------------------------
(* Instances of RelayDurability.                                            *)
EXTENDS RelayDurability

CONSTANTS p1, p2, o1, o2, o3
=============================================================================
