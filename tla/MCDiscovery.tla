----------------------------- MODULE MCDiscovery -----------------------------
(* A small instance of Discovery: an owner who renews its route, links and    *)
(* revokes a phone, turns hybrid, and once signed twice; and a namesake.      *)
EXTENDS Discovery, TLC

CONSTANTS phone, r1, r2, r3, a1, a2

MeshGreeted == (r1 :> {r2}) @@ (r2 :> {r1, r3}) @@ (r3 :> {})
MeshEndpoints == (r1 :> {r2, r3}) @@ (r2 :> {r1, r3}) @@ (r3 :> {})

Linked == AddDevice(InitialManifest(1), phone, 2)
Revoked == RevokeDevice(Linked, phone, 3)
RevokedTwice == RevokeDevice(Linked, phone, 4)

Old == [seq |-> 1, base |-> 2, devices |-> {phone}, hybrid |-> FALSE]
New == [seq |-> 2, base |-> 3, devices |-> {}, hybrid |-> TRUE]

RouteOf(seq, base, profile, signed) ==
  [seq |-> seq, base |-> base, profile |-> profile, signed |-> signed]

BundleOf(identity, profile, route) == [identity |-> identity, profile |-> profile, route |-> route]

Bundles ==
  (a1 :> {BundleOf(Linked, Old, RouteOf(1, 2, NoProfile, 5)),
          BundleOf(Linked, Old, RouteOf(2, 2, Old, 6)),
          BundleOf(Revoked, New, RouteOf(3, 3, New, 7)),
          BundleOf(RevokedTwice, NoProfile, RouteOf(2, 2, NoProfile, 8))})
  @@ (a2 :> {BundleOf(InitialManifest(1), NoProfile, RouteOf(1, 1, NoProfile, 9))})
=============================================================================
