-------------------------- MODULE IdentityManifest --------------------------
(***************************************************************************)
(* The signed identity manifest and the rules that compare two of them:    *)
(* lib/quantic/manifest-core.mjs, manifest-authority-core.mjs,             *)
(* manifest-sync-core.mjs, registry-write-core.mjs and the edits of        *)
(* manifest.ts.  Every manifest here is of one identity and carries the    *)
(* signature of its root key.  `signed' is the instant of the signature:   *)
(* two manifests are the same canonical text when every field is the same. *)
(***************************************************************************)
EXTENDS Naturals

CONSTANT Linkable    \* devices that can be linked; the root device is in every manifest

Revocation == [device : Linkable, at : Nat]
NoManifest == [seq |-> 0, devices |-> {}, revoked |-> {}, signed |-> 0]
Manifest ==
  [seq : Nat \ {0}, devices : SUBSET Linkable, revoked : SUBSET Revocation, signed : Nat]

RevokedDevices(m) == {r.device : r \in m.revoked}
ActiveDevices(m) == m.devices \ RevokedDevices(m)

(* What validateManifestShape asks of the two lists.                        *)
WellFormed(m) ==
  /\ m.seq > 0
  /\ m.devices \cap RevokedDevices(m) = {}
  /\ \A r, s \in m.revoked : r.device = s.device => r = s

---------------------------------------------------------------------------
(* mergeManifestState returns the incoming manifest or throws: a successor  *)
(* must leave every earlier revocation exactly as it is.                    *)
KeepsRevocations(current, incoming) ==
  \A r \in current.revoked : r \in incoming.revoked /\ r.device \notin incoming.devices

Accepts(current, incoming) ==
  /\ WellFormed(incoming)
  /\ \/ current = NoManifest
     \/ /\ WellFormed(current)
        /\ \/ incoming = current
           \/ incoming.seq > current.seq /\ KeepsRevocations(current, incoming)

(* newestCompatible and reconcileManifestAuthority.                         *)
\* Mutant: what comes second wins.
NewestIsSecond(first, second) == second
Newest(first, second) == IF second.seq >= first.seq THEN second ELSE first
Oldest(first, second) == IF second.seq >= first.seq THEN first ELSE second

Reconciles(cached, durable, incoming) ==
  /\ \/ NoManifest \in {cached, durable}
     \/ Accepts(Oldest(cached, durable), Newest(cached, durable))
  /\ Accepts(Newest(cached, durable), incoming)

(* decideRegistryWrite compares sequences and texts, not the revocations.   *)
RegistryUnchanged(remote, next) == remote = next
RegistryWrites(remote, next) == WellFormed(next) /\ remote.seq < next.seq

---------------------------------------------------------------------------
(* The manifests the root signs.                                            *)
InitialManifest(now) == [seq |-> 1, devices |-> {}, revoked |-> {}, signed |-> now]

CanAdd(m, d) == d \notin RevokedDevices(m)
AddDevice(m, d, now) ==
  [m EXCEPT !.seq = @ + 1, !.devices = @ \cup {d}, !.signed = now]

CanRevoke(m, d) == d \in m.devices
RevokeDevice(m, d, now) ==
  [m EXCEPT !.seq = @ + 1, !.devices = @ \ {d},
            !.revoked = @ \cup {[device |-> d, at |-> now]}, !.signed = now]
=============================================================================
