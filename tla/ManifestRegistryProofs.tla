----------------------- MODULE ManifestRegistryProofs -----------------------
(***************************************************************************)
(* Types and two safety properties of module ManifestRegistry, for any     *)
(* number of processes, calls, tabs, devices, signatures and faults.       *)
(*                                                                         *)
(* The registry compares sequences only.  That it never loses a revocation *)
(* rests on what the pages send: each signs the next sequence after a      *)
(* manifest it was shown, and whatever is shown was durable.  So when a    *)
(* write is decided, the manifest it replaces is the one it was edited     *)
(* from (SuccessorReplacesIts).  The invariant follows that through the    *)
(* stages of a call, and a PUT that outlives its process.                  *)
(***************************************************************************)
EXTENDS ManifestRegistry, TLAPS

Sound(x) == x = NoManifest \/ WellFormed(x)

\* x is durable, or was until a later manifest replaced it.
Durable(x) == Published(x) /\ Sound(x)

\* x was signed as the next manifest after a durable one.
Successor(x) ==
  \E p \in MaybeManifest : Durable(p) /\ x.seq = p.seq + 1 /\ KeepsRevocations(p, x)

Replaces(base, x) == WellFormed(x) /\ x.seq > base.seq /\ KeepsRevocations(base, x)

\* What a call carries is as good as its stage needs.
GoodCall(k) ==
  /\ k.at \in {"load", "loaded", "save", "put", "finish", "orphan"} => mode = "github"
  /\ mode # "memory" =>
       /\ k.at \in {"sent", "load", "save"} /\ k.op \in POST =>
            Durable(k.incoming) \/ Successor(k.incoming)
       /\ k.at = "loaded" => Durable(k.base)
       /\ k.at \in {"put", "orphan"} => Replaces(k.base, k.incoming)
       /\ k.at = "finish" => Durable(k.incoming)
       /\ k.at = "answer" /\ k.ok => Durable(k.incoming)

CallsGood == \A c \in Call : GoodCall(call[c])

KeptDurable ==
  mode # "memory" =>
    /\ \A p \in Proc : Durable(cache[p])
    /\ \A b \in Browser : Durable(db[b])
    /\ \A t \in Page : Durable(held[t])
    /\ \A t \in Admin : Durable(shown[t])
    /\ \A d \in Linkable : Durable(package[d])

RegistryInv == RegistryTypeOK /\ Sound(remote) /\ CallsGood /\ KeptDurable

\* What a step may do to the durable manifest.
Grows == remote' # remote => Replaces(remote, remote')

-----------------------------------------------------------------------------
(* Manifests. *)

LEMMA NoManifestIsNone ==
  ASSUME NEW x \in MaybeManifest
  PROVE  x.seq \in Nat /\ (x.seq = 0 <=> x = NoManifest)
  BY DEF MaybeManifest, Manifest, NoManifest

LEMMA NoManifestDurable ==
  ASSUME remote \in MaybeManifest
  PROVE  Durable(NoManifest)
<1>1. remote.seq \in Nat /\ (remote.seq = 0 => remote = NoManifest)
  BY NoManifestIsNone
<1>2. NoManifest.seq = 0 /\ NoManifest.revoked = {}
  BY DEF NoManifest
<1>. QED
  BY <1>1, <1>2 DEF Durable, Published, Sound

LEMMA RemoteDurable ==
  ASSUME remote \in MaybeManifest, Sound(remote)
  PROVE  Durable(remote)
<1>1. remote.seq \in Nat
  BY NoManifestIsNone
<1>. QED
  BY <1>1 DEF Durable, Published

\* A durable manifest stays one, and a successor of one stays a successor.
LEMMA DurableStays ==
  ASSUME remote \in MaybeManifest, remote' \in MaybeManifest, Grows,
         NEW x \in MaybeManifest, Durable(x)
  PROVE  Durable(x)'
<1>1. x.seq \in Nat /\ remote.seq \in Nat /\ remote'.seq \in Nat
  BY NoManifestIsNone
<1>2. CASE remote' = remote
  BY <1>2 DEF Durable, Published, Sound, WellFormed, RevokedDevices, NoManifest
<1>3. CASE remote' # remote
  <2>1. remote'.seq > remote.seq /\ remote.revoked \subseteq remote'.revoked
    BY <1>3 DEF Grows, Replaces, KeepsRevocations
  <2>. QED
    BY <1>1, <2>1 DEF Durable, Published, Sound, WellFormed, RevokedDevices, NoManifest
<1>. QED
  BY <1>2, <1>3

LEMMA SuccessorStays ==
  ASSUME remote \in MaybeManifest, remote' \in MaybeManifest, Grows, NEW x, Successor(x)
  PROVE  Successor(x)'
<1>1. PICK p \in MaybeManifest : Durable(p) /\ x.seq = p.seq + 1 /\ KeepsRevocations(p, x)
  BY DEF Successor
<1>2. p \in MaybeManifest /\ Durable(p)'
  BY <1>1, DurableStays
<1>. QED
  BY <1>1, <1>2 DEF Successor, KeepsRevocations, MaybeManifest, Manifest, NoManifest, Revocation

\* The write decision compares sequences only; what it lets replace the durable manifest is edited from it.
LEMMA SuccessorReplacesIts ==
  ASSUME remote \in MaybeManifest, NEW x \in MaybeManifest,
         Durable(x) \/ Successor(x), RegistryWrites(remote, x)
  PROVE  Replaces(remote, x)
<1>1. x.seq \in Nat /\ remote.seq \in Nat /\ remote.seq < x.seq /\ WellFormed(x)
  BY NoManifestIsNone DEF RegistryWrites
<1>2. ~Durable(x)
  BY <1>1 DEF Durable, Published
<1>3. PICK p \in MaybeManifest : Durable(p) /\ x.seq = p.seq + 1 /\ KeepsRevocations(p, x)
  BY <1>2 DEF Successor
<1>4. p.seq \in Nat
  BY NoManifestIsNone
<1>5. p = remote
  BY <1>1, <1>3, <1>4 DEF Durable, Published
<1>. QED
  BY <1>1, <1>3, <1>5 DEF Replaces

LEMMA AcceptedReplaces ==
  ASSUME remote \in MaybeManifest, NEW x \in MaybeManifest, Accepts(remote, x), x # remote
  PROVE  Replaces(remote, x)
<1>1. WellFormed(x) /\ x.seq > 0
  BY DEF Accepts, WellFormed
<1>2. CASE remote = NoManifest
  <2>1. remote.seq = 0 /\ remote.revoked = {}
    BY <1>2 DEF NoManifest
  <2>. QED
    BY <1>1, <2>1 DEF Replaces, KeepsRevocations
<1>3. CASE remote # NoManifest
  BY <1>1, <1>3 DEF Accepts, Replaces
<1>. QED
  BY <1>2, <1>3

\* What the root signs.
LEMMA InitialIsSuccessor ==
  ASSUME remote \in MaybeManifest, NEW now \in Nat
  PROVE  InitialManifest(now) \in Manifest /\ Successor(InitialManifest(now))
<1>1. InitialManifest(now) \in Manifest
  BY DEF InitialManifest, Manifest
<1>2. Durable(NoManifest) /\ NoManifest \in MaybeManifest
  BY NoManifestDurable DEF MaybeManifest
<1>3. InitialManifest(now).seq = NoManifest.seq + 1 /\ KeepsRevocations(NoManifest, InitialManifest(now))
  BY DEF InitialManifest, NoManifest, KeepsRevocations
<1>. QED
  BY <1>1, <1>2, <1>3 DEF Successor

LEMMA AddIsSuccessor ==
  ASSUME NEW m \in Manifest, NEW d \in Linkable, NEW now \in Nat, CanAdd(m, d)
  PROVE  /\ AddDevice(m, d, now) \in Manifest
         /\ Durable(m) => Successor(AddDevice(m, d, now))
<1>. DEFINE x == AddDevice(m, d, now)
<1>1. m.seq \in Nat /\ m.seq # 0 /\ m.devices \subseteq Linkable /\ m.revoked \subseteq Revocation
  BY DEF Manifest
<1>2. x.seq = m.seq + 1 /\ x.devices = m.devices \cup {d} /\ x.revoked = m.revoked
  BY DEF AddDevice, Manifest
<1>3. x \in Manifest
  <2>1. m.seq + 1 \in Nat \ {0} /\ m.devices \cup {d} \in SUBSET Linkable
    BY <1>1
  <2>. QED
    BY <2>1 DEF AddDevice, Manifest
<1>4. ASSUME Durable(m) PROVE Successor(x)
  <2>1. m # NoManifest
    BY <1>1 DEF NoManifest
  <2>2. m.devices \cap RevokedDevices(m) = {}
    BY <1>4, <2>1 DEF Durable, Sound, WellFormed
  <2>3. ASSUME NEW r \in m.revoked PROVE r \in x.revoked /\ r.device \notin x.devices
    <3>1. r.device \in RevokedDevices(m)
      BY DEF RevokedDevices
    <3>. QED
      BY <1>2, <2>2, <3>1 DEF CanAdd
  <2>4. x.seq = m.seq + 1 /\ KeepsRevocations(m, x)
    BY <1>2, <2>3 DEF KeepsRevocations
  <2>5. m \in MaybeManifest
    BY DEF MaybeManifest
  <2>. QED
    BY <1>4, <2>4, <2>5 DEF Successor
<1>. QED
  BY <1>3, <1>4

LEMMA RevokeIsSuccessor ==
  ASSUME NEW m \in Manifest, NEW d \in Linkable, NEW now \in Nat
  PROVE  /\ RevokeDevice(m, d, now) \in Manifest
         /\ Durable(m) => Successor(RevokeDevice(m, d, now))
<1>. DEFINE new == [device |-> d, at |-> now]
            x == RevokeDevice(m, d, now)
<1>1. m.seq \in Nat /\ m.seq # 0 /\ m.devices \subseteq Linkable /\ m.revoked \subseteq Revocation
  BY DEF Manifest
<1>2. x.seq = m.seq + 1 /\ x.devices = m.devices \ {d} /\ x.revoked = m.revoked \cup {new}
  BY DEF RevokeDevice, Manifest
<1>3. new \in Revocation
  BY DEF Revocation
<1>4. x \in Manifest
  <2>. HIDE DEF new
  <2>1. /\ m.seq + 1 \in Nat \ {0} /\ m.devices \ {d} \in SUBSET Linkable
        /\ m.revoked \cup {new} \in SUBSET Revocation
    BY <1>1, <1>3
  <2>2. x = [m EXCEPT !.seq = @ + 1, !.devices = @ \ {d}, !.revoked = @ \cup {new}, !.signed = now]
    BY DEF RevokeDevice, new
  <2>. QED
    BY <2>1, <2>2 DEF Manifest
<1>5. ASSUME Durable(m) PROVE Successor(x)
  <2>1. m # NoManifest
    BY <1>1 DEF NoManifest
  <2>2. m.devices \cap RevokedDevices(m) = {}
    BY <1>5, <2>1 DEF Durable, Sound, WellFormed
  <2>3. ASSUME NEW r \in m.revoked PROVE r \in x.revoked /\ r.device \notin x.devices
    <3>1. r.device \in RevokedDevices(m)
      BY DEF RevokedDevices
    <3>. QED
      BY <1>2, <2>2, <3>1
  <2>4. x.seq = m.seq + 1 /\ KeepsRevocations(m, x)
    BY <1>2, <2>3 DEF KeepsRevocations
  <2>5. m \in MaybeManifest
    BY DEF MaybeManifest
  <2>. QED
    BY <1>5, <2>4, <2>5 DEF Successor
<1>. QED
  BY <1>4, <1>5

-----------------------------------------------------------------------------
(* What a step does, in three parts: the durable manifest, the kept copies  *)
(* and one call.                                                            *)

RemoteStep == remote' \in MaybeManifest /\ Sound(remote') /\ Grows

\* The other variables keep their types.
OtherTypes == signings \in Nat /\ trouble \in Nat

KeptTypes ==
  /\ cache \in [Proc -> MaybeManifest] /\ db \in [Browser -> MaybeManifest]
  /\ held \in [Page -> MaybeManifest] /\ shown \in [Admin -> MaybeManifest]
  /\ package \in [Linkable -> MaybeManifest]

LEMMA InvParts ==
  RegistryInv <=>
    /\ mode \in Mode /\ remote \in MaybeManifest /\ Sound(remote)
    /\ call \in [Call -> CallState] /\ CallsGood /\ KeptTypes /\ KeptDurable /\ OtherTypes
  BY DEF RegistryInv, RegistryTypeOK, KeptTypes, OtherTypes

LEMMA SameRemote ==
  ASSUME RegistryInv, remote' = remote
  PROVE  RemoteStep
  BY DEF RemoteStep, RegistryInv, RegistryTypeOK, Grows, Sound, WellFormed, RevokedDevices, NoManifest,
         MaybeManifest, Manifest, Revocation

LEMMA ReplacedRemote ==
  ASSUME NEW x \in MaybeManifest, Replaces(remote, x), remote' = x
  PROVE  RemoteStep
<1>1. Sound(x)
  BY DEF Sound, Replaces
<1>. QED
  BY <1>1 DEF RemoteStep, Grows

LEMMA GoodCallStays ==
  ASSUME RegistryInv, RemoteStep, mode' = mode, NEW k \in CallState, GoodCall(k)
  PROVE  GoodCall(k)'
<1>1. k.incoming \in MaybeManifest /\ k.base \in MaybeManifest
  BY DEF CallState
<1>2. remote \in MaybeManifest /\ remote' \in MaybeManifest /\ Grows
  BY DEF RegistryInv, RegistryTypeOK, RemoteStep
<1>3. Durable(k.incoming) => Durable(k.incoming)'
  BY <1>1, <1>2, DurableStays
<1>4. Durable(k.base) => Durable(k.base)'
  BY <1>1, <1>2, DurableStays
<1>5. Successor(k.incoming) => Successor(k.incoming)'
  BY <1>1, <1>2, SuccessorStays
<1>6. Replaces(k.base, k.incoming) => Replaces(k.base, k.incoming)'
  OBVIOUS
<1>. HIDE DEF Replaces, Durable, Successor
<1>. QED
  BY <1>3, <1>4, <1>5, <1>6 DEF GoodCall, POST

\* One call changes.
LEMMA OneCall ==
  ASSUME RegistryInv, RemoteStep, mode' = mode, NEW c \in Call, NEW k \in CallState,
         GoodCall(k)', call' = [call EXCEPT ![c] = k]
  PROVE  call' \in [Call -> CallState] /\ CallsGood'
<1>1. call \in [Call -> CallState]
  BY DEF RegistryInv, RegistryTypeOK
<1>2. call' \in [Call -> CallState]
  BY <1>1
<1>3. ASSUME NEW e \in Call PROVE GoodCall(call[e])'
  <2>1. PICK j \in CallState : call'[e] = j /\ GoodCall(j)'
    <3>1. CASE e = c
      BY <1>1, <3>1
    <3>2. CASE e # c
      <4>1. PICK j \in CallState : call[e] = j /\ GoodCall(j)
        BY <1>1 DEF RegistryInv, CallsGood
      <4>2. call'[e] = j /\ GoodCall(j)'
        BY <1>1, <3>2, <4>1, GoodCallStays
      <4>. QED
        BY <4>2
    <3>. QED
      BY <3>1, <3>2
  <2>. QED
    BY <2>1
<1>. QED
  BY <1>2, <1>3 DEF CallsGood

LEMMA OneGoodCall ==
  ASSUME RegistryInv, RemoteStep, mode' = mode, NEW c \in Call, NEW k \in CallState,
         GoodCall(k), call' = [call EXCEPT ![c] = k]
  PROVE  call' \in [Call -> CallState] /\ CallsGood'
  BY GoodCallStays, OneCall

\* Every kept copy stays as it is, becomes x, or is forgotten.
KeptFrom(x) ==
  /\ \A p \in Proc : cache'[p] \in {cache[p], x, NoManifest}
  /\ \A b \in Browser : db'[b] \in {db[b], x, NoManifest}
  /\ \A t \in Page : held'[t] \in {held[t], x, NoManifest}
  /\ \A t \in Admin : shown'[t] \in {shown[t], x, NoManifest}
  /\ \A d \in Linkable : package'[d] \in {package[d], x, NoManifest}

\* The parts of the invariant after a step, put together.
LEMMA StepKeeps ==
  ASSUME RegistryInv, RemoteStep, mode' = mode, call' \in [Call -> CallState], CallsGood',
         KeptTypes', KeptDurable', OtherTypes'
  PROVE  RegistryInv' /\ RemoteStep
<1>1. Sound(remote)'
  BY DEF RemoteStep, Sound, WellFormed, RevokedDevices, NoManifest
<1>. QED
  BY <1>1 DEF RegistryInv, RegistryTypeOK, KeptTypes, OtherTypes, RemoteStep

LEMMA KeptAfter ==
  ASSUME RegistryInv, RemoteStep, mode' = mode, KeptTypes', NEW x \in MaybeManifest,
         mode # "memory" => Durable(x), KeptFrom(x)
  PROVE  KeptDurable'
<1>. SUFFICES ASSUME mode # "memory"
              PROVE  /\ \A p \in Proc : Durable(cache[p])'
                     /\ \A b \in Browser : Durable(db[b])'
                     /\ \A t \in Page : Durable(held[t])'
                     /\ \A t \in Admin : Durable(shown[t])'
                     /\ \A d \in Linkable : Durable(package[d])'
  BY DEF KeptDurable
<1>1. ASSUME NEW y \in MaybeManifest, Durable(y) PROVE Durable(y)'
  BY <1>1, DurableStays DEF RegistryInv, RegistryTypeOK, RemoteStep
<1>2. Durable(NoManifest) /\ NoManifest \in MaybeManifest
  BY NoManifestDurable DEF RegistryInv, RegistryTypeOK, MaybeManifest
<1>3. ASSUME NEW z, NEW y \in MaybeManifest, Durable(y), z \in {y, x, NoManifest}
      PROVE  z \in MaybeManifest /\ Durable(z)
  BY <1>2, <1>3
<1>4. ASSUME NEW p \in Proc PROVE Durable(cache[p])'
  <2>1. PICK z \in MaybeManifest : cache'[p] = z /\ Durable(z)
    BY <1>3 DEF KeptFrom, RegistryInv, RegistryTypeOK, KeptDurable
  <2>. QED
    BY <1>1, <2>1
<1>5. ASSUME NEW b \in Browser PROVE Durable(db[b])'
  <2>1. PICK z \in MaybeManifest : db'[b] = z /\ Durable(z)
    BY <1>3 DEF KeptFrom, RegistryInv, RegistryTypeOK, KeptDurable
  <2>. QED
    BY <1>1, <2>1
<1>6. ASSUME NEW t \in Page PROVE Durable(held[t])'
  <2>1. PICK z \in MaybeManifest : held'[t] = z /\ Durable(z)
    BY <1>3 DEF KeptFrom, RegistryInv, RegistryTypeOK, KeptDurable
  <2>. QED
    BY <1>1, <2>1
<1>7. ASSUME NEW t \in Admin PROVE Durable(shown[t])'
  <2>1. PICK z \in MaybeManifest : shown'[t] = z /\ Durable(z)
    BY <1>3 DEF KeptFrom, RegistryInv, RegistryTypeOK, KeptDurable
  <2>. QED
    BY <1>1, <2>1
<1>8. ASSUME NEW d \in Linkable PROVE Durable(package[d])'
  <2>1. PICK z \in MaybeManifest : package'[d] = z /\ Durable(z)
    BY <1>3 DEF KeptFrom, RegistryInv, RegistryTypeOK, KeptDurable
  <2>. QED
    BY <1>1, <2>1
<1>. QED
  BY <1>4, <1>5, <1>6, <1>7, <1>8

LEMMA KeptSame ==
  ASSUME RegistryInv, RemoteStep, mode' = mode, UNCHANGED <<cache, db, held, shown, package>>
  PROVE  KeptTypes' /\ KeptDurable'
<1>1. KeptTypes'
  BY InvParts DEF KeptTypes
<1>2. KeptFrom(NoManifest)
  BY DEF KeptFrom
<1>3. NoManifest \in MaybeManifest /\ Durable(NoManifest)
  BY NoManifestDurable DEF RegistryInv, RegistryTypeOK, MaybeManifest
<1>. QED
  BY <1>1, <1>2, <1>3, KeptAfter

-----------------------------------------------------------------------------
(* The pages ask. *)

LEMMA AskStep ==
  ASSUME RegistryInv, remote' = remote, mode' = mode, NEW t \in Page,
         NEW op \in GET \cup POST, NEW d \in Linkable \cup {Root}, NEW m \in MaybeManifest,
         op \in POST /\ mode # "memory" => Durable(m) \/ Successor(m),
         Ask(t, op, d, m)
  PROVE  call' \in [Call -> CallState] /\ CallsGood'
<1>1. PICK c \in Call, p \in Proc :
        call' = [call EXCEPT ![c] = [IdleCall(p) EXCEPT !.at = "sent", !.tab = t, !.op = op,
                                                        !.device = d, !.incoming = m]]
  BY DEF Ask
<1>. DEFINE k == [IdleCall(p) EXCEPT !.at = "sent", !.tab = t, !.op = op, !.device = d, !.incoming = m]
<1>2. IdleCall(p) \in CallState
  BY DEF IdleCall, CallState, MaybeManifest
<1>3. k \in CallState /\ k.at = "sent" /\ k.op = op /\ k.incoming = m
  BY <1>2 DEF CallState, GET, POST
<1>. HIDE DEF k
<1>4. GoodCall(k)
  BY <1>3 DEF GoodCall
<1>5. call' = [call EXCEPT ![c] = k]
  BY <1>1 DEF k
<1>. QED
  BY <1>3, <1>4, <1>5, SameRemote, OneGoodCall

LEMMA SyncOwnManifestKeeps ==
  ASSUME RegistryInv, NEW t \in Page, SyncOwnManifest(t)
  PROVE  RegistryInv' /\ RemoteStep
<1>1. PICK op \in {"read", "sync"} : Ask(t, op, Root, held[t])
  BY DEF SyncOwnManifest
<1>2. held[t] \in MaybeManifest /\ (mode # "memory" => Durable(held[t]))
  BY DEF RegistryInv, RegistryTypeOK, KeptDurable
<1>3. RemoteStep /\ mode' = mode /\ remote' = remote
  BY SameRemote DEF SyncOwnManifest
<1>4. call' \in [Call -> CallState] /\ CallsGood'
  BY <1>1, <1>2, <1>3, AskStep DEF GET, POST
<1>5. KeptTypes' /\ KeptDurable'
  BY <1>3, KeptSame DEF SyncOwnManifest, browserVars
<1>6. OtherTypes'
  BY InvParts DEF SyncOwnManifest, browserVars, OtherTypes
<1>. QED
  BY <1>3, <1>4, <1>5, <1>6, StepKeeps

LEMMA RefreshManifestKeeps ==
  ASSUME RegistryInv, NEW t \in Page, RefreshManifest(t)
  PROVE  RegistryInv' /\ RemoteStep
<1>1. Ask(t, "refresh", Root, NoManifest)
  BY DEF RefreshManifest
<1>2. RemoteStep /\ mode' = mode /\ remote' = remote
  BY SameRemote DEF RefreshManifest
<1>3. call' \in [Call -> CallState] /\ CallsGood'
  BY <1>1, <1>2, AskStep DEF GET, POST, MaybeManifest
<1>4. KeptTypes' /\ KeptDurable'
  BY <1>2, KeptSame DEF RefreshManifest, browserVars
<1>5. OtherTypes'
  BY InvParts DEF RefreshManifest, browserVars, OtherTypes
<1>. QED
  BY <1>2, <1>3, <1>4, <1>5, StepKeeps

LEMMA EditStep ==
  ASSUME RegistryInv, NEW t \in Page, NEW op \in POST, NEW d \in Linkable, NEW m \in MaybeManifest,
         mode # "memory" => Successor(m), Edit(t, op, d, m)
  PROVE  RegistryInv' /\ RemoteStep
<1>1. Ask(t, op, d, m)
  BY DEF Edit
<1>2. RemoteStep /\ mode' = mode /\ remote' = remote
  BY SameRemote DEF Edit
<1>3. call' \in [Call -> CallState] /\ CallsGood'
  BY <1>1, <1>2, AskStep
<1>4. KeptTypes' /\ KeptDurable'
  BY <1>2, KeptSame DEF Edit
<1>5. OtherTypes'
  BY InvParts DEF Edit, OtherTypes
<1>. QED
  BY <1>2, <1>3, <1>4, <1>5, StepKeeps

\* Both edits are of the manifest the page shows, which was durable.
LEMMA EditsKeep ==
  ASSUME RegistryInv, NEW t \in Admin, NEW d \in Linkable, ApprovePairing(t, d) \/ Revoke(t, d)
  PROVE  RegistryInv' /\ RemoteStep
<1>1. t \in Page /\ signings + 1 \in Nat
  BY RegistryAssumption DEF RegistryInv, RegistryTypeOK
<1>2. shown[t] \in MaybeManifest /\ (mode # "memory" => Durable(shown[t]))
  BY DEF RegistryInv, RegistryTypeOK, KeptDurable
<1>3. shown[t] # NoManifest
  BY DEF ApprovePairing, Revoke, Edit
<1>4. PICK m \in Manifest : m = shown[t] /\ (mode # "memory" => Durable(m))
  BY <1>2, <1>3 DEF MaybeManifest
<1>5. CASE ApprovePairing(t, d)
  <2>1. CanAdd(m, d) /\ Edit(t, "approve", d, AddDevice(m, d, signings + 1))
    BY <1>4, <1>5 DEF ApprovePairing
  <2>2. /\ AddDevice(m, d, signings + 1) \in MaybeManifest
        /\ mode # "memory" => Successor(AddDevice(m, d, signings + 1))
    BY <1>1, <1>4, <2>1, AddIsSuccessor DEF MaybeManifest
  <2>. QED
    BY <1>1, <2>1, <2>2, EditStep DEF POST
<1>6. CASE Revoke(t, d)
  <2>1. Edit(t, "revoke", d, RevokeDevice(m, d, signings + 1))
    BY <1>4, <1>6 DEF Revoke
  <2>2. /\ RevokeDevice(m, d, signings + 1) \in MaybeManifest
        /\ mode # "memory" => Successor(RevokeDevice(m, d, signings + 1))
    BY <1>1, <1>4, RevokeIsSuccessor DEF MaybeManifest
  <2>. QED
    BY <1>1, <2>1, <2>2, EditStep DEF POST
<1>. QED
  BY <1>5, <1>6

-----------------------------------------------------------------------------
(* How a handler or an answer changes its call. *)

\* What is known of a call under way.
LEMMA CallTypes ==
  ASSUME RegistryInv, NEW c \in Call
  PROVE  /\ call[c] \in CallState /\ GoodCall(call[c])
         /\ call[c].proc \in Proc /\ call[c].incoming \in MaybeManifest
         /\ call[c].seen \in MaybeManifest /\ call[c].base \in MaybeManifest
  BY DEF RegistryInv, RegistryTypeOK, CallsGood, CallState

LEMMA HangStep ==
  ASSUME RegistryInv, RemoteStep, mode' = mode, NEW c \in Call, Hang(c)
  PROVE  call' \in [Call -> CallState] /\ CallsGood'
<1>. DEFINE k == IdleCall(call[c].proc)
<1>1. k \in CallState /\ k.at = "free"
  BY CallTypes DEF IdleCall, CallState, MaybeManifest
<1>2. GoodCall(k)
  BY <1>1 DEF GoodCall
<1>3. call' = [call EXCEPT ![c] = k]
  BY DEF Hang
<1>. HIDE DEF k
<1>. QED
  BY <1>1, <1>2, <1>3, OneGoodCall

LEMMA RespondStep ==
  ASSUME RegistryInv, RemoteStep, mode' = mode, NEW c \in Call, NEW m \in MaybeManifest,
         mode # "memory" => Durable(m)', Respond(c, m)
  PROVE  call' \in [Call -> CallState] /\ CallsGood'
<1>1. call[c] \in CallState
  BY CallTypes
<1>2. PICK k \in CallState :
        /\ call' = [call EXCEPT ![c] = k]
        /\ k.at = "answer" /\ k.incoming = m
  <2>. DEFINE j == [call[c] EXCEPT !.at = "answer", !.ok = TRUE, !.incoming = m]
  <2>1. j \in CallState /\ j.at = "answer" /\ j.incoming = m
    BY <1>1 DEF CallState
  <2>2. call' = [call EXCEPT ![c] = j]
    BY DEF Respond
  <2>. QED
    BY <2>1, <2>2
<1>3. GoodCall(k)'
  BY <1>2 DEF GoodCall
<1>. QED
  BY <1>2, <1>3, OneCall

LEMMA RefuseStep ==
  ASSUME RegistryInv, RemoteStep, mode' = mode, NEW c \in Call, Refuse(c)
  PROVE  call' \in [Call -> CallState] /\ CallsGood'
<1>1. call[c] \in CallState
  BY CallTypes
<1>2. PICK k \in CallState :
        /\ call' = [call EXCEPT ![c] = k]
        /\ k.at = "answer" /\ ~k.ok
  <2>. DEFINE j == [call[c] EXCEPT !.at = "answer", !.ok = FALSE]
  <2>1. j \in CallState /\ j.at = "answer" /\ ~j.ok
    BY <1>1 DEF CallState
  <2>2. call' = [call EXCEPT ![c] = j]
    BY DEF Refuse
  <2>. QED
    BY <2>1, <2>2
<1>3. GoodCall(k)
  BY <1>2 DEF GoodCall
<1>. QED
  BY <1>2, <1>3, OneGoodCall

\* A handler that waits for the registry next.
LEMMA WaitStep ==
  ASSUME RegistryInv, RemoteStep, mode' = mode, NEW c \in Call,
         NEW at \in {"load", "save"}, Step(c, at), mode = "github",
         call[c].op \in POST => Durable(call[c].incoming) \/ Successor(call[c].incoming)
  PROVE  call' \in [Call -> CallState] /\ CallsGood'
<1>1. call[c] \in CallState
  BY CallTypes
<1>2. PICK k \in CallState :
        /\ call' = [call EXCEPT ![c] = k]
        /\ k.at = at /\ k.op = call[c].op /\ k.incoming = call[c].incoming
  <2>. DEFINE j == [call[c] EXCEPT !.at = at]
  <2>1. j \in CallState /\ j.at = at /\ j.op = call[c].op /\ j.incoming = call[c].incoming
    BY <1>1 DEF CallState
  <2>2. call' = [call EXCEPT ![c] = j]
    BY <1>1 DEF Step, RegistryInv, RegistryTypeOK
  <2>. QED
    BY <2>1, <2>2
<1>3. GoodCall(k)
  BY <1>2 DEF GoodCall
<1>. QED
  BY <1>2, <1>3, OneGoodCall

LEMMA FinishStep ==
  ASSUME RegistryInv, RemoteStep, mode' = mode, NEW c \in Call, NEW m \in MaybeManifest,
         m = call[c].incoming, Durable(m)', Step(c, "finish"), mode = "github"
  PROVE  call' \in [Call -> CallState] /\ CallsGood'
<1>1. call[c] \in CallState
  BY CallTypes
<1>2. PICK k \in CallState :
        /\ call' = [call EXCEPT ![c] = k]
        /\ k.at = "finish" /\ k.incoming = m
  <2>. DEFINE j == [call[c] EXCEPT !.at = "finish"]
  <2>1. j \in CallState /\ j.at = "finish" /\ j.incoming = m
    BY <1>1 DEF CallState
  <2>2. call' = [call EXCEPT ![c] = j]
    BY <1>1 DEF Step, RegistryInv, RegistryTypeOK
  <2>. QED
    BY <2>1, <2>2
<1>3. GoodCall(k)'
  BY <1>2 DEF GoodCall
<1>. QED
  BY <1>2, <1>3, OneCall

-----------------------------------------------------------------------------
(* The answers. *)

\* The page of an answer that is not for nobody, and what the answer carries.
LEMMA AnswerTypes ==
  ASSUME RegistryInv, NEW c \in Call, NEW op, Answered(c, op, TRUE)
  PROVE  /\ call[c].tab \in Page /\ BrowserOf[call[c].tab] \in Browser
         /\ call[c].incoming \in MaybeManifest
         /\ mode # "memory" => Durable(call[c].incoming)
<1>1. call[c] \in CallState /\ GoodCall(call[c])
  BY CallTypes
<1>2. call[c].tab \in Page /\ call[c].at = "answer" /\ call[c].ok
  BY <1>1 DEF Answered, CallState
<1>. QED
  BY <1>1, <1>2, RegistryAssumption DEF GoodCall, CallState, Browser

\* A manifest is kept by one page and its browser.
LEMMA KeepTypes ==
  ASSUME RegistryInv, NEW t \in Page, NEW m \in MaybeManifest, PageKeeps(t, m)
  PROVE  /\ db' \in [Browser -> MaybeManifest] /\ held' \in [Page -> MaybeManifest]
         /\ \A b \in Browser : db'[b] \in {db[b], m}
         /\ \A u \in Page : held'[u] \in {held[u], m}
  BY DEF PageKeeps, RegistryInv, RegistryTypeOK

LEMMA KeepAnswerKeeps ==
  ASSUME RegistryInv, NEW c \in Call, AdoptRead(c) \/ SyncPublished(c)
  PROVE  RegistryInv' /\ RemoteStep
<1>. DEFINE t == call[c].tab
            m == call[c].incoming
<1>1. PICK op : Answered(c, op, TRUE)
  BY DEF AdoptRead, SyncPublished
<1>2. t \in Page /\ m \in MaybeManifest /\ (mode # "memory" => Durable(m))
  BY <1>1, AnswerTypes
<1>3. PageKeeps(t, m) /\ Hang(c) /\ UNCHANGED <<mode, remote, cache, shown, package, signings, trouble>>
  BY DEF AdoptRead, SyncPublished
<1>. HIDE DEF t, m
<1>4. RemoteStep
  BY <1>3, SameRemote
<1>5. call' \in [Call -> CallState] /\ CallsGood'
  BY <1>3, <1>4, HangStep
<1>6. KeptTypes' /\ KeptFrom(m)
  BY <1>2, <1>3, KeepTypes, InvParts DEF KeptTypes, KeptFrom
<1>7. KeptDurable'
  BY <1>2, <1>3, <1>4, <1>6, KeptAfter
<1>8. OtherTypes'
  BY <1>3, InvParts DEF OtherTypes
<1>. QED
  BY <1>3, <1>4, <1>5, <1>6, <1>7, <1>8, StepKeeps

LEMMA RefreshedKeeps ==
  ASSUME RegistryInv, NEW c \in Call, Refreshed(c)
  PROVE  RegistryInv' /\ RemoteStep
<1>. DEFINE t == call[c].tab
            m == call[c].incoming
<1>1. t \in Page /\ m \in MaybeManifest /\ (mode # "memory" => Durable(m))
  BY AnswerTypes DEF Refreshed
<1>2. /\ PageKeeps(t, m) \/ UNCHANGED <<db, held>>
      /\ shown' = [shown EXCEPT ![t] = m]
      /\ Hang(c) /\ UNCHANGED <<mode, remote, cache, package, signings, trouble>>
  BY DEF Refreshed
<1>. HIDE DEF t, m
<1>3. RemoteStep
  BY <1>2, SameRemote
<1>4. call' \in [Call -> CallState] /\ CallsGood'
  BY <1>2, <1>3, HangStep
<1>5. /\ db' \in [Browser -> MaybeManifest] /\ held' \in [Page -> MaybeManifest]
      /\ \A b \in Browser : db'[b] \in {db[b], m}
      /\ \A u \in Page : held'[u] \in {held[u], m}
  BY <1>1, <1>2, KeepTypes DEF RegistryInv, RegistryTypeOK
<1>6. shown' \in [Admin -> MaybeManifest] /\ \A u \in Admin : shown'[u] \in {shown[u], m}
  BY <1>1, <1>2 DEF RegistryInv, RegistryTypeOK
<1>7. KeptTypes' /\ KeptFrom(m)
  BY <1>2, <1>5, <1>6, InvParts DEF KeptTypes, KeptFrom
<1>8. KeptDurable'
  BY <1>1, <1>2, <1>3, <1>7, KeptAfter
<1>9. OtherTypes'
  BY <1>2, InvParts DEF OtherTypes
<1>. QED
  BY <1>2, <1>3, <1>4, <1>7, <1>8, <1>9, StepKeeps

LEMMA EditedKeeps ==
  ASSUME RegistryInv, NEW c \in Call, Edited(c)
  PROVE  RegistryInv' /\ RemoteStep
<1>. DEFINE t == call[c].tab
            m == call[c].incoming
            d == call[c].device
<1>1. t \in Page /\ m \in MaybeManifest /\ (mode # "memory" => Durable(m))
  BY AnswerTypes DEF Edited
<1>2. /\ PageKeeps(t, m) /\ Hang(c)
      /\ shown' = [shown EXCEPT ![t] = m]
      /\ package' \in {package, [package EXCEPT ![d] = m]}
      /\ UNCHANGED <<mode, remote, cache, signings, trouble>>
  BY DEF Edited
<1>. HIDE DEF t, m, d
<1>3. RemoteStep
  BY <1>2, SameRemote
<1>4. call' \in [Call -> CallState] /\ CallsGood'
  BY <1>2, <1>3, HangStep
<1>5. shown' \in [Admin -> MaybeManifest] /\ \A u \in Admin : shown'[u] \in {shown[u], m}
  BY <1>1, <1>2 DEF RegistryInv, RegistryTypeOK
<1>6. package' \in [Linkable -> MaybeManifest] /\ \A e \in Linkable : package'[e] \in {package[e], m}
  BY <1>1, <1>2 DEF RegistryInv, RegistryTypeOK
<1>7. KeptTypes' /\ KeptFrom(m)
  BY <1>1, <1>2, <1>5, <1>6, KeepTypes, InvParts DEF KeptTypes, KeptFrom
<1>8. KeptDurable'
  BY <1>1, <1>2, <1>3, <1>7, KeptAfter
<1>9. OtherTypes'
  BY <1>2, InvParts DEF OtherTypes
<1>. QED
  BY <1>2, <1>3, <1>4, <1>7, <1>8, <1>9, StepKeeps

LEMMA BootstrapKeeps ==
  ASSUME RegistryInv, NEW c \in Call, Bootstrap(c)
  PROVE  RegistryInv' /\ RemoteStep
<1>1. /\ mode' = mode /\ remote' = remote /\ signings' = signings + 1
      /\ UNCHANGED <<cache, db, held, shown, package, trouble>>
  BY DEF Bootstrap
<1>2. PICK m \in Manifest : m = InitialManifest(signings + 1) /\ Successor(m)
  BY InitialIsSuccessor DEF RegistryInv, RegistryTypeOK
<1>3. call[c] \in CallState
  BY CallTypes
<1>4. PICK k \in CallState :
        /\ call' = [call EXCEPT ![c] = k]
        /\ k.at = "sent" /\ k.incoming = m
  <2>. DEFINE j == [call[c] EXCEPT !.at = "sent", !.op = "sync", !.incoming = m]
  <2>1. j \in CallState /\ j.at = "sent" /\ j.incoming = m
    BY <1>3 DEF CallState, MaybeManifest
  <2>2. call' = [call EXCEPT ![c] = j]
    BY <1>2 DEF Bootstrap
  <2>. QED
    BY <2>1, <2>2
<1>5. GoodCall(k)
  BY <1>2, <1>4 DEF GoodCall
<1>6. RemoteStep
  BY <1>1, SameRemote
<1>7. call' \in [Call -> CallState] /\ CallsGood'
  BY <1>1, <1>4, <1>5, <1>6, OneGoodCall
<1>8. KeptTypes' /\ KeptDurable'
  BY <1>1, <1>6, KeptSame
<1>9. OtherTypes'
  BY <1>1, InvParts DEF OtherTypes
<1>. QED
  BY <1>1, <1>6, <1>7, <1>8, <1>9, StepKeeps

LEMMA DroppedKeeps ==
  ASSUME RegistryInv, NEW c \in Call, Dropped(c)
  PROVE  RegistryInv' /\ RemoteStep
<1>1. Hang(c) /\ UNCHANGED <<mode, remote, cache, db, held, shown, package, signings, trouble>>
  BY DEF Dropped, browserVars
<1>2. RemoteStep
  BY <1>1, SameRemote
<1>3. call' \in [Call -> CallState] /\ CallsGood'
  BY <1>1, <1>2, HangStep
<1>4. KeptTypes' /\ KeptDurable'
  BY <1>1, <1>2, KeptSame
<1>5. OtherTypes'
  BY <1>1, InvParts DEF OtherTypes
<1>. QED
  BY <1>1, <1>2, <1>3, <1>4, <1>5, StepKeeps

LEMMA InstallPackageKeeps ==
  ASSUME RegistryInv, NEW d \in Linkable, InstallPackage(d)
  PROVE  RegistryInv' /\ RemoteStep
<1>. DEFINE m == package[d]
<1>1. m \in MaybeManifest /\ (mode # "memory" => Durable(m))
  BY DEF RegistryInv, RegistryTypeOK, KeptDurable
<1>2. /\ db' = [db EXCEPT ![d] = m]
      /\ held' = [t \in Page |-> IF BrowserOf[t] = d THEN m ELSE held[t]]
      /\ package' = [package EXCEPT ![d] = NoManifest]
      /\ UNCHANGED <<mode, remote, cache, call, shown, signings, trouble>>
  BY DEF InstallPackage
<1>. HIDE DEF m
<1>3. RemoteStep
  BY <1>2, SameRemote
<1>4. call' \in [Call -> CallState] /\ CallsGood'
  BY <1>2, <1>3, GoodCallStays DEF RegistryInv, RegistryTypeOK, CallsGood
<1>5. KeptTypes' /\ KeptFrom(m)
  BY <1>1, <1>2, InvParts DEF KeptTypes, KeptFrom, MaybeManifest
<1>6. KeptDurable'
  BY <1>1, <1>2, <1>3, <1>5, KeptAfter
<1>7. OtherTypes'
  BY <1>2, InvParts DEF OtherTypes
<1>. QED
  BY <1>2, <1>3, <1>4, <1>5, <1>6, <1>7, StepKeeps

-----------------------------------------------------------------------------
(* The server. *)

\* A server step that leaves the durable manifest and every kept copy alone.
LEMMA QuietStep ==
  ASSUME RegistryInv, remote' = remote, mode' = mode, call' \in [Call -> CallState], CallsGood',
         UNCHANGED <<cache, browserVars>>, trouble' \in Nat
  PROVE  RegistryInv' /\ RemoteStep
<1>1. RemoteStep
  BY SameRemote
<1>2. KeptTypes' /\ KeptDurable'
  BY <1>1, KeptSame DEF browserVars
<1>3. OtherTypes'
  BY InvParts DEF OtherTypes, browserVars
<1>. QED
  BY <1>1, <1>2, <1>3, StepKeeps

LEMMA GetCachedKeeps ==
  ASSUME RegistryInv, NEW c \in Call, GetCached(c)
  PROVE  RegistryInv' /\ RemoteStep
<1>. DEFINE known == IF mode = "standalone" THEN remote ELSE cache[call[c].proc]
<1>1. UNCHANGED <<mode, remote, cache, browserVars, trouble>> /\ call[c].op \in GET
  BY DEF GetCached, Handler
<1>2. known \in MaybeManifest /\ (mode # "memory" => Durable(known))
  <2>1. mode = "standalone" => Durable(remote) /\ remote \in MaybeManifest
    BY RemoteDurable DEF RegistryInv, RegistryTypeOK
  <2>2. cache[call[c].proc] \in MaybeManifest /\ (mode # "memory" => Durable(cache[call[c].proc]))
    BY CallTypes DEF RegistryInv, RegistryTypeOK, KeptDurable
  <2>. QED
    BY <2>1, <2>2
<1>3. \/ Respond(c, known)
      \/ Step(c, "load") /\ mode = "github"
      \/ Refuse(c)
  BY DEF GetCached
<1>. HIDE DEF known
<1>4. PICK m \in MaybeManifest : m = known /\ (mode # "memory" => Durable(m))
  BY <1>2
<1>5. RemoteStep /\ mode' = mode
  BY <1>1, SameRemote
<1>6. mode # "memory" => Durable(m)'
  BY <1>4, <1>5, DurableStays DEF RegistryInv, RegistryTypeOK, RemoteStep
<1>7. call' \in [Call -> CallState] /\ CallsGood'
  <2>1. CASE Respond(c, known)
    BY <1>4, <1>5, <1>6, <2>1, RespondStep
  <2>2. CASE Step(c, "load") /\ mode = "github"
    BY <1>1, <1>5, <2>2, WaitStep DEF GET, POST
  <2>3. CASE Refuse(c)
    BY <1>5, <2>3, RefuseStep
  <2>. QED
    BY <1>3, <2>1, <2>2, <2>3
<1>8. trouble' \in Nat
  BY <1>1 DEF RegistryInv, RegistryTypeOK
<1>. QED
  BY <1>1, <1>7, <1>8, QuietStep

LEMMA GetReadKeeps ==
  ASSUME RegistryInv, NEW c \in Call, GetRead(c)
  PROVE  RegistryInv' /\ RemoteStep
<1>1. UNCHANGED <<mode, remote, cache, browserVars, trouble>> /\ call[c].at = "load"
  BY DEF GetRead, Handler
<1>2. remote \in MaybeManifest /\ Durable(remote) /\ call[c] \in CallState /\ GoodCall(call[c])
  BY CallTypes, RemoteDurable DEF RegistryInv, RegistryTypeOK
<1>3. PICK k \in CallState :
        /\ call' = [call EXCEPT ![c] = k]
        /\ k.at = "loaded" /\ k.base = remote
  <2>. DEFINE j == [call[c] EXCEPT !.at = "loaded", !.base = remote]
  <2>1. j \in CallState /\ j.at = "loaded" /\ j.base = remote
    BY <1>2 DEF CallState
  <2>2. call' = [call EXCEPT ![c] = j]
    BY DEF GetRead, RegistryInv, RegistryTypeOK
  <2>. QED
    BY <2>1, <2>2
<1>4. mode = "github"
  BY <1>1, <1>2 DEF GoodCall
<1>5. GoodCall(k)
  BY <1>2, <1>3, <1>4 DEF GoodCall
<1>6. RemoteStep
  BY <1>1, SameRemote
<1>7. call' \in [Call -> CallState] /\ CallsGood'
  BY <1>1, <1>3, <1>5, <1>6, OneGoodCall
<1>8. trouble' \in Nat
  BY <1>1 DEF RegistryInv, RegistryTypeOK
<1>. QED
  BY <1>1, <1>7, <1>8, QuietStep

\* One process caches m.
LEMMA CacheStep ==
  ASSUME RegistryInv, RemoteStep, mode' = mode, NEW q \in Proc, NEW m \in MaybeManifest,
         mode # "memory" => Durable(m),
         cache' = cache \/ cache' = [cache EXCEPT ![q] = m],
         call' \in [Call -> CallState], CallsGood', UNCHANGED <<browserVars, trouble>>
  PROVE  RegistryInv' /\ RemoteStep
<1>1. cache' \in [Proc -> MaybeManifest] /\ \A p \in Proc : cache'[p] \in {cache[p], m}
  BY DEF RegistryInv, RegistryTypeOK
<1>2. KeptTypes' /\ KeptFrom(m)
  BY <1>1, InvParts DEF KeptTypes, KeptFrom, browserVars
<1>3. KeptDurable'
  BY <1>2, KeptAfter
<1>4. OtherTypes'
  BY InvParts DEF OtherTypes, browserVars
<1>. QED
  BY <1>2, <1>3, <1>4, StepKeeps

LEMMA GetAcceptsKeeps ==
  ASSUME RegistryInv, NEW c \in Call, GetAccepts(c)
  PROVE  RegistryInv' /\ RemoteStep
<1>1. /\ UNCHANGED <<mode, remote, browserVars, trouble>>
      /\ call[c].at = "loaded"
      /\ \/ cache' = [cache EXCEPT ![call[c].proc] = call[c].base] /\ Respond(c, call[c].base)
         \/ cache' = cache /\ Refuse(c)
  BY DEF GetAccepts, Handler
<1>2. call[c].proc \in Proc
  BY CallTypes
<1>3. PICK m \in MaybeManifest : m = call[c].base /\ (mode # "memory" => Durable(m))
  BY <1>1, CallTypes DEF GoodCall
<1>4. RemoteStep /\ mode' = mode
  BY <1>1, SameRemote
<1>5. mode # "memory" => Durable(m)'
  BY <1>3, <1>4, DurableStays DEF RegistryInv, RegistryTypeOK, RemoteStep
<1>6. call' \in [Call -> CallState] /\ CallsGood'
  BY <1>1, <1>3, <1>4, <1>5, RespondStep, RefuseStep
<1>. QED
  BY <1>1, <1>2, <1>3, <1>4, <1>6, CacheStep

\* A manifest that a relay, or a web server without a registry, publishes at once.
LEMMA PublishStartsKeeps ==
  ASSUME RegistryInv, NEW c \in Call, PublishStarts(c)
  PROVE  RegistryInv' /\ RemoteStep
<1>. DEFINE p == call[c].proc
<1>1. call[c].at = "sent" /\ call[c].op \in POST /\ UNCHANGED <<mode, browserVars, trouble>>
  BY DEF PublishStarts, Handler
<1>2. p \in Proc /\ call[c] \in CallState /\ GoodCall(call[c])
  BY CallTypes
<1>3. PICK m \in MaybeManifest : m = call[c].incoming
  BY CallTypes
<1>4. remote \in MaybeManifest /\ Sound(remote) /\ Durable(NoManifest) /\ NoManifest \in MaybeManifest
  BY NoManifestDurable DEF RegistryInv, RegistryTypeOK, MaybeManifest
<1>5. CASE mode = "memory"
  <2>1. /\ remote' = remote
        /\ \/ cache' = [cache EXCEPT ![p] = m] /\ Respond(c, m)
           \/ cache' = cache /\ Refuse(c)
    BY <1>3, <1>5 DEF PublishStarts
  <2>2. RemoteStep
    BY <2>1, SameRemote
  <2>3. call' \in [Call -> CallState] /\ CallsGood'
    BY <1>1, <1>5, <2>1, <2>2, RespondStep, RefuseStep
  <2>. QED
    BY <1>1, <1>2, <1>5, <2>1, <2>2, <2>3, CacheStep
<1>6. CASE mode = "standalone"
  <2>1. /\ cache' = cache
        /\ \/ remote' = m /\ Accepts(remote, m) /\ Respond(c, m)
           \/ remote' = remote /\ Refuse(c)
    BY <1>3, <1>6 DEF PublishStarts
  <2>2. CASE remote' = remote /\ Refuse(c)
    <3>1. RemoteStep
      BY <2>2, SameRemote
    <3>2. call' \in [Call -> CallState] /\ CallsGood'
      BY <1>1, <2>2, <3>1, RefuseStep
    <3>. QED
      BY <1>1, <1>2, <1>4, <2>1, <3>1, <3>2, CacheStep
  <2>3. CASE remote' = m /\ Accepts(remote, m) /\ Respond(c, m)
    <3>1. RemoteStep
      <4>1. CASE m = remote
        BY <2>3, <4>1, SameRemote
      <4>2. CASE m # remote
        BY <1>4, <2>3, <4>2, AcceptedReplaces, ReplacedRemote
      <4>. QED
        BY <4>1, <4>2
    <3>2. Durable(m)'
      <4>1. Sound(m) /\ m.seq \in Nat
        BY <2>3, NoManifestIsNone DEF Accepts, Sound
      <4>. QED
        BY <2>3, <4>1 DEF Durable, Published, Sound, WellFormed, RevokedDevices, NoManifest
    <3>3. call' \in [Call -> CallState] /\ CallsGood'
      BY <1>1, <2>3, <3>1, <3>2, RespondStep
    <3>. QED
      BY <1>1, <1>2, <1>4, <2>1, <3>1, <3>3, CacheStep
  <2>. QED
    BY <2>1, <2>2, <2>3
<1>7. CASE mode = "github"
  <2>1. UNCHANGED <<remote, cache>>
    BY <1>7 DEF PublishStarts
  <2>2. PICK k \in CallState :
          /\ call' = [call EXCEPT ![c] = k]
          /\ k.at = "load" /\ k.op = call[c].op /\ k.incoming = m
    <3>. DEFINE j == [call[c] EXCEPT !.at = "load", !.seen = cache[p]]
    <3>1. cache[p] \in MaybeManifest
      BY <1>2 DEF RegistryInv, RegistryTypeOK
    <3>2. j \in CallState /\ j.at = "load" /\ j.op = call[c].op /\ j.incoming = m
      BY <1>2, <1>3, <3>1 DEF CallState
    <3>3. call' = [call EXCEPT ![c] = j]
      BY <1>7 DEF PublishStarts, RegistryInv, RegistryTypeOK
    <3>. QED
      BY <3>2, <3>3
  <2>3. GoodCall(k)
    BY <1>1, <1>2, <1>3, <1>7, <2>2 DEF GoodCall
  <2>4. RemoteStep
    BY <2>1, SameRemote
  <2>5. call' \in [Call -> CallState] /\ CallsGood'
    BY <1>1, <2>2, <2>3, <2>4, OneGoodCall
  <2>6. trouble' \in Nat
    BY <1>1 DEF RegistryInv, RegistryTypeOK
  <2>. QED
    BY <1>1, <2>1, <2>5, <2>6, QuietStep
<1>. QED
  BY <1>5, <1>6, <1>7 DEF RegistryInv, RegistryTypeOK, Mode

LEMMA PublishReconcilesKeeps ==
  ASSUME RegistryInv, NEW c \in Call, PublishReconciles(c)
  PROVE  RegistryInv' /\ RemoteStep
<1>1. /\ call[c].at = "load" /\ call[c].op \in POST
      /\ Step(c, "save") \/ Refuse(c)
      /\ UNCHANGED <<mode, remote, cache, browserVars, trouble>>
  BY DEF PublishReconciles, Handler
<1>2. mode = "github" /\ (Durable(call[c].incoming) \/ Successor(call[c].incoming))
  BY <1>1, CallTypes DEF GoodCall
<1>3. RemoteStep
  BY <1>1, SameRemote
<1>4. call' \in [Call -> CallState] /\ CallsGood'
  BY <1>1, <1>2, <1>3, WaitStep, RefuseStep
<1>5. trouble' \in Nat
  BY <1>1 DEF RegistryInv, RegistryTypeOK
<1>. QED
  BY <1>1, <1>4, <1>5, QuietStep

LEMMA SaveReadsKeeps ==
  ASSUME RegistryInv, NEW c \in Call, SaveReads(c)
  PROVE  RegistryInv' /\ RemoteStep
<1>1. /\ call[c].at = "save" /\ call[c].op \in POST
      /\ UNCHANGED <<mode, remote, cache, browserVars, trouble>>
  BY DEF SaveReads, Handler
<1>2. call[c] \in CallState /\ mode = "github"
  BY <1>1, CallTypes DEF GoodCall
<1>3. PICK m \in MaybeManifest : m = call[c].incoming /\ (Durable(m) \/ Successor(m))
  BY <1>1, <1>2, CallTypes DEF GoodCall
<1>4. RemoteStep /\ remote \in MaybeManifest
  BY <1>1, SameRemote DEF RegistryInv, RegistryTypeOK
<1>5. call' \in [Call -> CallState] /\ CallsGood'
  <2>1. CASE RegistryUnchanged(remote, m)
    <3>1. Step(c, "finish")
      BY <1>3, <2>1 DEF SaveReads
    <3>2. m = remote
      BY <2>1 DEF RegistryUnchanged
    <3>3. Durable(m)
      BY <3>2, RemoteDurable DEF RegistryInv, RegistryTypeOK
    <3>4. Durable(m)'
      BY <1>4, <3>3, DurableStays DEF RemoteStep
    <3>. QED
      BY <1>1, <1>2, <1>3, <1>4, <3>1, <3>4, FinishStep
  <2>2. CASE ~RegistryUnchanged(remote, m) /\ RegistryWrites(remote, m)
    <3>1. Replaces(remote, m)
      BY <1>3, <1>4, <2>2, SuccessorReplacesIts
    <3>2. PICK k \in CallState :
            /\ call' = [call EXCEPT ![c] = k]
            /\ k.at = "put" /\ k.base = remote /\ k.incoming = m
      <4>. DEFINE j == [call[c] EXCEPT !.at = "put", !.base = remote]
      <4>1. j \in CallState /\ j.at = "put" /\ j.base = remote /\ j.incoming = m
        BY <1>2, <1>3, <1>4 DEF CallState
      <4>2. call' = [call EXCEPT ![c] = j]
        BY <1>3, <2>2 DEF SaveReads, RegistryInv, RegistryTypeOK
      <4>. QED
        BY <4>1, <4>2
    <3>3. GoodCall(k)
      BY <1>2, <3>1, <3>2 DEF GoodCall
    <3>. QED
      BY <1>1, <1>4, <3>2, <3>3, OneGoodCall
  <2>3. CASE ~RegistryUnchanged(remote, m) /\ ~RegistryWrites(remote, m)
    <3>1. Refuse(c)
      BY <1>3, <2>3 DEF SaveReads
    <3>. QED
      BY <1>1, <1>4, <3>1, RefuseStep
  <2>. QED
    BY <2>1, <2>2, <2>3
<1>6. trouble' \in Nat
  BY <1>1 DEF RegistryInv, RegistryTypeOK
<1>. QED
  BY <1>1, <1>5, <1>6, QuietStep

\* The PUT of a handler, or of one that is gone, is applied or not.
LEMMA PutStep ==
  ASSUME RegistryInv, NEW c \in Call, call[c].at \in {"put", "orphan"},
         remote' = remote \/ CompareAndPut(call[c].incoming, call[c].base)
  PROVE  /\ RemoteStep /\ mode = "github"
         /\ \A m \in MaybeManifest : m = call[c].incoming /\ remote' = m => Durable(m)'
<1>1. mode = "github" /\ Replaces(call[c].base, call[c].incoming)
  BY CallTypes DEF GoodCall
<1>2. PICK m \in MaybeManifest : m = call[c].incoming
  BY CallTypes
<1>3. RemoteStep
  <2>1. CASE remote' = remote
    BY <2>1, SameRemote
  <2>2. CASE remote' # remote
    <3>1. remote' = m /\ Replaces(remote, m)
      BY <1>1, <1>2, <2>2 DEF CompareAndPut
    <3>. QED
      BY <3>1, ReplacedRemote
  <2>. QED
    BY <2>1, <2>2
<1>4. Sound(m) /\ m.seq \in Nat
  BY <1>1, <1>2, NoManifestIsNone DEF Replaces, Sound
<1>5. ASSUME remote' = m PROVE Durable(m)'
  BY <1>4, <1>5 DEF Durable, Published, Sound, WellFormed, RevokedDevices, NoManifest
<1>. QED
  BY <1>1, <1>2, <1>3, <1>5

\* The rest of such a step.
LEMMA PutKeeps ==
  ASSUME RegistryInv, RemoteStep, mode' = mode, call' \in [Call -> CallState], CallsGood',
         UNCHANGED <<cache, browserVars>>, trouble' \in Nat
  PROVE  RegistryInv' /\ RemoteStep
<1>1. KeptTypes' /\ KeptDurable'
  BY KeptSame DEF browserVars
<1>2. OtherTypes'
  BY InvParts DEF OtherTypes, browserVars
<1>. QED
  BY <1>1, <1>2, StepKeeps

LEMMA SavePutsKeeps ==
  ASSUME RegistryInv, NEW c \in Call, SavePuts(c)
  PROVE  RegistryInv' /\ RemoteStep
<1>1. /\ call[c].at = "put" /\ CompareAndPut(call[c].incoming, call[c].base)
      /\ UNCHANGED <<mode, cache, browserVars, trouble>>
  BY DEF SavePuts, Handler
<1>2. PICK m \in MaybeManifest : m = call[c].incoming
  BY CallTypes
<1>3. RemoteStep /\ mode = "github" /\ (remote' = m => Durable(m)')
  BY <1>1, <1>2, PutStep
<1>4. call' \in [Call -> CallState] /\ CallsGood'
  <2>1. CASE remote = call[c].base
    <3>1. Step(c, "finish") /\ remote' = m
      BY <1>1, <1>2, <2>1 DEF SavePuts, CompareAndPut
    <3>. QED
      BY <1>1, <1>2, <1>3, <3>1, FinishStep
  <2>2. CASE remote # call[c].base
    <3>1. Refuse(c)
      BY <2>2 DEF SavePuts
    <3>. QED
      BY <1>1, <1>3, <3>1, RefuseStep
  <2>. QED
    BY <2>1, <2>2
<1>5. trouble' \in Nat
  BY <1>1 DEF RegistryInv, RegistryTypeOK
<1>. QED
  BY <1>1, <1>3, <1>4, <1>5, PutKeeps

LEMMA PublishFinishesKeeps ==
  ASSUME RegistryInv, NEW c \in Call, PublishFinishes(c)
  PROVE  RegistryInv' /\ RemoteStep
<1>1. /\ call[c].at = "finish" /\ UNCHANGED <<mode, remote, browserVars, trouble>>
      /\ cache' = [cache EXCEPT ![call[c].proc] = call[c].incoming]
      /\ Respond(c, call[c].incoming)
  BY DEF PublishFinishes, Handler, CacheAccepted
<1>2. call[c].proc \in Proc
  BY CallTypes
<1>3. PICK m \in MaybeManifest : m = call[c].incoming /\ (mode # "memory" => Durable(m))
  BY <1>1, CallTypes DEF GoodCall
<1>4. RemoteStep /\ mode' = mode
  BY <1>1, SameRemote
<1>5. mode # "memory" => Durable(m)'
  BY <1>3, <1>4, DurableStays DEF RegistryInv, RegistryTypeOK, RemoteStep
<1>6. call' \in [Call -> CallState] /\ CallsGood'
  BY <1>1, <1>3, <1>4, <1>5, RespondStep
<1>. QED
  BY <1>1, <1>2, <1>3, <1>4, <1>6, CacheStep

-----------------------------------------------------------------------------
(* The faults. *)

LEMMA TroubleTypes ==
  ASSUME RegistryInv, Trouble
  PROVE  trouble' \in Nat
  BY DEF Trouble, RegistryInv, RegistryTypeOK

LEMMA RegistryFailsKeeps ==
  ASSUME RegistryInv, NEW c \in Call, RegistryFails(c)
  PROVE  RegistryInv' /\ RemoteStep
<1>1. /\ remote' = remote \/ (call[c].at = "put" /\ CompareAndPut(call[c].incoming, call[c].base))
      /\ Refuse(c) /\ UNCHANGED <<mode, cache, browserVars>> /\ trouble' \in Nat
  BY TroubleTypes DEF RegistryFails
<1>2. RemoteStep
  BY <1>1, SameRemote, PutStep
<1>3. call' \in [Call -> CallState] /\ CallsGood'
  BY <1>1, <1>2, RefuseStep
<1>. QED
  BY <1>1, <1>2, <1>3, PutKeeps

LEMMA OrphanPutKeeps ==
  ASSUME RegistryInv, NEW c \in Call, OrphanPut(c)
  PROVE  RegistryInv' /\ RemoteStep
<1>1. /\ call[c].at = "orphan"
      /\ remote' = remote \/ CompareAndPut(call[c].incoming, call[c].base)
      /\ Hang(c) /\ UNCHANGED <<mode, cache, browserVars, trouble>>
  BY DEF OrphanPut
<1>2. RemoteStep
  BY <1>1, PutStep
<1>3. call' \in [Call -> CallState] /\ CallsGood'
  BY <1>1, <1>2, HangStep
<1>4. trouble' \in Nat
  BY <1>1 DEF RegistryInv, RegistryTypeOK
<1>. QED
  BY <1>1, <1>2, <1>3, <1>4, PutKeeps

LEMMA LoseAnswerKeeps ==
  ASSUME RegistryInv, NEW c \in Call, LoseAnswer(c)
  PROVE  RegistryInv' /\ RemoteStep
<1>1. UNCHANGED <<mode, remote, cache, browserVars>> /\ trouble' \in Nat
  BY TroubleTypes DEF LoseAnswer
<1>2. call[c] \in CallState /\ GoodCall(call[c])
  BY CallTypes
<1>3. PICK k \in CallState : call' = [call EXCEPT ![c] = k] /\ GoodCall(k)
  <2>. DEFINE j == [call[c] EXCEPT !.tab = Nobody]
  <2>1. /\ j \in CallState /\ j.at = call[c].at /\ j.op = call[c].op /\ j.ok = call[c].ok
        /\ j.incoming = call[c].incoming /\ j.base = call[c].base
    BY <1>2 DEF CallState
  <2>2. call' = [call EXCEPT ![c] = j]
    BY DEF LoseAnswer, RegistryInv, RegistryTypeOK
  <2>. HIDE DEF j
  <2>3. GoodCall(j)
    BY <1>2, <2>1 DEF GoodCall
  <2>. QED
    BY <2>1, <2>2, <2>3
<1>4. RemoteStep
  BY <1>1, SameRemote
<1>5. call' \in [Call -> CallState] /\ CallsGood'
  BY <1>1, <1>3, <1>4, OneGoodCall
<1>. QED
  BY <1>1, <1>5, QuietStep

\* Many calls change at once, each to a good one.
LEMMA ManyCalls ==
  ASSUME RegistryInv, RemoteStep, mode' = mode, DOMAIN call' = Call,
         call' = [c \in Call |-> call'[c]],
         \A c \in Call : \E k \in CallState : call'[c] = k /\ GoodCall(k)
  PROVE  call' \in [Call -> CallState] /\ CallsGood'
<1>1. call' \in [Call -> CallState]
  OBVIOUS
<1>2. ASSUME NEW c \in Call PROVE GoodCall(call[c])'
  <2>1. PICK k \in CallState : call'[c] = k /\ GoodCall(k)'
    BY GoodCallStays
  <2>. QED
    BY <2>1
<1>. QED
  BY <1>1, <1>2 DEF CallsGood

LEMMA ReloadPageKeeps ==
  ASSUME RegistryInv, NEW t \in Page, ReloadPage(t)
  PROVE  RegistryInv' /\ RemoteStep
<1>1. /\ held' = [held EXCEPT ![t] = db[BrowserOf[t]]]
      /\ shown' = [u \in Admin |-> IF u = t THEN NoManifest ELSE shown[u]]
      /\ call' = [c \in Call |-> IF call[c].tab = t THEN [call[c] EXCEPT !.tab = Nobody] ELSE call[c]]
      /\ UNCHANGED <<mode, remote, cache, db, package, signings>> /\ trouble' \in Nat
  BY TroubleTypes DEF ReloadPage
<1>2. BrowserOf[t] \in Browser
  BY RegistryAssumption DEF Browser
<1>3. PICK m \in MaybeManifest : m = db[BrowserOf[t]] /\ (mode # "memory" => Durable(m))
  BY <1>2 DEF RegistryInv, RegistryTypeOK, KeptDurable
<1>4. RemoteStep
  BY <1>1, SameRemote
<1>5. ASSUME NEW c \in Call PROVE \E k \in CallState : call'[c] = k /\ GoodCall(k)
  <2>1. call[c] \in CallState /\ GoodCall(call[c])
    BY CallTypes
  <2>2. CASE call[c].tab # t
    BY <1>1, <2>1, <2>2
  <2>3. CASE call[c].tab = t
    <3>. DEFINE j == [call[c] EXCEPT !.tab = Nobody]
    <3>1. /\ j \in CallState /\ j.at = call[c].at /\ j.op = call[c].op /\ j.ok = call[c].ok
          /\ j.incoming = call[c].incoming /\ j.base = call[c].base
      BY <2>1 DEF CallState
    <3>2. call'[c] = j
      BY <1>1, <2>3
    <3>. HIDE DEF j
    <3>3. GoodCall(j)
      BY <2>1, <3>1 DEF GoodCall
    <3>. QED
      BY <3>1, <3>2, <3>3
  <2>. QED
    BY <2>2, <2>3
<1>6. call' \in [Call -> CallState] /\ CallsGood'
  BY <1>1, <1>4, <1>5, ManyCalls
<1>7. KeptTypes' /\ KeptFrom(m)
  BY <1>1, <1>3, InvParts DEF KeptTypes, KeptFrom, MaybeManifest
<1>8. KeptDurable'
  BY <1>1, <1>3, <1>4, <1>7, KeptAfter
<1>9. OtherTypes'
  BY <1>1, InvParts DEF OtherTypes
<1>. QED
  BY <1>1, <1>4, <1>6, <1>7, <1>8, <1>9, StepKeeps

LEMMA RestartKeeps ==
  ASSUME RegistryInv, NEW p \in Proc, Restart(p)
  PROVE  RegistryInv' /\ RemoteStep
<1>1. /\ cache' = [cache EXCEPT ![p] = NoManifest]
      /\ UNCHANGED <<mode, remote, browserVars>> /\ trouble' \in Nat
      /\ call' = [c \in Call |->
           IF call[c].proc # p THEN call[c]
           ELSE IF call[c].at = "put" THEN [call[c] EXCEPT !.at = "orphan", !.tab = Nobody]
           ELSE IF call[c].at = "orphan" THEN call[c]
           ELSE IdleCall(p)]
  BY TroubleTypes DEF Restart
<1>2. RemoteStep
  BY <1>1, SameRemote
<1>3. ASSUME NEW c \in Call PROVE \E k \in CallState : call'[c] = k /\ GoodCall(k)
  <2>1. call[c] \in CallState /\ GoodCall(call[c])
    BY CallTypes
  <2>2. CASE call'[c] = call[c]
    BY <2>1, <2>2
  <2>3. CASE call'[c] = IdleCall(p)
    <3>1. IdleCall(p) \in CallState /\ IdleCall(p).at = "free"
      BY DEF IdleCall, CallState, MaybeManifest
    <3>2. GoodCall(IdleCall(p))
      BY <3>1 DEF GoodCall
    <3>. QED
      BY <2>3, <3>1, <3>2
  <2>4. CASE call[c].at = "put" /\ call'[c] = [call[c] EXCEPT !.at = "orphan", !.tab = Nobody]
    <3>. DEFINE j == [call[c] EXCEPT !.at = "orphan", !.tab = Nobody]
    <3>1. /\ j \in CallState /\ j.at = "orphan"
          /\ j.incoming = call[c].incoming /\ j.base = call[c].base
      BY <2>1 DEF CallState
    <3>. HIDE DEF j
    <3>2. GoodCall(j)
      BY <2>1, <2>4, <3>1 DEF GoodCall
    <3>. QED
      BY <2>4, <3>1, <3>2 DEF j
  <2>. QED
    BY <1>1, <2>2, <2>3, <2>4
<1>4. call' \in [Call -> CallState] /\ CallsGood'
  BY <1>1, <1>2, <1>3, ManyCalls
<1>5. NoManifest \in MaybeManifest /\ Durable(NoManifest)
  BY NoManifestDurable DEF RegistryInv, RegistryTypeOK, MaybeManifest
<1>6. KeptTypes' /\ KeptFrom(NoManifest)
  BY <1>1, <1>5, InvParts DEF KeptTypes, KeptFrom, browserVars
<1>7. KeptDurable'
  BY <1>1, <1>2, <1>5, <1>6, KeptAfter
<1>8. OtherTypes'
  BY <1>1, InvParts DEF OtherTypes, browserVars
<1>. QED
  BY <1>1, <1>2, <1>4, <1>6, <1>7, <1>8, StepKeeps

-----------------------------------------------------------------------------
(* The theorems. *)

LEMMA InitGood == RegistryInit => RegistryInv
<1>. SUFFICES ASSUME RegistryInit PROVE RegistryInv
  OBVIOUS
<1>1. NoManifest \in MaybeManifest /\ remote \in MaybeManifest /\ Sound(remote)
  BY DEF RegistryInit, MaybeManifest, Sound
<1>2. ASSUME NEW p \in Proc PROVE IdleCall(p) \in CallState /\ IdleCall(p).at = "free"
  BY DEF IdleCall, CallState, MaybeManifest
<1>3. ASSUME NEW c \in Call PROVE call[c] \in CallState /\ call[c].at = "free"
  BY <1>2 DEF RegistryInit
<1>4. CallsGood
  BY <1>3 DEF CallsGood, GoodCall
<1>5. RegistryTypeOK
  BY <1>1, <1>2 DEF RegistryInit, RegistryTypeOK
<1>6. Durable(NoManifest)
  BY <1>1, NoManifestDurable
<1>7. KeptDurable
  BY <1>6 DEF KeptDurable, RegistryInit
<1>. QED
  BY <1>1, <1>4, <1>5, <1>7 DEF RegistryInv

LEMMA NextKeeps ==
  ASSUME RegistryInv, RegistryNext
  PROVE  RegistryInv' /\ RemoteStep
<1>1. CASE \E t \in Page : SyncOwnManifest(t) \/ RefreshManifest(t) \/ ReloadPage(t)
  BY <1>1, SyncOwnManifestKeeps, RefreshManifestKeeps, ReloadPageKeeps
<1>2. CASE \E t \in Admin, d \in Linkable : ApprovePairing(t, d) \/ Revoke(t, d)
  BY <1>2, EditsKeep
<1>3. CASE \E d \in Linkable : InstallPackage(d)
  BY <1>3, InstallPackageKeeps
<1>4. CASE \E c \in Call : ServerStep(c)
  BY <1>4, GetCachedKeeps, GetReadKeeps, GetAcceptsKeeps, PublishStartsKeeps, PublishReconcilesKeeps,
     SaveReadsKeeps, SavePutsKeeps, PublishFinishesKeeps DEF ServerStep
<1>5. CASE \E c \in Call : AnswerStep(c)
  BY <1>5, KeepAnswerKeeps, BootstrapKeeps, RefreshedKeeps, EditedKeeps, DroppedKeeps DEF AnswerStep
<1>6. CASE \E c \in Call : RegistryFails(c) \/ LoseAnswer(c) \/ OrphanPut(c)
  BY <1>6, RegistryFailsKeeps, LoseAnswerKeeps, OrphanPutKeeps
<1>7. CASE \E p \in Proc : Restart(p)
  BY <1>7, RestartKeeps
<1>. QED
  BY <1>1, <1>2, <1>3, <1>4, <1>5, <1>6, <1>7, RegistryAssumption, Zenon DEF RegistryNext, RegistryFault

\* A step that changes nothing.
LEMMA StutterKeeps ==
  ASSUME RegistryInv, UNCHANGED registryVars
  PROVE  RegistryInv' /\ RemoteStep
<1>1. RemoteStep /\ UNCHANGED <<mode, call>>
  BY SameRemote DEF registryVars
<1>2. ASSUME NEW c \in Call PROVE \E k \in CallState : call'[c] = k /\ GoodCall(k)
  BY <1>1, CallTypes
<1>3. call' \in [Call -> CallState] /\ CallsGood'
  BY <1>1, <1>2, ManyCalls DEF RegistryInv, RegistryTypeOK
<1>4. UNCHANGED <<cache, browserVars, remote>> /\ trouble' \in Nat
  BY DEF registryVars, browserVars, RegistryInv, RegistryTypeOK
<1>. QED
  BY <1>1, <1>3, <1>4, QuietStep

(* The inductive invariant: every manifest kept was durable, and every call *)
(* carries one or its successor (manifest-sync.ts, manifest-state.ts).      *)
THEOREM RegistryInvariant == RegistrySpec => []RegistryInv
<1>1. RegistryInv /\ [RegistryNext]_registryVars => RegistryInv'
  BY NextKeeps, StutterKeeps
<1>. QED
  BY <1>1, InitGood, PTL DEF RegistrySpec

(* Types: the type invariant of ManifestRegistry.                           *)
THEOREM RegistryTypes == RegistrySpec => []RegistryTypeOK
<1>1. RegistryInv => RegistryTypeOK
  BY DEF RegistryInv
<1>. QED
  BY <1>1, RegistryInvariant, PTL

(* No page holds, shows, installs or edits a manifest, and no process       *)
(* serves one, that was not durable (publishManifest, manifest-state.ts).   *)
THEOREM OnlyDurableIsKept == RegistrySpec => []KeptIsPublished
<1>1. RegistryInv => KeptIsPublished
  BY DEF RegistryInv, KeptDurable, KeptIsPublished, Durable
<1>. QED
  BY <1>1, RegistryInvariant, PTL

(* The durable manifest is only replaced by a later one with all its        *)
(* revocations (decideRegistryWrite, saveRegistryManifest).                 *)
THEOREM RevocationsAreDurable == RegistrySpec => CheckpointGrows
<1>1. RegistryInv /\ [RegistryNext]_registryVars =>
        [remote' # remote => remote'.seq > remote.seq /\ KeepsRevocations(remote, remote')]_registryVars
  BY NextKeeps, StutterKeeps DEF RemoteStep, Grows, Replaces
<1>. QED
  BY <1>1, RegistryInvariant, PTL DEF RegistrySpec, CheckpointGrows

-----------------------------------------------------------------------------
(* Without a registry: the caches of the processes are all there is.        *)

CachesSound == mode = "memory" => \A p \in Proc : Sound(cache[p])

\* What a step does to the caches of a relay whose memory is its only state.
CachesGrow ==
  \A p \in Proc : cache'[p] = cache[p] \/ cache'[p] = NoManifest \/ Accepts(cache[p], cache'[p])

LEMMA ReconciledIsAccepted ==
  ASSUME NEW x \in MaybeManifest, NEW m, Reconciles(x, NoManifest, m)
  PROVE  Accepts(x, m)
<1>1. x.seq \in Nat /\ (x.seq = 0 <=> x = NoManifest) /\ NoManifest.seq = 0
  BY NoManifestIsNone DEF NoManifest
<1>2. Newest(x, NoManifest) = x
  BY <1>1 DEF Newest
<1>. QED
  BY <1>2 DEF Reconciles

LEMMA MemoryStep ==
  ASSUME RegistryInv, mode = "memory", [RegistryNext]_registryVars
  PROVE  CachesGrow
<1>1. cache \in [Proc -> MaybeManifest] /\ \A c \in Call : call[c].proc \in Proc
  BY DEF RegistryInv, RegistryTypeOK, CallState
<1>2. \A c \in Call : call[c].at \notin {"loaded", "finish"}
  BY DEF RegistryInv, CallsGood, GoodCall
<1>3. CASE UNCHANGED cache
  BY <1>3 DEF CachesGrow
<1>4. ASSUME NEW c \in Call, PublishStarts(c) PROVE CachesGrow
  <2>. DEFINE q == call[c].proc
              m == call[c].incoming
  <2>1. UNCHANGED cache \/ (cache' = [cache EXCEPT ![q] = m] /\ Reconciles(cache[q], NoManifest, m))
    BY <1>4 DEF PublishStarts
  <2>2. q \in Proc /\ cache[q] \in MaybeManifest
    BY <1>1
  <2>. HIDE DEF q, m
  <2>3. CASE cache' = [cache EXCEPT ![q] = m] /\ Reconciles(cache[q], NoManifest, m)
    <3>1. Accepts(cache[q], m)
      BY <2>2, <2>3, ReconciledIsAccepted
    <3>2. \A p \in Proc : cache'[p] = IF p = q THEN m ELSE cache[p]
      BY <1>1, <2>3
    <3>. QED
      BY <3>1, <3>2 DEF CachesGrow
  <2>. QED
    BY <1>3, <2>1, <2>3
<1>5. ASSUME NEW p \in Proc, Restart(p) PROVE CachesGrow
  <2>1. cache' = [cache EXCEPT ![p] = NoManifest]
    BY <1>5 DEF Restart
  <2>2. \A q \in Proc : cache'[q] = IF q = p THEN NoManifest ELSE cache[q]
    BY <1>1, <2>1
  <2>. QED
    BY <2>2 DEF CachesGrow
<1>6. \A c \in Call : ServerStep(c) => UNCHANGED cache \/ PublishStarts(c)
  BY <1>2 DEF ServerStep, Handler, GetCached, GetRead, GetAccepts, PublishReconciles, SaveReads, SavePuts,
              PublishFinishes
<1>7. \A c \in Call : AnswerStep(c) => UNCHANGED cache
  BY DEF AnswerStep, AdoptRead, Bootstrap, SyncPublished, Refreshed, Edited, Dropped
<1>8. RegistryFault => UNCHANGED cache \/ \E p \in Proc : Restart(p)
  BY DEF RegistryFault, RegistryFails, LoseAnswer, OrphanPut, ReloadPage
<1>9. \/ \E t \in Page \ Admin : SyncOwnManifest(t)
      \/ \E t \in Admin : RefreshManifest(t)
      \/ \E t \in Admin, d \in Linkable : ApprovePairing(t, d) \/ Revoke(t, d)
      \/ \E d \in Linkable : InstallPackage(d)
      \/ UNCHANGED registryVars
      => UNCHANGED cache
  BY DEF SyncOwnManifest, RefreshManifest, ApprovePairing, Revoke, Edit, InstallPackage, registryVars
<1>. QED
  BY <1>3, <1>4, <1>5, <1>6, <1>7, <1>8, <1>9 DEF RegistryNext

LEMMA ModeStays ==
  ASSUME [RegistryNext]_registryVars
  PROVE  mode' = mode
<1>1. \A c \in Call : ServerStep(c) \/ AnswerStep(c) => mode' = mode
  BY DEF ServerStep, GetCached, GetRead, GetAccepts, PublishStarts, PublishReconciles, SaveReads, SavePuts,
         PublishFinishes, AnswerStep, AdoptRead, Bootstrap, SyncPublished, Refreshed, Edited, Dropped
<1>2. RegistryFault => mode' = mode
  BY DEF RegistryFault, RegistryFails, LoseAnswer, OrphanPut, ReloadPage, Restart
<1>3. \/ \E t \in Page \ Admin : SyncOwnManifest(t)
      \/ \E t \in Admin : RefreshManifest(t)
      \/ \E t \in Admin, d \in Linkable : ApprovePairing(t, d) \/ Revoke(t, d)
      \/ \E d \in Linkable : InstallPackage(d)
      \/ UNCHANGED registryVars
      => mode' = mode
  BY DEF SyncOwnManifest, RefreshManifest, ApprovePairing, Revoke, Edit, InstallPackage, registryVars
<1>. QED
  BY <1>1, <1>2, <1>3 DEF RegistryNext

LEMMA CachesStaySound ==
  ASSUME RegistryInv, CachesSound, [RegistryNext]_registryVars
  PROVE  CachesSound'
<1>. SUFFICES ASSUME mode' = "memory", NEW p \in Proc PROVE Sound(cache'[p])
  BY DEF CachesSound, Sound
<1>1. mode = "memory" /\ Sound(cache[p])
  BY ModeStays DEF CachesSound
<1>2. cache'[p] = cache[p] \/ cache'[p] = NoManifest \/ Accepts(cache[p], cache'[p])
  BY <1>1, MemoryStep DEF CachesGrow
<1>. QED
  BY <1>1, <1>2 DEF Accepts, Sound

(* What a process without a registry serves is only replaced by a manifest  *)
(* that keeps its revocations, until it restarts (mergeManifestState).      *)
THEOREM MemoryKeepsRevocations == RegistrySpec => MemoryCacheGrows
<1>1. RegistryInit => CachesSound
  BY DEF RegistryInit, CachesSound, Sound
<1>2. RegistryInv /\ CachesSound /\ [RegistryNext]_registryVars => CachesSound'
  BY CachesStaySound
<1>3. RegistryInv /\ CachesSound /\ [RegistryNext]_registryVars =>
        [mode = "memory" => \A p \in Proc :
           cache[p] # NoManifest /\ cache'[p] # NoManifest => Accepts(cache[p], cache'[p])]_registryVars
  <2>. SUFFICES ASSUME RegistryInv, CachesSound, [RegistryNext]_registryVars, mode = "memory",
                       NEW p \in Proc, cache[p] # NoManifest, cache'[p] # NoManifest
                PROVE  Accepts(cache[p], cache'[p])
    OBVIOUS
  <2>1. cache'[p] = cache[p] \/ Accepts(cache[p], cache'[p])
    BY MemoryStep DEF CachesGrow
  <2>2. WellFormed(cache[p])
    BY DEF CachesSound, Sound
  <2>. QED
    BY <2>1, <2>2 DEF Accepts
<1>. QED
  BY <1>1, <1>2, <1>3, RegistryInvariant, PTL DEF RegistrySpec, MemoryCacheGrows
=============================================================================
