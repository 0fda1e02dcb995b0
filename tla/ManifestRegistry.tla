-------------------------- MODULE ManifestRegistry --------------------------
(***************************************************************************)
(* Where the identity manifest lives and how it moves: the cache of each   *)
(* web process, the checkpoint on the GitHub registry branch, the copy in  *)
(* every browser, and the pages that read, publish and edit it.            *)
(* lib/quantic/manifest-state.ts, registry-store.ts, standalone-manifest.ts*)
(* and the callers in quantic-network-v11-app.tsx and devices-v11-app.tsx. *)
(*                                                                         *)
(* `mode' is the deployment: "github" (web, registry configured), "memory" *)
(* (web, not configured) or "standalone" (a relay: publication is one      *)
(* durable mutation, so `remote' stands for its saved state).  An await is *)
(* the end of a step.  The content of the branch stands for its sha.       *)
(***************************************************************************)
EXTENDS IdentityManifest

CONSTANTS
  Proc,          \* web processes
  Call,          \* HTTP calls under way at one time
  Page, BrowserOf, \* tabs, and the browser (Root or a linked Linkable) each is open in
  Admin,         \* the tabs showing the devices page; the others show the mailbox
  Root, Nobody,
  MaxSignings,   \* TLC bound: manifests the root signs
  MaxRegistryFaults \* TLC bound: lost answers, failed registry calls, reloads, restarts

ASSUME RegistryAssumption ==
  /\ Root \notin Linkable /\ Nobody \notin Page /\ Admin \subseteq Page
  /\ BrowserOf \in [Page -> Linkable \cup {Root}]
  /\ MaxSignings \in Nat /\ MaxRegistryFaults \in Nat

VARIABLES
  mode,
  remote,    \* durable manifest: registry branch, or saved state of the relay
  cache,     \* process -> __quanticManifestState
  call,      \* slot -> the call and how far its handler is
  db,        \* browser -> identity.manifest in IndexedDB
  held,      \* tab -> identity.manifest in its React state
  shown,     \* devices page -> its `manifest' state
  package,   \* device -> manifest of the pairing package waiting for it
  signings,  \* manifests signed so far; dates the next one
  trouble    \* faults so far

registryVars ==
  <<mode, remote, cache, call, db, held, shown, package, signings, trouble>>
browserVars == <<db, held, shown, package, signings>>

Browser == Linkable \cup {Root}
MaybeManifest == Manifest \cup {NoManifest}
Mode == {"github", "memory", "standalone"}

CallState ==
  [at : {"free", "sent", "load", "loaded", "save", "put", "finish", "answer", "orphan"},
   tab : Page \cup {Nobody}, op : {"read", "refresh", "sync", "approve", "revoke"},
   device : Linkable \cup {Root}, proc : Proc, ok : BOOLEAN,
   incoming : MaybeManifest, seen : MaybeManifest, base : MaybeManifest]

IdleCall(p) ==
  [at |-> "free", tab |-> Nobody, op |-> "read", device |-> Root, proc |-> p, ok |-> FALSE,
   incoming |-> NoManifest, seen |-> NoManifest, base |-> NoManifest]

RegistryTypeOK ==
  /\ mode \in Mode /\ remote \in MaybeManifest
  /\ cache \in [Proc -> MaybeManifest] /\ call \in [Call -> CallState]
  /\ db \in [Browser -> MaybeManifest] /\ held \in [Page -> MaybeManifest]
  /\ shown \in [Admin -> MaybeManifest] /\ package \in [Linkable -> MaybeManifest]
  /\ signings \in Nat /\ trouble \in Nat

RegistryInit ==
  /\ mode \in Mode /\ remote = NoManifest
  /\ cache = [p \in Proc |-> NoManifest]
  /\ call \in [Call -> {IdleCall(p) : p \in Proc}]
  /\ db = [b \in Browser |-> NoManifest] /\ held = [t \in Page |-> NoManifest]
  /\ shown = [t \in Admin |-> NoManifest] /\ package = [d \in Linkable |-> NoManifest]
  /\ signings = 0 /\ trouble = 0

---------------------------------------------------------------------------
(* Browser side.                                                            *)

NoCall(t) == \A c \in Call : call[c].tab # t
Linked(t) == BrowserOf[t] # Root
HasIdentity(t) == Linked(t) => db[BrowserOf[t]] # NoManifest

Ask(t, op, d, m) ==
  \E c \in Call, p \in Proc :
    /\ call[c].at = "free"
    /\ call' = [call EXCEPT ![c] = [IdleCall(p) EXCEPT !.at = "sent", !.tab = t, !.op = op,
                                                        !.device = d, !.incoming = m]]

(* The manifest step of one turn of sync: the local manifest is posted as   *)
(* it is; without one the page asks for the published one.                  *)
SyncOwnManifest(t) ==
  /\ NoCall(t) /\ HasIdentity(t)
  /\ Ask(t, IF held[t] = NoManifest THEN "read" ELSE "sync", Root, held[t])
  /\ UNCHANGED <<mode, remote, cache, browserVars, trouble>>

RefreshManifest(t) ==
  /\ NoCall(t) /\ HasIdentity(t)
  /\ Ask(t, "refresh", Root, NoManifest)
  /\ UNCHANGED <<mode, remote, cache, browserVars, trouble>>

(* approvePairing and revoke edit the manifest the page shows.              *)
Edit(t, op, d, m) ==
  /\ NoCall(t) /\ ~Linked(t) /\ shown[t] # NoManifest
  /\ signings < MaxSignings
  /\ signings' = signings + 1
  /\ Ask(t, op, d, m)
  /\ UNCHANGED <<mode, remote, cache, db, held, shown, package, trouble>>

ApprovePairing(t, d) ==
  /\ db[d] = NoManifest /\ CanAdd(shown[t], d)
  /\ Edit(t, "approve", d, AddDevice(shown[t], d, signings + 1))

Revoke(t, d) ==
  /\ CanRevoke(shown[t], d)
  /\ Edit(t, "revoke", d, RevokeDevice(shown[t], d, signings + 1))

PageKeeps(t, m) ==
  /\ db' = [db EXCEPT ![BrowserOf[t]] = m]
  /\ held' = [held EXCEPT ![t] = m]

Hang(c) == call' = [call EXCEPT ![c] = IdleCall(call[c].proc)]

Answered(c, op, ok) == call[c].at = "answer" /\ call[c].tab # Nobody /\ call[c].op \in op /\ call[c].ok = ok

(* Answer to the GET of sync: adopt it, or bootstrap the root's first one.  *)
AdoptRead(c) ==
  /\ Answered(c, {"read"}, TRUE)
  /\ PageKeeps(call[c].tab, call[c].incoming) /\ Hang(c)
  /\ UNCHANGED <<mode, remote, cache, shown, package, signings, trouble>>

Bootstrap(c) ==
  /\ Answered(c, {"read"}, FALSE) /\ ~Linked(call[c].tab)
  /\ signings < MaxSignings
  /\ signings' = signings + 1
  /\ call' = [call EXCEPT ![c] = [@ EXCEPT !.at = "sent", !.op = "sync",
                                           !.incoming = InitialManifest(signings + 1)]]
  /\ UNCHANGED <<mode, remote, cache, db, held, shown, package, trouble>>

SyncPublished(c) ==
  /\ Answered(c, {"sync"}, TRUE)
  /\ PageKeeps(call[c].tab, call[c].incoming) /\ Hang(c)
  /\ UNCHANGED <<mode, remote, cache, shown, package, signings, trouble>>

Refreshed(c) ==
  LET t == call[c].tab  m == call[c].incoming IN
  /\ Answered(c, {"refresh"}, TRUE)
  /\ shown' = [shown EXCEPT ![t] = m]
  /\ IF held[t].seq <= m.seq THEN PageKeeps(t, m) ELSE UNCHANGED <<db, held>>
  /\ Hang(c)
  /\ UNCHANGED <<mode, remote, cache, package, signings, trouble>>

Edited(c) ==
  LET t == call[c].tab  m == call[c].incoming IN
  /\ Answered(c, {"approve", "revoke"}, TRUE)
  /\ shown' = [shown EXCEPT ![t] = m]
  /\ PageKeeps(t, m)
  /\ package' = IF call[c].op = "approve" THEN [package EXCEPT ![call[c].device] = m] ELSE package
  /\ Hang(c)
  /\ UNCHANGED <<mode, remote, cache, signings, trouble>>

(* A refusal, a linked device that reads 404, or a caller that has gone.    *)
Dropped(c) ==
  /\ call[c].at = "answer"
  /\ \/ call[c].tab = Nobody
     \/ Answered(c, {"sync", "approve", "revoke", "refresh"}, FALSE)
     \/ Answered(c, {"read"}, FALSE) /\ Linked(call[c].tab)
  /\ Hang(c)
  /\ UNCHANGED <<mode, remote, cache, browserVars, trouble>>

(* The paired device installs the certificate and manifest of its package.  *)
InstallPackage(d) ==
  /\ package[d] # NoManifest /\ db[d] = NoManifest /\ d \in package[d].devices
  /\ db' = [db EXCEPT ![d] = package[d]]
  /\ held' = [t \in Page |-> IF BrowserOf[t] = d THEN package[d] ELSE held[t]]
  /\ package' = [package EXCEPT ![d] = NoManifest]
  /\ UNCHANGED <<mode, remote, cache, call, shown, signings, trouble>>

---------------------------------------------------------------------------
(* Server side.  Handler(c, at) is the handler of call c waiting at `at'.   *)

Handler(c, at, op) == call[c].at = at /\ call[c].op \in op
GET == {"read", "refresh"}
POST == {"sync", "approve", "revoke"}

Step(c, at) == call' = [call EXCEPT ![c].at = at]
Respond(c, m) == call' = [call EXCEPT ![c] = [@ EXCEPT !.at = "answer", !.ok = TRUE, !.incoming = m]]
Refuse(c) == call' = [call EXCEPT ![c] = [@ EXCEPT !.at = "answer", !.ok = FALSE]]

(* getManifest: the cached manifest is the answer.                          *)
GetCached(c) ==
  LET known == IF mode = "standalone" THEN remote ELSE cache[call[c].proc] IN
  /\ Handler(c, "sent", GET)
  /\ IF known # NoManifest THEN Respond(c, known)
     ELSE IF mode = "github" THEN Step(c, "load")
     ELSE Refuse(c)
  /\ UNCHANGED <<mode, remote, cache, browserVars, trouble>>

GetRead(c) ==
  /\ Handler(c, "load", GET)
  /\ call' = [call EXCEPT ![c].at = "loaded", ![c].base = remote]
  /\ UNCHANGED <<mode, remote, cache, browserVars, trouble>>

(* acceptManifestInMemory merges what was read into the cache as it is now; *)
(* nothing published, or a conflict, is a 404.                              *)
GetAccepts(c) ==
  LET p == call[c].proc  m == call[c].base IN
  /\ Handler(c, "loaded", GET)
  /\ IF m # NoManifest /\ Accepts(cache[p], m)
     THEN cache' = [cache EXCEPT ![p] = m] /\ Respond(c, m)
     ELSE UNCHANGED cache /\ Refuse(c)
  /\ UNCHANGED <<mode, remote, browserVars, trouble>>

(* publishManifest without a registry is one step; on a relay it is one     *)
(* mutation; with a registry it keeps the cached manifest and loads.        *)
PublishStarts(c) ==
  LET p == call[c].proc  m == call[c].incoming IN
  /\ Handler(c, "sent", POST)
  /\ \/ /\ mode = "memory"
        /\ IF Reconciles(cache[p], NoManifest, m)
           THEN cache' = [cache EXCEPT ![p] = m] /\ Respond(c, m)
           ELSE UNCHANGED cache /\ Refuse(c)
        /\ UNCHANGED remote
     \/ /\ mode = "standalone"
        /\ IF Accepts(remote, m) THEN remote' = m /\ Respond(c, m)
                                 ELSE UNCHANGED remote /\ Refuse(c)
        /\ UNCHANGED cache
     \/ /\ mode = "github"
        /\ call' = [call EXCEPT ![c].at = "load", ![c].seen = cache[p]]
        /\ UNCHANGED <<remote, cache>>
  /\ UNCHANGED <<mode, browserVars, trouble>>

\* Mutant: the manifest is cached before it is saved.
PublishCachesFirst(c) ==
  /\ Handler(c, "load", POST)
  /\ IF Reconciles(call[c].seen, remote, call[c].incoming)
     THEN Step(c, "save") /\ cache' = [cache EXCEPT ![call[c].proc] = call[c].incoming]
     ELSE Refuse(c) /\ UNCHANGED cache
  /\ UNCHANGED <<mode, remote, browserVars, trouble>>
PublishReconciles(c) ==
  /\ Handler(c, "load", POST)
  /\ IF Reconciles(call[c].seen, remote, call[c].incoming) THEN Step(c, "save") ELSE Refuse(c)
  /\ UNCHANGED <<mode, remote, cache, browserVars, trouble>>

(* saveRegistryManifest reads the branch again and decides.                 *)
SaveReads(c) ==
  LET m == call[c].incoming IN
  /\ Handler(c, "save", POST)
  /\ IF RegistryUnchanged(remote, m) THEN Step(c, "finish")
     ELSE IF RegistryWrites(remote, m) THEN call' = [call EXCEPT ![c].at = "put", ![c].base = remote]
     ELSE Refuse(c)
  /\ UNCHANGED <<mode, remote, cache, browserVars, trouble>>

(* The PUT carries the sha that was read: GitHub refuses it if it moved.    *)
\* Mutant: a PUT without the sha.
BlindPut(m, base) == remote' = m
CompareAndPut(m, base) == remote' = IF remote = base THEN m ELSE remote

SavePuts(c) ==
  /\ Handler(c, "put", POST)
  /\ CompareAndPut(call[c].incoming, call[c].base)
  /\ IF remote = call[c].base THEN Step(c, "finish") ELSE Refuse(c)
  /\ UNCHANGED <<mode, cache, browserVars, trouble>>

(* After the save: manifests.set, whatever the cache has become meanwhile.  *)
CacheAccepted(c) == cache' = [cache EXCEPT ![call[c].proc] = call[c].incoming]

PublishFinishes(c) ==
  /\ Handler(c, "finish", POST)
  /\ CacheAccepted(c) /\ Respond(c, call[c].incoming)
  /\ UNCHANGED <<mode, remote, browserVars, trouble>>

---------------------------------------------------------------------------
(* Faults.                                                                  *)

Trouble == trouble < MaxRegistryFaults /\ trouble' = trouble + 1

(* GitHub does not answer the handler: 404 for a GET, 503 for a POST; a PUT *)
(* may have been applied all the same.                                      *)
RegistryFails(c) ==
  /\ call[c].at \in {"load", "save", "put", "finish"} /\ Trouble
  /\ \/ UNCHANGED remote
     \/ call[c].at = "put" /\ CompareAndPut(call[c].incoming, call[c].base)
  /\ Refuse(c)
  /\ UNCHANGED <<mode, cache, browserVars>>

(* The tab is reloaded while its calls go on, or an answer is lost.         *)
ReloadPage(t) ==
  /\ HasIdentity(t) /\ Trouble
  /\ held' = [held EXCEPT ![t] = db[BrowserOf[t]]]
  /\ shown' = [u \in Admin |-> IF u = t THEN NoManifest ELSE shown[u]]
  /\ call' = [c \in Call |-> IF call[c].tab = t THEN [call[c] EXCEPT !.tab = Nobody] ELSE call[c]]
  /\ UNCHANGED <<mode, remote, cache, db, package, signings>>

LoseAnswer(c) ==
  /\ call[c].tab # Nobody /\ Trouble
  /\ call' = [call EXCEPT ![c].tab = Nobody]
  /\ UNCHANGED <<mode, remote, cache, browserVars>>

(* A process restarts: its cache and handlers are gone, except that a PUT   *)
(* under way may still reach GitHub.                                        *)
Restart(p) ==
  /\ mode # "standalone" /\ Trouble
  /\ cache' = [cache EXCEPT ![p] = NoManifest]
  /\ call' = [c \in Call |->
       IF call[c].proc # p THEN call[c]
       ELSE IF call[c].at = "put" THEN [call[c] EXCEPT !.at = "orphan", !.tab = Nobody]
       ELSE IF call[c].at = "orphan" THEN call[c]
       ELSE IdleCall(p)]
  /\ UNCHANGED <<mode, remote, browserVars>>

OrphanPut(c) ==
  /\ call[c].at = "orphan"
  /\ \/ UNCHANGED remote
     \/ CompareAndPut(call[c].incoming, call[c].base)
  /\ Hang(c)
  /\ UNCHANGED <<mode, cache, browserVars, trouble>>

---------------------------------------------------------------------------
ServerStep(c) ==
  \/ GetCached(c) \/ GetRead(c) \/ GetAccepts(c)
  \/ PublishStarts(c) \/ PublishReconciles(c) \/ SaveReads(c) \/ SavePuts(c) \/ PublishFinishes(c)

AnswerStep(c) ==
  AdoptRead(c) \/ Bootstrap(c) \/ SyncPublished(c) \/ Refreshed(c) \/ Edited(c) \/ Dropped(c)

RegistryFault ==
  \/ \E c \in Call : RegistryFails(c) \/ LoseAnswer(c) \/ OrphanPut(c)
  \/ \E t \in Page : ReloadPage(t)
  \/ \E p \in Proc : Restart(p)

RegistryNext ==
  \/ \E t \in Page \ Admin : SyncOwnManifest(t)
  \/ \E t \in Admin : RefreshManifest(t)
  \/ \E t \in Admin, d \in Linkable : ApprovePairing(t, d) \/ Revoke(t, d)
  \/ \E d \in Linkable : InstallPackage(d)
  \/ \E c \in Call : ServerStep(c) \/ AnswerStep(c)
  \/ RegistryFault

RegistrySpec == RegistryInit /\ [][RegistryNext]_registryVars

(* Handlers and answers make progress; every mailbox page syncs on a timer. *)
RegistryFairSpec ==
  /\ RegistrySpec
  /\ \A c \in Call : WF_registryVars(ServerStep(c)) /\ WF_registryVars(AnswerStep(c))
  /\ \A t \in Page \ Admin : WF_registryVars(SyncOwnManifest(t))
  /\ \A d \in Linkable : WF_registryVars(InstallPackage(d))

---------------------------------------------------------------------------
(* x is the durable manifest, or one it has replaced.                       *)
Published(x) ==
  /\ x.seq <= remote.seq
  /\ x.seq = remote.seq => x = remote
  /\ x.revoked \subseteq remote.revoked

(* Everything a process serves or a browser keeps has been durable: no page *)
(* holds, shows, installs or edits a manifest the registry (or relay) could *)
(* have lost or never had.                                                  *)
KeptIsPublished ==
  mode # "memory" =>
    /\ \A p \in Proc : Published(cache[p])
    /\ \A b \in Browser : Published(db[b])
    /\ \A t \in Page : Published(held[t])
    /\ \A t \in Admin : Published(shown[t])
    /\ \A d \in Linkable : Published(package[d])

(* The durable manifest is only ever replaced by a later one that keeps all *)
(* its revocations and lets no revoked device back in, although the write   *)
(* decision itself compares sequences only.                                 *)
CheckpointGrows ==
  [][remote' # remote => remote'.seq > remote.seq /\ KeepsRevocations(remote, remote')]_registryVars

(* Without a registry the cache of a live process never goes back.          *)
MemoryCacheGrows ==
  [][mode = "memory" => \A p \in Proc :
       cache[p] # NoManifest /\ cache'[p] # NoManifest => Accepts(cache[p], cache'[p])]_registryVars

(* Once a process has observed a revocation it keeps it until it restarts.  *)
ObservedRevocationHolds ==
  [][\A p \in Proc : cache'[p] # NoManifest =>
       RevokedDevices(cache[p]) \subseteq RevokedDevices(cache'[p])]_registryVars

(* A linked device that no manifest has revoked keeps completing the        *)
(* manifest step of its sync, which comes before it pulls its messages.     *)
NeverRevoked(d) ==
  /\ db[d] # NoManifest
  /\ \A m \in {remote} \cup {cache[p] : p \in Proc} : d \notin RevokedDevices(m)

SyncSucceeds(t) == \E c \in Call : call[c].tab = t /\ SyncPublished(c)

LinkedDeviceKeepsSyncing ==
  \A t \in {u \in Page \ Admin : Linked(u)} :
    <>[]NeverRevoked(BrowserOf[t]) => []<><<SyncSucceeds(t)>>_registryVars
=============================================================================
