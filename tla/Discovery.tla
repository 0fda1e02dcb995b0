------------------------------ MODULE Discovery ------------------------------
(***************************************************************************)
(* The discovery mesh of the standalone relays: discovery-http.ts,         *)
(* discovery-service.ts, discovery-resolve-http.ts, the iterative search   *)
(* of kademlia.ts and the rules of the three signed records a bundle is    *)
(* made of (identity manifest, Crypto Profile, Route Manifest).            *)
(*                                                                         *)
(* Owners publish bundles at a relay (nothing in the repository builds     *)
(* them: Offered gives those that are, forks among them); the relay      *)
(* keeps what succeeds what it holds, copies the bundle to peers it knows, *)
(* and answers the peers' searches from what it holds.  One search runs at *)
(* a time; publications, copies and sends run beside it.                   *)
(***************************************************************************)
EXTENDS IdentityManifest, FiniteSets

CONSTANTS
  Relay,           \* the relays of the mesh
  Home,            \* those that owners and senders use
  Seeker,          \* those that are asked to search
  Canonical,       \* canonical addresses, all with one short handle
  Offered,         \* per address, the bundles its owner publishes
  BootPeers,       \* the endpoints each relay is configured with
  Greeted,         \* those of them that answered before the first request
  Alpha,           \* peers asked at once
  Nearest,         \* k: peers a search begins with, and peers an answer hands on
  MaxQueries,      \* maxQueries: peers one search asks
  CopyFactor,      \* the replication factor k
  MaxPublished,    \* bounds: publications, manifests and packets,
  MaxSearches,     \*   searches,
  MaxMeshFaults    \*   answers lost, saves failed, routes expired

VARIABLES
  expired,     \* the routes whose expiry has passed
  shelf,       \* per relay and address, the three records it holds
  known,       \* per relay, the peers it remembers
  copying,     \* bundles a relay is about to copy to its peers
  copies,      \* copies on their way to a peer
  search,      \* the search that runs, or the answer of the last one
  published, searches, meshFaults

discoveryVars ==
  <<expired, shelf, known, copying, copies, search, published, searches, meshFaults>>

---------------------------------------------------------------------------
(* The records.  Every manifest lists the root, so does every profile: only *)
(* the linkable devices are shown.  `signed' tells forks apart.             *)
NoProfile == [seq |-> 0, base |-> 0, devices |-> {}, hybrid |-> FALSE]
Profile == [seq : Nat \ {0}, base : Nat, devices : SUBSET Linkable, hybrid : BOOLEAN]

NoRoute == [seq |-> 0, base |-> 0, profile |-> NoProfile, signed |-> 0]
Route == [seq : Nat \ {0}, base : Nat, profile : Profile \cup {NoProfile}, signed : Nat]

Nothing == [identity |-> NoManifest, profile |-> NoProfile, route |-> NoRoute]
Bundle == [identity : Manifest, profile : Profile \cup {NoProfile}, route : Route]

ASSUME DiscoveryAssumption ==
  /\ IsFiniteSet(Relay) /\ IsFiniteSet(Canonical) /\ Canonical # {}
  /\ Home \subseteq Relay /\ Seeker \subseteq Relay
  /\ \A a \in Canonical : Offered[a] \subseteq Bundle
  /\ \A r \in Relay : Greeted[r] \subseteq BootPeers[r] /\ BootPeers[r] \subseteq Relay
  /\ Alpha \in Nat \ {0} /\ Nearest \in Nat \ {0} /\ MaxQueries \in Nat \ {0}
  /\ MaxPublished \in Nat /\ MaxSearches \in Nat /\ MaxMeshFaults \in Nat

(* bundleFor: without an identity or a route there is nothing to serve.     *)
BundleFor(h) == IF NoManifest = h.identity \/ NoRoute = h.route THEN Nothing ELSE h

---------------------------------------------------------------------------
(* The successions: mergeManifestState is Accepts; mergeRouteManifestState, *)
(* mergeCryptoProfileState, and verifyCryptoProfile with a previous profile,*)
(* which asks for a strictly higher sequence.                               *)
RouteSucceeds(current, incoming) ==
  current = NoRoute \/ incoming = current \/ incoming.seq > current.seq

ProfileRenews(current, incoming) ==
  \/ current = NoProfile
  \/ incoming.seq > current.seq /\ (current.hybrid => incoming.hybrid)

ProfileMerges(current, incoming) == incoming = current \/ ProfileRenews(current, incoming)

RouteVerified(route, identity) == route.base <= identity.seq /\ route \notin expired

ProfileVerified(profile, identity) ==
  profile.base <= identity.seq /\ profile.devices \subseteq ActiveDevices(identity)

(* validateOptionalCryptoProfile.                                           *)
ProfileFits(profile, identity, pinned, route) ==
  IF profile = NoProfile
    THEN route.profile = NoProfile /\ ~pinned.hybrid
    ELSE /\ ProfileMerges(pinned, profile)
         /\ ProfileVerified(profile, identity)
         /\ route.profile \in {NoProfile, profile}

(* validateDiscoveryBundle.                                                 *)
Valid(pinned, b) ==
  /\ Accepts(pinned.identity, b.identity)
  /\ RouteVerified(b.route, b.identity)
  /\ RouteSucceeds(pinned.route, b.route)
  /\ ProfileFits(b.profile, b.identity, pinned.profile, b.route)

(* What publishBundle and acceptBundle store of a bundle they found valid:  *)
(* identity, profile, route, one after the other, and a step that throws    *)
(* leaves what the earlier ones stored.                                     *)
IdentityStored(h, b) == Accepts(h.identity, b.identity)
ProfileStored(h, b) ==
  IdentityStored(h, b) /\ (b.profile = NoProfile \/ ProfileRenews(h.profile, b.profile))
StoredWhole(h, b) == ProfileStored(h, b) /\ RouteSucceeds(h.route, b.route)

\* Mutant: the records are stored without the merges.
StoredBlindly(h, b) == b
Stored(h, b) ==
  [identity |-> IF IdentityStored(h, b) THEN b.identity ELSE h.identity,
   profile |-> IF ProfileStored(h, b) /\ b.profile # NoProfile THEN b.profile ELSE h.profile,
   route |-> IF StoredWhole(h, b) THEN b.route ELSE h.route]

---------------------------------------------------------------------------
(* newestBundle: the bundles it may return, none at a fork of the newest    *)
(* identity or of its newest route.                                         *)
NewestBundles(S) ==
  LET top == {b \in S : \A c \in S : c.identity.seq <= b.identity.seq}
      best == {b \in top : \A c \in top : c.route.seq <= b.route.seq}
  IN {b \in best : (\A c \in top : c.identity = b.identity) /\ \A c \in best : c.route = b.route}

---------------------------------------------------------------------------
(* A route expires.  It matters to what is being decided: a record a peer    *)
(* has sent, before it is checked or before it is accepted.                  *)
RouteExpires ==
  search.phase \in {"waiting", "accepting"} /\ \E f \in search.replies \cup search.records :
    /\ search.waiting = {} /\ f.bundle.route \notin expired
    /\ meshFaults < MaxMeshFaults
    /\ expired' = expired \cup {f.bundle.route}
    /\ meshFaults' = meshFaults + 1
    /\ UNCHANGED <<shelf, known, copying, copies, search, published, searches>>

---------------------------------------------------------------------------
(* The publish route: one mutation checks and stores; one that throws after *)
(* a first record is stored keeps that record and answers an error.         *)
KeepBundle(r, a, b) ==
  shelf' = [shelf EXCEPT ![r][a] = IF Valid(@, b) THEN Stored(@, b) ELSE @]

PublishBundle(r, a, b) ==
  /\ published < MaxPublished
  /\ KeepBundle(r, a, b)
  /\ copying' = IF Valid(shelf[r][a], b) /\ StoredWhole(shelf[r][a], b)
                  THEN copying \cup {[at |-> r, address |-> a, bundle |-> b]} ELSE copying
  /\ published' = published + 1
  /\ UNCHANGED <<expired, known, copies, search, searches, meshFaults>>

OwnerPublishes == \E r \in Home, a \in Canonical : \E b \in Offered[a] : PublishBundle(r, a, b)

(* nearestPeers and boundedReplicationPeers, whichever peers are the nearest. *)
SomeOf(S, n) == {T \in SUBSET S : Cardinality(T) = IF Cardinality(S) < n THEN Cardinality(S) ELSE n}
ReplicationPeers(r) == SomeOf(known[r] \ {r}, CopyFactor)

(* replicate checks the bundle again, against what the relay now serves.     *)
Replicate(c) ==
  LET pinned == BundleFor(shelf[c.at][c.address])
  IN /\ copying' = copying \ {c}
     /\ IF ~Valid(pinned, c.bundle) THEN UNCHANGED copies
        ELSE \E to \in ReplicationPeers(c.at) :
               copies' = copies \cup
                    {[at |-> p, address |-> c.address, bundle |-> c.bundle] : p \in to}
     /\ UNCHANGED <<expired, shelf, known, search, published, searches, meshFaults>>

(* A copy carries replicate: false.  One that is lost, or whose relay stops  *)
(* first, is one that never arrives.                                        *)
CopyArrives(c) ==
  /\ copies' = copies \ {c}
  /\ KeepBundle(c.at, c.address, c.bundle)
  /\ UNCHANGED <<expired, known, copying, search, published, searches, meshFaults>>

(* The other doors: POST /manifest stores an identity alone, and a send or a *)
(* forward stores the recipient's route against the manifest of its packet.  *)
PublishManifest(r, a) ==
  \E b \in Offered[a] :
    /\ Accepts(shelf[r][a].identity, b.identity) /\ b.identity # shelf[r][a].identity
    /\ published < MaxPublished
    /\ shelf' = [shelf EXCEPT ![r][a].identity = b.identity]
    /\ published' = published + 1
    /\ UNCHANGED <<expired, known, copying, copies, search, searches, meshFaults>>

AcceptRouteOfPacket(r, a) ==
  \E b \in Offered[a] :
    /\ RouteVerified(b.route, b.identity) /\ RouteSucceeds(shelf[r][a].route, b.route)
    /\ b.route # shelf[r][a].route
    /\ published < MaxPublished
    /\ shelf' = [shelf EXCEPT ![r][a].route = b.route]
    /\ published' = published + 1
    /\ UNCHANGED <<expired, known, copying, copies, search, searches, meshFaults>>

(* bootstrapDiscoveryPeers, at each start, while server.ts already listens:  *)
(* an endpoint that has not answered its hello before the first request      *)
(* answers during the others, or never.  Nothing in the server counts a      *)
(* failure, so no peer is ever pruned.                                       *)
Remember(r, p) == known' = [known EXCEPT ![r] = @ \cup {p}]

BootstrapPeers(r) ==
  \E p \in BootPeers[r] \ (known[r] \cup {r}) :
    /\ Remember(r, p)
    /\ UNCHANGED <<expired, shelf, copying, copies, search, published, searches, meshFaults>>

---------------------------------------------------------------------------
(* A search.  `pinned' is what the relay served when it began; `candidates'  *)
(* the peers it has heard of, `asked' those it has asked, `waiting' those of *)
(* the batch that have not answered; `replies' what they sent, `records'     *)
(* what of it was valid when the batch closed.                               *)
NoSearch == [phase |-> "none"]
SearchAnswered(s, answer) == [s EXCEPT !.phase = "answered", !.answer = answer]

NotFound == [status |-> "not-found"]
Ambiguous == [status |-> "ambiguous"]
Unique(a, b) == [status |-> "unique", address |-> a, bundle |-> b]
SnapshotOf(s) ==
  IF s.pinned = Nothing THEN NotFound ELSE Unique(s.address, s.pinned)

BeginSearch(kind, r, a) ==
  /\ search.phase \in {"none", "answered"} /\ searches < MaxSearches
  /\ searches' = searches + 1
  /\ \E seeds \in SomeOf(known[r] \ {r}, Nearest) :
     LET s == [phase |-> "asking", kind |-> kind, at |-> r, address |-> a,
               pinned |-> BundleFor(shelf[r][a]),
               candidates |-> seeds, asked |-> {}, waiting |-> {}, replies |-> {},
               records |-> {}, choice |-> NotFound, answer |-> NotFound]
     IN search' = IF s.candidates # {} THEN s
                  ELSE SearchAnswered(s, IF kind = "lookup" THEN SnapshotOf(s) ELSE NotFound)
  /\ UNCHANGED <<expired, shelf, known, copying, copies, published, meshFaults>>

Lookup(r, a) == BeginSearch("lookup", r, a)

(* /resolve goes to the mesh for a short handle only when the relay knows no *)
(* registration and no manifest of it; the address plays no part.            *)
ResolveHandle(r) ==
  /\ \A a \in Canonical : shelf[r][a].identity = NoManifest
  /\ BeginSearch("handle", r, CHOOSE a \in Canonical : TRUE)

Searching(phase) == search.phase = phase
SearchOnly ==
  UNCHANGED <<expired, shelf, known, copying, copies, published, searches>>

(* A batch is cut where the search has asked maxQueries peers.               *)
QueriesLeft == MaxQueries - Cardinality(search.asked)
BatchSize == IF QueriesLeft < Alpha THEN QueriesLeft ELSE Alpha

AskBatch ==
  LET left == search.candidates \ search.asked
  IN /\ Searching("asking") /\ search.waiting = {} /\ left # {}
     /\ \E batch \in SomeOf(left, BatchSize) :
          search' = [search EXCEPT !.phase = "waiting", !.waiting = batch, !.asked = @ \cup batch]
     /\ SearchOnly /\ UNCHANGED meshFaults

(* What a peer sends: its bundle of the address, or those of the handle.     *)
Served(p, s) ==
  LET wanted == IF s.kind = "lookup" THEN {s.address} ELSE Canonical
  IN {[address |-> a, bundle |-> BundleFor(shelf[p][a])] :
        a \in {x \in wanted : BundleFor(shelf[p][x]) # Nothing}}

PeerAnswers(p) ==
  /\ Searching("waiting") /\ p \in search.waiting
  /\ \E hints \in SomeOf(known[p], Nearest) :
       search' = [search EXCEPT !.waiting = @ \ {p}, !.candidates = @ \cup hints,
                                !.replies = @ \cup Served(p, search)]
  /\ SearchOnly /\ UNCHANGED meshFaults

PeerFails(p) ==
  /\ Searching("waiting") /\ p \in search.waiting /\ meshFaults < MaxMeshFaults
  /\ search' = [search EXCEPT !.waiting = @ \ {p}]
  /\ meshFaults' = meshFaults + 1
  /\ SearchOnly

(* validateRecord: against the snapshot in a lookup, against what the relay  *)
(* serves now in a search by handle.                                         *)
PinnedNow(a) == IF search.kind = "lookup" THEN search.pinned ELSE BundleFor(shelf[search.at][a])
ValidReplies == {f \in search.replies : Valid(PinnedNow(f.address), f.bundle)}

BundlesAt(a, found) == {f.bundle : f \in {x \in found : x.address = a}}

(* A search ends when every candidate or maxQueries peers were asked, a      *)
(* lookup also with the first batch that holds a record.                     *)
Exhausted == search.asked = search.candidates \/ Cardinality(search.asked) >= MaxQueries

\* Mutant: a search by handle ends with its first record too.
EndsAtFirst(records) == Exhausted \/ records # {}
Ends(records) ==
  \/ Exhausted
  \/ search.kind = "lookup" /\ records # {}

Found(records) == {a \in Canonical : NewestBundles(BundlesAt(a, records)) # {}}

(* The batch is settled: what it decided is accepted or answered.            *)
Decide(s) ==
  LET unforked == Found(s.records)
  IN IF unforked = {}
       THEN search' = SearchAnswered(s, IF s.kind = "lookup" THEN SnapshotOf(s) ELSE NotFound)
     ELSE IF Cardinality(unforked) > 1
       THEN search' = SearchAnswered(s, Ambiguous)
     ELSE \E a \in unforked : \E b \in NewestBundles(BundlesAt(a, s.records)) :
            search' = [s EXCEPT !.phase = "accepting", !.choice = Unique(a, b)]

CloseBatch ==
  LET settled == [search EXCEPT !.records = @ \cup ValidReplies, !.replies = {}]
  IN /\ Searching("waiting") /\ search.waiting = {}
     /\ IF Ends(settled.records) THEN Decide(settled)
                                 ELSE search' = [settled EXCEPT !.phase = "asking"]
     /\ SearchOnly /\ UNCHANGED meshFaults

(* acceptLocal: publishBundle for a lookup, acceptBundle for a handle, in a  *)
(* mutation of its own; a refusal, or a save that fails, is answered with    *)
(* the snapshot or with nothing.                                             *)
Acceptable(a, b) ==
  /\ Valid(PinnedNow(a), b)
  /\ search.kind = "lookup" => Valid(shelf[search.at][a], b)

\* Mutant: what was found is answered even when it was refused.
RefusedAnswerFound == search.choice
RefusedAnswer == IF search.kind = "lookup" THEN SnapshotOf(search) ELSE NotFound

AcceptFound ==
  LET a == search.choice.address
      b == search.choice.bundle
      h == shelf[search.at][a]
  IN /\ Searching("accepting")
     /\ shelf' = [shelf EXCEPT ![search.at][a] = IF Acceptable(a, b) THEN Stored(h, b) ELSE h]
     /\ search' = SearchAnswered(search, IF Acceptable(a, b) /\ StoredWhole(h, b) THEN search.choice
                                                                           ELSE RefusedAnswer)
     /\ UNCHANGED <<expired, known, copying, copies, published, searches, meshFaults>>

SaveOfFoundFails ==
  /\ Searching("accepting") /\ meshFaults < MaxMeshFaults
  /\ search' = SearchAnswered(search, RefusedAnswer)
  /\ meshFaults' = meshFaults + 1
  /\ SearchOnly

---------------------------------------------------------------------------
DiscoveryInit ==
  /\ expired = {}
  /\ shelf = [r \in Relay |-> [a \in Canonical |-> Nothing]]
  /\ known = [r \in Relay |-> Greeted[r]]
  /\ copying = {} /\ copies = {}
  /\ search = NoSearch
  /\ published = 0 /\ searches = 0 /\ meshFaults = 0

RelayStep ==
  \/ \E r \in Home, a \in Canonical : PublishManifest(r, a) \/ AcceptRouteOfPacket(r, a)
  \/ \E r \in Seeker : ResolveHandle(r) \/ \E a \in Canonical : Lookup(r, a)
  \/ \E r \in Relay : BootstrapPeers(r)
  \/ \E c \in copying : Replicate(c)
  \/ \E c \in copies : CopyArrives(c)

SearchStep ==
  \/ AskBatch \/ CloseBatch \/ AcceptFound \/ SaveOfFoundFails \/ RouteExpires
  \/ \E p \in Relay : PeerAnswers(p) \/ PeerFails(p)

DiscoveryNext == OwnerPublishes \/ RelayStep \/ SearchStep

DiscoverySpec == DiscoveryInit /\ [][DiscoveryNext]_discoveryVars

---------------------------------------------------------------------------
Held ==
  [identity : Manifest \cup {NoManifest}, profile : Profile \cup {NoProfile},
   route : Route \cup {NoRoute}]

SearchRecord ==
  [phase : {"asking", "waiting", "accepting", "answered"}, kind : {"lookup", "handle"},
   at : Relay, address : Canonical, pinned : Bundle \cup {Nothing},
   candidates : SUBSET Relay, asked : SUBSET Relay,
   waiting : SUBSET Relay, replies : SUBSET [address : Canonical, bundle : Bundle],
   records : SUBSET [address : Canonical, bundle : Bundle],
   choice : {NotFound} \cup [status : {"unique"}, address : Canonical, bundle : Bundle],
   answer : {NotFound, Ambiguous} \cup
            [status : {"unique"}, address : Canonical, bundle : Bundle]]

(* The type invariant.                                                       *)
DiscoveryTypeOK ==
  /\ expired \subseteq Route
  /\ shelf \in [Relay -> [Canonical -> Held]]
  /\ known \in [Relay -> SUBSET Relay]
  /\ copying \cup copies \subseteq [at : Relay, address : Canonical, bundle : Bundle]
  /\ search = NoSearch \/ search \in SearchRecord
  /\ published \in 0..MaxPublished /\ searches \in 0..MaxSearches
  /\ meshFaults \in 0..MaxMeshFaults

(* Whatever door a record comes in by (publication, copy, manifest, packet,  *)
(* search accepted after its answers were awaited), what a relay holds of an *)
(* address only moves on: no revocation undone, no route or profile gone     *)
(* back or replaced by another of its sequence, no return from hybrid.       *)
PinnedOnlyGrow ==
  [][\A r \in Relay, a \in Canonical :
       LET h == shelf[r][a] IN LET next == shelf'[r][a]
       IN /\ next.identity = h.identity \/ Accepts(h.identity, next.identity)
          /\ RouteSucceeds(h.route, next.route)
          /\ ProfileMerges(h.profile, next.profile)]_discoveryVars

(* What a search has answered stays true of the relay: from then on it holds *)
(* that identity and that route, or successors of them, so no later answer   *)
(* goes back behind it, nor behind what the relay knew when it began.        *)
AnswersStayPinned ==
  search.phase = "answered" /\ search.answer.status = "unique" =>
    LET h == shelf[search.at][search.answer.address]
        b == search.answer.bundle
    IN /\ Accepts(b.identity, h.identity) /\ RouteSucceeds(b.route, h.route)
       /\ search.pinned # Nothing => /\ Accepts(search.pinned.identity, b.identity)
                                     /\ RouteSucceeds(search.pinned.route, b.route)

(* A handle is resolved to one address only when no other address that was   *)
(* sent for it is valid and unforked, and only when every relay the search   *)
(* has heard of was asked, or as many as one search may ask: the namesake at *)
(* a relay beyond that limit is not seen.                                    *)
HandleAnswerIsAlone ==
  search.phase = "answered" /\ search.kind = "handle" /\ search.answer.status = "unique" =>
    /\ Found(search.records) = {search.answer.address}
    /\ search.candidates \subseteq search.asked \/ Cardinality(search.asked) = MaxQueries

(* A publication that is valid for what the relay holds is kept whole:       *)
(* "higher valid sequence: accept and cache".                                *)
HigherRouteCached ==
  [][\A r \in Relay, a \in Canonical : \A b \in Offered[a] :
       PublishBundle(r, a, b) /\ Valid(shelf[r][a], b) => shelf'[r][a].route = b.route]_discoveryVars
=============================================================================
