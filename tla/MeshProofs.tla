------------------------------ MODULE MeshProofs ------------------------------
(***************************************************************************)
(* What the relays of the mesh are known by and what they hold of others:  *)
(* the safety of modules RelayIdentity and Discovery, for any processes,   *)
(* relays, addresses and bundles, any number of faults, and what holds of  *)
(* them and the store side by side (module Mesh).                          *)
(***************************************************************************)
EXTENDS Mesh, RelayDurabilityProofs, FiniteSetTheorems, TLAPS

-----------------------------------------------------------------------------
(* RelayIdentity.  Whoever serves, or is about to seal the row, holds the   *)
(* pair of the record; whoever fills the file created it and is alone.      *)

PairsHeld ==
  \A i \in Instance : at[i] \in {"create", "fill", "reread", "seal", "up"} => mine[i] \in Pair

OwnersAgree ==
  \A i \in Instance :
    at[i] \in {"seal", "up"} => record.form \in {"plain", "sealed"} /\ record.pair = mine[i]

OneFills ==
  \A i \in Instance : at[i] = "fill" => record = Torn /\ \A j \in Instance : at[j] = "fill" => j = i

IdentityInv == IdentityTypeOK /\ PairsHeld /\ OwnersAgree /\ OneFills

\* What the forms of a record are told apart by.
LEMMA RecordForms ==
  /\ \A p \in Pair : /\ Plain(p).form = "plain" /\ Plain(p).pair = p
                     /\ Sealed(p).form = "sealed" /\ Sealed(p).pair = p
  /\ Torn.form = "torn" /\ Absent.form = "absent"
  /\ \A i \in Instance, p \in Pair :
       /\ Encoded(i, p).form \in {"plain", "sealed"} /\ Encoded(i, p).pair = p
       /\ Encoded(i, p) \in {Plain(q) : q \in Pair} \cup {Sealed(q) : q \in Pair}
  BY DEF Plain, Sealed, Torn, Absent, Encoded

\* A boot, or the end of a process, moves one process and leaves the record.
LEMMA ReadersKeep ==
  ASSUME IdentityInv, NEW i \in Instance,
         StartInstance(i) \/ StopInstance(i) \/ ReadFile(i) \/ ReadRow(i) \/ Reread(i)
  PROVE  IdentityInv'
<1>. USE DEF IdentityInv, IdentityTypeOK, PairsHeld, OwnersAgree, OneFills
<1>1. record' = record /\ medium' = medium
  BY DEF StartInstance, StopInstance, ReadFile, ReadRow, Reread
<1>2. CASE StartInstance(i)
  BY <1>2 DEF StartInstance, Moves
<1>3. CASE StopInstance(i)
  BY IdentityAssumption, <1>3 DEF StopInstance
<1>4. CASE GeneratePair(i)
  BY IdentityAssumption, <1>1, <1>4 DEF GeneratePair, Moves, Pair
<1>5. ASSUME NEW from \in {"read", "reread"}, NEW to \in {"seal", "up"}, TakePair(i, from, to)
      PROVE  IdentityInv'
  <2>1. record.form \in {"plain", "sealed"} /\ record.pair \in Pair
    BY <1>5, RecordForms DEF TakePair, Readable
  <2>. QED
    BY <1>1, <1>5, <2>1 DEF TakePair, Moves, Pair
<1>6. ASSUME NEW from \in {"read", "reread"}, Refused(i, from)
      PROVE  IdentityInv'
  BY IdentityAssumption, <1>1, <1>6 DEF Refused, Moves
<1>. QED
  BY <1>2, <1>3, <1>4, <1>5, <1>6 DEF ReadFile, ReadRow, Reread

\* Only the creation of a record, its filling and its sealing write it.
LEMMA WritersKeep ==
  ASSUME IdentityInv, NEW i \in Instance,
         CreateFile(i) \/ FillFile(i) \/ InsertRow(i) \/ SealRow(i)
  PROVE  IdentityInv'
<1>. USE DEF IdentityInv, IdentityTypeOK, PairsHeld, OwnersAgree, OneFills
<1>1. CASE CreateFile(i)
  BY <1>1, RecordForms DEF CreateFile, Moves
<1>2. CASE FillFile(i)
  <2>1. record = Torn /\ mine[i] \in Pair /\ at[i] = "fill"
    BY <1>2 DEF FillFile, Moves
  <2>2. record' = Plain(mine[i]) /\ at' = [at EXCEPT ![i] = "up"] /\ UNCHANGED <<medium, mine, pairs>>
    BY <1>2 DEF FillFile, Moves
  <2>3. \A j \in Instance : at[j] \notin {"seal", "up"} /\ (at[j] = "fill" => j = i)
    BY <2>1, RecordForms
  <2>. QED
    BY <2>1, <2>2, <2>3, RecordForms
<1>3. CASE InsertRow(i) /\ record = Absent
  <2>1. /\ record' = Encoded(i, mine[i]) /\ mine[i] \in Pair
        /\ at' = [at EXCEPT ![i] = "up"] /\ UNCHANGED <<medium, mine, pairs>>
    BY <1>3 DEF InsertRow, Moves
  <2>2. \A j \in Instance : at[j] \notin {"seal", "up", "fill"}
    BY <1>3, RecordForms
  <2>. QED
    BY <2>1, <2>2, RecordForms
<1>4. CASE InsertRow(i) /\ record # Absent
  BY <1>4 DEF InsertRow, Moves
<1>5. CASE SealRow(i)
  <2>1. /\ record.form \in {"plain", "sealed"} /\ record.pair = mine[i] /\ mine[i] \in Pair
        /\ record' = Sealed(mine[i])
        /\ at' = [at EXCEPT ![i] = "up"] /\ UNCHANGED <<medium, mine, pairs>>
    BY <1>5 DEF SealRow, Moves
  <2>2. \A j \in Instance : at[j] # "fill"
    BY <2>1, RecordForms
  <2>. QED
    BY <2>1, <2>2, RecordForms
<1>. QED
  BY <1>1, <1>2, <1>3, <1>4, <1>5

\* The inductive invariant of the relay's identity (IdentityInv): types, who holds
\* a pair, who agrees with the record, and who may fill the file.
THEOREM IdentityInvariant == IdentitySpec => []IdentityInv
<1>1. IdentityInit => IdentityInv
  BY IdentityAssumption
  DEF IdentityInit, IdentityInv, IdentityTypeOK, PairsHeld, OwnersAgree, OneFills
<1>2. IdentityInv /\ [IdentityNext]_identityVars => IdentityInv'
  <2>1. CASE UNCHANGED identityVars
    BY <2>1 DEF identityVars, IdentityInv, IdentityTypeOK, PairsHeld, OwnersAgree, OneFills
  <2>. QED
    BY <2>1, ReadersKeep, WritersKeep DEF IdentityNext
<1>. QED
  BY <1>1, <1>2, PTL DEF IdentitySpec

\* Whatever processes boot, crash or race on one directory or table, those that
\* serve sign as the one relay the next boot will be (loadOrCreateRelayIdentity,
\* loadOrCreateIdentity).
THEOREM OneRelayId == IdentitySpec => []OneIdentity
<1>1. IdentityInv => OneIdentity
  BY DEF IdentityInv, OwnersAgree, OneIdentity
<1>. QED
  BY <1>1, IdentityInvariant, PTL

-----------------------------------------------------------------------------
(* Discovery.  The lemmas on the records: what belongs to no type, and what  *)
(* the two successions are closed under.                                     *)

LEMMA RecordsApart ==
  /\ NoManifest \notin Manifest /\ NoRoute \notin Route /\ Nothing \notin Bundle
  /\ Nothing \in Held /\ Bundle \subseteq Held
  /\ \A b \in Bundle : /\ b.identity \in Manifest /\ b.route \in Route
                       /\ b.profile \in Profile \cup {NoProfile}
  /\ \A h \in Held : BundleFor(h) \in Bundle \cup {Nothing}
<1>1. NoManifest \notin Manifest /\ NoRoute \notin Route
  BY DEF NoManifest, Manifest, NoRoute, Route
<1>2. Nothing \notin Bundle
  BY <1>1 DEF Nothing, Bundle
<1>3. Nothing \in Held /\ Bundle \subseteq Held
  BY DEF Nothing, Bundle, Held
<1>4. \A b \in Bundle : /\ b.identity \in Manifest /\ b.route \in Route
                        /\ b.profile \in Profile \cup {NoProfile}
  BY DEF Bundle
<1>5. ASSUME NEW h \in Held, BundleFor(h) # Nothing PROVE h \in Bundle
  BY <1>5 DEF BundleFor, Held, Bundle
<1>. QED
  BY <1>1, <1>2, <1>3, <1>4, <1>5 DEF BundleFor

\* An accepted manifest is accepted by whoever accepts the one it succeeds.
LEMMA AcceptsTransitive ==
  ASSUME NEW m \in Manifest, NEW n \in Manifest, NEW o \in Manifest,
         Accepts(m, n), Accepts(n, o)
  PROVE  Accepts(m, o)
<1>1. m # NoManifest /\ n # NoManifest
  BY RecordsApart
<1>2. m.seq \in Nat /\ n.seq \in Nat /\ o.seq \in Nat
  BY DEF Manifest
<1>3. KeepsRevocations(m, n) /\ KeepsRevocations(n, o) => KeepsRevocations(m, o)
  BY DEF KeepsRevocations
<1>. QED
  BY <1>1, <1>2, <1>3 DEF Accepts

LEMMA RouteSucceedsTransitive ==
  ASSUME NEW m \in Route, NEW n \in Route, NEW o \in Route,
         RouteSucceeds(m, n), RouteSucceeds(n, o)
  PROVE  RouteSucceeds(m, o)
<1>1. m.seq \in Nat /\ n.seq \in Nat /\ o.seq \in Nat
  BY DEF Route
<1>. QED
  BY <1>1, RecordsApart DEF RouteSucceeds

-----------------------------------------------------------------------------
(* What a relay holds of an address moves on, whichever door the record came *)
(* in by.                                                                    *)

Grows(h, next) ==
  /\ next.identity = h.identity \/ Accepts(h.identity, next.identity)
  /\ RouteSucceeds(h.route, next.route)
  /\ ProfileMerges(h.profile, next.profile)

\* What holds b, or what succeeded it, is not behind b.
Behind(b, h) == Accepts(b.identity, h.identity) /\ RouteSucceeds(b.route, h.route)

WellKept(h) == h.identity = NoManifest \/ WellFormed(h.identity)

LEMMA GrowsReflexive == \A h \in Held : Grows(h, h)
  BY DEF Grows, RouteSucceeds, ProfileMerges

LEMMA BehindGrows ==
  ASSUME NEW b \in Bundle, NEW h \in Held, NEW next \in Held, Behind(b, h), Grows(h, next)
  PROVE  Behind(b, next)
<1>1. b.identity \in Manifest /\ b.route \in Route
  BY RecordsApart
<1>2. h.identity \in Manifest
  BY DEF Behind, Accepts, WellFormed, Held, NoManifest
<1>3. next.identity \in Manifest
  BY <1>2 DEF Grows, Accepts, WellFormed, Held, NoManifest
<1>4. Accepts(b.identity, next.identity)
  BY <1>1, <1>2, <1>3, AcceptsTransitive DEF Grows, Behind
<1>5. h.route \in Route
  BY <1>1, RecordsApart DEF Behind, RouteSucceeds, Held, NoRoute, Route
<1>6. next.route \in Route
  <2>1. h.route.seq \in Nat /\ h.route # NoRoute
    BY <1>5, RecordsApart DEF Route
  <2>. QED
    BY <1>5, <2>1 DEF Grows, RouteSucceeds, Held, NoRoute
<1>7. RouteSucceeds(b.route, next.route)
  BY <1>1, <1>5, <1>6, RouteSucceedsTransitive DEF Grows, Behind
<1>. QED
  BY <1>4, <1>7 DEF Behind

LEMMA BehindItself ==
  ASSUME NEW b \in Bundle, WellFormed(b.identity)
  PROVE  Behind(b, b)
  BY DEF Behind, Accepts, RouteSucceeds

\* What a valid bundle leaves on the shelf.
LEMMA StoredGrows ==
  ASSUME NEW h \in Held, NEW b \in Bundle
  PROVE  /\ Stored(h, b) \in Held /\ Grows(h, Stored(h, b))
         /\ WellKept(h) => WellKept(Stored(h, b))
         /\ StoredWhole(h, b) => Stored(h, b).identity = b.identity /\ Stored(h, b).route = b.route
<1>1. b \in Held
  BY RecordsApart
<1>2. Stored(h, b) \in Held
  BY <1>1 DEF Stored, Held
<1>3. Grows(h, Stored(h, b))
  BY DEF Stored, Grows, IdentityStored, ProfileStored, StoredWhole, RouteSucceeds, ProfileMerges
<1>4. WellKept(h) => WellKept(Stored(h, b))
  BY DEF Stored, IdentityStored, WellKept, Accepts
<1>5. StoredWhole(h, b) => Stored(h, b).identity = b.identity /\ Stored(h, b).route = b.route
  BY DEF Stored, StoredWhole, ProfileStored
<1>. QED
  BY <1>2, <1>3, <1>4, <1>5

ShelfOK ==
  /\ shelf \in [Relay -> [Canonical -> Held]]
  /\ \A r \in Relay, a \in Canonical : WellKept(shelf[r][a])

ShelfGrows == \A r \in Relay, a \in Canonical : Grows(shelf[r][a], shelf'[r][a])

\* One entry replaced by a well kept one that it grows to.
LEMMA EntryGrows ==
  ASSUME ShelfOK, NEW r \in Relay, NEW a \in Canonical, NEW next \in Held,
         WellKept(next), Grows(shelf[r][a], next),
         shelf' = [shelf EXCEPT ![r][a] = next]
  PROVE  ShelfOK' /\ ShelfGrows
<1>1. shelf' \in [Relay -> [Canonical -> Held]]
  BY DEF ShelfOK
<1>2. \A q \in Relay, c \in Canonical :
        shelf'[q][c] = IF q = r /\ c = a THEN next ELSE shelf[q][c]
  BY DEF ShelfOK
<1>3. \A q \in Relay, c \in Canonical : shelf[q][c] \in Held
  BY DEF ShelfOK
<1>. QED
  BY <1>1, <1>2, <1>3, GrowsReflexive DEF ShelfOK, ShelfGrows, WellKept

LEMMA KeepBundleGrows ==
  ASSUME ShelfOK, NEW r \in Relay, NEW a \in Canonical, NEW b \in Bundle, KeepBundle(r, a, b)
  PROVE  ShelfOK' /\ ShelfGrows
<1>. DEFINE h == shelf[r][a]
            next == IF Valid(h, b) THEN Stored(h, b) ELSE h
<1>1. h \in Held /\ WellKept(h)
  BY DEF ShelfOK
<1>2. next \in Held /\ WellKept(next) /\ Grows(h, next)
  BY <1>1, StoredGrows, GrowsReflexive
<1>3. shelf' = [shelf EXCEPT ![r][a] = next]
  BY DEF KeepBundle
<1>. QED
  BY <1>2, <1>3, EntryGrows

-----------------------------------------------------------------------------
(* The types, by the kind of step.                                           *)

PacketType == [at : Relay, address : Canonical, bundle : Bundle]

OutsideOK ==
  /\ expired \subseteq Route
  /\ known \in [Relay -> SUBSET Relay]
  /\ copying \subseteq PacketType /\ copies \subseteq PacketType
  /\ published \in 0..MaxPublished /\ searches \in 0..MaxSearches
  /\ meshFaults \in 0..MaxMeshFaults

MeshTyped == ShelfOK /\ OutsideOK /\ (search = NoSearch \/ search \in SearchRecord)

SearchStays == UNCHANGED search

\* Publications, copies, manifests, packets and bootstraps leave the search alone.
LEMMA OwnersKeepTypes ==
  ASSUME MeshTyped, OwnerPublishes
  PROVE  ShelfOK' /\ ShelfGrows /\ OutsideOK' /\ SearchStays
<1>1. PICK r \in Home, a \in Canonical : \E b \in Offered[a] : PublishBundle(r, a, b)
  BY DEF OwnerPublishes
<1>2. PICK b \in Offered[a] : PublishBundle(r, a, b)
  BY <1>1
<1>3. r \in Relay /\ b \in Bundle
  BY <1>2, DiscoveryAssumption
<1>4. ShelfOK' /\ ShelfGrows
  BY <1>2, <1>3, KeepBundleGrows DEF PublishBundle, MeshTyped
<1>5. [at |-> r, address |-> a, bundle |-> b] \in PacketType
  BY <1>3 DEF PacketType
<1>6. OutsideOK'
  BY <1>2, <1>5, DiscoveryAssumption DEF PublishBundle, MeshTyped, OutsideOK
<1>. QED
  BY <1>2, <1>4, <1>6 DEF PublishBundle, SearchStays

LEMMA CopiesKeepTypes ==
  ASSUME MeshTyped, (\E c \in copying : Replicate(c)) \/ (\E c \in copies : CopyArrives(c))
  PROVE  ShelfOK' /\ ShelfGrows /\ OutsideOK' /\ SearchStays
<1>. USE DEF MeshTyped, OutsideOK, SearchStays
<1>1. ASSUME NEW c \in copying, Replicate(c)
      PROVE  ShelfOK' /\ ShelfGrows /\ OutsideOK' /\ SearchStays
  <2>1. c.at \in Relay /\ c.address \in Canonical /\ c.bundle \in Bundle
    BY DEF PacketType
  <2>2. \A to \in ReplicationPeers(c.at) : to \subseteq Relay
    BY <2>1 DEF ReplicationPeers, SomeOf
  <2>3. copies' \subseteq PacketType
    BY <1>1, <2>1, <2>2 DEF Replicate, PacketType
  <2>4. UNCHANGED <<expired, shelf, known, search, published, searches, meshFaults>>
        /\ copying' \subseteq PacketType
    BY <1>1 DEF Replicate
  <2>. QED
    BY <2>3, <2>4, GrowsReflexive DEF ShelfOK, ShelfGrows
<1>2. ASSUME NEW c \in copies, CopyArrives(c)
      PROVE  ShelfOK' /\ ShelfGrows /\ OutsideOK' /\ SearchStays
  <2>1. c.at \in Relay /\ c.address \in Canonical /\ c.bundle \in Bundle
    BY DEF PacketType
  <2>2. ShelfOK' /\ ShelfGrows
    BY <1>2, <2>1, KeepBundleGrows DEF CopyArrives
  <2>. QED
    BY <1>2, <2>2 DEF CopyArrives
<1>. QED
  BY <1>1, <1>2

LEMMA DoorsKeepTypes ==
  ASSUME MeshTyped, NEW r \in Home, NEW a \in Canonical,
         PublishManifest(r, a) \/ AcceptRouteOfPacket(r, a)
  PROVE  ShelfOK' /\ ShelfGrows /\ OutsideOK' /\ SearchStays
<1>. USE DEF MeshTyped, OutsideOK, SearchStays
<1>1. r \in Relay /\ shelf[r][a] \in Held /\ WellKept(shelf[r][a])
  BY DiscoveryAssumption DEF ShelfOK
<1>2. CASE PublishManifest(r, a)
  <2>1. PICK b \in Offered[a] :
          /\ Accepts(shelf[r][a].identity, b.identity)
          /\ published < MaxPublished
          /\ shelf' = [shelf EXCEPT ![r][a].identity = b.identity]
          /\ published' = published + 1
          /\ UNCHANGED <<expired, known, copying, copies, search, searches, meshFaults>>
    BY <1>2 DEF PublishManifest
  <2>2. b.identity \in Manifest
    BY DiscoveryAssumption, RecordsApart
  <2>. DEFINE next == [shelf[r][a] EXCEPT !.identity = b.identity]
  <2>3. next \in Held /\ WellKept(next) /\ Grows(shelf[r][a], next)
    BY <1>1, <2>1, <2>2
    DEF Held, WellKept, Grows, Accepts, RouteSucceeds, ProfileMerges
  <2>4. shelf' = [shelf EXCEPT ![r][a] = next]
    BY <2>1
  <2>. HIDE DEF next
  <2>5. ShelfOK' /\ ShelfGrows
    BY <1>1, <2>3, <2>4, EntryGrows
  <2>. QED
    BY <2>1, <2>5, DiscoveryAssumption
<1>3. CASE AcceptRouteOfPacket(r, a)
  <2>1. PICK b \in Offered[a] :
          /\ RouteSucceeds(shelf[r][a].route, b.route)
          /\ published < MaxPublished
          /\ shelf' = [shelf EXCEPT ![r][a].route = b.route]
          /\ published' = published + 1
          /\ UNCHANGED <<expired, known, copying, copies, search, searches, meshFaults>>
    BY <1>3 DEF AcceptRouteOfPacket
  <2>2. b.route \in Route
    BY DiscoveryAssumption, RecordsApart
  <2>. DEFINE next == [shelf[r][a] EXCEPT !.route = b.route]
  <2>3. next \in Held /\ WellKept(next) /\ Grows(shelf[r][a], next)
    BY <1>1, <2>1, <2>2 DEF Held, WellKept, Grows, RouteSucceeds, ProfileMerges
  <2>4. shelf' = [shelf EXCEPT ![r][a] = next]
    BY <2>1
  <2>. HIDE DEF next
  <2>5. ShelfOK' /\ ShelfGrows
    BY <1>1, <2>3, <2>4, EntryGrows
  <2>. QED
    BY <2>1, <2>5, DiscoveryAssumption
<1>. QED
  BY <1>2, <1>3

\* A step that leaves the shelves alone leaves them as good as they were.
LEMMA ShelfStays ==
  ASSUME ShelfOK, UNCHANGED shelf
  PROVE  ShelfOK' /\ ShelfGrows
  BY GrowsReflexive DEF ShelfOK, ShelfGrows

LEMMA BootstrapKeepsTypes ==
  ASSUME MeshTyped, NEW r \in Relay, BootstrapPeers(r)
  PROVE  ShelfOK' /\ ShelfGrows /\ OutsideOK' /\ SearchStays
<1>1. /\ UNCHANGED <<expired, shelf, copying, copies, search, published, searches>>
      /\ meshFaults' = meshFaults \/ (meshFaults < MaxMeshFaults /\ meshFaults' = meshFaults + 1)
  BY DEF BootstrapPeers
<1>2. known' \in [Relay -> SUBSET Relay]
  BY DiscoveryAssumption DEF BootstrapPeers, Remember, MeshTyped, OutsideOK
<1>3. meshFaults' \in 0..MaxMeshFaults
  BY <1>1, DiscoveryAssumption DEF MeshTyped, OutsideOK
<1>. QED
  BY <1>1, <1>2, <1>3, ShelfStays DEF MeshTyped, OutsideOK, SearchStays

AnswerType ==
  {NotFound, Ambiguous} \cup [status : {"unique"}, address : Canonical, bundle : Bundle]

LEMMA AnsweredTyped ==
  ASSUME NEW s \in SearchRecord, NEW reply \in AnswerType
  PROVE  SearchAnswered(s, reply) \in SearchRecord
  BY DEF SearchRecord, SearchAnswered, AnswerType

LEMMA SnapshotTyped ==
  ASSUME NEW s \in SearchRecord
  PROVE  SnapshotOf(s) \in AnswerType
<1>1. s.pinned \in Bundle \cup {Nothing} /\ s.address \in Canonical
  BY DEF SearchRecord
<1>. QED
  BY <1>1 DEF SnapshotOf, Unique, AnswerType

\* What a search starts from.
SearchFrom(kind, r, a, seeds) ==
  [phase |-> "asking", kind |-> kind, at |-> r, address |-> a,
   pinned |-> BundleFor(shelf[r][a]),
   candidates |-> seeds, asked |-> {}, waiting |-> {}, replies |-> {},
   records |-> {}, choice |-> NotFound, answer |-> NotFound]

Begins(kind, r, a, seeds) ==
  \/ search' = SearchFrom(kind, r, a, seeds)
  \/ /\ kind = "lookup"
     /\ search' = SearchAnswered(SearchFrom(kind, r, a, seeds), SnapshotOf(SearchFrom(kind, r, a, seeds)))
  \/ search' = SearchAnswered(SearchFrom(kind, r, a, seeds), NotFound)

LEMMA BeginForms ==
  ASSUME NEW kind, NEW r, NEW a, BeginSearch(kind, r, a)
  PROVE  \E seeds \in SUBSET known[r] : Begins(kind, r, a, seeds)
<1>1. PICK seeds \in SomeOf(known[r] \ {r}, Nearest) :
        search' = IF SearchFrom(kind, r, a, seeds).candidates # {} THEN SearchFrom(kind, r, a, seeds)
                  ELSE SearchAnswered(SearchFrom(kind, r, a, seeds),
                         IF kind = "lookup" THEN SnapshotOf(SearchFrom(kind, r, a, seeds)) ELSE NotFound)
  BY DEF BeginSearch, SearchFrom
<1>2. seeds \in SUBSET known[r]
  BY DEF SomeOf
<1>. QED
  BY <1>1, <1>2 DEF Begins

LEMMA BeginKeepsTypes ==
  ASSUME MeshTyped, NEW kind \in {"lookup", "handle"}, NEW r \in Relay, NEW a \in Canonical,
         BeginSearch(kind, r, a)
  PROVE  ShelfOK' /\ ShelfGrows /\ OutsideOK' /\ search' \in SearchRecord
<1>0. PICK seeds \in SUBSET known[r] : Begins(kind, r, a, seeds)
  BY BeginForms
<1>. DEFINE s == SearchFrom(kind, r, a, seeds)
<1>1. BundleFor(shelf[r][a]) \in Bundle \cup {Nothing}
  BY RecordsApart DEF MeshTyped, ShelfOK
<1>2. known[r] \subseteq Relay
  BY DEF MeshTyped, OutsideOK
<1>3. s \in SearchRecord
  BY <1>1, <1>2 DEF SearchFrom, SearchRecord
<1>4. \/ search' = s
      \/ search' = SearchAnswered(s, SnapshotOf(s))
      \/ search' = SearchAnswered(s, NotFound)
  BY <1>0 DEF Begins
<1>. HIDE DEF s
<1>5. NotFound \in AnswerType
  BY DEF AnswerType
<1>6. search' \in SearchRecord
  BY <1>3, <1>4, <1>5, AnsweredTyped, SnapshotTyped
<1>7. ShelfOK' /\ ShelfGrows
  BY ShelfStays DEF BeginSearch, MeshTyped
<1>8. OutsideOK'
  BY DiscoveryAssumption DEF BeginSearch, MeshTyped, OutsideOK
<1>. QED
  BY <1>6, <1>7, <1>8

-----------------------------------------------------------------------------
(* The steps of a search, and their types.                                   *)

Reply == [address : Canonical, bundle : Bundle]

LEMMA SearchFields ==
  ASSUME NEW s \in SearchRecord
  PROVE  /\ s # NoSearch /\ s.at \in Relay /\ s.address \in Canonical
         /\ s.kind \in {"lookup", "handle"} /\ s.pinned \in Bundle \cup {Nothing}
         /\ s.candidates \subseteq Relay /\ s.asked \subseteq Relay /\ s.waiting \subseteq Relay
         /\ s.replies \subseteq Reply /\ s.records \subseteq Reply
         /\ s.choice \in AnswerType /\ s.answer \in AnswerType
         /\ s.choice.status = "unique" =>
              s.choice.address \in Canonical /\ s.choice.bundle \in Bundle
         /\ s.answer.status = "unique" =>
              s.answer.address \in Canonical /\ s.answer.bundle \in Bundle
<1>1. s # NoSearch
  BY DEF NoSearch, SearchRecord
<1>2. \A x \in AnswerType : x.status = "unique" => x.address \in Canonical /\ x.bundle \in Bundle
  BY DEF AnswerType, NotFound, Ambiguous
<1>. QED
  BY <1>1, <1>2 DEF SearchRecord, Reply, AnswerType

LEMMA Deciding ==
  ASSUME NEW records, records \subseteq Reply, NEW a \in Canonical,
         NEW b \in NewestBundles(BundlesAt(a, records))
  PROVE  b \in Bundle /\ a \in Found(records) /\ b \in BundlesAt(a, records)
<1>1. b \in BundlesAt(a, records)
  BY DEF NewestBundles
<1>2. b \in Bundle
  BY <1>1 DEF BundlesAt, Reply
<1>. QED
  BY <1>1, <1>2 DEF Found

SearchSettled == [search EXCEPT !.records = @ \cup ValidReplies, !.replies = {}]

\* What closes a search: an answer, or what is about to be accepted.
DecideAnswers(s) ==
  \E x \in {NotFound, Ambiguous, SnapshotOf(s)} : search' = SearchAnswered(s, x)
DecideAccepts(s) ==
  \E a \in Canonical : \E b \in Bundle :
    /\ Found(s.records) = {a} /\ Ends(s.records)
    /\ search' = [s EXCEPT !.phase = "accepting", !.choice = Unique(a, b)]

LEMMA DecideForms ==
  ASSUME NEW s, s.records \subseteq Reply, Ends(s.records), Decide(s)
  PROVE  \/ s.kind = "lookup" /\ search' = SearchAnswered(s, SnapshotOf(s))
         \/ \E x \in {NotFound, Ambiguous} : search' = SearchAnswered(s, x)
         \/ DecideAccepts(s)
<1>. DEFINE U == Found(s.records)
<1>1. CASE U = {}
  BY <1>1 DEF Decide
<1>2. CASE U # {} /\ Cardinality(U) > 1
  BY <1>2 DEF Decide
<1>3. CASE U # {} /\ ~(Cardinality(U) > 1)
  <2>1. U \subseteq Canonical
    BY DEF Found
  <2>2. IsFiniteSet(U) /\ Cardinality(U) \in Nat
    BY <2>1, DiscoveryAssumption, FS_Subset, FS_CardinalityType
  <2>3. Cardinality(U) # 0
    BY <1>3, <2>2, FS_EmptySet
  <2>4. Cardinality(U) = 1
    BY <1>3, <2>2, <2>3
  <2>5. PICK x : U = {x}
    BY <2>2, <2>4, FS_Singleton
  <2>6. PICK a \in U : \E b \in NewestBundles(BundlesAt(a, s.records)) :
            search' = [s EXCEPT !.phase = "accepting", !.choice = Unique(a, b)]
    BY <1>3 DEF Decide
  <2>7. PICK b \in NewestBundles(BundlesAt(a, s.records)) :
            search' = [s EXCEPT !.phase = "accepting", !.choice = Unique(a, b)]
    BY <2>6
  <2>8. a \in Canonical /\ b \in Bundle /\ U = {a}
    BY <2>1, <2>5, <2>6, <2>7, Deciding
  <2>. QED
    BY <2>7, <2>8 DEF DecideAccepts
<1>. QED
  BY <1>1, <1>2, <1>3

LEMMA DecidedTyped ==
  ASSUME NEW s \in SearchRecord, DecideAnswers(s) \/ DecideAccepts(s)
  PROVE  search' \in SearchRecord
<1>1. CASE DecideAnswers(s)
  <2>1. {NotFound, Ambiguous, SnapshotOf(s)} \subseteq AnswerType
    BY SnapshotTyped DEF AnswerType
  <2>. QED
    BY <1>1, <2>1, AnsweredTyped DEF DecideAnswers
<1>2. CASE DecideAccepts(s)
  <2>1. PICK a \in Canonical, b \in Bundle :
          search' = [s EXCEPT !.phase = "accepting", !.choice = Unique(a, b)]
    BY <1>2 DEF DecideAccepts
  <2>2. Unique(a, b) \in [status : {"unique"}, address : Canonical, bundle : Bundle]
    BY DEF Unique
  <2>. QED
    BY <2>1, <2>2 DEF SearchRecord
<1>. QED
  BY <1>1, <1>2

LEMMA SettledTyped ==
  ASSUME search \in SearchRecord
  PROVE  SearchSettled \in SearchRecord
<1>1. ValidReplies \subseteq Reply
  BY SearchFields DEF ValidReplies
<1>. QED
  BY <1>1 DEF SearchSettled, SearchRecord, Reply

LEMMA CloseBatchForms ==
  ASSUME search \in SearchRecord, CloseBatch
  PROVE  \/ search' = [SearchSettled EXCEPT !.phase = "asking"]
         \/ SearchSettled.kind = "lookup" /\ search' = SearchAnswered(SearchSettled, SnapshotOf(SearchSettled))
         \/ \E x \in {NotFound, Ambiguous} : search' = SearchAnswered(SearchSettled, x)
         \/ DecideAccepts(SearchSettled)
<1>1. IF Ends(SearchSettled.records) THEN Decide(SearchSettled) ELSE search' = [SearchSettled EXCEPT !.phase = "asking"]
  BY DEF CloseBatch, SearchSettled
<1>2. SearchSettled.records \subseteq Reply
  BY SettledTyped, SearchFields
<1>. HIDE DEF SearchSettled
<1>. QED
  BY <1>1, <1>2, DecideForms

\* The steps of a search that only ask and hear.
Asks ==
  /\ search \in SearchRecord /\ search' \in SearchRecord
  /\ search'.phase \in {"asking", "waiting"}
  /\ search'.kind = search.kind /\ search'.at = search.at
  /\ search'.address = search.address /\ search'.pinned = search.pinned

SearchesOn == UNCHANGED shelf /\ OutsideOK'

LEMMA ServedTyped ==
  ASSUME MeshTyped, NEW p \in Relay, NEW s \in SearchRecord
  PROVE  Served(p, s) \subseteq Reply
<1>1. \A a \in Canonical : BundleFor(shelf[p][a]) \in Bundle \cup {Nothing}
  BY RecordsApart DEF MeshTyped, ShelfOK
<1>. QED
  BY <1>1, SearchFields DEF Served, Reply

LEMMA SearchRuns ==
  ASSUME MeshTyped, search.phase # "none"
  PROVE  search \in SearchRecord
  BY DEF MeshTyped, NoSearch

LEMMA AskingSteps ==
  ASSUME MeshTyped, AskBatch \/ \E p \in Relay : PeerAnswers(p) \/ PeerFails(p)
  PROVE  Asks /\ SearchesOn
<1>1. CASE AskBatch
  <2>. search.phase = "asking"
    BY <1>1 DEF AskBatch, Searching
  <2>1. search \in SearchRecord
    BY SearchRuns
  <2>2. PICK batch \in SomeOf(search.candidates \ search.asked, BatchSize) :
          search' = [search EXCEPT !.phase = "waiting", !.waiting = batch, !.asked = @ \cup batch]
    BY <1>1 DEF AskBatch
  <2>3. batch \in SUBSET Relay /\ search.asked \cup batch \in SUBSET Relay
    BY <2>1, SearchFields DEF SomeOf
  <2>4. search' \in SearchRecord
    <3>. DEFINE now == search
    <3>1. now \in SearchRecord /\ search' = [now EXCEPT !.phase = "waiting", !.waiting = batch,
                                                       !.asked = now.asked \cup batch]
      BY <2>1, <2>2
    <3>2. now.asked \cup batch \in SUBSET Relay
      BY <2>3
    <3>. HIDE DEF now
    <3>. QED
      BY <3>1, <3>2, <2>3 DEF SearchRecord
  <2>5. Asks
    BY <2>1, <2>2, <2>4 DEF Asks, SearchRecord
  <2>. QED
    BY <1>1, <2>5 DEF AskBatch, SearchOnly, SearchesOn, MeshTyped, OutsideOK
<1>2. ASSUME NEW p \in Relay, PeerAnswers(p) PROVE Asks /\ SearchesOn
  <2>. search.phase = "waiting"
    BY <1>2 DEF PeerAnswers, Searching
  <2>1. search \in SearchRecord
    BY SearchRuns
  <2>0. PICK hints \in SomeOf(known[p], Nearest) :
          search' = [search EXCEPT !.waiting = @ \ {p}, !.candidates = @ \cup hints,
                                   !.replies = @ \cup Served(p, search)]
    BY <1>2 DEF PeerAnswers
  <2>2. Served(p, search) \subseteq Reply /\ hints \subseteq Relay
    BY <2>1, ServedTyped DEF MeshTyped, OutsideOK, SomeOf
  <2>3. /\ search.candidates \cup hints \in SUBSET Relay
        /\ search.replies \cup Served(p, search) \in SUBSET Reply
        /\ search.waiting \ {p} \in SUBSET Relay
    BY <2>1, <2>2, SearchFields
  <2>4. search' \in SearchRecord
    BY <2>0, <2>1, <2>3 DEF SearchRecord, Reply
  <2>5. Asks
    BY <2>0, <2>1, <2>4 DEF Asks, SearchRecord
  <2>. QED
    BY <1>2, <2>5 DEF PeerAnswers, SearchOnly, SearchesOn, MeshTyped, OutsideOK
<1>3. ASSUME NEW p \in Relay, PeerFails(p) PROVE Asks /\ SearchesOn
  <2>. search.phase = "waiting"
    BY <1>3 DEF PeerFails, Searching
  <2>1. search \in SearchRecord
    BY SearchRuns
  <2>2. Asks
    BY <1>3, <2>1 DEF PeerFails, Searching, Asks, SearchRecord
  <2>. QED
    BY <1>3, <2>2, DiscoveryAssumption DEF PeerFails, SearchOnly, SearchesOn, MeshTyped, OutsideOK
<1>. QED
  BY <1>1, <1>2, <1>3

LEMMA CloseKeepsTypes ==
  ASSUME MeshTyped, CloseBatch
  PROVE  search \in SearchRecord /\ search' \in SearchRecord /\ SearchesOn
<1>. search.phase = "waiting"
  BY DEF CloseBatch, Searching
<1>1. search \in SearchRecord
  BY SearchRuns
<1>2. SearchSettled \in SearchRecord
  BY <1>1, SettledTyped
<1>3. [SearchSettled EXCEPT !.phase = "asking"] \in SearchRecord
  BY <1>2 DEF SearchRecord
<1>4. search' \in SearchRecord
  <2>. NotFound \in AnswerType /\ Ambiguous \in AnswerType
    BY DEF AnswerType
  <2>. QED
    BY <1>1, <1>2, <1>3, CloseBatchForms, DecidedTyped, AnsweredTyped, SnapshotTyped
<1>. QED
  BY <1>1, <1>4 DEF CloseBatch, SearchOnly, SearchesOn, MeshTyped, OutsideOK

LEMMA ExpiryKeepsTypes ==
  ASSUME MeshTyped, RouteExpires
  PROVE  UNCHANGED <<shelf, search>> /\ OutsideOK'
<1>1. search.phase \in {"waiting", "accepting"}
  BY DEF RouteExpires
<1>2. search \in SearchRecord
  BY <1>1, SearchRuns
<1>3. PICK f \in search.replies \cup search.records :
        /\ expired' = expired \cup {f.bundle.route}
        /\ meshFaults < MaxMeshFaults /\ meshFaults' = meshFaults + 1
        /\ UNCHANGED <<shelf, known, copying, copies, search, published, searches>>
  BY DEF RouteExpires
<1>4. f.bundle.route \in Route
  BY <1>2, SearchFields, RecordsApart DEF Reply
<1>. QED
  BY <1>3, <1>4, DiscoveryAssumption DEF MeshTyped, OutsideOK

\* The shelf after what was found is accepted or refused.
LEMMA AcceptKeepsTypes ==
  ASSUME MeshTyped, AcceptFound, search.choice.status = "unique"
  PROVE  ShelfOK' /\ ShelfGrows /\ OutsideOK' /\ search' \in SearchRecord
<1>. DEFINE a == search.choice.address
            b == search.choice.bundle
            h == shelf[search.at][a]
            next == IF Acceptable(a, b) THEN Stored(h, b) ELSE h
<1>. search.phase = "accepting"
  BY DEF AcceptFound, Searching
<1>1. search \in SearchRecord
  BY SearchRuns
<1>2. a \in Canonical /\ b \in Bundle /\ search.at \in Relay
  BY <1>1, SearchFields
<1>3. h \in Held /\ WellKept(h)
  BY <1>2 DEF MeshTyped, ShelfOK
<1>4. next \in Held /\ WellKept(next) /\ Grows(h, next)
  BY <1>2, <1>3, StoredGrows, GrowsReflexive
<1>5. shelf' = [shelf EXCEPT ![search.at][a] = next]
  BY DEF AcceptFound
<1>6. ShelfOK' /\ ShelfGrows
  <2>. HIDE DEF next, a
  <2>. QED
    BY <1>2, <1>4, <1>5, EntryGrows DEF MeshTyped
<1>7. RefusedAnswer \in AnswerType
  BY <1>1, SnapshotTyped DEF RefusedAnswer, AnswerType
<1>8. search' \in SearchRecord
  <2>1. search' = SearchAnswered(search, search.choice) \/ search' = SearchAnswered(search, RefusedAnswer)
    BY DEF AcceptFound
  <2>. QED
    BY <2>1, <1>1, <1>7, AnsweredTyped, SearchFields
<1>. QED
  BY <1>6, <1>8 DEF AcceptFound, MeshTyped, OutsideOK

LEMMA SaveFailsKeepsTypes ==
  ASSUME MeshTyped, SaveOfFoundFails
  PROVE  search' \in SearchRecord /\ SearchesOn
<1>. search.phase = "accepting"
  BY DEF SaveOfFoundFails, Searching
<1>1. search \in SearchRecord
  BY SearchRuns
<1>2. RefusedAnswer \in AnswerType
  BY <1>1, SnapshotTyped DEF RefusedAnswer, AnswerType
<1>3. search' \in SearchRecord
  BY <1>1, <1>2, AnsweredTyped DEF SaveOfFoundFails
<1>. QED
  BY <1>3, DiscoveryAssumption DEF SaveOfFoundFails, SearchOnly, SearchesOn, MeshTyped, OutsideOK

-----------------------------------------------------------------------------
(* What a search knows that holds: what it was pinned to is not ahead of the *)
(* shelf, and it accepts only what is alone.                                 *)

Pinned ==
  search.phase # "none" =>
    /\ search.kind = "handle" => search.pinned = Nothing
    /\ search.pinned # Nothing => Behind(search.pinned, shelf[search.at][search.address])

AcceptsWhatIsAlone ==
  search.phase = "accepting" =>
    /\ search.choice.status = "unique"
    /\ search.kind = "handle" =>
         /\ Found(search.records) = {search.choice.address}
         /\ search.candidates \subseteq search.asked \/ Cardinality(search.asked) = MaxQueries

QueriesBounded == search # NoSearch => Cardinality(search.asked) <= MaxQueries

SearchGood == Pinned /\ AcceptsWhatIsAlone /\ AnswersStayPinned /\ HandleAnswerIsAlone

DiscoveryInv == MeshTyped /\ SearchGood /\ QueriesBounded

\* The search waits while something else happens at the relays.
LEMMA OthersKeepSearch ==
  ASSUME DiscoveryInv, ShelfOK', ShelfGrows, SearchStays
  PROVE  SearchGood'
<1>1. CASE search = NoSearch
  BY <1>1 DEF SearchStays, SearchGood, Pinned, AcceptsWhatIsAlone, AnswersStayPinned,
              HandleAnswerIsAlone, NoSearch
<1>2. CASE search \in SearchRecord
  <2>1. search.at \in Relay /\ search.address \in Canonical /\ search.pinned \in Bundle \cup {Nothing}
    BY <1>2, SearchFields
  <2>2. ASSUME NEW b \in Bundle, NEW c \in Canonical, Behind(b, shelf[search.at][c])
        PROVE  Behind(b, shelf'[search.at][c])
    <3>. DEFINE h == shelf[search.at][c]
                next == shelf'[search.at][c]
    <3>1. h \in Held /\ next \in Held /\ Grows(h, next)
      BY <2>1 DEF DiscoveryInv, MeshTyped, ShelfOK, ShelfGrows
    <3>. HIDE DEF h, next
    <3>2. Behind(b, h) => Behind(b, next)
      BY <3>1, BehindGrows
    <3>. QED
      BY <2>2, <3>2 DEF h, next
  <2>3. Pinned'
    BY <2>1, <2>2 DEF DiscoveryInv, SearchGood, Pinned, SearchStays
  <2>4. AnswersStayPinned'
    BY <1>2, <2>2, SearchFields DEF DiscoveryInv, SearchGood, AnswersStayPinned, SearchStays, Behind
  <2>. QED
    BY <2>3, <2>4 DEF DiscoveryInv, SearchGood, AcceptsWhatIsAlone, HandleAnswerIsAlone, SearchStays
<1>. QED
  BY <1>1, <1>2 DEF DiscoveryInv, MeshTyped

LEMMA AskingKeepsSearch ==
  ASSUME DiscoveryInv, Asks, UNCHANGED shelf
  PROVE  SearchGood'
<1>1. search.phase # "none"
  BY DEF Asks, SearchRecord
<1>. QED
  BY <1>1 DEF DiscoveryInv, SearchGood, Pinned, AcceptsWhatIsAlone, AnswersStayPinned,
              HandleAnswerIsAlone, Asks

\* What a search answers when it has nothing new is what it was pinned to.
LEMMA SnapshotIsPinned ==
  ASSUME NEW s \in SearchRecord,
         NEW top, s.pinned # Nothing => Behind(s.pinned, top[s.at][s.address]),
         SnapshotOf(s).status = "unique"
  PROVE  /\ s.pinned \in Bundle /\ SnapshotOf(s) = Unique(s.address, s.pinned)
         /\ Behind(s.pinned, top[s.at][s.address]) /\ Behind(s.pinned, s.pinned)
<1>1. s.pinned # Nothing /\ SnapshotOf(s) = Unique(s.address, s.pinned)
  BY DEF SnapshotOf, NotFound
<1>2. s.pinned \in Bundle
  BY <1>1, SearchFields
<1>3. WellFormed(s.pinned.identity)
  BY <1>1, <1>2, RecordsApart DEF Behind, Accepts
<1>. QED
  BY <1>1, <1>2, <1>3, BehindItself

LEMMA SnapshotAnswerGood ==
  ASSUME NEW s \in SearchRecord,
         s.kind = "handle" => s.pinned = Nothing,
         s.pinned # Nothing => Behind(s.pinned, shelf'[s.at][s.address]),
         search' = SearchAnswered(s, SnapshotOf(s)) \/ search' = SearchAnswered(s, NotFound)
                   \/ search' = SearchAnswered(s, Ambiguous),
         search'.answer.status = "unique" => s.kind = "lookup"
  PROVE  SearchGood'
<1>1. /\ search'.phase = "answered" /\ search'.kind = s.kind /\ search'.pinned = s.pinned
      /\ search'.at = s.at /\ search'.address = s.address
      /\ search'.answer \in {SnapshotOf(s), NotFound, Ambiguous}
  BY DEF SearchAnswered, SearchRecord
<1>2. Pinned' /\ AcceptsWhatIsAlone'
  BY <1>1 DEF Pinned, AcceptsWhatIsAlone
<1>3. HandleAnswerIsAlone'
  BY <1>1 DEF HandleAnswerIsAlone
<1>4. AnswersStayPinned'
  <2>. SUFFICES ASSUME search'.answer.status = "unique" PROVE AnswersStayPinned'
    BY DEF AnswersStayPinned
  <2>1. search'.answer = SnapshotOf(s)
    BY <1>1 DEF NotFound, Ambiguous
  <2>2. /\ s.pinned \in Bundle /\ SnapshotOf(s) = Unique(s.address, s.pinned)
        /\ Behind(s.pinned, shelf'[s.at][s.address]) /\ Behind(s.pinned, s.pinned)
    BY <2>1, SnapshotIsPinned
  <2>3. search'.answer.address = s.address /\ search'.answer.bundle = s.pinned
    BY <2>1, <2>2 DEF Unique
  <2>. QED
    BY <1>1, <2>2, <2>3 DEF AnswersStayPinned, Behind
<1>. QED
  BY <1>2, <1>3, <1>4 DEF SearchGood

LEMMA AskedFinite ==
  ASSUME NEW s \in SearchRecord
  PROVE  IsFiniteSet(s.asked) /\ Cardinality(s.asked) \in Nat
  BY SearchFields, DiscoveryAssumption, FS_Subset, FS_CardinalityType

LEMMA CloseKeepsSearch ==
  ASSUME DiscoveryInv, CloseBatch
  PROVE  SearchGood'
<1>. search.phase = "waiting" /\ UNCHANGED shelf
  BY DEF CloseBatch, Searching, SearchOnly
<1>1. search \in SearchRecord
  BY SearchRuns DEF DiscoveryInv
<1>. DEFINE s == SearchSettled
<1>2. s \in SearchRecord
  BY <1>1, SettledTyped
<1>3. /\ s.kind = search.kind /\ s.at = search.at /\ s.address = search.address
      /\ s.pinned = search.pinned
      /\ s.candidates = search.candidates /\ s.asked = search.asked
  BY <1>1 DEF SearchSettled, SearchRecord
<1>4. s.kind = "handle" => s.pinned = Nothing
  BY <1>3 DEF DiscoveryInv, SearchGood, Pinned
<1>5. s.pinned # Nothing => Behind(s.pinned, shelf'[s.at][s.address])
  BY <1>3 DEF DiscoveryInv, SearchGood, Pinned
<1>. HIDE DEF s
<1>6. CASE search' = [s EXCEPT !.phase = "asking"]
  <2>1. /\ search'.phase = "asking" /\ search'.kind = s.kind /\ search'.at = s.at
        /\ search'.address = s.address /\ search'.pinned = s.pinned
    BY <1>2, <1>6 DEF SearchRecord
  <2>. QED
    BY <1>4, <1>5, <2>1
    DEF SearchGood, Pinned, AcceptsWhatIsAlone, AnswersStayPinned, HandleAnswerIsAlone
<1>7. CASE s.kind = "lookup" /\ search' = SearchAnswered(s, SnapshotOf(s))
  BY <1>2, <1>4, <1>5, <1>7, SnapshotAnswerGood
<1>8. ASSUME NEW x \in {NotFound, Ambiguous}, search' = SearchAnswered(s, x)
      PROVE  SearchGood'
  <2>1. search'.answer.status # "unique"
    BY <1>2, <1>8 DEF SearchAnswered, SearchRecord, NotFound, Ambiguous
  <2>. QED
    BY <1>2, <1>4, <1>5, <1>8, <2>1, SnapshotAnswerGood
<1>9. CASE DecideAccepts(s)
  <2>1. PICK a \in Canonical, b \in Bundle :
          /\ Found(s.records) = {a} /\ Ends(s.records)
          /\ search' = [s EXCEPT !.phase = "accepting", !.choice = Unique(a, b)]
    BY <1>9 DEF DecideAccepts
  <2>2. /\ search'.phase = "accepting" /\ search'.kind = s.kind /\ search'.at = s.at
        /\ search'.address = s.address /\ search'.pinned = s.pinned
        /\ search'.candidates = s.candidates /\ search'.asked = s.asked
        /\ search'.records = s.records /\ search'.choice = Unique(a, b)
    BY <1>2, <2>1 DEF SearchRecord
  <2>3. s.kind = "handle" => s.candidates \subseteq s.asked \/ Cardinality(s.asked) = MaxQueries
    <3>1. s.kind = "handle" => s.candidates = s.asked \/ Cardinality(s.asked) >= MaxQueries
      BY <1>3, <2>1 DEF Ends, Exhausted
    <3>2. Cardinality(s.asked) <= MaxQueries
      BY <1>1, <1>3, SearchFields DEF DiscoveryInv, QueriesBounded
    <3>3. Cardinality(s.asked) \in Nat
      BY <1>2, AskedFinite
    <3>. QED
      BY <3>1, <3>2, <3>3, DiscoveryAssumption
  <2>4. Pinned'
    BY <1>4, <1>5, <2>2 DEF Pinned
  <2>5. AcceptsWhatIsAlone'
    <3>1. Unique(a, b).status = "unique" /\ Unique(a, b).address = a
      BY DEF Unique
    <3>2. Found(search'.records) = {a}
      BY <2>1, <2>2
    <3>3. Found(search.records)' = Found(search'.records)
      BY DEF Found, BundlesAt, NewestBundles
    <3>. QED
      BY <2>2, <2>3, <3>1, <3>2, <3>3 DEF AcceptsWhatIsAlone
  <2>. QED
    BY <2>2, <2>4, <2>5 DEF SearchGood, AnswersStayPinned, HandleAnswerIsAlone
<1>. QED
  BY <1>1, <1>6, <1>7, <1>8, <1>9, CloseBatchForms DEF s

LEMMA BeginKeepsSearch ==
  ASSUME DiscoveryInv, NEW kind \in {"lookup", "handle"}, NEW r \in Relay, NEW a \in Canonical,
         BeginSearch(kind, r, a),
         kind = "handle" => shelf[r][a].identity = NoManifest
  PROVE  SearchGood'
<1>0. PICK seeds \in SUBSET known[r] : Begins(kind, r, a, seeds)
  BY BeginForms
<1>. DEFINE s == SearchFrom(kind, r, a, seeds)
<1>1. shelf[r][a] \in Held /\ WellKept(shelf[r][a]) /\ known[r] \subseteq Relay /\ UNCHANGED shelf
  BY DEF DiscoveryInv, MeshTyped, ShelfOK, OutsideOK, BeginSearch
<1>2. BundleFor(shelf[r][a]) \in Bundle \cup {Nothing}
  BY <1>1, RecordsApart
<1>3. s \in SearchRecord
  BY <1>1, <1>2 DEF SearchFrom, SearchRecord
<1>4. s.kind = "handle" => s.pinned = Nothing
  BY DEF SearchFrom, BundleFor
<1>5. s.pinned # Nothing => Behind(s.pinned, shelf'[s.at][s.address])
  <2>. SUFFICES ASSUME BundleFor(shelf[r][a]) # Nothing
                PROVE  Behind(BundleFor(shelf[r][a]), shelf[r][a])
    BY <1>1 DEF SearchFrom
  <2>1. BundleFor(shelf[r][a]) = shelf[r][a] /\ shelf[r][a] \in Bundle
    BY <1>2 DEF BundleFor
  <2>2. WellFormed(shelf[r][a].identity)
    BY <1>1, <2>1, RecordsApart DEF WellKept
  <2>. QED
    BY <2>1, <2>2, BehindItself
<1>6. \/ search' = s
      \/ kind = "lookup" /\ search' = SearchAnswered(s, SnapshotOf(s))
      \/ search' = SearchAnswered(s, NotFound)
  BY <1>0 DEF Begins
<1>7. CASE search' = s
  <2>1. search'.phase = "asking" /\ search'.kind = s.kind /\ search'.pinned = s.pinned
        /\ search'.at = s.at /\ search'.address = s.address
    BY <1>7 DEF SearchFrom
  <2>. HIDE DEF s
  <2>. QED
    BY <1>4, <1>5, <2>1
    DEF SearchGood, Pinned, AcceptsWhatIsAlone, AnswersStayPinned, HandleAnswerIsAlone
<1>8. s.kind = kind
  BY DEF SearchFrom
<1>. HIDE DEF s
<1>9. CASE kind = "lookup" /\ search' = SearchAnswered(s, SnapshotOf(s))
  BY <1>3, <1>4, <1>5, <1>8, <1>9, SnapshotAnswerGood
<1>10. CASE search' = SearchAnswered(s, NotFound)
  <2>1. search'.answer.status # "unique"
    BY <1>3, <1>10 DEF SearchAnswered, SearchRecord, NotFound
  <2>. QED
    BY <1>3, <1>4, <1>5, <1>10, <2>1, SnapshotAnswerGood
<1>. QED
  BY <1>6, <1>7, <1>9, <1>10 DEF s

LEMMA AcceptKeepsSearch ==
  ASSUME DiscoveryInv, AcceptFound
  PROVE  ShelfOK' /\ ShelfGrows /\ OutsideOK' /\ search' \in SearchRecord /\ SearchGood'
<1>. search.phase = "accepting" /\ search.choice.status = "unique"
  BY DEF AcceptFound, Searching, DiscoveryInv, SearchGood, AcceptsWhatIsAlone
<1>. DEFINE a == search.choice.address
            b == search.choice.bundle
            h == shelf[search.at][a]
            taken == Acceptable(a, b) /\ StoredWhole(h, b)
<1>1. search \in SearchRecord
  BY SearchRuns DEF DiscoveryInv
<1>2. ShelfOK' /\ ShelfGrows /\ OutsideOK' /\ search' \in SearchRecord
  BY AcceptKeepsTypes DEF DiscoveryInv
<1>3. /\ a \in Canonical /\ b \in Bundle /\ search.at \in Relay /\ search.address \in Canonical
      /\ search.pinned \in Bundle \cup {Nothing} /\ search.kind \in {"lookup", "handle"}
  BY <1>1, SearchFields
<1>4. search.kind = "handle" => search.pinned = Nothing
  BY DEF DiscoveryInv, SearchGood, Pinned
<1>5. search.pinned # Nothing => Behind(search.pinned, shelf'[search.at][search.address])
  <2>. DEFINE was == shelf[search.at][search.address]
              next == shelf'[search.at][search.address]
  <2>1. was \in Held /\ next \in Held /\ Grows(was, next)
    BY <1>2, <1>3 DEF DiscoveryInv, MeshTyped, ShelfOK, ShelfGrows
  <2>2. search.pinned # Nothing => search.pinned \in Bundle /\ Behind(search.pinned, was)
    BY <1>3 DEF DiscoveryInv, SearchGood, Pinned
  <2>. HIDE DEF was, next
  <2>3. search.pinned # Nothing => Behind(search.pinned, next)
    BY <2>1, <2>2, BehindGrows
  <2>. QED
    BY <2>3 DEF next
<1>6. search' = SearchAnswered(search, IF taken THEN search.choice ELSE RefusedAnswer)
  BY DEF AcceptFound
<1>7. CASE ~taken
  <2>1. RefusedAnswer = IF search.kind = "lookup" THEN SnapshotOf(search) ELSE NotFound
    BY DEF RefusedAnswer
  <2>2. search' = SearchAnswered(search, RefusedAnswer)
    BY <1>6, <1>7
  <2>3. search'.answer.status = "unique" => search.kind = "lookup"
    BY <1>1, <2>1, <2>2 DEF SearchAnswered, SearchRecord, NotFound
  <2>4. SearchGood'
    BY <1>1, <1>4, <1>5, <2>1, <2>2, <2>3, SnapshotAnswerGood
  <2>. QED
    BY <1>2, <2>4
<1>8. CASE taken
  <2>1. shelf' = [shelf EXCEPT ![search.at][a] = Stored(h, b)]
    BY <1>8 DEF AcceptFound
  <2>2. shelf'[search.at][a] = Stored(h, b) /\ h \in Held
    <3>. HIDE DEF h, a
    <3>1. shelf \in [Relay -> [Canonical -> Held]]
      BY DEF DiscoveryInv, MeshTyped, ShelfOK
    <3>. QED
      BY <1>3, <2>1, <3>1 DEF h
  <2>3. WellFormed(b.identity)
    BY <1>8 DEF StoredWhole, ProfileStored, IdentityStored, Accepts
  <2>4. Behind(b, shelf'[search.at][a])
    <3>1. Stored(h, b).identity = b.identity /\ Stored(h, b).route = b.route
      BY <1>3, <1>8, <2>2, StoredGrows
    <3>. QED
      BY <1>3, <2>2, <2>3, <3>1, BehindItself DEF Behind
  <2>5. search.pinned # Nothing => Behind(search.pinned, b)
    BY <1>3, <1>4, <1>8 DEF Acceptable, PinnedNow, Valid, Behind
  <2>6. search' = SearchAnswered(search, search.choice)
    BY <1>6, <1>8
  <2>7. /\ search'.phase = "answered" /\ search'.kind = search.kind /\ search'.at = search.at
        /\ search'.address = search.address /\ search'.pinned = search.pinned
        /\ search'.candidates = search.candidates /\ search'.asked = search.asked
        /\ search'.records = search.records /\ search'.answer = search.choice
    BY <1>1, <2>6 DEF SearchAnswered, SearchRecord
  <2>8. Pinned' /\ AcceptsWhatIsAlone'
    BY <1>4, <1>5, <2>7 DEF Pinned, AcceptsWhatIsAlone
  <2>9. AnswersStayPinned'
    BY <2>4, <2>5, <2>7 DEF AnswersStayPinned, Behind
  <2>10. HandleAnswerIsAlone'
    <3>1. search.kind = "handle" =>
            /\ Found(search.records) = {a}
            /\ search.candidates \subseteq search.asked \/ Cardinality(search.asked) = MaxQueries
      BY DEF DiscoveryInv, SearchGood, AcceptsWhatIsAlone
    <3>2. Found(search.records)' = Found(search.records)
      BY <2>7 DEF Found, BundlesAt, NewestBundles
    <3>. QED
      BY <2>7, <3>1, <3>2 DEF HandleAnswerIsAlone
  <2>. QED
    BY <1>2, <2>8, <2>9, <2>10 DEF SearchGood
<1>. QED
  BY <1>7, <1>8

LEMMA SaveFailsKeepsSearch ==
  ASSUME DiscoveryInv, SaveOfFoundFails
  PROVE  SearchGood'
<1>. search.phase = "accepting" /\ UNCHANGED shelf
  BY DEF SaveOfFoundFails, Searching, SearchOnly
<1>1. search \in SearchRecord
  BY SearchRuns DEF DiscoveryInv
<1>2. RefusedAnswer = IF search.kind = "lookup" THEN SnapshotOf(search) ELSE NotFound
  BY DEF RefusedAnswer
<1>3. search' = SearchAnswered(search, RefusedAnswer)
  BY DEF SaveOfFoundFails
<1>4. search'.answer.status = "unique" => search.kind = "lookup"
  BY <1>1, <1>2, <1>3 DEF SearchAnswered, SearchRecord, NotFound
<1>5. /\ search.kind = "handle" => search.pinned = Nothing
      /\ search.pinned # Nothing => Behind(search.pinned, shelf'[search.at][search.address])
  BY DEF DiscoveryInv, SearchGood, Pinned
<1>. QED
  BY <1>1, <1>2, <1>3, <1>4, <1>5, SnapshotAnswerGood

-----------------------------------------------------------------------------
(* No search asks more relays than it may.                                   *)

LEMMA AskKeepsBound ==
  ASSUME DiscoveryInv, AskBatch
  PROVE  QueriesBounded'
<1>. search.phase = "asking"
  BY DEF AskBatch, Searching
<1>1. search \in SearchRecord
  BY SearchRuns DEF DiscoveryInv
<1>. DEFINE left == search.candidates \ search.asked
            asked == search.asked
<1>2. PICK batch \in SomeOf(left, BatchSize) :
        search' = [search EXCEPT !.phase = "waiting", !.waiting = batch, !.asked = @ \cup batch]
  BY DEF AskBatch
<1>3. search'.asked = asked \cup batch
  BY <1>1, <1>2 DEF SearchRecord
<1>4. IsFiniteSet(asked) /\ Cardinality(asked) \in Nat /\ Cardinality(asked) <= MaxQueries
  BY <1>1, AskedFinite, SearchFields DEF DiscoveryInv, QueriesBounded
<1>5. IsFiniteSet(left) /\ IsFiniteSet(batch)
  BY <1>1, SearchFields, DiscoveryAssumption, FS_Subset DEF SomeOf
<1>6. Cardinality(left) \in Nat /\ Cardinality(batch) \in Nat
  BY <1>5, FS_CardinalityType
<1>7. BatchSize \in Nat /\ BatchSize <= MaxQueries - Cardinality(asked)
  BY <1>4, DiscoveryAssumption DEF BatchSize, QueriesLeft
<1>8. Cardinality(batch) <= BatchSize
  <2>1. Cardinality(batch) = IF Cardinality(left) < BatchSize THEN Cardinality(left) ELSE BatchSize
    BY DEF SomeOf
  <2>. QED
    BY <1>6, <1>7, <2>1
<1>9. Cardinality(asked \cup batch) <= Cardinality(asked) + Cardinality(batch)
      /\ Cardinality(asked \cup batch) \in Nat
  <2>1. /\ IsFiniteSet(asked \cup batch) /\ IsFiniteSet(asked \cap batch)
        /\ Cardinality(asked \cup batch) =
             Cardinality(asked) + Cardinality(batch) - Cardinality(asked \cap batch)
    BY <1>4, <1>5, FS_Union, FS_Subset
  <2>2. Cardinality(asked \cup batch) \in Nat /\ Cardinality(asked \cap batch) \in Nat
    BY <2>1, FS_CardinalityType
  <2>. QED
    BY <1>4, <1>6, <2>1, <2>2
<1>. QED
  BY <1>3, <1>4, <1>6, <1>7, <1>8, <1>9, DiscoveryAssumption DEF QueriesBounded

LEMMA OthersKeepBound ==
  ASSUME DiscoveryInv, CloseBatch \/ AcceptFound \/ SaveOfFoundFails \/ \E p \in Relay : PeerAnswers(p) \/ PeerFails(p)
  PROVE  QueriesBounded'
<1>. search.phase # "none"
  BY DEF CloseBatch, AcceptFound, SaveOfFoundFails, PeerAnswers, PeerFails, Searching
<1>1. search \in SearchRecord
  BY SearchRuns DEF DiscoveryInv
<1>2. \A s \in SearchRecord : \A x : SearchAnswered(s, x).asked = s.asked
  BY DEF SearchAnswered, SearchRecord
<1>3. CASE CloseBatch
  <2>1. SearchSettled \in SearchRecord /\ SearchSettled.asked = search.asked
    BY <1>1, SettledTyped DEF SearchSettled, SearchRecord
  <2>. HIDE DEF SearchSettled
  <2>2. \/ search' = [SearchSettled EXCEPT !.phase = "asking"]
        \/ \E x : search' = SearchAnswered(SearchSettled, x)
        \/ \E x : search' = [SearchSettled EXCEPT !.phase = "accepting", !.choice = x]
    BY <1>1, <1>3, CloseBatchForms DEF DecideAccepts
  <2>3. search'.asked = search.asked
    BY <1>2, <2>1, <2>2 DEF SearchRecord
  <2>. QED
    BY <1>1, <2>3, SearchFields DEF DiscoveryInv, QueriesBounded
<1>4. CASE AcceptFound \/ SaveOfFoundFails
  <2>1. \E x : search' = SearchAnswered(search, x)
    BY <1>4 DEF AcceptFound, SaveOfFoundFails
  <2>2. search'.asked = search.asked
    BY <1>1, <1>2, <2>1
  <2>. QED
    BY <1>1, <2>2, SearchFields DEF DiscoveryInv, QueriesBounded
<1>5. CASE \E p \in Relay : PeerAnswers(p) \/ PeerFails(p)
  <2>1. search'.asked = search.asked
    BY <1>1, <1>5 DEF PeerAnswers, PeerFails, SearchRecord
  <2>. QED
    BY <1>1, <2>1, SearchFields DEF DiscoveryInv, QueriesBounded
<1>. QED
  BY <1>3, <1>4, <1>5

LEMMA BeginKeepsBound ==
  ASSUME NEW kind, NEW r, NEW a, BeginSearch(kind, r, a)
  PROVE  QueriesBounded'
<1>1. PICK seeds \in SUBSET known[r] : Begins(kind, r, a, seeds)
  BY BeginForms
<1>2. SearchFrom(kind, r, a, seeds).asked = {}
  BY DEF SearchFrom
<1>3. \A x : SearchAnswered(SearchFrom(kind, r, a, seeds), x).asked = {}
  BY DEF SearchAnswered, SearchFrom
<1>4. search'.asked = {}
  BY <1>1, <1>2, <1>3 DEF Begins
<1>. QED
  BY <1>4, DiscoveryAssumption, FS_EmptySet DEF QueriesBounded

-----------------------------------------------------------------------------
(* Every step, and the theorems.                                             *)

LEMMA DiscoveryStep ==
  ASSUME DiscoveryInv, [DiscoveryNext]_discoveryVars
  PROVE  DiscoveryInv' /\ ShelfGrows
<1>. MeshTyped /\ ShelfOK
  BY DEF DiscoveryInv, MeshTyped
<1>1. ASSUME ShelfOK', ShelfGrows, OutsideOK', SearchStays PROVE DiscoveryInv' /\ ShelfGrows
  BY <1>1, OthersKeepSearch DEF DiscoveryInv, MeshTyped, SearchStays, QueriesBounded
<1>2. CASE OwnerPublishes
  BY <1>1, <1>2, OwnersKeepTypes
<1>3. CASE RelayStep
  <2>1. CASE \E r \in Home, a \in Canonical : PublishManifest(r, a) \/ AcceptRouteOfPacket(r, a)
    BY <1>1, <2>1, DoorsKeepTypes
  <2>2. CASE \E r \in Relay : BootstrapPeers(r)
    BY <1>1, <2>2, BootstrapKeepsTypes
  <2>3. CASE (\E c \in copying : Replicate(c)) \/ (\E c \in copies : CopyArrives(c))
    BY <1>1, <2>3, CopiesKeepTypes
  <2>4. ASSUME NEW kind \in {"lookup", "handle"}, NEW r \in Relay, NEW a \in Canonical,
               BeginSearch(kind, r, a), kind = "handle" => shelf[r][a].identity = NoManifest
        PROVE  DiscoveryInv' /\ ShelfGrows
    BY <2>4, BeginKeepsTypes, BeginKeepsSearch, BeginKeepsBound DEF DiscoveryInv, MeshTyped
  <2>5. ASSUME NEW r \in Seeker, ResolveHandle(r) PROVE DiscoveryInv' /\ ShelfGrows
    BY <2>4, <2>5, DiscoveryAssumption DEF ResolveHandle
  <2>6. ASSUME NEW r \in Seeker, NEW a \in Canonical, Lookup(r, a) PROVE DiscoveryInv' /\ ShelfGrows
    BY <2>4, <2>6, DiscoveryAssumption DEF Lookup
  <2>. QED
    BY <1>3, <2>1, <2>2, <2>3, <2>5, <2>6 DEF RelayStep
<1>4. CASE SearchStep
  <2>1. CASE AskBatch \/ \E p \in Relay : PeerAnswers(p) \/ PeerFails(p)
    BY <2>1, AskingSteps, AskingKeepsSearch, AskKeepsBound, OthersKeepBound, ShelfStays
    DEF DiscoveryInv, MeshTyped, Asks, SearchesOn
  <2>2. CASE CloseBatch
    BY <2>2, CloseKeepsTypes, CloseKeepsSearch, OthersKeepBound, ShelfStays DEF DiscoveryInv, MeshTyped, SearchesOn
  <2>3. CASE AcceptFound
    BY <2>3, AcceptKeepsSearch, OthersKeepBound DEF DiscoveryInv, MeshTyped
  <2>4. CASE SaveOfFoundFails
    BY <2>4, SaveFailsKeepsTypes, SaveFailsKeepsSearch, OthersKeepBound, ShelfStays
    DEF DiscoveryInv, MeshTyped, SearchesOn
  <2>5. CASE RouteExpires
    BY <1>1, <2>5, ExpiryKeepsTypes, ShelfStays DEF SearchStays
  <2>. QED
    BY <1>4, <2>1, <2>2, <2>3, <2>4, <2>5 DEF SearchStep
<1>5. CASE UNCHANGED discoveryVars
  BY <1>1, <1>5, ShelfStays DEF discoveryVars, MeshTyped, OutsideOK, SearchStays
<1>. QED
  BY <1>2, <1>3, <1>4, <1>5 DEF DiscoveryNext

LEMMA DiscoveryStarts == DiscoveryInit => DiscoveryInv
<1>. SUFFICES ASSUME DiscoveryInit PROVE DiscoveryInv
  OBVIOUS
<1>1. ShelfOK
  BY RecordsApart DEF DiscoveryInit, ShelfOK, WellKept, Nothing
<1>2. OutsideOK
  BY DiscoveryAssumption DEF DiscoveryInit, OutsideOK
<1>3. SearchGood
  BY DEF DiscoveryInit, NoSearch, SearchGood, Pinned, AcceptsWhatIsAlone, AnswersStayPinned,
         HandleAnswerIsAlone
<1>4. QueriesBounded
  BY DEF DiscoveryInit, QueriesBounded
<1>. QED
  BY <1>1, <1>2, <1>3, <1>4 DEF DiscoveryInv, MeshTyped, DiscoveryInit

\* The inductive invariant of the mesh (DiscoveryInv): what shelves, copies and the
\* search hold, what it was pinned to, what it may accept, how many relays it asks.
THEOREM DiscoveryInvariant == DiscoverySpec => []DiscoveryInv
<1>1. DiscoveryInv /\ [DiscoveryNext]_discoveryVars => DiscoveryInv'
  BY DiscoveryStep
<1>. QED
  BY <1>1, DiscoveryStarts, PTL DEF DiscoverySpec

\* The shelves, the copies, the peers and the search keep their types.
THEOREM DiscoveryTypes == DiscoverySpec => []DiscoveryTypeOK
<1>1. DiscoveryInv => DiscoveryTypeOK
  BY DEF DiscoveryInv, MeshTyped, ShelfOK, OutsideOK, PacketType, DiscoveryTypeOK
<1>. QED
  BY <1>1, DiscoveryInvariant, PTL

\* Whichever door a record comes in by (publish, copy, manifest, packet, search),
\* what a relay holds of an address only moves on (mergeManifestState,
\* mergeRouteManifestState, mergeCryptoProfileState).
THEOREM RelaysOnlyMoveOn == DiscoverySpec => PinnedOnlyGrow
<1>1. DiscoveryInv /\ [DiscoveryNext]_discoveryVars =>
        [\A r \in Relay, a \in Canonical :
           LET h == shelf[r][a] IN LET next == shelf'[r][a]
           IN /\ next.identity = h.identity \/ Accepts(h.identity, next.identity)
              /\ RouteSucceeds(h.route, next.route)
              /\ ProfileMerges(h.profile, next.profile)]_discoveryVars
  BY DiscoveryStep DEF ShelfGrows, Grows
<1>. QED
  BY <1>1, DiscoveryInvariant, PTL DEF DiscoverySpec, PinnedOnlyGrow

\* What a search answered stays behind what the relay holds, for good, and is not
\* behind what the relay knew when it began (validateAgainstPinned, acceptLocal).
THEOREM AnswersArePinned == DiscoverySpec => []AnswersStayPinned
<1>1. DiscoveryInv => AnswersStayPinned
  BY DEF DiscoveryInv, SearchGood
<1>. QED
  BY <1>1, DiscoveryInvariant, PTL

\* A handle is resolved to one address only when no other address that was sent for
\* it is valid and unforked, and all peers heard of were asked, or exactly as many as
\* one search may ask (lookupHandle, maxQueries of iterativeFindRecord).
THEOREM HandleAnswersAreAlone == DiscoverySpec => []HandleAnswerIsAlone
<1>1. DiscoveryInv => HandleAnswerIsAlone
  BY DEF DiscoveryInv, SearchGood
<1>. QED
  BY <1>1, DiscoveryInvariant, PTL

-----------------------------------------------------------------------------
(* Store, identity and mesh side by side.                                    *)

LEMMA MeshStarts ==
  ASSUME MeshInit
  PROVE  Init /\ DiscoveryInit /\ IdentityInit
  BY DEF MeshInit

LEMMA MeshSteps ==
  ASSUME [MeshNext]_meshVars
  PROVE  [Next]_vars /\ [DiscoveryNext]_discoveryVars /\ [IdentityNext]_identityVars
<1>1. UNCHANGED meshVars => UNCHANGED vars /\ UNCHANGED discoveryVars /\ UNCHANGED identityVars
  BY DEF meshVars
<1>. QED
  BY <1>1 DEF MeshNext

\* What one run lets go beside another are behaviours of each part: what is proved of a
\* part holds in their composition.
THEOREM MeshKeepsComponents == MeshSpec => Spec /\ DiscoverySpec /\ IdentitySpec
<1>1. MeshInit => Init /\ DiscoveryInit /\ IdentityInit
  BY MeshStarts
<1>2. [MeshNext]_meshVars => [Next]_vars /\ [DiscoveryNext]_discoveryVars /\ [IdentityNext]_identityVars
  BY MeshSteps
<1>. QED
  BY <1>1, <1>2, PTL DEF MeshSpec, Spec, DiscoverySpec, IdentitySpec

\* The types of the three parts hold together, over stores whose saves do not overlap
\* or are ordered by a revision.
THEOREM MeshTypes ==
  ASSUME OrderedSaves
  PROVE  MeshSpec => []MeshTypeOK
<1>1. Spec => []TypeOK
  BY DurabilityTypes
<1>2. IdentityInv => IdentityTypeOK
  BY DEF IdentityInv
<1>3. TypeOK /\ DiscoveryTypeOK /\ IdentityTypeOK => MeshTypeOK
  BY DEF MeshTypeOK
<1>. QED
  BY <1>1, <1>2, <1>3, MeshKeepsComponents, DiscoveryTypes, IdentityInvariant, PTL
=============================================================================
