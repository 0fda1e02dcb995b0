----------------------------- MODULE NetworkProofs -----------------------------
(***************************************************************************)
(* How devices, identities and messages come by one another around the     *)
(* relay's mailboxes: the safety of modules Pairing, Registration and      *)
(* DirectTransport, for any newcomers and letters and any bounds, and what *)
(* holds of the components side by side (module Network).                  *)
(***************************************************************************)
EXTENDS Network, ManifestRegistryProofs, PrekeyPoolProofs, FiniteSetTheorems, TLAPS

-----------------------------------------------------------------------------
(* Pairing.  A page works on the device its browser has saved; a device that *)
(* is being saved is linked; no two browsers have the same device.           *)

Keyed(n, k) == k # 0 /\ k \in {savedPending[n], installed[n]}

PendingIsSaved == \A n \in Newcomer : page[n].pending \in {0, savedPending[n]}

TakenIsPending ==
  \A n \in Newcomer :
    page[n].at \in {"taken", "register", "save"} =>
      /\ page[n].pending # 0
      /\ page[n].at \in {"register", "save"} => page[n].got = page[n].pending

SavedIsLinked ==
  \A n \in Newcomer :
    /\ page[n].at = "save" => page[n].got \in authorised \cap tokened
    /\ installed[n] # 0 => installed[n] \in authorised \cap tokened

DevicesApart ==
  \A n, o \in Newcomer : \A k \in Key : Keyed(n, k) /\ Keyed(o, k) => n = o

ApprovesOne == root.at # "idle" => root.approving # 0

LinkingInv == ApprovesOne /\ PendingIsSaved /\ TakenIsPending /\ SavedIsLinked /\ DevicesApart

PageType == [at : {"open", "join", "joined", "taken", "register", "save"},
             link : Id \cup {0}, pending : Key \cup {0}, ready : BOOLEAN, got : Key \cup {0}]
InviteType == [request : Key \cup {0}, package : Key \cup {0}]

\* What a page shows when its link is opened or it is reloaded.
LEMMA ReopenedTyped ==
  ASSUME PairingTypeOK, NEW n \in Newcomer, NEW i
  PROVE  /\ Reopened(n, i) \in PageType
         /\ Reopened(n, i).at = "open" /\ Reopened(n, i).pending = savedPending[n]
<1>1. savedPending[n] \in Key \cup {0}
  BY DEF PairingTypeOK
<1>2. CASE i \in DOMAIN invites
  BY <1>1, <1>2 DEF PairingTypeOK, Reopened, OpenPage, PageType
<1>3. CASE i \notin DOMAIN invites
  BY <1>1, <1>3 DEF Reopened, OpenPage, PageType
<1>. QED
  BY <1>2, <1>3

\* The root's steps, and the end of an invitation, leave the newcomers alone.
LEMMA RootKeepsTypes ==
  ASSUME PairingTypeOK, ApprovesOne, CreateInvite \/ RootStep \/ RootFails \/ \E i \in Id : InviteExpires(i)
  PROVE  PairingTypeOK' /\ ApprovesOne'
<1>. USE DEF PairingTypeOK, ApprovesOne
<1>1. CASE CreateInvite
  <2>1. Id \subseteq Id' /\ created + 1 \in Id' /\ Key' = Key
    BY <1>1 DEF CreateInvite, Id, Key
  <2>2. DOMAIN invites' = DOMAIN invites \cup {created + 1}
        /\ \A i \in DOMAIN invites' : invites'[i] \in [request : Key \cup {0}, package : Key \cup {0}]
    BY <1>1 DEF CreateInvite
  <2>3. root' \in [at : {"idle", "publish", "put"}, invite : Id' \cup {0}, request : Key \cup {0},
                   approving : Key \cup {0}]
    BY <1>1, <2>1 DEF CreateInvite
  <2>4. page' \in [Newcomer -> [at : {"open", "join", "joined", "taken", "register", "save"},
                            link : Id' \cup {0}, pending : Key \cup {0},
                            ready : BOOLEAN, got : Key \cup {0}]]
    BY <1>1, <2>1 DEF CreateInvite
  <2>. QED
    BY <1>1, <2>1, <2>2, <2>3, <2>4 DEF CreateInvite
<1>2. CASE PollRequest
  BY <1>2 DEF PollRequest, Id, Key
<1>3. CASE ApproveRequest
  BY <1>3 DEF ApproveRequest, Id, Key
<1>4. CASE ManifestAccepted
  BY <1>4 DEF ManifestAccepted, Id, Key
<1>5. CASE AttachPackage
  BY <1>5 DEF AttachPackage, Id, Key
<1>6. CASE RootFails
  <2>1. /\ UNCHANGED <<invites, created, joins, savedPending, page, tokened, installed>>
        /\ pairTrouble' \in Nat /\ Id' = Id /\ Key' = Key
    BY <1>6 DEF RootFails, PairTrouble, Id, Key
  <2>2. authorised' \subseteq Key
    BY <1>6 DEF RootFails
  <2>3. \/ root' = [root EXCEPT !.at = "idle", !.approving = 0]
        \/ root' = [at |-> "idle", invite |-> 0, request |-> 0, approving |-> 0]
    BY <1>6 DEF RootFails
  <2>. DEFINE RootType == [at : {"idle", "publish", "put"}, invite : Id \cup {0},
                           request : Key \cup {0}, approving : Key \cup {0}]
  <2>. root \in RootType
    OBVIOUS
  <2>4. root' \in RootType /\ root'.at = "idle"
    <3>1. CASE root' = [root EXCEPT !.at = "idle", !.approving = 0]
      BY <3>1
    <3>2. CASE root' = [at |-> "idle", invite |-> 0, request |-> 0, approving |-> 0]
      BY <3>2
    <3>. QED
      BY <2>3, <3>1, <3>2
  <2>. QED
    BY <2>1, <2>2, <2>4
<1>7. ASSUME NEW i \in Id, InviteExpires(i) PROVE PairingTypeOK' /\ ApprovesOne'
  BY <1>7 DEF InviteExpires, PairTrouble, Forget, Id, Key
<1>. QED
  BY <1>1, <1>2, <1>3, <1>4, <1>5, <1>6, <1>7 DEF RootStep

\* One newcomer's page, whatever it becomes.
LEMMA PageTyped ==
  ASSUME PairingTypeOK, NEW n \in Newcomer, NEW next \in PageType,
         page' = [page EXCEPT ![n] = next]
  PROVE  page' \in [Newcomer -> PageType]
  BY DEF PairingTypeOK, PageType

\* Joining generates a device; all keys stay keys.
LEMMA JoinKeepsTypes ==
  ASSUME PairingTypeOK, NEW n \in Newcomer, Join(n)
  PROVE  PairingTypeOK'
<1>1. /\ joins' = joins + 1 /\ UNCHANGED <<invites, tokened, installed, created, root, authorised, pairTrouble>>
      /\ savedPending' = [savedPending EXCEPT ![n] = joins + 1]
      /\ page' = [page EXCEPT ![n].at = "join"]
  BY DEF Join, newcomerKeeps
<1>2. Key \subseteq Key' /\ joins + 1 \in Key' /\ Id' = Id
  BY <1>1 DEF PairingTypeOK, Id, Key
<1>3. savedPending' \in [Newcomer -> Key' \cup {0}] /\ installed' \in [Newcomer -> Key' \cup {0}]
  BY <1>1, <1>2 DEF PairingTypeOK
<1>4. page' \in [Newcomer -> [at : {"open", "join", "joined", "taken", "register", "save"},
                            link : Id \cup {0}, pending : Key' \cup {0},
                            ready : BOOLEAN, got : Key' \cup {0}]]
  BY <1>1, <1>2 DEF PairingTypeOK
<1>5. root' \in [at : {"idle", "publish", "put"}, invite : Id \cup {0}, request : Key' \cup {0},
                 approving : Key' \cup {0}]
  BY <1>1, <1>2 DEF PairingTypeOK
<1>6. \A i \in DOMAIN invites' : invites'[i] \in [request : Key' \cup {0}, package : Key' \cup {0}]
  BY <1>1, <1>2 DEF PairingTypeOK
<1>. QED
  BY <1>1, <1>2, <1>3, <1>4, <1>5, <1>6 DEF PairingTypeOK

LEMMA SubmitTyped ==
  ASSUME PairingTypeOK, NEW n \in Newcomer, SubmitRequest(n)
  PROVE  DOMAIN invites' \subseteq Id /\ \A i \in DOMAIN invites' : invites'[i] \in InviteType
<1>1. savedPending[n] \in Key \cup {0}
  BY DEF PairingTypeOK
<1>2. \A i \in DOMAIN invites : invites[i] \in InviteType
  BY DEF PairingTypeOK, InviteType
<1>. QED
  BY <1>1, <1>2 DEF PairingTypeOK, SubmitRequest, InviteType

LEMMA NewcomerKeepsTypes ==
  ASSUME PairingTypeOK, NEW n \in Newcomer,
         NewcomerStep(n) \/ NewcomerFails(n) \/ NewcomerReloads(n) \/ \E i \in Id : OpenLink(n, i)
  PROVE  PairingTypeOK' /\ UNCHANGED <<created, joins, root, authorised>>
<1>. DEFINE Kept == UNCHANGED <<created, joins, root, authorised>>
            Pages == page' \in [Newcomer -> PageType]
            Invites == DOMAIN invites' \subseteq Id /\ \A i \in DOMAIN invites' : invites'[i] \in InviteType
            Rest == /\ tokened' \subseteq Key /\ savedPending' \in [Newcomer -> Key \cup {0}]
                    /\ installed' \in [Newcomer -> Key \cup {0}] /\ pairTrouble' \in Nat
<1>1. ASSUME Kept, Pages, Invites, Rest
      PROVE  PairingTypeOK' /\ Kept
  BY <1>1 DEF PairingTypeOK, PageType, InviteType, Id, Key
<1>0. page[n] \in PageType /\ \A i \in DOMAIN invites : invites[i] \in InviteType
  BY DEF PairingTypeOK, PageType, InviteType
<1>a. \A x \in PageType : page' = [page EXCEPT ![n] = x] => Pages
  BY PageTyped
<1>b. UNCHANGED invites => Invites
  BY <1>0 DEF PairingTypeOK
<1>c. UNCHANGED <<tokened, savedPending, installed, pairTrouble>> => Rest
  BY DEF PairingTypeOK
<1>d. \A x \in {"open", "join", "joined", "taken", "register", "save"} :
        page' = [page EXCEPT ![n].at = x] => Pages
  BY DEF PairingTypeOK, PageType
<1>. HIDE DEF Pages, Invites, Rest
<1>2. CASE \E i \in Id : OpenLink(n, i)
  BY <1>1, <1>2, <1>a, <1>b, <1>c, ReopenedTyped DEF OpenLink, newcomerKeeps
<1>3. CASE Joined(n)
  <2>. DEFINE x == [page[n] EXCEPT !.at = "joined", !.pending = savedPending[n],
                                   !.ready = invites[page[n].link].package # 0]
  <2>1. x \in PageType
    BY <1>0 DEF PageType, PairingTypeOK
  <2>2. Pages
    BY <1>3, <1>a, <2>1 DEF Joined
  <2>3. Invites
    BY <1>3, SubmitTyped DEF Joined, Invites
  <2>. QED
    BY <1>1, <1>3, <1>c, <2>2, <2>3 DEF Joined, newcomerKeeps
<1>4. CASE JoinFails(n)
  BY <1>1, <1>4, <1>b, <1>c, <1>d DEF JoinFails, newcomerKeeps
<1>5. CASE TakePackage(n)
  <2>. DEFINE i == page[n].link
  <2>1. CASE i \in DOMAIN invites /\ invites[i].package # 0
    <3>. DEFINE x == [page[n] EXCEPT !.at = "taken", !.ready = FALSE, !.got = invites[i].package]
    <3>1. x \in PageType
      BY <1>0, <2>1 DEF PageType, InviteType
    <3>2. Pages
      BY <1>5, <1>a, <2>1, <3>1 DEF TakePackage
    <3>3. Invites
      BY <1>0, <1>5, <2>1 DEF TakePackage, Forget, Invites, PairingTypeOK
    <3>. QED
      BY <1>1, <1>5, <1>c, <3>2, <3>3 DEF TakePackage, newcomerKeeps
  <2>2. CASE ~(i \in DOMAIN invites /\ invites[i].package # 0)
    <3>. DEFINE x == [page[n] EXCEPT !.ready = FALSE]
    <3>1. x \in PageType
      BY <1>0 DEF PageType
    <3>2. Pages
      BY <1>5, <1>a, <2>2, <3>1 DEF TakePackage
    <3>. QED
      BY <1>1, <1>5, <1>b, <1>c, <2>2, <3>2 DEF TakePackage, newcomerKeeps
  <2>. QED
    BY <2>1, <2>2
<1>6. CASE InstallCertificate(n)
  BY <1>1, <1>6, <1>b, <1>c, <1>d DEF InstallCertificate, newcomerKeeps
<1>7. CASE RegisterDevice(n)
  <2>1. Rest
    BY <1>7 DEF RegisterDevice, newcomerKeeps, Rest, PairingTypeOK
  <2>. QED
    BY <1>1, <1>7, <1>b, <1>d, <2>1 DEF RegisterDevice, newcomerKeeps
<1>8. CASE SaveInstalled(n)
  <2>1. Rest
    BY <1>0, <1>8 DEF SaveInstalled, newcomerKeeps, Rest, PairingTypeOK, PageType
  <2>2. OpenPage \in PageType
    BY DEF OpenPage, PageType
  <2>. QED
    BY <1>1, <1>8, <1>a, <1>b, <2>1, <2>2 DEF SaveInstalled, newcomerKeeps
<1>9. CASE NewcomerFails(n)
  <2>1. Rest
    BY <1>9 DEF NewcomerFails, PairTrouble, Rest, PairingTypeOK
  <2>2. Invites
    BY <1>9, <1>b, SubmitTyped DEF NewcomerFails, Invites
  <2>. QED
    BY <1>1, <1>9, <1>d, <2>1, <2>2 DEF NewcomerFails
<1>10. CASE NewcomerReloads(n)
  <2>1. Rest
    BY <1>10 DEF NewcomerReloads, PairTrouble, Rest, PairingTypeOK
  <2>. QED
    BY <1>1, <1>10, <1>a, <1>b, <2>1, ReopenedTyped DEF NewcomerReloads
<1>. QED
  BY <1>2, <1>3, <1>4, <1>5, <1>6, <1>7, <1>8, <1>9, <1>10 DEF NewcomerStep

\* Invitations that are gone, and the newcomers that took one's package.
Gone == Id \ DOMAIN invites
Busy ==
  {n \in Newcomer : installed[n] # 0 \/ page[n].at \in {"taken", "register", "save"}}
PackagesTaken == Cardinality(Busy) <= Cardinality(Gone)

LEMMA BusyAndGoneFinite ==
  ASSUME PairingTypeOK
  PROVE  IsFiniteSet(Busy) /\ IsFiniteSet(Gone)
<1>1. IsFiniteSet(Newcomer) /\ Busy \subseteq Newcomer
  BY PairingAssumption DEF Busy
<1>2. IsFiniteSet(Id) /\ Gone \subseteq Id
  BY FS_Interval DEF PairingTypeOK, Id, Gone
<1>. QED
  BY <1>1, <1>2, FS_Subset

\* What frees newcomers or ends invitations keeps the count.
LEMMA TakenShrinks ==
  ASSUME PairingTypeOK, PairingTypeOK', PackagesTaken, Busy' \subseteq Busy, Gone \subseteq Gone'
  PROVE  PackagesTaken'
<1>1. IsFiniteSet(Busy) /\ IsFiniteSet(Gone) /\ IsFiniteSet(Busy') /\ IsFiniteSet(Gone')
  <2>1. IsFiniteSet(Busy') /\ IsFiniteSet(Gone')
    <3>1. Busy' \subseteq Newcomer /\ IsFiniteSet(Newcomer)
      BY PairingAssumption DEF Busy
    <3>2. Gone' \subseteq 1 .. created' /\ created' \in Nat
      BY DEF PairingTypeOK, Id, Gone
    <3>3. IsFiniteSet(1 .. created')
      BY <3>2, FS_Interval
    <3>. QED
      BY <3>1, <3>2, <3>3, FS_Subset
  <2>. QED
    BY <2>1, BusyAndGoneFinite
<1>2. Cardinality(Busy') <= Cardinality(Busy) /\ Cardinality(Gone) <= Cardinality(Gone')
  BY <1>1, FS_Subset
<1>3. /\ Cardinality(Busy) \in Nat /\ Cardinality(Gone) \in Nat
      /\ Cardinality(Busy') \in Nat /\ Cardinality(Gone') \in Nat
  BY <1>1, FS_CardinalityType
<1>. QED
  BY <1>2, <1>3 DEF PackagesTaken

LEMMA RootKeepsLinking ==
  ASSUME PairingTypeOK, PairingTypeOK', LinkingInv, PackagesTaken,
         CreateInvite \/ RootStep \/ RootFails \/ \E i \in Id : InviteExpires(i)
  PROVE  LinkingInv' /\ PackagesTaken'
<1>1. UNCHANGED <<joins, savedPending, page, tokened, installed>> /\ authorised \subseteq authorised'
  BY DEF CreateInvite, RootStep, PollRequest, ApproveRequest, ManifestAccepted, AttachPackage,
         RootFails, InviteExpires
<1>2. ApprovesOne'
  BY RootKeepsTypes DEF LinkingInv
<1>3. LinkingInv'
  BY <1>1, <1>2
  DEF LinkingInv, PendingIsSaved, TakenIsPending, SavedIsLinked, DevicesApart, Keyed, Key
<1>4. Busy' = Busy
  BY <1>1 DEF Busy
<1>5. Gone \subseteq Gone'
  <2>1. CASE CreateInvite
    BY <2>1 DEF CreateInvite, Gone, Id, PairingTypeOK
  <2>2. CASE RootStep \/ RootFails
    BY <2>2 DEF RootStep, PollRequest, ApproveRequest, ManifestAccepted, AttachPackage, RootFails,
                Gone, Id
  <2>3. CASE \E i \in Id : InviteExpires(i)
    BY <2>3 DEF InviteExpires, Forget, Gone, Id
  <2>. QED
    BY <2>1, <2>2, <2>3
<1>. QED
  BY <1>3, <1>4, <1>5, TakenShrinks

\* A step of one newcomer that keeps its devices and takes no package.
LEMMA NewcomerKeepsLinking ==
  ASSUME PairingTypeOK, PairingTypeOK', LinkingInv, PackagesTaken, NEW n \in Newcomer,
         \/ Joined(n) \/ JoinFails(n) \/ InstallCertificate(n) \/ RegisterDevice(n)
         \/ NewcomerFails(n) \/ NewcomerReloads(n) \/ \E i \in Id : OpenLink(n, i)
  PROVE  LinkingInv' /\ PackagesTaken'
<1>. DEFINE next == page'[n]
<1>0. page[n] \in PageType /\ page \in [Newcomer -> PageType]
  BY DEF PairingTypeOK, PageType
<1>1. /\ UNCHANGED <<joins, savedPending, installed, root, created, authorised>>
      /\ tokened \subseteq tokened' /\ DOMAIN invites' = DOMAIN invites
  BY DEF Joined, JoinFails, InstallCertificate, RegisterDevice, NewcomerFails, NewcomerReloads,
         OpenLink, SubmitRequest, newcomerKeeps
<1>2. \A o \in Newcomer \ {n} : page'[o] = page[o]
  BY <1>0 DEF Joined, JoinFails, InstallCertificate, RegisterDevice, NewcomerFails, NewcomerReloads,
         OpenLink
<1>3. /\ next.pending \in {0, savedPending[n]}
      /\ next.at \in {"taken", "register", "save"} =>
           /\ next.pending # 0 /\ page[n].at \in {"taken", "register", "save"}
           /\ next.at \in {"register", "save"} => next.got = next.pending
           /\ next.at = "save" => next.got \in authorised \cap tokened'
  <2>. USE DEF LinkingInv, PendingIsSaved, TakenIsPending, PageType, newcomerKeeps
  <2>1. CASE Joined(n)
    BY <1>0, <2>1 DEF Joined
  <2>2. CASE JoinFails(n)
    BY <1>0, <2>2 DEF JoinFails
  <2>3. CASE InstallCertificate(n)
    BY <1>0, <2>3 DEF InstallCertificate
  <2>4. CASE RegisterDevice(n)
    BY <1>0, <2>4 DEF RegisterDevice
  <2>5. CASE NewcomerFails(n)
    BY <1>0, <2>5 DEF NewcomerFails
  <2>6. CASE NewcomerReloads(n) \/ \E i \in Id : OpenLink(n, i)
    BY <1>0, <2>6, ReopenedTyped DEF NewcomerReloads, OpenLink
  <2>. QED
    BY <2>1, <2>2, <2>3, <2>4, <2>5, <2>6
<1>. HIDE DEF next
<1>4. PendingIsSaved' /\ TakenIsPending'
  BY <1>1, <1>2, <1>3 DEF LinkingInv, PendingIsSaved, TakenIsPending, next
<1>5. SavedIsLinked'
  BY <1>1, <1>2, <1>3 DEF LinkingInv, SavedIsLinked, next
<1>6. ApprovesOne' /\ DevicesApart'
  BY <1>1 DEF LinkingInv, ApprovesOne, DevicesApart, Keyed, Key
<1>7. Busy' \subseteq Busy
  BY <1>1, <1>2, <1>3 DEF Busy, next
<1>8. Gone' = Gone
  BY <1>1 DEF Gone, Id
<1>. QED
  BY <1>4, <1>5, <1>6, <1>7, <1>8, TakenShrinks DEF LinkingInv

\* The device a newcomer generates is nobody's yet.
LEMMA JoinKeepsLinking ==
  ASSUME PairingTypeOK, PairingTypeOK', LinkingInv, PackagesTaken, NEW n \in Newcomer, Join(n)
  PROVE  LinkingInv' /\ PackagesTaken'
<1>1. /\ joins' = joins + 1 /\ UNCHANGED <<invites, tokened, installed, created, root, authorised>>
      /\ savedPending' = [savedPending EXCEPT ![n] = joins + 1]
      /\ page' = [page EXCEPT ![n].at = "join"] /\ page[n].at = "open" /\ page[n].pending = 0
  BY DEF Join, newcomerKeeps
<1>2. page[n] \in PageType /\ page \in [Newcomer -> PageType]
  BY DEF PairingTypeOK, PageType
<1>3. \A o \in Newcomer : /\ page'[o].pending = page[o].pending /\ page'[o].got = page[o].got
                          /\ o # n => page'[o] = page[o] /\ savedPending'[o] = savedPending[o]
  BY <1>1, <1>2 DEF PageType, PairingTypeOK
<1>4. page'[n].at = "join" /\ savedPending'[n] = joins + 1
  BY <1>1, <1>2 DEF PageType, PairingTypeOK
<1>5. PendingIsSaved' /\ TakenIsPending'
  BY <1>1, <1>3, <1>4 DEF LinkingInv, PendingIsSaved, TakenIsPending
<1>6. SavedIsLinked'
  BY <1>1, <1>3, <1>4 DEF LinkingInv, SavedIsLinked
<1>7. DevicesApart'
  <2>1. \A o \in Newcomer : savedPending[o] \in 0 .. joins /\ installed[o] \in 0 .. joins
    BY DEF PairingTypeOK, Key
  <2>2. joins \in Nat
    BY DEF PairingTypeOK
  <2>3. \A o, k : o \in Newcomer /\ Keyed(o, k)' =>
          \/ o = n /\ k = joins + 1
          \/ k \in 1 .. joins /\ Keyed(o, k)
    BY <1>1, <1>3, <1>4, <2>1, <2>2 DEF Keyed
  <2>4. joins + 1 \notin 1 .. joins
    BY <2>2
  <2>. QED
    BY <2>3, <2>4 DEF LinkingInv, DevicesApart, Key
<1>8. Busy' \subseteq Busy /\ Gone' = Gone /\ ApprovesOne'
  BY <1>1, <1>3, <1>4 DEF Busy, Gone, Id, LinkingInv, ApprovesOne
<1>. QED
  BY <1>5, <1>6, <1>7, <1>8, TakenShrinks DEF LinkingInv

\* A package is taken with its invitation: one newcomer more, one invitation less.
LEMMA TakeKeepsLinking ==
  ASSUME PairingTypeOK, PairingTypeOK', LinkingInv, PackagesTaken, NEW n \in Newcomer, TakePackage(n)
  PROVE  LinkingInv' /\ PackagesTaken'
<1>. DEFINE i == page[n].link
<1>1. /\ UNCHANGED <<joins, savedPending, tokened, installed, created, root, authorised>>
      /\ page[n].at \in {"open", "joined"} /\ page[n].pending # 0
  BY DEF TakePackage, newcomerKeeps
<1>2. page[n] \in PageType /\ page \in [Newcomer -> PageType]
  BY DEF PairingTypeOK, PageType
<1>3. /\ \A o \in Newcomer \ {n} : page'[o] = page[o]
      /\ page'[n].pending = page[n].pending /\ page'[n].at \in {"open", "joined", "taken"}
  <2>1. \/ page' = [page EXCEPT ![n] = [@ EXCEPT !.at = "taken", !.ready = FALSE, !.got = invites[i].package]]
        \/ page' = [page EXCEPT ![n].ready = FALSE]
    BY DEF TakePackage
  <2>. HIDE DEF i
  <2>2. CASE page' = [page EXCEPT ![n].ready = FALSE]
    BY <1>1, <1>2, <2>2 DEF PageType
  <2>3. CASE page' = [page EXCEPT ![n] = [@ EXCEPT !.at = "taken", !.ready = FALSE, !.got = invites[i].package]]
    BY <1>2, <2>3 DEF PageType
  <2>. QED
    BY <2>1, <2>2, <2>3
<1>4. LinkingInv'
  <2>1. PendingIsSaved' /\ TakenIsPending'
    BY <1>1, <1>3 DEF LinkingInv, PendingIsSaved, TakenIsPending
  <2>2. SavedIsLinked'
    BY <1>1, <1>3 DEF LinkingInv, SavedIsLinked
  <2>3. ApprovesOne' /\ DevicesApart'
    BY <1>1 DEF LinkingInv, ApprovesOne, DevicesApart, Keyed, Key
  <2>. QED
    BY <2>1, <2>2, <2>3 DEF LinkingInv
<1>5. CASE i \in DOMAIN invites /\ invites[i].package # 0
  <2>1. invites' = Forget(i) /\ i \in Id
    BY <1>5 DEF TakePackage, PairingTypeOK
  <2>2. Gone' = Gone \cup {i} /\ i \notin Gone
    BY <1>1, <1>5, <2>1 DEF Gone, Forget, Id
  <2>3. Busy' \subseteq Busy \cup {n}
    BY <1>1, <1>3 DEF Busy
  <2>4. IsFiniteSet(Busy) /\ IsFiniteSet(Gone)
    BY BusyAndGoneFinite
  <2>5. Cardinality(Gone') = Cardinality(Gone) + 1 /\ Cardinality(Gone) \in Nat
    BY <2>2, <2>4, FS_AddElement, FS_CardinalityType
  <2>6. /\ Cardinality(Busy \cup {n}) <= Cardinality(Busy) + 1 /\ Cardinality(Busy) \in Nat
        /\ IsFiniteSet(Busy \cup {n}) /\ Cardinality(Busy \cup {n}) \in Nat
    <3>1. Cardinality(Busy \cup {n}) = IF n \in Busy THEN Cardinality(Busy) ELSE Cardinality(Busy) + 1
      BY <2>4, FS_AddElement
    <3>2. IsFiniteSet(Busy \cup {n}) /\ Cardinality(Busy) \in Nat
      BY <2>4, FS_AddElement, FS_CardinalityType
    <3>. QED
      BY <3>1, <3>2
  <2>7. Cardinality(Busy') <= Cardinality(Busy \cup {n}) /\ Cardinality(Busy') \in Nat
    BY <2>3, <2>6, FS_Subset, FS_CardinalityType
  <2>8. PackagesTaken'
    BY <2>5, <2>6, <2>7 DEF PackagesTaken
  <2>. QED
    BY <1>4, <2>8
<1>6. CASE ~(i \in DOMAIN invites /\ invites[i].package # 0)
  <2>1. UNCHANGED invites /\ page'[n].at = page[n].at
    BY <1>2, <1>6 DEF TakePackage, PageType
  <2>2. Busy' \subseteq Busy /\ Gone' = Gone
    BY <1>1, <1>3, <2>1 DEF Busy, Gone, Id
  <2>. QED
    BY <1>4, <2>2, TakenShrinks
<1>. QED
  BY <1>5, <1>6

\* The saved device is the pending one, which nobody else has.
LEMMA SaveKeepsLinking ==
  ASSUME PairingTypeOK, PairingTypeOK', LinkingInv, PackagesTaken, NEW n \in Newcomer, SaveInstalled(n)
  PROVE  LinkingInv' /\ PackagesTaken'
<1>1. /\ UNCHANGED <<joins, invites, tokened, created, root, authorised>>
      /\ installed' = [installed EXCEPT ![n] = page[n].got]
      /\ savedPending' = [savedPending EXCEPT ![n] = 0]
      /\ page' = [page EXCEPT ![n] = OpenPage] /\ page[n].at = "save"
  BY DEF SaveInstalled, newcomerKeeps
<1>2. page[n] \in PageType /\ page \in [Newcomer -> PageType]
  BY DEF PairingTypeOK, PageType
<1>3. /\ page[n].got = savedPending[n] /\ page[n].got # 0 /\ page[n].got \in authorised \cap tokened
  BY <1>1 DEF LinkingInv, PendingIsSaved, TakenIsPending, SavedIsLinked
<1>4. \A o \in Newcomer : /\ o # n => page'[o] = page[o] /\ savedPending'[o] = savedPending[o]
                                       /\ installed'[o] = installed[o]
                          /\ o = n => page'[o] = OpenPage /\ savedPending'[o] = 0
                                       /\ installed'[o] = savedPending[n]
  BY <1>1, <1>2, <1>3 DEF PairingTypeOK
<1>5. PendingIsSaved' /\ TakenIsPending'
  BY <1>4 DEF LinkingInv, PendingIsSaved, TakenIsPending, OpenPage
<1>6. SavedIsLinked'
  BY <1>1, <1>3, <1>4 DEF LinkingInv, SavedIsLinked, OpenPage
<1>7. DevicesApart' /\ ApprovesOne'
  BY <1>1, <1>4 DEF LinkingInv, DevicesApart, Keyed, ApprovesOne, Key
<1>8. Busy' \subseteq Busy /\ Gone' = Gone
  BY <1>1, <1>4 DEF Busy, OpenPage, Gone, Id
<1>. QED
  BY <1>5, <1>6, <1>7, <1>8, TakenShrinks DEF LinkingInv

PairingInv == PairingTypeOK /\ LinkingInv /\ PackagesTaken

\* The inductive invariant of pairing (PairingInv): types, whose device a page works
\* on, and that as many invitations are gone as packages were taken.
THEOREM PairingInvariant == PairingSpec => []PairingInv
<1>1. PairingInit => PairingInv
  <2>. SUFFICES ASSUME PairingInit PROVE PairingInv
    OBVIOUS
  <2>1. PairingTypeOK
    BY DEF PairingInit, PairingTypeOK, OpenPage
  <2>2. LinkingInv
    BY DEF PairingInit, OpenPage, LinkingInv, ApprovesOne, PendingIsSaved, TakenIsPending,
           SavedIsLinked, DevicesApart, Keyed
  <2>3. Busy = {} /\ Gone = {}
    BY DEF PairingInit, OpenPage, Busy, Gone, Id
  <2>. QED
    BY <2>1, <2>2, <2>3, FS_EmptySet DEF PairingInv, PackagesTaken
<1>2. PairingInv /\ [PairingNext]_pairingVars => PairingInv'
  <2>. SUFFICES ASSUME PairingInv, [PairingNext]_pairingVars PROVE PairingInv'
    OBVIOUS
  <2>. PairingTypeOK /\ LinkingInv /\ PackagesTaken /\ ApprovesOne
    BY DEF PairingInv, LinkingInv
  <2>1. CASE CreateInvite \/ RootStep \/ RootFails \/ \E i \in Id : InviteExpires(i)
    BY <2>1, RootKeepsTypes, RootKeepsLinking DEF PairingInv
  <2>2. ASSUME NEW n \in Newcomer, Join(n) PROVE PairingInv'
    BY <2>2, JoinKeepsTypes, JoinKeepsLinking DEF PairingInv
  <2>3. ASSUME NEW n \in Newcomer,
               NewcomerStep(n) \/ NewcomerFails(n) \/ NewcomerReloads(n) \/ \E i \in Id : OpenLink(n, i)
        PROVE  PairingInv'
    <3>1. PairingTypeOK'
      BY <2>3, NewcomerKeepsTypes
    <3>. QED
      BY <2>3, <3>1, NewcomerKeepsLinking, TakeKeepsLinking, SaveKeepsLinking
      DEF NewcomerStep, PairingInv
  <2>4. CASE UNCHANGED pairingVars
    BY <2>4 DEF pairingVars, PairingInv, PairingTypeOK, Id, Key, LinkingInv, ApprovesOne,
                PendingIsSaved, TakenIsPending, SavedIsLinked, DevicesApart, Keyed, PackagesTaken,
                Busy, Gone
  <2>. QED
    BY <2>1, <2>2, <2>3, <2>4 DEF PairingNext
<1>. QED
  BY <1>1, <1>2, PTL DEF PairingSpec

\* Invitations, pages and devices keep their types.
THEOREM PairingTypes == PairingSpec => []PairingTypeOK
<1>1. PairingInv => PairingTypeOK
  BY DEF PairingInv
<1>. QED
  BY <1>1, PairingInvariant, PTL

\* Whatever newcomers overwrite, lose or take from one another, an installed device
\* is authorised, tokened and of one browser (installDeviceCertificate).
THEOREM InstalledDevicesAreLinked == PairingSpec => []InstalledIsLinked
<1>1. PairingInv => InstalledIsLinked
  BY DEF PairingInv, PairingTypeOK, LinkingInv, SavedIsLinked, DevicesApart, Keyed, InstalledIsLinked
<1>. QED
  BY <1>1, PairingInvariant, PTL

\* An invitation links at most one device (takePairingPackage).
THEOREM InvitesLinkOneDevice == PairingSpec => []OneDevicePerInvite
<1>1. PairingInv => OneDevicePerInvite
  <2>. SUFFICES ASSUME PairingInv PROVE OneDevicePerInvite
    OBVIOUS
  <2>. DEFINE S == {n \in Newcomer : installed[n] # 0}
  <2>1. S \subseteq Busy /\ IsFiniteSet(Busy) /\ IsFiniteSet(Gone)
    BY BusyAndGoneFinite DEF PairingInv, Busy
  <2>2. /\ Cardinality(S) <= Cardinality(Busy) /\ Cardinality(S) \in Nat
        /\ Cardinality(Busy) \in Nat /\ Cardinality(Gone) \in Nat
    BY <2>1, FS_Subset, FS_CardinalityType
  <2>. QED
    BY <2>2 DEF PairingInv, PackagesTaken, OneDevicePerInvite, Gone
<1>. QED
  BY <1>1, PairingInvariant, PTL

-----------------------------------------------------------------------------
(* Registration.  The types.                                                 *)

LocalType == [address : Form \cup {None}, device : Form \cup {None}, listed : Form \cup {None}]
LoginType ==
  [at : {"idle", "new", "create", "register", "challenge", "prove", "adopt", "manifest", "pull"},
   challenge : 0 .. issued, answer : Form \cup {None}]

\* A login that is to be proved has a challenge.
ProvesSomething == \A b \in Session : login[b].at = "prove" => login[b].challenge # 0

LEMMA FormFacts ==
  /\ None \notin Form /\ "weak" \in Form /\ "strong" \in Form /\ Address \in Form
  /\ \A b \in Session : HolderOf(b) \in Holder
  BY DEF None, Form, Address, Session, Holder, HolderOf

LEMMA LocalFields ==
  ASSUME RegistrationTypeOK, NEW b \in Session
  PROVE  /\ local[HolderOf(b)] \in LocalType /\ AddressOf(b) \in Form
         /\ DeviceOf(b) \in Form \cup {None} /\ login[b] \in LoginType
         /\ Installed(b) => AddressOf(b) = local[HolderOf(b)].address
<1>1. local[HolderOf(b)] \in LocalType
  BY FormFacts DEF RegistrationTypeOK, LocalType
<1>2. DeviceOf(b) \in Form \cup {None} /\ local[HolderOf(b)].address \in Form \cup {None}
  BY <1>1 DEF DeviceOf, LocalType
<1>3. AddressOf(b) \in Form
  BY <1>2, FormFacts DEF AddressOf, Installed
<1>. QED
  BY <1>1, <1>2, <1>3 DEF AddressOf, RegistrationTypeOK, LoginType

LEMMA RegisteredRootForm ==
  ASSUME RegistrationTypeOK, NEW a \in Form, NEW given \in Form \cup {None}
  PROVE  RegisteredRoot(a, given) \in Form /\ (Migrates(a, given) => given \in Form)
  BY FormFacts DEF RegistrationTypeOK, RegisteredRoot, Migrates

\* What a registration does to the relay.
LEMMA RegisterEffect ==
  ASSUME RegistrationTypeOK, NEW b \in Session, NEW next \in {"adopt", "create"}, Register(b, next)
  PROVE  \E old, new \in Form :
           /\ old = RegisteredRoot(AddressOf(b), DeviceOf(b))
           /\ token' = [token EXCEPT ![AddressOf(b)] = HolderOf(b)]
           /\ rootDevice' = [rootDevice EXCEPT ![AddressOf(b)] = new]
           /\ IF new # old THEN MoveBox(AddressOf(b), old, new) ELSE UNCHANGED boxes
           /\ login' = [login EXCEPT ![b] = [@ EXCEPT !.at = next, !.answer = new]]
           /\ UNCHANGED <<linked, linkedBox, cached>>
<1>. DEFINE a == AddressOf(b)
            given == DeviceOf(b)
            old == RegisteredRoot(a, given)
            new == IF Migrates(a, given) THEN given ELSE old
<1>1. old \in Form /\ new \in Form
  BY LocalFields, RegisteredRootForm
<1>2. /\ token' = [token EXCEPT ![a] = HolderOf(b)]
      /\ rootDevice' = [rootDevice EXCEPT ![a] = new]
      /\ IF new # old THEN MoveBox(a, old, new) ELSE UNCHANGED boxes
      /\ login' = [login EXCEPT ![b] = [@ EXCEPT !.at = next, !.answer = new]]
      /\ UNCHANGED <<linked, linkedBox, cached>>
  BY DEF Register
<1>. HIDE DEF new
<1>. QED
  BY <1>1, <1>2

LEMMA MovedBoxes ==
  ASSUME RegistrationTypeOK, NEW a \in Form, NEW old \in Form, NEW new \in Form, new # old,
         MoveBox(a, old, new)
  PROVE  /\ boxes' \in [Form -> [Form -> SUBSET Mail]]
         /\ \A c \in Form \ {a} : boxes'[c] = boxes[c]
         /\ \A d \in Form : boxes'[a][d] # {} => d = new
<1>1. boxes \in [Form -> [Form -> SUBSET Mail]]
  BY DEF RegistrationTypeOK
<1>. DEFINE first == [boxes EXCEPT ![a][new] = @ \cup boxes[a][old]]
<1>2. boxes' = [first EXCEPT ![a][old] = {}]
  BY DEF MoveBox
<1>3. first \in [Form -> [Form -> SUBSET Mail]] /\ \A c \in Form \ {a} : first[c] = boxes[c]
  BY <1>1
<1>. HIDE DEF first
<1>4. boxes' \in [Form -> [Form -> SUBSET Mail]] /\ \A c \in Form \ {a} : boxes'[c] = first[c]
  BY <1>2, <1>3
<1>5. boxes'[a][old] = {}
  BY <1>2, <1>3
<1>6. \A d \in Form : d = old \/ d = new
  BY DEF Form
<1>. QED
  BY <1>3, <1>4, <1>5, <1>6

RegTypes == RegistrationTypeOK /\ ProvesSomething

LEMMA RegisteringKeepsTypes ==
  ASSUME RegTypes, NEW b \in Session, RegisterKnown(b) \/ RegisterProved(b)
  PROVE  RegTypes'
<1>. RegistrationTypeOK
  BY DEF RegTypes
<1>1. After(b) \in {"adopt", "create"} /\ Register(b, After(b))
  BY DEF After, RegisterKnown, RegisterProved
<1>2. PICK old \in Form, new \in Form :
           /\ old = RegisteredRoot(AddressOf(b), DeviceOf(b))
           /\ token' = [token EXCEPT ![AddressOf(b)] = HolderOf(b)]
           /\ rootDevice' = [rootDevice EXCEPT ![AddressOf(b)] = new]
           /\ IF new # old THEN MoveBox(AddressOf(b), old, new) ELSE UNCHANGED boxes
           /\ login' = [login EXCEPT ![b] = [@ EXCEPT !.at = After(b), !.answer = new]]
           /\ UNCHANGED <<linked, linkedBox, cached>>
  BY <1>1, RegisterEffect
<1>3. AddressOf(b) \in Form /\ HolderOf(b) \in Holder /\ login[b] \in LoginType
  BY LocalFields, FormFacts
<1>4. boxes' \in [Form -> [Form -> SUBSET Mail]]
  BY <1>2, <1>3, MovedBoxes DEF RegistrationTypeOK
<1>5. login' \in [Session -> LoginType] /\ \A c \in Session : c # b => login'[c] = login[c]
  BY <1>1, <1>2, <1>3 DEF RegistrationTypeOK, LoginType
<1>6. login'[b].at # "prove"
  BY <1>1, <1>2, <1>3 DEF RegistrationTypeOK, LoginType
<1>7. token' \in [Form -> Holder \cup {None, "empty"}] /\ rootDevice' \in [Form -> Form \cup {None}]
  BY <1>2, <1>3 DEF RegistrationTypeOK
<1>8. /\ challenge' \in [Form -> 0 .. issued] /\ spent' \subseteq 1 .. issued
      /\ UNCHANGED <<local, issued, listed, link, host, era, sent, regTrouble>>
  <2>1. CASE RegisterKnown(b)
    BY <2>1 DEF RegisterKnown, manifestKeeps, browserKeeps, RegistrationTypeOK
  <2>2. CASE RegisterProved(b)
    <3>1. login[b].challenge \in 1 .. issued
      BY <1>3, <2>2 DEF RegisterProved, RegTypes, ProvesSomething, LoginType, RegistrationTypeOK
    <3>2. challenge' = [challenge EXCEPT ![AddressOf(b)] = 0]
          /\ spent' = spent \cup {login[b].challenge} /\ UNCHANGED issued
      BY <2>2 DEF RegisterProved, ConsumeProof
    <3>3. issued \in Nat /\ challenge \in [Form -> 0 .. issued] /\ spent \subseteq 1 .. issued
      BY DEF RegistrationTypeOK
    <3>4. challenge' \in [Form -> 0 .. issued] /\ spent' \subseteq 1 .. issued
      <4>1. 0 \in 0 .. issued
        BY <3>3
      <4>2. challenge' \in [Form -> 0 .. issued]
        BY <3>2, <3>3, <4>1
      <4>3. spent' \subseteq 1 .. issued
        BY <3>1, <3>2, <3>3
      <4>. QED
        BY <4>2, <4>3
    <3>. QED
      BY <2>2, <3>4
      DEF RegisterProved, ConsumeProof, manifestKeeps, browserKeeps, RegistrationTypeOK
  <2>. QED
    BY <2>1, <2>2
<1>9. ProvesSomething'
  BY <1>5, <1>6 DEF RegTypes, ProvesSomething
<1>10. RegistrationTypeOK'
  BY <1>2, <1>4, <1>5, <1>7, <1>8 DEF RegistrationTypeOK, LoginType, Mail
<1>. QED
  BY <1>9, <1>10 DEF RegTypes

\* A session moves on, or gives up.
LEMMA TurnTyped ==
  ASSUME RegistrationTypeOK, NEW b \in Session,
         NEW to \in {"new", "register", "challenge", "adopt", "create", "manifest", "pull"}, Turn(b, to)
  PROVE  /\ login' \in [Session -> LoginType] /\ login'[b].at = to
         /\ \A c \in Session : c # b => login'[c] = login[c]
  BY DEF RegistrationTypeOK, Turn, LoginType

LEMMA GiveUpTyped ==
  ASSUME RegistrationTypeOK, NEW b \in Session, GiveUp(b)
  PROVE  /\ login' \in [Session -> LoginType] /\ login'[b] = NoLogin /\ NoLogin.at = "idle"
         /\ \A c \in Session : c # b => login'[c] = login[c]
<1>1. NoLogin \in LoginType /\ NoLogin.at = "idle"
  BY FormFacts DEF NoLogin, LoginType, RegistrationTypeOK
<1>. QED
  BY <1>1 DEF GiveUp, RegistrationTypeOK, LoginType

LEMMA LoginMoves ==
  ASSUME RegTypes, login' \in [Session -> LoginType], regTrouble' \in Nat,
         \A c \in Session : login'[c].at = "prove" => login'[c] = login[c],
         UNCHANGED <<host, era, local, token, rootDevice, challenge, issued, spent, boxes, linked,
                     linkedBox, listed, link, cached, sent>>
  PROVE  RegTypes'
<1>1. ProvesSomething'
  BY DEF RegTypes, ProvesSomething
<1>2. RegistrationTypeOK'
  BY DEF RegTypes, RegistrationTypeOK, LoginType, Mail
<1>. QED
  BY <1>1, <1>2 DEF RegTypes

LEMMA TroubleTyped ==
  ASSUME RegistrationTypeOK, RegTrouble
  PROVE  regTrouble' \in Nat
  BY DEF RegistrationTypeOK, RegTrouble

LEMMA PagesKeepTypes ==
  ASSUME RegTypes,
         \/ CreateIdentity \/ RestoreVault \/ Reopen
         \/ \E b \in Session : OpenTurn(b) \/ AnswerLost(b)
  PROVE  RegTypes'
<1>. RegistrationTypeOK /\ ProvesSomething
  BY DEF RegTypes
<1>. USE DEF RegTypes, ProvesSomething, relayKeeps, manifestKeeps, browserKeeps
<1>1. CASE CreateIdentity
  <2>1. "tick" \in Session /\ Turn("tick", "register")
    BY <1>1 DEF CreateIdentity, Session
  <2>. QED
    BY <1>1, <2>1, TurnTyped, LoginMoves DEF CreateIdentity, RegistrationTypeOK
<1>2. CASE RestoreVault
  <2>1. ImportVault \in LocalType
    BY FormFacts DEF ImportVault, LocalType
  <2>2. local' \in [Holder -> LocalType]
    BY <1>2, <2>1 DEF RestoreVault, RegistrationTypeOK, LocalType
  <2>. QED
    BY <1>2, <2>2 DEF RestoreVault, RegistrationTypeOK, LocalType, Mail
<1>3. CASE Reopen
  <2>1. NoLogin \in LoginType /\ NoLogin.at = "idle" /\ PageOpened \in LoginType /\ PageOpened.at = "new"
    BY FormFacts DEF NoLogin, PageOpened, LoginType, RegistrationTypeOK
  <2>2. login' = [login EXCEPT !["open"] = PageOpened, !["tick"] = NoLogin]
    BY <1>3 DEF Reopen
  <2>3. login \in [Session -> LoginType]
    BY DEF RegistrationTypeOK, LoginType
  <2>4. login' \in [Session -> LoginType]
    BY <2>1, <2>2, <2>3
  <2>5. \A b \in Session : login'[b].at = "prove" => login'[b] = login[b]
    BY <2>1, <2>2, <2>3
  <2>6. regTrouble' \in Nat
    BY <1>3, TroubleTyped DEF Reopen
  <2>. QED
    BY <1>3, <2>4, <2>5, <2>6, LoginMoves DEF Reopen
<1>4. ASSUME NEW b \in Session, OpenTurn(b) PROVE RegTypes'
  <2>1. Turn(b, "register")
    BY <1>4 DEF OpenTurn
  <2>. QED
    BY <1>4, <2>1, TurnTyped, LoginMoves DEF OpenTurn, RegistrationTypeOK
<1>5. ASSUME NEW b \in Session, AnswerLost(b) PROVE RegTypes'
  <2>1. GiveUp(b)
    BY <1>5 DEF AnswerLost
  <2>. QED
    BY <1>5, <2>1, GiveUpTyped, TroubleTyped, LoginMoves DEF AnswerLost
<1>. QED
  BY <1>1, <1>2, <1>3, <1>4, <1>5

LEMMA ProofStepsKeepTypes ==
  ASSUME RegTypes, NEW b \in Session,
         RegisterNeedsProof(b) \/ AskChallenge(b) \/ ProofRefused(b) \/ PullRefused(b) \/ Pull(b)
  PROVE  RegTypes'
<1>. RegistrationTypeOK /\ ProvesSomething
  BY DEF RegTypes
<1>. USE DEF RegTypes, ProvesSomething, relayKeeps, manifestKeeps, browserKeeps
<1>1. CASE RegisterNeedsProof(b)
  <2>1. Turn(b, "challenge")
    BY <1>1 DEF RegisterNeedsProof
  <2>. QED
    BY <1>1, <2>1, TurnTyped, LoginMoves DEF RegisterNeedsProof, RegistrationTypeOK
<1>2. CASE AskChallenge(b)
  <2>1. AddressOf(b) \in Form /\ login[b] \in LoginType /\ issued \in Nat
    BY LocalFields DEF RegistrationTypeOK
  <2>2. issued' = issued + 1 /\ issued' \in Nat /\ 0 .. issued \subseteq 0 .. issued'
        /\ issued' \in 0 .. issued' /\ issued' # 0 /\ 1 .. issued \subseteq 1 .. issued'
    BY <1>2, <2>1 DEF AskChallenge
  <2>3. challenge' \in [Form -> 0 .. issued']
    BY <1>2, <2>1, <2>2 DEF AskChallenge, RegistrationTypeOK
  <2>. DEFINE x == [login[b] EXCEPT !.at = "prove", !.challenge = issued']
  <2>4. login' = [login EXCEPT ![b] = x]
    BY <1>2, <2>2 DEF AskChallenge
  <2>5. x \in LoginType' /\ x.challenge = issued'
    BY <2>1, <2>2 DEF LoginType
  <2>6. \A c \in Session : login[c] \in LoginType'
    BY <2>2 DEF RegistrationTypeOK, LoginType
  <2>. HIDE DEF x
  <2>7. login' \in [Session -> LoginType'] /\ login'[b] = x
        /\ \A c \in Session : c # b => login'[c] = login[c]
    BY <2>4, <2>5, <2>6 DEF RegistrationTypeOK
  <2>8. ProvesSomething'
    BY <2>2, <2>5, <2>7
  <2>9. spent' \subseteq 1 .. issued'
    BY <1>2, <2>2 DEF AskChallenge, RegistrationTypeOK
  <2>. QED
    BY <1>2, <2>2, <2>3, <2>7, <2>8, <2>9 DEF AskChallenge, RegistrationTypeOK, LoginType, Mail
<1>3. CASE ProofRefused(b)
  BY <1>3, GiveUpTyped, LoginMoves DEF ProofRefused, RegistrationTypeOK
<1>4. CASE PullRefused(b)
  BY <1>4, GiveUpTyped, LoginMoves DEF PullRefused, RegistrationTypeOK
<1>5. CASE Pull(b)
  <2>1. AddressOf(b) \in Form
    BY LocalFields
  <2>2. boxes' \in [Form -> [Form -> SUBSET Mail]]
    BY <1>5, <2>1 DEF Pull, RegistrationTypeOK
  <2>3. GiveUp(b)
    BY <1>5 DEF Pull
  <2>. QED
    BY <1>5, <2>2, <2>3, GiveUpTyped DEF Pull, RegistrationTypeOK, LoginType, Mail
<1>. QED
  BY <1>1, <1>2, <1>3, <1>4, <1>5

LEMMA ManifestStepsKeepTypes ==
  ASSUME RegTypes, NEW b \in Session, FinishCreation(b) \/ AdoptRootId(b) \/ SyncManifest(b)
  PROVE  RegTypes'
<1>. RegistrationTypeOK /\ ProvesSomething
  BY DEF RegTypes
<1>. USE DEF RegTypes, ProvesSomething, relayKeeps, manifestKeeps, browserKeeps
<1>0. /\ AddressOf(b) \in Form /\ DeviceOf(b) \in Form \cup {None} /\ HolderOf(b) \in Holder
      /\ local[HolderOf(b)] \in LocalType /\ login[b] \in LoginType /\ local \in [Holder -> LocalType]
  BY LocalFields, FormFacts DEF RegistrationTypeOK, LocalType
<1>1. CASE FinishCreation(b)
  <2>1. local' \in [Holder -> LocalType]
    BY <1>0, <1>1, FormFacts DEF FinishCreation, LocalType, Holder
  <2>2. listed' \in [Form -> Form \cup {None}] /\ cached' \subseteq Form /\ GiveUp(b)
    BY <1>1, FormFacts DEF FinishCreation, RegistrationTypeOK
  <2>. QED
    BY <1>1, <2>1, <2>2, GiveUpTyped
    DEF FinishCreation, RegistrationTypeOK, LoginType, LocalType, Mail
<1>2. CASE AdoptRootId(b)
  <2>1. Turn(b, "manifest") \/ GiveUp(b)
    BY <1>2 DEF AdoptRootId
  <2>2. local' \in [Holder -> LocalType]
    BY <1>0, <1>2 DEF AdoptRootId, LocalType, LoginType
  <2>3. login' \in [Session -> LoginType] /\ \A c \in Session : login'[c].at = "prove" => login'[c] = login[c]
    BY <2>1, GiveUpTyped, TurnTyped
  <2>4. ProvesSomething'
    BY <2>3
  <2>. QED
    BY <1>2, <2>2, <2>3, <2>4 DEF AdoptRootId, RegistrationTypeOK, LoginType, LocalType, Mail
<1>3. CASE SyncManifest(b)
  <2>. DEFINE a == AddressOf(b)
              top == IF listed[a] # None THEN listed[a] ELSE DeviceOf(b)
  <2>1. top \in Form \cup {None}
    BY <1>0 DEF RegistrationTypeOK
  <2>. HIDE DEF top
  <2>2. /\ listed' = [listed EXCEPT ![a] = top] /\ cached' = cached \cup {a}
        /\ local' = [local EXCEPT ![HolderOf(b)].listed = top]
    BY <1>3 DEF SyncManifest, top
  <2>3. local' \in [Holder -> LocalType]
    BY <1>0, <2>1, <2>2 DEF LocalType
  <2>4. listed' \in [Form -> Form \cup {None}] /\ cached' \subseteq Form
    BY <1>0, <2>1, <2>2 DEF RegistrationTypeOK
  <2>5. Turn(b, "pull") \/ GiveUp(b)
    BY <1>3 DEF SyncManifest
  <2>6. login' \in [Session -> LoginType] /\ \A c \in Session : login'[c].at = "prove" => login'[c] = login[c]
    BY <2>5, GiveUpTyped, TurnTyped
  <2>7. ProvesSomething'
    BY <2>6
  <2>. QED
    BY <1>3, <2>3, <2>4, <2>6, <2>7
    DEF SyncManifest, RegistrationTypeOK, LoginType, LocalType, Mail
<1>. QED
  BY <1>1, <1>2, <1>3

LEMMA RelayStepsKeepTypes ==
  ASSUME RegTypes,
         \/ LinkMoves \/ RegisterLinked \/ PullLinked \/ SendToLinked \/ WebForgets
         \/ \E a \in Form : SendToRoot(a) \/ ChallengeExpires(a)
  PROVE  RegTypes'
<1>. RegistrationTypeOK /\ ProvesSomething
  BY DEF RegTypes
<1>. USE DEF RegTypes, ProvesSomething, manifestKeeps, browserKeeps
<1>1. CASE LinkMoves
  BY <1>1, FormFacts DEF LinkMoves, RegistrationTypeOK, Mail
<1>2. CASE RegisterLinked
  BY <1>2, FormFacts DEF RegisterLinked, RegistrationTypeOK, Mail
<1>3. CASE PullLinked
  BY <1>3 DEF PullLinked, RegistrationTypeOK, Mail
<1>. DEFINE Grown == 1 .. (sent + 1)
<1>m. sent \in Nat /\ sent + 1 \in Grown /\ Mail \subseteq Grown
  BY DEF RegistrationTypeOK, Mail
<1>4. CASE SendToLinked
  <2>1. sent' = sent + 1 /\ Mail' = Grown /\ linkedBox' = linkedBox \cup {sent + 1} /\ UNCHANGED boxes
    BY <1>4 DEF SendToLinked, Mail
  <2>2. boxes' \in [Form -> [Form -> SUBSET Grown]] /\ linkedBox' \subseteq Grown
    <3>1. boxes \in [Form -> [Form -> SUBSET Mail]] /\ linkedBox \subseteq Mail
      BY DEF RegistrationTypeOK
    <3>. HIDE DEF Grown
    <3>2. boxes \in [Form -> [Form -> SUBSET Grown]]
      BY <1>m, <3>1
    <3>. QED
      BY <1>m, <2>1, <3>1, <3>2
  <2>. QED
    BY <1>4, <1>m, <2>1, <2>2 DEF SendToLinked, RegistrationTypeOK
<1>5. ASSUME NEW a \in Form, SendToRoot(a) PROVE RegTypes'
  <2>1. sent' = sent + 1 /\ Mail' = Grown /\ UNCHANGED linkedBox
        /\ boxes' = [boxes EXCEPT ![a][RootId(a)] = @ \cup {sent + 1}]
    BY <1>5 DEF SendToRoot, Mail
  <2>2. boxes' \in [Form -> [Form -> SUBSET Grown]]
    <3>1. boxes \in [Form -> [Form -> SUBSET Mail]]
      BY DEF RegistrationTypeOK
    <3>2. sent + 1 \in Grown
      BY <1>m
    <3>. HIDE DEF Grown
    <3>3. boxes \in [Form -> [Form -> SUBSET Grown]]
      BY <1>m, <3>1
    <3>. QED
      BY <2>1, <3>2, <3>3
  <2>3. linkedBox' \subseteq Grown
    BY <1>m, <2>1 DEF RegistrationTypeOK
  <2>. QED
    BY <1>5, <1>m, <2>1, <2>2, <2>3 DEF SendToRoot, RegistrationTypeOK
<1>6. ASSUME NEW a \in Form, ChallengeExpires(a) PROVE RegTypes'
  <2>1. challenge' \in [Form -> 0 .. issued]
    <3>1. 0 \in 0 .. issued
      BY DEF RegistrationTypeOK
    <3>. QED
      BY <1>6, <3>1 DEF ChallengeExpires, RegistrationTypeOK
  <2>. QED
    BY <1>6, <2>1 DEF ChallengeExpires, RegTrouble, RegistrationTypeOK, Mail
<1>7. CASE WebForgets
  <2>1. challenge' \in [Form -> 0 .. issued]
    BY <1>7 DEF WebForgets, RegistrationTypeOK
  <2>2. regTrouble' \in Nat
    BY <1>7, TroubleTyped DEF WebForgets
  <2>3. /\ token' \in [Form -> Holder \cup {None, "empty"}] /\ rootDevice' \in [Form -> Form \cup {None}]
        /\ boxes' \in [Form -> [Form -> SUBSET Mail]]
        /\ linked' \in BOOLEAN /\ linkedBox' \subseteq Mail /\ cached' \subseteq Form
    BY <1>7 DEF WebForgets
  <2>. QED
    BY <1>7, <2>1, <2>2, <2>3 DEF WebForgets, RegistrationTypeOK, Mail
<1>. QED
  BY <1>1, <1>2, <1>3, <1>4, <1>5, <1>6, <1>7

-----------------------------------------------------------------------------
(* Challenges are fresh, so one that was spent is never shown again.         *)

ChallengesApart ==
  \A a, c \in Form :
    challenge[a] # 0 => challenge[a] \notin spent /\ (challenge[c] = challenge[a] => c = a)

LEMMA RegisteringKeepsChallenges ==
  ASSUME RegTypes, ChallengesApart, NEW b \in Session, RegisterKnown(b) \/ RegisterProved(b)
  PROVE  ChallengesApart'
<1>1. CASE RegisterKnown(b)
  BY <1>1 DEF RegisterKnown, ChallengesApart
<1>2. CASE RegisterProved(b)
  <2>. DEFINE a == AddressOf(b)
  <2>1. a \in Form /\ challenge[a] # 0
    BY <1>2, LocalFields DEF RegTypes, ProvesSomething, RegisterProved
  <2>2. challenge' = [challenge EXCEPT ![a] = 0] /\ spent' = spent \cup {challenge[a]}
    BY <1>2 DEF RegisterProved, ConsumeProof
  <2>3. challenge \in [Form -> 0 .. issued]
    BY DEF RegTypes, RegistrationTypeOK
  <2>. HIDE DEF a
  <2>4. \A c \in Form : challenge'[c] # 0 => c # a /\ challenge'[c] = challenge[c]
    BY <2>1, <2>2, <2>3
  <2>. QED
    BY <2>1, <2>2, <2>4 DEF ChallengesApart
<1>. QED
  BY <1>1, <1>2

LEMMA AskKeepsChallenges ==
  ASSUME RegTypes, ChallengesApart, NEW b \in Session, AskChallenge(b)
  PROVE  ChallengesApart'
<1>1. /\ issued \in Nat /\ spent \subseteq 1 .. issued /\ challenge \in [Form -> 0 .. issued]
      /\ AddressOf(b) \in Form
  BY LocalFields DEF RegTypes, RegistrationTypeOK
<1>2. challenge' = [challenge EXCEPT ![AddressOf(b)] = issued + 1] /\ spent' = spent
  BY DEF AskChallenge
<1>3. \A c \in Form : /\ c = AddressOf(b) => challenge'[c] = issued + 1
                      /\ c # AddressOf(b) => challenge'[c] = challenge[c] /\ challenge[c] # issued + 1
  BY <1>1, <1>2
<1>4. issued + 1 \notin spent
  BY <1>1
<1>. QED
  BY <1>2, <1>3, <1>4 DEF ChallengesApart

LEMMA OthersKeepChallenges ==
  ASSUME RegTypes, ChallengesApart,
         \/ CreateIdentity \/ RestoreVault \/ Reopen \/ LinkMoves \/ RegisterLinked \/ PullLinked
         \/ SendToLinked \/ WebForgets \/ \E a \in Form : SendToRoot(a) \/ ChallengeExpires(a)
         \/ \E b \in Session :
              \/ OpenTurn(b) \/ AnswerLost(b) \/ RegisterNeedsProof(b) \/ ProofRefused(b)
              \/ FinishCreation(b) \/ AdoptRootId(b) \/ SyncManifest(b) \/ Pull(b) \/ PullRefused(b)
  PROVE  ChallengesApart'
<1>1. CASE WebForgets
  BY <1>1 DEF WebForgets, ChallengesApart
<1>2. ASSUME NEW a \in Form, ChallengeExpires(a) PROVE ChallengesApart'
  <2>1. challenge' = [challenge EXCEPT ![a] = 0] /\ spent' = spent
    BY <1>2 DEF ChallengeExpires
  <2>2. challenge \in [Form -> 0 .. issued]
    BY DEF RegTypes, RegistrationTypeOK
  <2>3. \A c \in Form : challenge'[c] # 0 => challenge'[c] = challenge[c]
    BY <2>1, <2>2
  <2>. QED
    BY <2>1, <2>3 DEF ChallengesApart
<1>3. CASE UNCHANGED <<challenge, spent>>
  BY <1>3 DEF ChallengesApart
<1>4. UNCHANGED <<challenge, spent>> \/ WebForgets \/ \E a \in Form : ChallengeExpires(a)
  BY DEF CreateIdentity, RestoreVault, Reopen, LinkMoves, RegisterLinked, PullLinked, SendToLinked,
         SendToRoot, OpenTurn, AnswerLost, RegisterNeedsProof, ProofRefused, FinishCreation,
         AdoptRootId, SyncManifest, Pull, PullRefused, relayKeeps
<1>. QED
  BY <1>1, <1>2, <1>3, <1>4

-----------------------------------------------------------------------------
(* The root at its relay: which device the browser is, and where its mail    *)
(* waits before and after a registration.                                    *)

FirstIsRoot ==
  Installed("first") =>
    /\ local["first"] = [address |-> Address, device |-> Address, listed |-> Address]
    /\ listed[Address] = Address

NotYetCreated ==
  ~Installed("first") =>
    /\ era = "new" /\ ~Installed("restored")
    /\ link = None /\ listed[Address] = None /\ token[Address] # "empty"

RestoredIsWeak == Installed("restored") => local["restored"].address = "weak"

SessionsInstalled ==
  \A b \in Session :
    /\ login[b].at \in {"new", "adopt", "manifest", "pull"} => Installed(b)
    /\ login[b].at = "create" => b = "tick" /\ ~Installed("first")
    /\ login[b].at # "idle" /\ ~Installed(b) => b = "tick"

\* Without a record of the root device nothing waits, unless a linked device came first.
BoxesOfKnownRoots ==
  \A a \in Form :
    /\ token[a] = None => \A d \in Form : boxes[a][d] = {}
    /\ token[a] # None /\ rootDevice[a] = None => token[a] = "empty" /\ a = Address

RootsInv ==
  FirstIsRoot /\ NotYetCreated /\ RestoredIsWeak /\ SessionsInstalled /\ BoxesOfKnownRoots

RegistrationInv == RegTypes /\ ChallengesApart /\ RootsInv /\ MailFollowsRoot

LEMMA InstalledFacts ==
  /\ Installed("open") <=> Installed("first")
  /\ Installed("tick") <=> Installed("first")
  /\ HolderOf("first") = "first" /\ HolderOf("restored") = "restored"
  /\ HolderOf("open") = "first" /\ HolderOf("tick") = "first"
  /\ \A b \in Session : b # "restored" => HolderOf(b) = "first" /\ (Installed(b) <=> Installed("first"))
  BY DEF Installed, HolderOf

\* What leaves browsers, records, queues and manifests alone.
LEMMA RecordsStay ==
  ASSUME RegistrationInv, SessionsInstalled',
         UNCHANGED <<era, local, token, rootDevice, boxes, listed, link>>
  PROVE  RootsInv' /\ MailFollowsRoot'
  BY DEF RegistrationInv, RootsInv, FirstIsRoot, NotYetCreated, RestoredIsWeak, BoxesOfKnownRoots,
         MailFollowsRoot, Installed, HolderOf, Address, RootId

\* One session moves, the browsers stay as they are.
LEMMA OneSessionMoves ==
  ASSUME RegistrationInv, NEW b \in Session, UNCHANGED local,
         \A c \in Session : c # b => login'[c] = login[c],
         login'[b].at \in {"new", "adopt", "manifest", "pull"} => Installed(b),
         login'[b].at = "create" => b = "tick" /\ ~Installed("first"),
         login'[b].at # "idle" /\ ~Installed(b) => b = "tick"
  PROVE  SessionsInstalled'
  BY DEF RegistrationInv, RootsInv, SessionsInstalled, Installed, HolderOf

LEMMA LoginKeepsRoots ==
  ASSUME RegistrationInv,
         \/ CreateIdentity \/ Reopen
         \/ \E b \in Session :
              \/ OpenTurn(b) \/ AnswerLost(b) \/ RegisterNeedsProof(b) \/ AskChallenge(b)
              \/ ProofRefused(b) \/ PullRefused(b)
  PROVE  RootsInv' /\ MailFollowsRoot'
<1>. RegistrationTypeOK /\ SessionsInstalled
  BY DEF RegistrationInv, RegTypes, RootsInv
<1>1. UNCHANGED <<era, local, token, rootDevice, boxes, listed, link>>
  BY DEF CreateIdentity, Reopen, OpenTurn, AnswerLost, RegisterNeedsProof, AskChallenge,
         ProofRefused, PullRefused, relayKeeps, manifestKeeps, browserKeeps
<1>2. SessionsInstalled'
  <2>1. CASE CreateIdentity
    <3>1. "tick" \in Session /\ Turn("tick", "register")
      BY <2>1 DEF CreateIdentity, Session
    <3>. QED
      BY <1>1, <3>1, TurnTyped, OneSessionMoves
  <2>2. CASE Reopen
    <3>1. NoLogin.at = "idle" /\ PageOpened.at = "new"
      BY DEF NoLogin, PageOpened
    <3>2. login' = [login EXCEPT !["open"] = PageOpened, !["tick"] = NoLogin] /\ Installed("first")
      BY <2>2 DEF Reopen
    <3>3. login \in [Session -> LoginType]
      BY DEF RegistrationTypeOK, LoginType
    <3>4. \A c \in Session : login'[c] = IF c = "tick" THEN NoLogin ELSE IF c = "open" THEN PageOpened ELSE login[c]
      BY <3>2, <3>3
    <3>5. \A c \in Session : Installed(c)' <=> Installed(c)
      BY <1>1 DEF Installed
    <3>6. Installed("first")' <=> Installed("first")
      BY <1>1 DEF Installed
    <3>. QED
      BY <3>1, <3>2, <3>4, <3>5, <3>6, InstalledFacts DEF SessionsInstalled
  <2>3. ASSUME NEW b \in Session, OpenTurn(b) PROVE SessionsInstalled'
    <3>1. Turn(b, "register") /\ Installed(b)
      BY <2>3 DEF OpenTurn
    <3>. QED
      BY <1>1, <3>1, TurnTyped, OneSessionMoves
  <2>4. ASSUME NEW b \in Session, AnswerLost(b) \/ ProofRefused(b) \/ PullRefused(b)
        PROVE  SessionsInstalled'
    <3>1. GiveUp(b)
      BY <2>4 DEF AnswerLost, ProofRefused, PullRefused
    <3>2. /\ login'[b].at = "idle"
          /\ \A c \in Session : c # b => login'[c] = login[c]
      BY <3>1, GiveUpTyped
    <3>. QED
      BY <1>1, <3>2, OneSessionMoves
  <2>5. ASSUME NEW b \in Session, RegisterNeedsProof(b) PROVE SessionsInstalled'
    <3>1. Turn(b, "challenge") /\ login[b].at = "register"
      BY <2>5 DEF RegisterNeedsProof
    <3>2. ~Installed(b) => b = "tick"
      BY <3>1 DEF SessionsInstalled
    <3>. QED
      BY <1>1, <3>1, <3>2, TurnTyped, OneSessionMoves
  <2>6. ASSUME NEW b \in Session, AskChallenge(b) PROVE SessionsInstalled'
    <3>1. /\ login' = [login EXCEPT ![b] = [@ EXCEPT !.at = "prove", !.challenge = issued + 1]]
          /\ login[b].at = "challenge" /\ login \in [Session -> LoginType]
      BY <2>6 DEF AskChallenge, RegistrationTypeOK, LoginType
    <3>2. login'[b].at = "prove" /\ \A c \in Session : c # b => login'[c] = login[c]
      BY <3>1 DEF LoginType
    <3>3. ~Installed(b) => b = "tick"
      BY <3>1 DEF SessionsInstalled
    <3>. QED
      BY <1>1, <3>2, <3>3, OneSessionMoves
  <2>. QED
    BY <2>1, <2>2, <2>3, <2>4, <2>5, <2>6
<1>. QED
  BY <1>1, <1>2, RecordsStay

LEMMA RestoreKeepsRoots ==
  ASSUME RegistrationInv, RestoreVault
  PROVE  RootsInv' /\ MailFollowsRoot'
<1>1. /\ local' = [local EXCEPT !["restored"] = ImportVault]
      /\ UNCHANGED <<login, era, token, rootDevice, boxes, listed, link>>
      /\ Installed("first") /\ ~Installed("restored")
  BY DEF RestoreVault, relayKeeps, manifestKeeps, browserKeeps
<1>2. local'["first"] = local["first"] /\ local'["restored"] = ImportVault
  BY <1>1 DEF RegistrationInv, RegTypes, RegistrationTypeOK, Holder
<1>3. Installed("first")' /\ (\A b \in Session : Installed(b) => Installed(b)') /\ Address' = Address
  BY <1>1, <1>2 DEF Installed, HolderOf, Address
<1>4. RootsInv'
  <2>1. FirstIsRoot' /\ NotYetCreated' /\ RestoredIsWeak'
    BY <1>1, <1>2, <1>3
    DEF RegistrationInv, RootsInv, FirstIsRoot, NotYetCreated, RestoredIsWeak, ImportVault
  <2>2. SessionsInstalled' /\ BoxesOfKnownRoots'
    <3>1. \A b \in Session : login[b].at # "create"
      BY <1>1 DEF RegistrationInv, RootsInv, SessionsInstalled
    <3>2. BoxesOfKnownRoots'
      BY <1>1, <1>3 DEF RegistrationInv, RootsInv, BoxesOfKnownRoots
    <3>3. SessionsInstalled'
      BY <1>1, <1>3, <3>1 DEF RegistrationInv, RootsInv, SessionsInstalled
    <3>. QED
      BY <3>2, <3>3
  <2>. QED
    BY <2>1, <2>2 DEF RootsInv
<1>5. MailFollowsRoot'
  <2>1. (era = "new" \/ ~Installed("restored")) /\ UNCHANGED <<boxes, rootDevice>>
    BY <1>1
  <2>. QED
    BY <2>1 DEF RegistrationInv, MailFollowsRoot, RootId
<1>. QED
  BY <1>4, <1>5

\* A registration: what the relay has of the root moves to the id it now knows.
LEMMA RegisteringKeepsRoots ==
  ASSUME RegistrationInv, NEW b \in Session, RegisterKnown(b) \/ RegisterProved(b)
  PROVE  RootsInv' /\ MailFollowsRoot'
<1>. DEFINE a == AddressOf(b)
<1>. RegistrationTypeOK /\ RootsInv /\ SessionsInstalled
  BY DEF RegistrationInv, RegTypes, RootsInv
<1>1. After(b) \in {"adopt", "create"} /\ Register(b, After(b)) /\ login[b].at # "idle"
      /\ UNCHANGED <<era, local, listed, link>>
  BY DEF After, RegisterKnown, RegisterProved, manifestKeeps, browserKeeps
<1>2. PICK old \in Form, new \in Form :
           /\ old = RegisteredRoot(a, DeviceOf(b))
           /\ token' = [token EXCEPT ![a] = HolderOf(b)]
           /\ rootDevice' = [rootDevice EXCEPT ![a] = new]
           /\ IF new # old THEN MoveBox(a, old, new) ELSE UNCHANGED boxes
           /\ login' = [login EXCEPT ![b] = [@ EXCEPT !.at = After(b), !.answer = new]]
           /\ UNCHANGED <<linked, linkedBox, cached>>
  BY <1>1, RegisterEffect
<1>3. a \in Form /\ HolderOf(b) \in Holder /\ login[b] \in LoginType /\ DeviceOf(b) \in Form \cup {None}
  BY LocalFields, FormFacts
<1>. HIDE DEF a
<1>4. /\ token'[a] = HolderOf(b) /\ rootDevice'[a] = new
      /\ \A c \in Form \ {a} : token'[c] = token[c] /\ rootDevice'[c] = rootDevice[c]
  BY <1>2, <1>3 DEF RegistrationTypeOK
<1>5. \A c \in Form \ {a} : boxes'[c] = boxes[c]
  BY <1>2, <1>3, MovedBoxes
<1>6. SessionsInstalled'
  <2>1. login'[b].at = After(b) /\ \A c \in Session : c # b => login'[c] = login[c]
    BY <1>1, <1>2, <1>3 DEF RegistrationTypeOK, LoginType
  <2>2. ~Installed(b) => b = "tick"
    BY <1>1 DEF SessionsInstalled
  <2>3. /\ login'[b].at \in {"new", "adopt", "manifest", "pull"} => Installed(b)
        /\ login'[b].at = "create" => ~Installed(b)
    BY <2>1 DEF After
  <2>. QED
    BY <1>1, <2>1, <2>2, <2>3, InstalledFacts, OneSessionMoves
<1>7. FirstIsRoot' /\ NotYetCreated' /\ RestoredIsWeak'
  <2>1. token'[Address] = "empty" => token[Address] = "empty"
    <3>1. HolderOf(b) # "empty"
      BY <1>3 DEF Holder
    <3>. QED
      BY <1>4, <3>1, FormFacts
  <2>. QED
    BY <1>1, <2>1 DEF RootsInv, FirstIsRoot, NotYetCreated, RestoredIsWeak, Installed, Address
<1>8. token'[a] # None /\ rootDevice'[a] # None
  BY <1>3, <1>4, FormFacts DEF Holder, None
<1>9. BoxesOfKnownRoots'
  <2>1. \A c \in Form \ {a} :
          /\ token'[c] = None => \A d \in Form : boxes'[c][d] = {}
          /\ token'[c] # None /\ rootDevice'[c] = None => token'[c] = "empty" /\ c = Address
    BY <1>4, <1>5 DEF RootsInv, BoxesOfKnownRoots
  <2>2. Address' = Address
    BY <1>1 DEF Address
  <2>. QED
    BY <1>8, <2>1, <2>2 DEF BoxesOfKnownRoots
<1>10. MailFollowsRoot'
  <2>. SUFFICES ASSUME era = "new" \/ ~Installed("restored"), NEW c \in Form, NEW d \in Form,
                       boxes'[c][d] # {}
                PROVE  d = RootId(c)'
    BY <1>1 DEF MailFollowsRoot, Installed
  <2>. \A x, y \in Form : boxes[x][y] # {} => y = RootId(x)
    BY DEF RegistrationInv, MailFollowsRoot
  <2>1. CASE c # a
    BY <1>4, <1>5, <2>1 DEF RootId
  <2>2. CASE c = a /\ new # old
    <3>1. d = new
      BY <1>2, <1>3, <2>2, MovedBoxes
    <3>. QED
      BY <1>3, <1>4, <1>8, <2>2, <3>1 DEF RootId
  <2>3. CASE c = a /\ new = old /\ rootDevice[a] # None
    <3>1. old = rootDevice[a] /\ boxes' = boxes
      BY <1>2, <2>3 DEF RegisteredRoot
    <3>. QED
      BY <1>4, <1>8, <2>3, <3>1 DEF RootId
  <2>4. CASE c = a /\ new = old /\ rootDevice[a] = None
    <3>1. boxes' = boxes /\ d = a
      BY <1>2, <2>4 DEF RootId
    <3>2. token[a] = "empty" /\ a = Address
      BY <1>3, <2>4, <3>1 DEF RootsInv, BoxesOfKnownRoots
    <3>3. Installed("first")
      BY <3>2 DEF RootsInv, NotYetCreated
    <3>4. local["first"] = [address |-> Address, device |-> Address, listed |-> Address]
      BY <3>3 DEF RootsInv, FirstIsRoot
    <3>5. b # "restored"
      <4>. SUFFICES ASSUME b = "restored" PROVE FALSE
        OBVIOUS
      <4>1. Installed("restored")
        BY <1>1 DEF SessionsInstalled
      <4>2. era = "new"
        BY <4>1
      <4>3. AddressOf(b) = "weak"
        BY <4>1, InstalledFacts DEF RootsInv, RestoredIsWeak, AddressOf, Installed
      <4>. QED
        BY <3>2, <4>2, <4>3 DEF Address, a
    <3>6. DeviceOf(b) = Address
      BY <3>4, <3>5, InstalledFacts DEF DeviceOf
    <3>7. old = a
      BY <1>2, <2>4, <3>2, <3>6, FormFacts DEF RegisteredRoot
    <3>. QED
      BY <1>4, <1>8, <2>4, <3>1, <3>7 DEF RootId
  <2>. QED
    BY <2>1, <2>2, <2>3, <2>4
<1>. QED
  BY <1>6, <1>7, <1>9, <1>10 DEF RootsInv

\* The identity is saved with the id its manifest lists.
LEMMA CreationKeepsRoots ==
  ASSUME RegistrationInv, NEW b \in Session, FinishCreation(b)
  PROVE  RootsInv' /\ MailFollowsRoot'
<1>. RegistrationTypeOK /\ RootsInv
  BY DEF RegistrationInv, RegTypes
<1>1. b = "tick" /\ ~Installed("first") /\ login[b].at = "create"
  BY DEF FinishCreation, RootsInv, SessionsInstalled
<1>2. era = "new" /\ Address = "strong" /\ ~Installed("restored")
  BY <1>1 DEF RootsInv, NotYetCreated, Address
<1>3. /\ listed' = [listed EXCEPT ![Address] = "strong"] /\ GiveUp(b)
      /\ local' = [local EXCEPT !["first"] = [address |-> Address, device |-> "strong", listed |-> "strong"]]
      /\ UNCHANGED <<era, token, rootDevice, boxes, link>>
  BY DEF FinishCreation, browserKeeps
<1>4. /\ local'["first"] = [address |-> Address, device |-> Address, listed |-> Address]
      /\ local'["restored"] = local["restored"] /\ listed'[Address] = Address /\ Address' = Address
  BY <1>2, <1>3, FormFacts DEF RegistrationTypeOK, Holder, Address
<1>5. Installed("first")' /\ ~Installed("restored")'
  BY <1>2, <1>4, FormFacts DEF Installed, HolderOf
<1>6. FirstIsRoot' /\ NotYetCreated' /\ RestoredIsWeak'
  BY <1>4, <1>5 DEF FirstIsRoot, NotYetCreated, RestoredIsWeak
<1>7. SessionsInstalled'
  <2>1. \A c \in Session : IF c = "tick" THEN login'[c].at = "idle" ELSE login'[c] = login[c]
    BY <1>1, <1>3, GiveUpTyped
  <2>2. Installed("open")' /\ Installed("tick")'
    BY <1>4, FormFacts DEF Installed, HolderOf
  <2>3. login["restored"].at = "idle"
    BY <1>2 DEF RootsInv, SessionsInstalled, Session
  <2>4. \A c \in Session : login[c].at = "create" => c = "tick"
    BY DEF RootsInv, SessionsInstalled
  <2>. QED
    BY <2>1, <2>2, <2>3, <2>4 DEF SessionsInstalled, Session
<1>8. BoxesOfKnownRoots'
  BY <1>3, <1>4 DEF RootsInv, BoxesOfKnownRoots
<1>9. MailFollowsRoot'
  BY <1>2, <1>3 DEF RegistrationInv, MailFollowsRoot, RootId
<1>. QED
  BY <1>6, <1>7, <1>8, <1>9 DEF RootsInv

\* A browser changes what it holds of itself, never the first one's.
LEMMA BrowserKeepsRoots ==
  ASSUME RegistrationInv, SessionsInstalled',
         local'["first"] = local["first"], local'["restored"].address = local["restored"].address,
         Installed("first"), listed'[Address] = Address,
         UNCHANGED <<era, token, rootDevice, boxes, link>>
  PROVE  RootsInv' /\ MailFollowsRoot'
<1>1. Address' = Address /\ Installed("first")' /\ (Installed("restored")' <=> Installed("restored"))
  BY DEF Address, Installed, HolderOf
<1>2. FirstIsRoot' /\ NotYetCreated' /\ RestoredIsWeak' /\ BoxesOfKnownRoots'
  BY <1>1 DEF RegistrationInv, RootsInv, FirstIsRoot, NotYetCreated, RestoredIsWeak, BoxesOfKnownRoots
<1>3. MailFollowsRoot'
  BY <1>1 DEF RegistrationInv, MailFollowsRoot, RootId
<1>. QED
  BY <1>2, <1>3 DEF RootsInv

LEMMA SessionsOfBrowsers ==
  ASSUME RegistrationInv, NEW b \in Session, Installed(b), Installed("first"),
         local'["first"] = local["first"], local'["restored"].address = local["restored"].address,
         \A c \in Session : c # b => login'[c] = login[c],
         login'[b].at # "create"
  PROVE  SessionsInstalled'
<1>1. \A c \in Session : Installed(c)' <=> Installed(c)
  BY DEF Installed, HolderOf
<1>2. \A c \in Session : login[c].at # "create"
  BY DEF RegistrationInv, RootsInv, SessionsInstalled
<1>. QED
  BY <1>1, <1>2 DEF RegistrationInv, RootsInv, SessionsInstalled

LEMMA SyncKeepsRoots ==
  ASSUME RegistrationInv, NEW b \in Session, AdoptRootId(b) \/ SyncManifest(b)
  PROVE  RootsInv' /\ MailFollowsRoot'
<1>. RegistrationTypeOK /\ RootsInv
  BY DEF RegistrationInv, RegTypes
<1>1. Installed(b) /\ Installed("first")
  <2>1. Installed(b)
    BY DEF AdoptRootId, SyncManifest, RootsInv, SessionsInstalled
  <2>2. Installed("first")
    BY <2>1, InstalledFacts DEF RootsInv, NotYetCreated
  <2>. QED
    BY <2>1, <2>2
<1>2. /\ local["first"] = [address |-> Address, device |-> Address, listed |-> Address]
      /\ listed[Address] = Address
  BY <1>1 DEF RootsInv, FirstIsRoot
<1>3. /\ local \in [Holder -> LocalType] /\ HolderOf(b) \in Holder /\ AddressOf(b) \in Form
      /\ b # "restored" => HolderOf(b) = "first"
      /\ b = "restored" => HolderOf(b) = "restored"
  BY LocalFields, FormFacts, InstalledFacts DEF RegistrationTypeOK, LocalType
<1>4. CASE AdoptRootId(b)
  <2>1. UNCHANGED <<era, token, rootDevice, boxes, listed, link>> /\ (Turn(b, "manifest") \/ GiveUp(b))
    BY <1>4 DEF AdoptRootId, relayKeeps, manifestKeeps, browserKeeps
  <2>2. (\A c \in Session : c # b => login'[c] = login[c]) /\ login'[b].at # "create"
    BY <2>1, TurnTyped, GiveUpTyped
  <2>3. \/ UNCHANGED local
        \/ /\ local' = [local EXCEPT ![HolderOf(b)].device = login[b].answer]
           /\ login[b].answer # DeviceOf(b)
           /\ local[HolderOf(b)].listed \in {None, login[b].answer}
    BY <1>4 DEF AdoptRootId
  <2>4. local'["first"] = local["first"] /\ local'["restored"].address = local["restored"].address
    <3>1. CASE b # "restored"
      <4>1. DeviceOf(b) = Address /\ local[HolderOf(b)].listed = Address /\ Address # None
        BY <1>2, <1>3, <3>1, FormFacts DEF DeviceOf
      <4>. QED
        BY <2>3, <4>1
    <3>2. CASE b = "restored"
      BY <1>3, <2>3, <3>2 DEF Holder, LocalType
    <3>. QED
      BY <3>1, <3>2
  <2>5. listed'[Address] = Address
    BY <1>2, <2>1
  <2>. QED
    BY <1>1, <2>1, <2>2, <2>4, <2>5, SessionsOfBrowsers, BrowserKeepsRoots
<1>5. CASE SyncManifest(b)
  <2>. DEFINE a == AddressOf(b)
              top == IF listed[a] # None THEN listed[a] ELSE DeviceOf(b)
  <2>1. /\ listed' = [listed EXCEPT ![a] = top] /\ local' = [local EXCEPT ![HolderOf(b)].listed = top]
        /\ UNCHANGED <<era, token, rootDevice, boxes, link>> /\ (Turn(b, "pull") \/ GiveUp(b))
    BY <1>5 DEF SyncManifest, browserKeeps
  <2>2. a = Address => top = Address
    BY <1>2, FormFacts
  <2>3. b # "restored" => a = Address
    BY <1>1, <1>2, <1>3 DEF AddressOf
  <2>. HIDE DEF a, top
  <2>4. listed'[Address] = Address
    BY <1>2, <2>1, <2>2, FormFacts DEF RegistrationTypeOK
  <2>5. local'["first"] = local["first"] /\ local'["restored"].address = local["restored"].address
    <3>1. CASE b # "restored"
      <4>1. top = local["first"].listed /\ HolderOf(b) = "first"
        BY <1>2, <1>3, <2>2, <2>3, <3>1
      <4>2. local' = local
        BY <1>3, <2>1, <4>1 DEF LocalType
      <4>. QED
        BY <4>2
    <3>2. CASE b = "restored"
      BY <1>3, <2>1, <3>2 DEF Holder, LocalType
    <3>. QED
      BY <3>1, <3>2
  <2>6. (\A c \in Session : c # b => login'[c] = login[c]) /\ login'[b].at # "create"
    BY <2>1, TurnTyped, GiveUpTyped
  <2>. QED
    BY <1>1, <2>1, <2>4, <2>5, <2>6, SessionsOfBrowsers, BrowserKeepsRoots
<1>. QED
  BY <1>4, <1>5

LEMMA PullKeepsRoots ==
  ASSUME RegistrationInv, NEW b \in Session, Pull(b)
  PROVE  RootsInv' /\ MailFollowsRoot'
<1>. RegistrationTypeOK /\ RootsInv
  BY DEF RegistrationInv, RegTypes
<1>1. /\ boxes' = [boxes EXCEPT ![AddressOf(b)][DeviceOf(b)] = {}] /\ GiveUp(b)
      /\ UNCHANGED <<era, local, token, rootDevice, listed, link>>
  BY DEF Pull, manifestKeeps, browserKeeps
<1>2. \A c, d \in Form : boxes'[c][d] # {} => boxes[c][d] # {}
  <2>1. boxes \in [Form -> [Form -> SUBSET Mail]]
    BY DEF RegistrationTypeOK
  <2>. QED
    BY <1>1, <2>1
<1>3. SessionsInstalled'
  <2>1. login'[b].at = "idle" /\ \A c \in Session : c # b => login'[c] = login[c]
    BY <1>1, GiveUpTyped
  <2>. QED
    BY <1>1, <2>1, OneSessionMoves
<1>4. Address' = Address /\ (\A c \in Session \cup {"first"} : Installed(c)' <=> Installed(c))
  BY <1>1 DEF Address, Installed
<1>5. FirstIsRoot' /\ NotYetCreated' /\ RestoredIsWeak'
  BY <1>1, <1>4 DEF RootsInv, FirstIsRoot, NotYetCreated, RestoredIsWeak, Session
<1>6. BoxesOfKnownRoots'
  BY <1>1, <1>2, <1>4 DEF RootsInv, BoxesOfKnownRoots
<1>7. MailFollowsRoot'
  BY <1>1, <1>2, <1>4 DEF RegistrationInv, MailFollowsRoot, RootId, Session
<1>. QED
  BY <1>3, <1>5, <1>6, <1>7 DEF RootsInv

LEMMA RelayKeepsRoots ==
  ASSUME RegistrationInv,
         \/ LinkMoves \/ RegisterLinked \/ PullLinked \/ SendToLinked \/ WebForgets
         \/ \E a \in Form : SendToRoot(a) \/ ChallengeExpires(a)
  PROVE  RootsInv' /\ MailFollowsRoot'
<1>. RegistrationTypeOK /\ RootsInv
  BY DEF RegistrationInv, RegTypes
<1>1. UNCHANGED <<era, local, login, listed>>
  BY DEF LinkMoves, RegisterLinked, PullLinked, SendToLinked, WebForgets, SendToRoot,
         ChallengeExpires, manifestKeeps, browserKeeps
<1>2. Address' = Address /\ (\A c \in Session \cup {"first"} : Installed(c)' <=> Installed(c))
  BY <1>1 DEF Address, Installed
<1>3. SessionsInstalled' /\ FirstIsRoot' /\ RestoredIsWeak'
  BY <1>1, <1>2 DEF RootsInv, SessionsInstalled, FirstIsRoot, RestoredIsWeak, Session
<1>4. CASE LinkMoves
  <2>1. Installed("first") /\ UNCHANGED <<token, rootDevice, boxes>>
    BY <1>4 DEF LinkMoves, RootsInv, NotYetCreated
  <2>2. NotYetCreated' /\ BoxesOfKnownRoots'
    BY <1>2, <2>1 DEF NotYetCreated, RootsInv, BoxesOfKnownRoots
  <2>. QED
    BY <1>1, <1>2, <1>3, <2>1, <2>2 DEF RootsInv, RegistrationInv, MailFollowsRoot, RootId, Session
<1>5. CASE RegisterLinked
  <2>1. /\ link # None /\ UNCHANGED <<rootDevice, boxes, link>>
        /\ token' = [token EXCEPT ![Address] = IF @ = None THEN "empty" ELSE @]
    BY <1>5 DEF RegisterLinked, manifestKeeps
  <2>2. Installed("first")
    BY <2>1 DEF RootsInv, NotYetCreated
  <2>3. \A a \in Form : token'[a] = token[a] \/ (token[a] = None /\ token'[a] = "empty" /\ a = Address)
    <3>. DEFINE own == Address
    <3>1. token \in [Form -> Holder \cup {None, "empty"}]
      BY DEF RegistrationTypeOK
    <3>2. token' = [token EXCEPT ![own] = IF token[own] = None THEN "empty" ELSE token[own]]
      BY <2>1
    <3>. HIDE DEF own
    <3>3. \A a \in Form : token'[a] = token[a] \/ (token[a] = None /\ token'[a] = "empty" /\ a = own)
      BY <3>1, <3>2
    <3>. QED
      BY <3>3 DEF own
  <2>4. NotYetCreated' /\ BoxesOfKnownRoots'
    <3>1. Installed("first")'
      BY <1>2, <2>2
    <3>2. \A c \in Form : token'[c] = None => token[c] = None
      BY <2>3
    <3>3. \A c \in Form : token'[c] # None /\ token[c] = None => token'[c] = "empty" /\ c = Address
      BY <2>3
    <3>4. \A c \in Form : token[c] # None => token'[c] = token[c]
      BY <2>3
    <3>. QED
      BY <1>2, <2>1, <3>1, <3>2, <3>3, <3>4 DEF NotYetCreated, RootsInv, BoxesOfKnownRoots
  <2>5. MailFollowsRoot'
    BY <1>1, <1>2, <2>1 DEF RegistrationInv, MailFollowsRoot, RootId, Session
  <2>. QED
    BY <1>3, <2>4, <2>5 DEF RootsInv
<1>6. CASE WebForgets
  <2>1. /\ token' = [a \in Form |-> None] /\ boxes' = [a \in Form |-> [d \in Form |-> {}]]
        /\ UNCHANGED link
    BY <1>6 DEF WebForgets, manifestKeeps
  <2>2. NotYetCreated'
    BY <1>1, <1>2, <2>1, FormFacts DEF NotYetCreated, RootsInv, Session, None
  <2>3. BoxesOfKnownRoots' /\ MailFollowsRoot'
    BY <2>1 DEF BoxesOfKnownRoots, MailFollowsRoot
  <2>. QED
    BY <1>3, <2>2, <2>3 DEF RootsInv
<1>7. ASSUME NEW a \in Form, SendToRoot(a) PROVE RootsInv' /\ MailFollowsRoot'
  <2>1. /\ token[a] # None /\ UNCHANGED <<token, rootDevice, link>>
        /\ boxes' = [boxes EXCEPT ![a][RootId(a)] = @ \cup {sent + 1}]
    BY <1>7 DEF SendToRoot, manifestKeeps
  <2>2. \A c, d \in Form : boxes'[c][d] = boxes[c][d] \/ (c = a /\ d = RootId(a))
    <3>. DEFINE its == RootId(a)
    <3>1. boxes \in [Form -> [Form -> SUBSET Mail]]
      BY DEF RegistrationTypeOK
    <3>2. boxes' = [boxes EXCEPT ![a][its] = @ \cup {sent + 1}]
      BY <2>1
    <3>. HIDE DEF its
    <3>3. \A c, d \in Form : boxes'[c][d] = boxes[c][d] \/ (c = a /\ d = its)
      BY <3>1, <3>2
    <3>. QED
      BY <3>3 DEF its
  <2>3. NotYetCreated' /\ BoxesOfKnownRoots'
    BY <1>1, <1>2, <2>1, <2>2 DEF NotYetCreated, RootsInv, BoxesOfKnownRoots, Session
  <2>4. MailFollowsRoot'
    BY <1>1, <1>2, <2>1, <2>2 DEF RegistrationInv, MailFollowsRoot, RootId, Session
  <2>. QED
    BY <1>3, <2>3, <2>4 DEF RootsInv
<1>8. CASE PullLinked \/ SendToLinked \/ \E a \in Form : ChallengeExpires(a)
  <2>1. UNCHANGED <<token, rootDevice, boxes, link>>
    BY <1>8 DEF PullLinked, SendToLinked, ChallengeExpires, manifestKeeps
  <2>. QED
    BY <1>1, <1>3, <2>1, RecordsStay
<1>. QED
  BY <1>4, <1>5, <1>6, <1>7, <1>8

LEMMA RegistrationStart ==
  ASSUME RegistrationInit
  PROVE  RegistrationInv
<1>. DEFINE known == era = "legacy"
<1>1. /\ host \in {"web", "standalone"} /\ era \in {"new", "legacy"}
      /\ local = [b \in Holder |->
           IF known /\ b = "first" THEN [address |-> "weak", device |-> "weak", listed |-> "weak"] ELSE NoLocal]
      /\ token = [a \in Form |-> IF known /\ a = "weak" THEN "first" ELSE None]
      /\ rootDevice = [a \in Form |-> IF known /\ a = "weak" THEN "weak" ELSE None]
      /\ listed = [a \in Form |-> IF known /\ a = "weak" THEN "weak" ELSE None]
      /\ cached \subseteq Form
  BY FormFacts DEF RegistrationInit
<1>2. /\ login = [b \in Session |-> IF era = "legacy" /\ b = "open" THEN PageOpened ELSE NoLogin]
      /\ challenge = [a \in Form |-> 0] /\ issued = 0 /\ spent = {}
      /\ boxes = [a \in Form |-> [d \in Form |-> {}]]
      /\ linked = FALSE /\ linkedBox = {} /\ link = None /\ sent = 0 /\ regTrouble = 0
  BY DEF RegistrationInit
<1>3. NoLogin.at = "idle" /\ PageOpened.at = "new" /\ NoLogin.challenge = 0 /\ PageOpened.challenge = 0
  BY DEF NoLogin, PageOpened
<1>4. RegistrationTypeOK
  <2>1. local \in [Holder -> [address : Form \cup {None}, device : Form \cup {None}, listed : Form \cup {None}]]
    BY <1>1, FormFacts DEF NoLocal
  <2>2. login \in [Session -> [at : {"idle", "new", "create", "register", "challenge", "prove", "adopt", "manifest", "pull"},
                               challenge : 0 .. issued, answer : Form \cup {None}]]
    BY <1>2 DEF NoLogin, PageOpened
  <2>3. /\ token \in [Form -> Holder \cup {None, "empty"}] /\ rootDevice \in [Form -> Form \cup {None}]
        /\ listed \in [Form -> Form \cup {None}]
    BY <1>1, FormFacts DEF Holder
  <2>4. boxes \in [Form -> [Form -> SUBSET Mail]] /\ challenge \in [Form -> 0 .. issued]
    BY <1>2
  <2>. QED
    BY <1>1, <1>2, <2>1, <2>2, <2>3, <2>4 DEF RegistrationTypeOK
<1>5. RegTypes /\ ChallengesApart
  BY <1>2, <1>3, <1>4 DEF RegTypes, ProvesSomething, ChallengesApart
<1>6. Installed("first") <=> known
  BY <1>1, FormFacts DEF Installed, HolderOf, Holder, NoLocal, None
<1>7. ~Installed("restored")
  BY <1>1 DEF Installed, HolderOf, Holder, NoLocal
<1>8. FirstIsRoot /\ NotYetCreated /\ RestoredIsWeak
  BY <1>1, <1>2, <1>6, <1>7, FormFacts
     DEF FirstIsRoot, NotYetCreated, RestoredIsWeak, Address, Holder, None
<1>9. SessionsInstalled
  BY <1>2, <1>3, <1>6, InstalledFacts DEF SessionsInstalled
<1>10. BoxesOfKnownRoots /\ MailFollowsRoot
  BY <1>1, <1>2, FormFacts DEF BoxesOfKnownRoots, MailFollowsRoot
<1>. QED
  BY <1>5, <1>8, <1>9, <1>10 DEF RegistrationInv, RootsInv

LEMMA RegistrationTurn ==
  ASSUME RegistrationInv, NEW b \in Session, OpenTurn(b) \/ LoginStep(b) \/ AnswerLost(b)
  PROVE  RegistrationInv'
<1>. RegTypes /\ ChallengesApart
  BY DEF RegistrationInv
<1>1. CASE RegisterKnown(b) \/ RegisterProved(b)
  BY <1>1, RegisteringKeepsTypes, RegisteringKeepsChallenges, RegisteringKeepsRoots DEF RegistrationInv
<1>2. CASE AskChallenge(b)
  BY <1>2, ProofStepsKeepTypes, AskKeepsChallenges, LoginKeepsRoots DEF RegistrationInv
<1>3. CASE OpenTurn(b) \/ AnswerLost(b)
  BY <1>3, PagesKeepTypes, OthersKeepChallenges, LoginKeepsRoots DEF RegistrationInv
<1>4. CASE RegisterNeedsProof(b) \/ ProofRefused(b) \/ PullRefused(b)
  BY <1>4, ProofStepsKeepTypes, OthersKeepChallenges, LoginKeepsRoots DEF RegistrationInv
<1>5. CASE Pull(b)
  BY <1>5, ProofStepsKeepTypes, OthersKeepChallenges, PullKeepsRoots DEF RegistrationInv
<1>6. CASE FinishCreation(b)
  BY <1>6, ManifestStepsKeepTypes, OthersKeepChallenges, CreationKeepsRoots DEF RegistrationInv
<1>7. CASE AdoptRootId(b) \/ SyncManifest(b)
  BY <1>7, ManifestStepsKeepTypes, OthersKeepChallenges, SyncKeepsRoots DEF RegistrationInv
<1>. QED
  BY <1>1, <1>2, <1>3, <1>4, <1>5, <1>6, <1>7 DEF LoginStep

\* The inductive invariant of registration: types, challenges that are of one address
\* and of no earlier registration, the first browser as the root its manifest lists,
\* and queues only under roots the relay knows.
THEOREM RegistrationInvariant == RegistrationSpec => []RegistrationInv
<1>1. RegistrationInit => RegistrationInv
  BY RegistrationStart
<1>2. RegistrationInv /\ [RegistrationNext]_regVars => RegistrationInv'
  <2>. SUFFICES ASSUME RegistrationInv, [RegistrationNext]_regVars PROVE RegistrationInv'
    OBVIOUS
  <2>. RegTypes /\ ChallengesApart
    BY DEF RegistrationInv
  <2>1. CASE CreateIdentity \/ Reopen
    BY <2>1, PagesKeepTypes, OthersKeepChallenges, LoginKeepsRoots DEF RegistrationInv
  <2>2. CASE RestoreVault
    BY <2>2, PagesKeepTypes, OthersKeepChallenges, RestoreKeepsRoots DEF RegistrationInv
  <2>3. ASSUME NEW b \in Session, OpenTurn(b) \/ LoginStep(b) \/ AnswerLost(b)
        PROVE  RegistrationInv'
    BY <2>3, RegistrationTurn
  <2>4. CASE \/ LinkMoves \/ RegisterLinked \/ PullLinked \/ SendToLinked \/ WebForgets
             \/ \E a \in Form : SendToRoot(a) \/ ChallengeExpires(a)
    BY <2>4, RelayStepsKeepTypes, OthersKeepChallenges, RelayKeepsRoots DEF RegistrationInv
  <2>5. CASE UNCHANGED regVars
    BY <2>5 DEF regVars, RegistrationInv, RegTypes, RegistrationTypeOK, ProvesSomething, Mail,
                ChallengesApart, RootsInv, FirstIsRoot, NotYetCreated, RestoredIsWeak,
                SessionsInstalled, BoxesOfKnownRoots, MailFollowsRoot, Installed, HolderOf, Address, RootId
  <2>. QED
    BY <2>1, <2>2, <2>3, <2>4, <2>5 DEF RegistrationNext
<1>. QED
  BY <1>1, <1>2, PTL DEF RegistrationSpec

\* Browsers, sessions, the relay's records and the published manifest stay within
\* their types (IdentityRecord of relay.ts, the turn of quantic-network-v11-app.tsx).
THEOREM RegistrationTypes == RegistrationSpec => []RegistrationTypeOK
<1>1. RegistrationInv => RegistrationTypeOK
  BY DEF RegistrationInv, RegTypes
<1>. QED
  BY <1>1, RegistrationInvariant, PTL

\* No challenge proves two registrations, whatever sessions ask for and replace
\* (createIdentityChallenge and consumeProof of relay.ts).
THEOREM ChallengesProveOnce == RegistrationSpec => []ChallengeUsedOnce
<1>1. RegistrationInv => ChallengeUsedOnce
  <2>. SUFFICES ASSUME RegistrationInv, NEW a \in Form PROVE challenge[a] \notin spent
    BY DEF ChallengeUsedOnce
  <2>1. 0 \notin spent
    BY DEF RegistrationInv, RegTypes, RegistrationTypeOK
  <2>. QED
    BY <2>1 DEF RegistrationInv, ChallengesApart
<1>. QED
  BY <1>1, RegistrationInvariant, PTL

\* No registration, migration, restart or late manifest leaves messages of the root
\* under an id it is not authenticated with (registerIdentityCompat, enqueueEnvelope).
THEOREM MailStaysWithRoot == RegistrationSpec => []MailFollowsRoot
<1>1. RegistrationInv => MailFollowsRoot
  BY DEF RegistrationInv
<1>. QED
  BY <1>1, RegistrationInvariant, PTL

-----------------------------------------------------------------------------
(* Direct transport.  The types in four parts: the sessions, what is under   *)
(* way, what the recipient's turn holds, and the rest.                       *)

WireRecord ==
  [letter : Letter, near : {"offer", "wait", "answered", "frame", "open", "closed"},
   far : {"none", "answered", "open", "closed"}]

WireOK == wire \in [Sessions -> WireRecord] /\ \E n \in Nat : Sessions = 1 .. n

PathsOK ==
  /\ frames \subseteq Frame
  /\ signals \in [End -> SUBSET Signal] /\ polled \in [End -> SUBSET Signal]
  /\ \A e \in End : IsFiniteSet(signals[e]) /\ Cardinality(signals[e]) <= MaxSignals

ReaderOK ==
  /\ directBox \subseteq Sessions
  /\ reader \in [at : {"idle", "process", "receipts", "ack"}, batch : SUBSET Copy,
                 acked : SUBSET Copy, handled : SUBSET Sessions]

OutboxOK ==
  /\ waiting \subseteq Letter /\ sending \in [Letter -> {"idle", "direct", "relay"}]
  /\ relayBox \subseteq Letter /\ relayReceipts \subseteq Letter /\ directReceipts \subseteq Letter
  /\ savedMail \subseteq Letter /\ sealed \subseteq Letter /\ opening \subseteq sealed
  /\ directTrouble \in Nat

DirectTyped == WireOK /\ PathsOK /\ ReaderOK /\ OutboxOK

LEMMA DirectTypedIsTypeOK ==
  ASSUME DirectTyped
  PROVE  DirectTypeOK
<1>1. PICK n \in Nat : Sessions = 1 .. n
  BY DEF DirectTyped, WireOK
<1>2. Cardinality(Sessions) = n
  BY <1>1, FS_Interval
<1>3. Sessions = 1 .. Cardinality(Sessions)
  BY <1>1, <1>2
<1>4. \A s \in Sessions : wire[s] \in WireRecord
  BY DEF DirectTyped, WireOK
<1>. QED
  BY <1>3, <1>4 DEF DirectTyped, PathsOK, ReaderOK, OutboxOK, WireRecord, DirectTypeOK

(* A step keeps the sessions there are, and the letter of each.              *)
WireKept == Sessions \subseteq Sessions' /\ \A s \in Sessions : wire'[s].letter = wire[s].letter

LEMMA PathsOfSessions ==
  ASSUME Sessions \subseteq Sessions'
  PROVE  Signal \subseteq Signal' /\ Frame \subseteq Frame' /\ Copy \subseteq Copy'
  BY DEF Signal, Frame, Copy

LEMMA SessionsAreNumbers ==
  ASSUME WireOK
  PROVE  Sessions \subseteq Nat \ {0} /\ Cardinality(Sessions) \in Nat /\ Cardinality(Sessions) + 1 \notin Sessions
<1>1. PICK n \in Nat : Sessions = 1 .. n
  BY DEF WireOK
<1>2. Cardinality(Sessions) = n
  BY <1>1, FS_Interval
<1>. QED
  BY <1>1, <1>2

LEMMA WireIsConstant == WireRecord' = WireRecord
  BY DEF WireRecord

LEMMA SessionMoves ==
  ASSUME WireOK, NEW s \in Sessions, NEW r \in WireRecord, r.letter = wire[s].letter,
         wire' = [wire EXCEPT ![s] = r]
  PROVE  /\ WireOK' /\ WireKept /\ Sessions' = Sessions /\ wire'[s] = r
         /\ \A t \in Sessions : t # s => wire'[t] = wire[t]
<1>. DEFINE S == Sessions
<1>1. wire \in [S -> WireRecord] /\ s \in S
  BY DEF WireOK
<1>. HIDE DEF S
<1>2. wire' \in [S -> WireRecord] /\ wire'[s] = r /\ (\A t \in S : t # s => wire'[t] = wire[t]) /\ DOMAIN wire' = S
  BY <1>1
<1>. QED
  BY <1>2, WireIsConstant DEF WireOK, WireKept, S, Sessions

LEMMA NearMoves ==
  ASSUME WireOK, NEW s \in Sessions,
         NEW v \in {"offer", "wait", "answered", "frame", "open", "closed"},
         wire' = [wire EXCEPT ![s].near = v]
  PROVE  /\ WireOK' /\ WireKept /\ Sessions' = Sessions /\ wire'[s].near = v
         /\ \A t \in Sessions : t # s => wire'[t] = wire[t]
<1>. DEFINE r == [wire[s] EXCEPT !.near = v]
<1>1. wire[s] \in WireRecord
  BY DEF WireOK
<1>2. r \in WireRecord /\ r.letter = wire[s].letter /\ r.near = v
  BY <1>1 DEF WireRecord
<1>3. wire' = [wire EXCEPT ![s] = r]
  OBVIOUS
<1>. HIDE DEF r
<1>. QED
  BY <1>2, <1>3, SessionMoves

LEMMA FarMoves ==
  ASSUME WireOK, NEW s \in Sessions, NEW v \in {"none", "answered", "open", "closed"},
         wire' = [wire EXCEPT ![s].far = v]
  PROVE  /\ WireOK' /\ WireKept /\ Sessions' = Sessions /\ wire'[s].near = wire[s].near
         /\ \A t \in Sessions : t # s => wire'[t] = wire[t]
<1>. DEFINE r == [wire[s] EXCEPT !.far = v]
<1>1. wire[s] \in WireRecord
  BY DEF WireOK
<1>2. r \in WireRecord /\ r.letter = wire[s].letter /\ r.near = wire[s].near
  BY <1>1 DEF WireRecord
<1>3. wire' = [wire EXCEPT ![s] = r]
  OBVIOUS
<1>. HIDE DEF r
<1>. QED
  BY <1>2, <1>3, SessionMoves

LEMMA TrySendKeepsWire ==
  ASSUME DirectTyped, NEW d \in Letter, TrySend(d)
  PROVE  WireOK' /\ WireKept
<1>1. CASE UNCHANGED wire
  BY <1>1, WireIsConstant DEF DirectTyped, WireOK, WireKept, Sessions
<1>2. CASE ~UNCHANGED wire
  <2>. DEFINE S == Sessions
              k == Cardinality(Sessions) + 1
              r == [letter |-> d, near |-> "offer", far |-> "none"]
  <2>1. wire' = [s \in S \cup {k} |-> IF s \in S THEN wire[s] ELSE r]
    BY <1>2 DEF TrySend
  <2>2. wire \in [S -> WireRecord] /\ r \in WireRecord
    BY DEF DirectTyped, WireOK, WireRecord
  <2>3. k \notin S
    BY SessionsAreNumbers DEF DirectTyped
  <2>. HIDE DEF S, k, r
  <2>4. wire' \in [S \cup {k} -> WireRecord] /\ DOMAIN wire' = S \cup {k} /\ \A s \in S : wire'[s] = wire[s]
    BY <2>1, <2>2
  <2>5. \E n \in Nat : S \cup {k} = 1 .. n
    <3>1. PICK n \in Nat : Sessions = 1 .. n
      BY DEF DirectTyped, WireOK
    <3>2. Cardinality(Sessions) = n
      BY <3>1, FS_Interval
    <3>3. S \cup {k} = 1 .. (n + 1)
      BY <3>1, <3>2 DEF S, k
    <3>. QED
      BY <3>3
  <2>. QED
    BY <2>4, <2>5, WireIsConstant DEF WireOK, WireKept, S, Sessions
<1>. QED
  BY <1>1, <1>2

LEMMA SignalFacts ==
  ASSUME NEW x \in Signal
  PROVE  /\ x.type \in {"offer", "answer"} => x.session \in Sessions
         /\ x.type = "receipt" => x.letter \in Letter
         /\ x.type \in {"offer", "answer", "receipt"}
  BY DEF Signal

LEMMA FrameFacts ==
  ASSUME NEW f \in Frame
  PROVE  f.session \in Sessions /\ (f.type = "receipt" => f.letter \in Letter)
  BY DEF Frame

LEMMA SessionStepKeepsWire ==
  ASSUME DirectTyped, NEW s \in Sessions, SessionStep(s) \/ ChannelDies(s)
  PROVE  WireOK' /\ WireKept /\ Sessions' = Sessions
<1>. WireOK
  BY DEF DirectTyped
<1>1. CASE UNCHANGED wire
  BY <1>1, WireIsConstant DEF WireOK, WireKept, Sessions
<1>2. CASE SendFrame(s)
  <2>. DEFINE r == [wire[s] EXCEPT !.near = "frame", !.far = "open"]
  <2>1. wire' = [wire EXCEPT ![s] = r]
    BY <1>2 DEF SendFrame
  <2>2. r \in WireRecord /\ r.letter = wire[s].letter
    BY DEF WireOK, WireRecord
  <2>. HIDE DEF r
  <2>. QED
    BY <2>1, <2>2, SessionMoves
<1>3. CASE ChannelDies(s)
  <2>1. PICK far \in {wire[s].far, "closed"} : wire' = [wire EXCEPT ![s].far = far]
    BY <1>3 DEF ChannelDies
  <2>2. far \in {"none", "answered", "open", "closed"}
    BY <2>1 DEF WireOK, WireRecord
  <2>. QED
    BY <2>1, <2>2, FarMoves
<1>4. CASE SendOffer(s)
  <2>1. wire' = [wire EXCEPT ![s].near = "wait"]
    BY <1>4 DEF SendOffer
  <2>. QED
    BY <2>1, NearMoves
<1>5. CASE StoredArrives(s)
  <2>1. wire' = [wire EXCEPT ![s].near = "open"] \/ UNCHANGED wire
    BY <1>5 DEF StoredArrives
  <2>. QED
    BY <1>1, <2>1, NearMoves
<1>6. CASE Fallback(s)
  <2>1. wire' = [wire EXCEPT ![s].near = "closed"]
    BY <1>6 DEF Fallback
  <2>. QED
    BY <2>1, NearMoves
<1>7. EnvelopeArrives(s) => UNCHANGED wire
  BY DEF EnvelopeArrives, readerKeeps
<1>. QED
  BY <1>1, <1>2, <1>3, <1>4, <1>5, <1>6, <1>7 DEF SessionStep

LEMMA SignalStepKeepsWire ==
  ASSUME DirectTyped, NEW e \in End, NEW x \in polled[e], SignalStep(x)
  PROVE  WireOK' /\ WireKept /\ Sessions' = Sessions
<1>. WireOK
  BY DEF DirectTyped
<1>0. \A y \in Signal : y.type \in {"offer", "answer"} => y.session \in Sessions
  BY SignalFacts
<1>1. polled["recipient"] \subseteq Signal /\ polled["sender"] \subseteq Signal
  BY DEF DirectTyped, PathsOK, End
<1>2. CASE UNCHANGED wire
  BY <1>2, WireIsConstant DEF WireOK, WireKept, Sessions
<1>3. CASE ProcessOffer(x)
  <2>1. x.session \in Sessions /\ wire' = [wire EXCEPT ![x.session].far = "answered"]
    BY <1>0, <1>1, <1>3 DEF ProcessOffer
  <2>. QED
    BY <2>1, FarMoves
<1>4. CASE ProcessAnswer(x)
  <2>1. x.session \in Sessions /\ (UNCHANGED wire \/ wire' = [wire EXCEPT ![x.session].near = "answered"])
    BY <1>0, <1>1, <1>4 DEF ProcessAnswer
  <2>. QED
    BY <1>2, <2>1, NearMoves
<1>5. ProcessReceipt(x) => UNCHANGED wire
  BY DEF ProcessReceipt
<1>. QED
  BY <1>2, <1>3, <1>4, <1>5 DEF SignalStep

LEMMA ReloadKeepsWire ==
  ASSUME DirectTyped, SenderReloads
  PROVE  /\ WireOK' /\ WireKept /\ Sessions' = Sessions
         /\ \A s \in Sessions : wire'[s].near = "closed"
<1>. DEFINE S == Sessions
            closed(s) == [wire[s] EXCEPT !.near = "closed"]
<1>1. wire' = [s \in S |-> closed(s)]
  BY DEF SenderReloads
<1>2. \A s \in S : closed(s) \in WireRecord /\ closed(s).letter = wire[s].letter /\ closed(s).near = "closed"
  BY DEF DirectTyped, WireOK, WireRecord
<1>. HIDE DEF S, closed
<1>3. wire' \in [S -> WireRecord] /\ DOMAIN wire' = S /\ \A s \in S : wire'[s] = closed(s)
  BY <1>1, <1>2
<1>. QED
  BY <1>2, <1>3, WireIsConstant DEF DirectTyped, WireOK, WireKept, S, Sessions

(* What leaves the sessions alone.                                           *)
ElsewhereStep ==
  \/ \E d \in Letter : Write(d) \/ RelayQueues(d) \/ ApplyReceipt(d) \/ SendFails(d)
  \/ \E e \in End : PollSignals(e) \/ SignalsLost(e)
  \/ \E f \in frames : ReceiptOnChannel(f)
  \/ ClearReceipts \/ ReaderStep \/ ReaderStops

LEMMA ElsewhereKeepsWire ==
  ASSUME ElsewhereStep
  PROVE  UNCHANGED wire
  BY DEF ElsewhereStep, Write, RelayQueues, ApplyReceipt, SendFails, PollSignals, SignalsLost,
         ReceiptOnChannel, ClearReceipts, ReaderStep, ReaderStops, PullBoth, ReadCopy, SendReceipt,
         AckBegins, DeleteHandled, RelayAcknowledges, senderKeeps, readerKeeps

LEMMA DirectSteps ==
  ASSUME [DirectNext]_directVars
  PROVE  \/ \E d \in Letter : TrySend(d)
         \/ \E s \in Sessions : SessionStep(s) \/ ChannelDies(s)
         \/ \E e \in End : \E x \in polled[e] : SignalStep(x)
         \/ SenderReloads \/ ElsewhereStep \/ UNCHANGED directVars
  BY DEF DirectNext, DirectFault, ElsewhereStep

LEMMA WireStays ==
  ASSUME DirectTyped, [DirectNext]_directVars
  PROVE  WireOK' /\ WireKept
<1>1. CASE UNCHANGED wire
  BY <1>1, WireIsConstant DEF DirectTyped, WireOK, WireKept, Sessions
<1>2. UNCHANGED directVars => UNCHANGED wire
  BY DEF directVars
<1>. QED
  BY <1>1, <1>2, DirectSteps, TrySendKeepsWire, SessionStepKeepsWire, SignalStepKeepsWire,
     ReloadKeepsWire, ElsewhereKeepsWire

(* What a step puts under way.                                               *)
LEMMA FramesMove ==
  ASSUME DirectTyped, [DirectNext]_directVars, NEW f \in frames', f \notin frames
  PROVE  \/ \E s \in Sessions : SendFrame(s) /\ f = [type |-> "envelope", session |-> s]
         \/ \E s \in Sessions : EnvelopeArrives(s) /\ f = [type |-> "stored", session |-> s]
         \/ \E x \in Copy : \E s \in Sessions :
              SendReceipt(x) /\ f = [type |-> "receipt", session |-> s, letter |-> x.letter]
<1>1. CASE frames' \subseteq frames
  BY <1>1
<1>2. ASSUME NEW s \in Sessions, SessionStep(s) \/ ChannelDies(s) PROVE
         \/ frames' \subseteq frames
         \/ SendFrame(s) /\ frames' = frames \cup {[type |-> "envelope", session |-> s]}
         \/ EnvelopeArrives(s) /\ frames' \subseteq frames \cup {[type |-> "stored", session |-> s]}
  <2>1. SendOffer(s) \/ StoredArrives(s) \/ Fallback(s) \/ ChannelDies(s) => frames' \subseteq frames
    BY DEF SendOffer, StoredArrives, Fallback, ChannelDies
  <2>2. SendFrame(s) => frames' = frames \cup {[type |-> "envelope", session |-> s]}
    BY DEF SendFrame
  <2>3. EnvelopeArrives(s) => frames' \subseteq frames \cup {[type |-> "stored", session |-> s]}
    BY DEF EnvelopeArrives
  <2>. QED
    BY <1>2, <2>1, <2>2, <2>3 DEF SessionStep
<1>3. ASSUME NEW x \in Copy, SendReceipt(x) PROVE
         \/ frames' = frames
         \/ \E s \in Sessions : frames' = frames \cup {[type |-> "receipt", session |-> s, letter |-> x.letter]}
  BY <1>3 DEF SendReceipt, OpenChannels
<1>4. ElsewhereStep => frames' \subseteq frames \/ \E x \in Copy : SendReceipt(x)
  BY DEF ElsewhereStep, Write, RelayQueues, ApplyReceipt, SendFails, PollSignals, SignalsLost,
         ReceiptOnChannel, ClearReceipts, ReaderStep, ReaderStops, PullBoth, ReadCopy,
         AckBegins, DeleteHandled, RelayAcknowledges, senderKeeps, readerKeeps
<1>5. \/ \E d \in Letter : TrySend(d)
      \/ \E e \in End : \E x \in polled[e] : SignalStep(x)
      \/ SenderReloads \/ UNCHANGED directVars
      => frames' \subseteq frames
  BY DEF TrySend, SignalStep, ProcessOffer, ProcessAnswer, ProcessReceipt, SenderReloads, directVars
<1>. QED
  BY <1>1, <1>2, <1>3, <1>4, <1>5, DirectSteps

LEMMA QueueTyped ==
  ASSUME PathsOK, NEW e \in End, NEW y \in Signal, HasRoom(e), Queue(e, y)
  PROVE  /\ signals' \in [End -> SUBSET Signal]
         /\ \A i \in End : /\ IsFiniteSet(signals'[i]) /\ Cardinality(signals'[i]) <= MaxSignals
                           /\ signals'[i] \subseteq signals[i] \cup {y}
<1>. DEFINE q == signals[e]
<1>1. signals' = [signals EXCEPT ![e] = q \cup {y}] /\ Cardinality(q) < MaxSignals
  BY DEF Queue, HasRoom
<1>2. IsFiniteSet(q) /\ MaxSignals \in Nat /\ q \subseteq Signal
  BY DirectAssumption DEF PathsOK
<1>. HIDE DEF q
<1>3. IsFiniteSet(q \cup {y}) /\ Cardinality(q \cup {y}) <= MaxSignals
  <2>1. Cardinality(q) \in Nat
    BY <1>2, FS_CardinalityType
  <2>2. /\ IsFiniteSet(q \cup {y})
        /\ Cardinality(q \cup {y}) = Cardinality(q) \/ Cardinality(q \cup {y}) = Cardinality(q) + 1
    BY <1>2, FS_AddElement
  <2>. QED
    BY <1>1, <1>2, <2>1, <2>2
<1>4. \A i \in End : signals'[i] = IF i = e THEN q \cup {y} ELSE signals[i]
  BY <1>1 DEF PathsOK
<1>5. signals' \in [End -> SUBSET Signal]
  BY <1>1, <1>2 DEF PathsOK
<1>6. \A i \in End : signals'[i] \subseteq signals[i] \cup {y}
  BY <1>4 DEF q
<1>. QED
  BY <1>3, <1>4, <1>5, <1>6 DEF PathsOK

(* The queues of the signaling relay after a step.                           *)
SignalsMoved ==
  /\ signals' \in [End -> SUBSET Signal]
  /\ \A i \in End : IsFiniteSet(signals'[i]) /\ Cardinality(signals'[i]) <= MaxSignals
  /\ \A i \in End : \A y \in signals'[i] :
       y \in signals[i] \/ y.type # "receipt" \/ \E x \in Copy : SendReceipt(x) /\ y.letter = x.letter

LEMMA OneSignalQueued ==
  ASSUME PathsOK, NEW e \in End, NEW y \in Signal, HasRoom(e), Queue(e, y),
         y.type # "receipt" \/ \E x \in Copy : SendReceipt(x) /\ y.letter = x.letter
  PROVE  SignalsMoved
  BY QueueTyped DEF SignalsMoved

LEMMA SignalsMove ==
  ASSUME DirectTyped, [DirectNext]_directVars
  PROVE  SignalsMoved
<1>. PathsOK /\ "sender" \in End /\ "recipient" \in End
  BY DEF DirectTyped, End
<1>1. CASE UNCHANGED signals
  BY <1>1 DEF PathsOK, SignalsMoved
<1>2. ASSUME NEW e \in End, signals' = [signals EXCEPT ![e] = {}] PROVE SignalsMoved
  <2>1. signals' \in [End -> SUBSET Signal] /\ \A i \in End : signals'[i] = IF i = e THEN {} ELSE signals[i]
    BY <1>2 DEF PathsOK
  <2>2. IsFiniteSet({}) /\ Cardinality({}) = 0 /\ 0 <= MaxSignals
    BY FS_EmptySet, DirectAssumption
  <2>. QED
    BY <2>1, <2>2 DEF PathsOK, SignalsMoved
<1>3. ASSUME NEW s \in Sessions, SendOffer(s) PROVE SignalsMoved
  <2>. DEFINE y == [type |-> "offer", session |-> s]
  <2>1. y \in Signal /\ y.type # "receipt" /\ HasRoom("recipient") /\ Queue("recipient", y)
    BY <1>3 DEF SendOffer, Signal
  <2>. HIDE DEF y
  <2>. QED
    BY <2>1, OneSignalQueued
<1>4. ASSUME NEW e \in End, NEW x \in polled[e], ProcessOffer(x) PROVE SignalsMoved
  <2>. DEFINE y == [type |-> "answer", session |-> x.session]
  <2>1. x.session \in Sessions
    BY <1>4, SignalFacts DEF ProcessOffer, PathsOK
  <2>2. y \in Signal /\ y.type # "receipt" /\ (UNCHANGED signals \/ (HasRoom("sender") /\ Queue("sender", y)))
    BY <1>4, <2>1 DEF ProcessOffer, Signal
  <2>. HIDE DEF y
  <2>. QED
    BY <1>1, <2>2, OneSignalQueued
<1>5. ASSUME NEW x \in Copy, SendReceipt(x) PROVE SignalsMoved
  <2>. DEFINE y == [type |-> "receipt", letter |-> x.letter]
  <2>1. /\ y \in Signal /\ y.letter = x.letter
        /\ UNCHANGED signals \/ (HasRoom("sender") /\ Queue("sender", y))
    BY <1>5 DEF SendReceipt, Signal, Copy
  <2>. HIDE DEF y
  <2>. QED
    BY <1>1, <1>5, <2>1, OneSignalQueued
<1>6. ElsewhereStep => \/ UNCHANGED signals \/ \E x \in Copy : SendReceipt(x)
                       \/ \E e \in End : signals' = [signals EXCEPT ![e] = {}]
  BY DEF ElsewhereStep, Write, RelayQueues, ApplyReceipt, SendFails, PollSignals, SignalsLost,
         ReceiptOnChannel, ClearReceipts, ReaderStep, ReaderStops, PullBoth, ReadCopy,
         AckBegins, DeleteHandled, RelayAcknowledges, senderKeeps, readerKeeps
<1>7. \A s \in Sessions : SessionStep(s) \/ ChannelDies(s) => UNCHANGED signals \/ SendOffer(s)
  BY DEF SessionStep, ChannelDies, SendFrame, StoredArrives, Fallback, EnvelopeArrives
<1>8. \A x : SignalStep(x) => UNCHANGED signals \/ ProcessOffer(x)
  BY DEF SignalStep, ProcessAnswer, ProcessReceipt
<1>9. (\E d \in Letter : TrySend(d)) \/ SenderReloads \/ UNCHANGED directVars => UNCHANGED signals
  BY DEF TrySend, SenderReloads, directVars
<1>. QED
  BY <1>1, <1>2, <1>3, <1>4, <1>5, <1>6, <1>7, <1>8, <1>9, DirectSteps

LEMMA PolledMove ==
  ASSUME DirectTyped, [DirectNext]_directVars
  PROVE  /\ polled' \in [End -> SUBSET Signal]
         /\ \A i \in End : polled'[i] \subseteq polled[i] \cup signals[i]
<1>. DEFINE Fine == /\ polled' \in [End -> SUBSET Signal]
                    /\ \A i \in End : polled'[i] \subseteq polled[i] \cup signals[i]
<1>1. polled \in [End -> SUBSET Signal] /\ signals \in [End -> SUBSET Signal]
  BY DEF DirectTyped, PathsOK
<1>2. ASSUME NEW e \in End, NEW q, q \subseteq polled[e] \cup signals[e], polled' = [polled EXCEPT ![e] = q]
      PROVE  Fine
  <2>1. \A i \in End : polled'[i] = IF i = e THEN q ELSE polled[i]
    BY <1>1, <1>2
  <2>2. q \in SUBSET Signal
    BY <1>1, <1>2
  <2>3. polled' \in [End -> SUBSET Signal]
    BY <1>1, <1>2, <2>2
  <2>. QED
    BY <1>2, <2>1, <2>3
<1>3. CASE UNCHANGED polled
  BY <1>1, <1>3
<1>4. "sender" \in End /\ "recipient" \in End
  BY DEF End
<1>5. ASSUME NEW e \in End, PollSignals(e) \/ SignalsLost(e) PROVE Fine
  <2>1. polled' = [polled EXCEPT ![e] = signals[e]] \/ polled' = [polled EXCEPT ![e] = {}]
    BY <1>5 DEF PollSignals, SignalsLost
  <2>. HIDE DEF Fine
  <2>. QED
    BY <1>2, <2>1
<1>6. ASSUME NEW x, SignalStep(x) PROVE Fine
  <2>1. \/ polled' = [polled EXCEPT !["recipient"] = polled["recipient"] \ {x}]
        \/ polled' = [polled EXCEPT !["sender"] = polled["sender"] \ {x}]
    BY <1>6 DEF SignalStep, ProcessOffer, ProcessAnswer, ProcessReceipt
  <2>2. \A e \in End : polled[e] \ {x} \subseteq polled[e] \cup signals[e]
    OBVIOUS
  <2>. HIDE DEF Fine
  <2>. QED
    BY <1>2, <1>4, <2>1, <2>2
<1>7. SenderReloads => polled' = [polled EXCEPT !["sender"] = {}]
  BY DEF SenderReloads
<1>8. ElsewhereStep => UNCHANGED polled \/ \E e \in End : PollSignals(e) \/ SignalsLost(e)
  BY DEF ElsewhereStep, Write, RelayQueues, ApplyReceipt, SendFails, ReceiptOnChannel, ClearReceipts,
         ReaderStep, ReaderStops, PullBoth, ReadCopy, SendReceipt, AckBegins, DeleteHandled,
         RelayAcknowledges, senderKeeps, readerKeeps
<1>9. \A s \in Sessions : SessionStep(s) \/ ChannelDies(s) => UNCHANGED polled
  BY DEF SessionStep, ChannelDies, SendOffer, SendFrame, StoredArrives, Fallback, EnvelopeArrives, readerKeeps
<1>10. (\E d \in Letter : TrySend(d)) \/ UNCHANGED directVars => UNCHANGED polled
  BY DEF TrySend, directVars
<1>. HIDE DEF Fine
<1>11. Fine
  BY <1>2, <1>3, <1>4, <1>5, <1>6, <1>7, <1>8, <1>9, <1>10, DirectSteps
<1>. QED
  BY <1>11 DEF Fine

LEMMA PathsStay ==
  ASSUME DirectTyped, [DirectNext]_directVars
  PROVE  PathsOK'
<1>1. Signal \subseteq Signal' /\ Frame \subseteq Frame'
  BY WireStays, PathsOfSessions DEF WireKept
<1>2. frames' \subseteq Frame
  <2>. SUFFICES ASSUME NEW f \in frames', f \notin frames PROVE f \in Frame
    BY DEF DirectTyped, PathsOK
  <2>. QED
    BY FramesMove DEF Frame, Copy
<1>3. polled' \in [End -> SUBSET Signal] /\ signals' \in [End -> SUBSET Signal]
  BY PolledMove, SignalsMove DEF SignalsMoved
<1>4. polled' \in [End -> SUBSET Signal'] /\ signals' \in [End -> SUBSET Signal']
  BY <1>1, <1>3
<1>5. \A e \in End : IsFiniteSet(signals'[e]) /\ Cardinality(signals'[e]) <= MaxSignals
  BY SignalsMove DEF SignalsMoved
<1>. QED
  BY <1>1, <1>2, <1>4, <1>5 DEF PathsOK, End

-----------------------------------------------------------------------------
(* The recipient's turn.                                                     *)
ReaderType ==
  [at : {"idle", "process", "receipts", "ack"}, batch : SUBSET Copy,
   acked : SUBSET Copy, handled : SUBSET Sessions]

LEMMA IdleIsTyped == IdleReader \in ReaderType
  BY DEF IdleReader, ReaderType

(* What can change the turn or the stored envelopes.                         *)
LEMMA ReaderMoves ==
  ASSUME [DirectNext]_directVars
  PROVE  \/ UNCHANGED <<reader, directBox>>
         \/ \E s \in Sessions : EnvelopeArrives(s)
         \/ \E x \in Copy : ReadCopy(x) \/ SendReceipt(x)
         \/ PullBoth \/ AckBegins \/ DeleteHandled \/ RelayAcknowledges \/ ReaderStops
<1>1. ElsewhereStep => \/ UNCHANGED <<reader, directBox>> \/ ReaderStep \/ ReaderStops
  BY DEF ElsewhereStep, Write, RelayQueues, ApplyReceipt, SendFails, PollSignals, SignalsLost,
         ReceiptOnChannel, ClearReceipts, senderKeeps, recipientKeeps
<1>2. \A s \in Sessions : SessionStep(s) \/ ChannelDies(s) => UNCHANGED <<reader, directBox>> \/ EnvelopeArrives(s)
  BY DEF SessionStep, ChannelDies, SendOffer, SendFrame, StoredArrives, Fallback, recipientKeeps
<1>3. \/ \E d \in Letter : TrySend(d)
      \/ \E e \in End : \E x \in polled[e] : SignalStep(x)
      \/ SenderReloads \/ UNCHANGED directVars
      => UNCHANGED <<reader, directBox>>
  BY DEF TrySend, SignalStep, ProcessOffer, ProcessAnswer, ProcessReceipt, SenderReloads, directVars,
         recipientKeeps
<1>. QED
  BY <1>1, <1>2, <1>3, DirectSteps DEF ReaderStep

LEMMA ReaderStays ==
  ASSUME DirectTyped, [DirectNext]_directVars
  PROVE  ReaderOK'
<1>1. Sessions \subseteq Sessions' /\ Copy \subseteq Copy'
  BY WireStays, PathsOfSessions DEF WireKept
<1>2. reader \in ReaderType /\ directBox \subseteq Sessions
  BY DEF DirectTyped, ReaderOK, ReaderType
<1>3. reader' \in ReaderType /\ directBox' \subseteq Sessions
  <2>1. CASE UNCHANGED <<reader, directBox>>
    BY <1>2, <2>1
  <2>2. ASSUME NEW s \in Sessions, EnvelopeArrives(s) PROVE reader' \in ReaderType /\ directBox' \subseteq Sessions
    BY <1>2, <2>2 DEF EnvelopeArrives, StoreDirect
  <2>3. ASSUME NEW x \in Copy, ReadCopy(x) \/ SendReceipt(x)
        PROVE  reader' \in ReaderType /\ directBox' \subseteq Sessions
    <3>1. directBox' = directBox
      BY <2>3 DEF ReadCopy, SendReceipt
    <3>2. CASE ReadCopy(x)
      <4>1. \/ reader' = [reader EXCEPT !.batch = @ \ {x}, !.acked = @ \cup {x}]
            \/ reader' = [reader EXCEPT !.batch = @ \ {x}]
        BY <3>2 DEF ReadCopy
      <4>2. reader.batch \ {x} \in SUBSET Copy /\ reader.acked \cup {x} \in SUBSET Copy
        BY <1>2 DEF ReaderType
      <4>3. \A b, a \in SUBSET Copy : /\ [reader EXCEPT !.batch = b, !.acked = a] \in ReaderType
                                     /\ [reader EXCEPT !.batch = b] \in ReaderType
        BY <1>2 DEF ReaderType
      <4>. QED
        BY <1>2, <3>1, <4>1, <4>2, <4>3
    <3>3. CASE SendReceipt(x)
      <4>1. x.session \in Sessions /\ reader' = [reader EXCEPT !.acked = @ \ {x}, !.handled = @ \cup {x.session}]
        BY <3>3 DEF SendReceipt, Copy
      <4>. QED
        BY <1>2, <3>1, <4>1 DEF ReaderType
    <3>. QED
      BY <2>3, <3>2, <3>3
  <2>4. CASE PullBoth
    <3>1. DirectCopies \cup RelayCopies \subseteq Copy
      BY <1>2 DEF DirectCopies, RelayCopies, Copy, DirectTyped, WireOK, WireRecord, OutboxOK
    <3>2. /\ reader' = [IdleReader EXCEPT !.at = "process", !.batch = DirectCopies \cup RelayCopies]
          /\ directBox' = directBox
      BY <2>4 DEF PullBoth
    <3>. QED
      BY <1>2, <3>1, <3>2, IdleIsTyped DEF ReaderType
  <2>5. CASE AckBegins
    <3>1. directBox' = directBox /\ (reader' = IdleReader \/ reader' = [reader EXCEPT !.at = "receipts"])
      BY <2>5 DEF AckBegins
    <3>. QED
      BY <1>2, <3>1, IdleIsTyped DEF ReaderType
  <2>6. CASE DeleteHandled
    <3>1. /\ directBox' = directBox \ reader.handled
          /\ reader' = IdleReader \/ reader' = [reader EXCEPT !.at = "ack", !.handled = {}]
      BY <2>6 DEF DeleteHandled
    <3>. QED
      BY <1>2, <3>1, IdleIsTyped DEF ReaderType
  <2>7. CASE RelayAcknowledges \/ ReaderStops
    BY <1>2, <2>7, IdleIsTyped DEF RelayAcknowledges, ReaderStops
  <2>. QED
    BY <2>1, <2>2, <2>3, <2>4, <2>5, <2>6, <2>7, ReaderMoves
<1>. QED
  BY <1>1, <1>3 DEF ReaderOK, ReaderType

-----------------------------------------------------------------------------
(* The sender's outbox and the relay's mailbox.                              *)

LEMMA TroubleCounted ==
  ASSUME directTrouble \in Nat, DirectTrouble
  PROVE  directTrouble' \in Nat
  BY DEF DirectTrouble

(* What can change the sender's calls, the mailbox and the messages.         *)
LEMMA SendingMoves ==
  ASSUME [DirectNext]_directVars
  PROVE  \/ UNCHANGED sending
         \/ \E d \in Letter : TrySend(d) \/ RelayQueues(d) \/ SendFails(d)
         \/ \E s \in Sessions : StoredArrives(s) \/ Fallback(s)
         \/ SenderReloads
<1>1. ElsewhereStep => UNCHANGED sending \/ \E d \in Letter : RelayQueues(d) \/ SendFails(d)
  BY DEF ElsewhereStep, Write, ApplyReceipt, PollSignals, SignalsLost, ReceiptOnChannel, ClearReceipts,
         ReaderStep, ReaderStops, PullBoth, ReadCopy, SendReceipt, AckBegins, DeleteHandled,
         RelayAcknowledges, senderKeeps, readerKeeps
<1>2. \A s \in Sessions : SessionStep(s) \/ ChannelDies(s) => UNCHANGED sending \/ StoredArrives(s) \/ Fallback(s)
  BY DEF SessionStep, ChannelDies, SendOffer, SendFrame, EnvelopeArrives, readerKeeps
<1>3. (\E e \in End : \E x \in polled[e] : SignalStep(x)) \/ UNCHANGED directVars => UNCHANGED sending
  BY DEF SignalStep, ProcessOffer, ProcessAnswer, ProcessReceipt, directVars
<1>. QED
  BY <1>1, <1>2, <1>3, DirectSteps

LEMMA MailMoves ==
  ASSUME [DirectNext]_directVars
  PROVE  \/ UNCHANGED <<waiting, savedMail, opening>>
         \/ \E d \in Letter : (Write(d) \/ ApplyReceipt(d)) /\ UNCHANGED <<savedMail, opening>>
         \/ \E x \in Copy : ReadCopy(x) /\ UNCHANGED waiting
<1>1. ElsewhereStep => \/ UNCHANGED <<waiting, savedMail, opening>>
                       \/ \E d \in Letter : (Write(d) \/ ApplyReceipt(d)) /\ UNCHANGED <<savedMail, opening>>
                       \/ \E x \in Copy : ReadCopy(x) /\ UNCHANGED waiting
  BY DEF ElsewhereStep, Write, ApplyReceipt, RelayQueues, SendFails, PollSignals, SignalsLost, ReceiptOnChannel,
         ClearReceipts, ReaderStep, ReaderStops, PullBoth, ReadCopy, SendReceipt, AckBegins, DeleteHandled,
         RelayAcknowledges, senderKeeps, readerKeeps, recipientKeeps
<1>2. \A s \in Sessions : SessionStep(s) \/ ChannelDies(s) => UNCHANGED <<waiting, savedMail, opening>>
  BY DEF SessionStep, ChannelDies, SendOffer, SendFrame, StoredArrives, Fallback, EnvelopeArrives,
         readerKeeps, recipientKeeps
<1>3. \/ \E d \in Letter : TrySend(d)
      \/ \E e \in End : \E x \in polled[e] : SignalStep(x)
      \/ SenderReloads \/ UNCHANGED directVars
      => UNCHANGED <<waiting, savedMail, opening>>
  BY DEF TrySend, SignalStep, ProcessOffer, ProcessAnswer, ProcessReceipt, SenderReloads, directVars,
         recipientKeeps
<1>. QED
  BY <1>1, <1>2, <1>3, DirectSteps

LEMMA BoxMoves ==
  ASSUME [DirectNext]_directVars
  PROVE  \/ UNCHANGED <<relayBox, relayReceipts, directReceipts>>
         \/ \E d \in Letter : RelayQueues(d) /\ UNCHANGED <<relayReceipts, directReceipts>>
         \/ \E x \in polled["sender"] : ProcessReceipt(x) /\ UNCHANGED <<relayBox, relayReceipts>>
         \/ \E f \in frames : ReceiptOnChannel(f) /\ UNCHANGED <<relayBox, relayReceipts>>
         \/ ClearReceipts /\ UNCHANGED relayBox
         \/ RelayAcknowledges /\ UNCHANGED directReceipts
<1>1. ElsewhereStep =>
         \/ UNCHANGED <<relayBox, relayReceipts, directReceipts>>
         \/ \E d \in Letter : RelayQueues(d) /\ UNCHANGED <<relayReceipts, directReceipts>>
         \/ \E f \in frames : ReceiptOnChannel(f) /\ UNCHANGED <<relayBox, relayReceipts>>
         \/ ClearReceipts /\ UNCHANGED relayBox
         \/ RelayAcknowledges /\ UNCHANGED directReceipts
  BY DEF ElsewhereStep, Write, ApplyReceipt, RelayQueues, SendFails, PollSignals, SignalsLost, ReceiptOnChannel,
         ClearReceipts, ReaderStep, ReaderStops, PullBoth, ReadCopy, SendReceipt, AckBegins, DeleteHandled,
         RelayAcknowledges, senderKeeps, readerKeeps, recipientKeeps
<1>2. \A s \in Sessions : SessionStep(s) \/ ChannelDies(s) => UNCHANGED <<relayBox, relayReceipts, directReceipts>>
  BY DEF SessionStep, ChannelDies, SendOffer, SendFrame, StoredArrives, Fallback, EnvelopeArrives,
         readerKeeps, recipientKeeps
<1>3. \A x : SignalStep(x) => \/ UNCHANGED <<relayBox, relayReceipts, directReceipts>>
                              \/ ProcessReceipt(x) /\ x \in polled["sender"] /\ UNCHANGED <<relayBox, relayReceipts>>
  BY DEF SignalStep, ProcessOffer, ProcessAnswer, ProcessReceipt, recipientKeeps
<1>4. (\E d \in Letter : TrySend(d)) \/ SenderReloads \/ UNCHANGED directVars
      => UNCHANGED <<relayBox, relayReceipts, directReceipts>>
  BY DEF TrySend, SenderReloads, directVars, recipientKeeps
<1>. QED
  BY <1>1, <1>2, <1>3, <1>4, DirectSteps

LEMMA SealedStays ==
  ASSUME [DirectNext]_directVars
  PROVE  UNCHANGED sealed /\ (UNCHANGED directTrouble \/ DirectTrouble)
<1>1. ElsewhereStep => UNCHANGED sealed /\ (UNCHANGED directTrouble \/ DirectTrouble)
  BY DEF ElsewhereStep, Write, ApplyReceipt, RelayQueues, SendFails, PollSignals, SignalsLost, ReceiptOnChannel,
         ClearReceipts, ReaderStep, ReaderStops, PullBoth, ReadCopy, SendReceipt, AckBegins, DeleteHandled,
         RelayAcknowledges, senderKeeps, readerKeeps, recipientKeeps
<1>2. \A s \in Sessions : SessionStep(s) \/ ChannelDies(s) => UNCHANGED sealed /\ (UNCHANGED directTrouble \/ DirectTrouble)
  BY DEF SessionStep, ChannelDies, SendOffer, SendFrame, StoredArrives, Fallback, EnvelopeArrives,
         readerKeeps, recipientKeeps
<1>3. \/ \E d \in Letter : TrySend(d)
      \/ \E e \in End : \E x \in polled[e] : SignalStep(x)
      \/ SenderReloads \/ UNCHANGED directVars
      => UNCHANGED sealed /\ (UNCHANGED directTrouble \/ DirectTrouble)
  BY DEF TrySend, SignalStep, ProcessOffer, ProcessAnswer, ProcessReceipt, SenderReloads, directVars,
         recipientKeeps
<1>. QED
  BY <1>1, <1>2, <1>3, DirectSteps

LEMMA SendingTyped ==
  ASSUME DirectTyped, [DirectNext]_directVars
  PROVE  sending' \in [Letter -> {"idle", "direct", "relay"}]
<1>1. sending \in [Letter -> {"idle", "direct", "relay"}] /\ \A s \in Sessions : wire[s].letter \in Letter
  BY DEF DirectTyped, OutboxOK, WireOK, WireRecord
<1>2. \A d \in Letter : \A v \in {"idle", "direct", "relay"} :
        [sending EXCEPT ![d] = v] \in [Letter -> {"idle", "direct", "relay"}]
  BY <1>1
<1>3. \A d \in Letter : TrySend(d) \/ RelayQueues(d) \/ SendFails(d) =>
        \E v \in {"idle", "direct", "relay"} : sending' = [sending EXCEPT ![d] = v]
  BY DEF TrySend, RelayQueues, SendFails
<1>4. \A s \in Sessions : StoredArrives(s) \/ Fallback(s) => UNCHANGED sending \/
        \E v \in {"idle", "direct", "relay"} : sending' = [sending EXCEPT ![wire[s].letter] = v]
  BY DEF StoredArrives, Fallback
<1>5. SenderReloads => sending' = [d \in Letter |-> "idle"]
  BY DEF SenderReloads
<1>. QED
  BY <1>1, <1>2, <1>3, <1>4, <1>5, SendingMoves

LEMMA OutboxStays ==
  ASSUME DirectTyped, [DirectNext]_directVars
  PROVE  OutboxOK'
<1>. OutboxOK
  BY DEF DirectTyped
<1>1. waiting' \subseteq Letter /\ savedMail' \subseteq Letter /\ opening' \subseteq sealed
  <2>1. \A x \in Copy : x.letter \in Letter
    BY DEF Copy
  <2>2. \A x \in Copy : ReadCopy(x) =>
          savedMail' \subseteq savedMail \cup {x.letter} /\ opening' \subseteq opening
    BY DEF ReadCopy, ReadMessage, SpendKey
  <2>3. \A d \in Letter : Write(d) \/ ApplyReceipt(d) => waiting' \subseteq waiting \cup {d}
    BY DEF Write, ApplyReceipt
  <2>. QED
    BY <2>1, <2>2, <2>3, MailMoves DEF OutboxOK
<1>2. relayBox' \subseteq Letter /\ relayReceipts' \subseteq Letter /\ directReceipts' \subseteq Letter
  <2>1. \A x \in polled["sender"] : ProcessReceipt(x) =>
          directReceipts' = directReceipts \cup {x.letter} /\ x.letter \in Letter
    BY SignalFacts DEF ProcessReceipt, DirectTyped, PathsOK, End
  <2>2. \A f \in frames : ReceiptOnChannel(f) =>
          directReceipts' = directReceipts \cup {f.letter} /\ f.letter \in Letter
    BY FrameFacts DEF ReceiptOnChannel, DirectTyped, PathsOK
  <2>3. ClearReceipts => relayReceipts' \subseteq relayReceipts /\ directReceipts' \subseteq directReceipts
    BY DEF ClearReceipts
  <2>4. RelayAcknowledges => relayReceipts' \subseteq relayReceipts \cup relayBox /\ relayBox' \subseteq relayBox
    BY DEF RelayAcknowledges
  <2>5. \A d \in Letter : RelayQueues(d) => relayBox' = relayBox \cup {d}
    BY DEF RelayQueues
  <2>. QED
    BY <2>1, <2>2, <2>3, <2>4, <2>5, BoxMoves DEF OutboxOK
<1>3. sealed' = sealed /\ directTrouble' \in Nat
  BY SealedStays, TroubleCounted DEF OutboxOK
<1>. QED
  BY <1>1, <1>2, <1>3, SendingTyped DEF OutboxOK

-----------------------------------------------------------------------------
(* A receipt, wherever it is, is of a saved letter.                          *)
ReceiptsOfSaved ==
  /\ relayReceipts \cup directReceipts \subseteq savedMail
  /\ \A e \in End : \A x \in signals[e] \cup polled[e] : x.type = "receipt" => x.letter \in savedMail
  /\ \A f \in frames : f.type = "receipt" => f.letter \in savedMail

(* What the turn holds: copies of their sessions' letters, the acknowledged  *)
(* ones saved before.                                                        *)
CopiesOfSessions ==
  \A x \in reader.batch \cup reader.acked :
    x.letter \in Letters /\ (x.session # 0 => wire[x.session].letter = x.letter)

AckedAreSaved ==
  /\ \A x \in reader.acked : x.letter \in savedMail
  /\ \A s \in reader.handled : wire[s].letter \in savedMail

(* Only what the user wrote travels.                                         *)
OnlyWritten ==
  /\ relayBox \subseteq Letters
  /\ \A d \in Letter : sending[d] # "idle" => d \in Letters
  /\ \A s \in Sessions : wire[s].letter \in Letters

(* The control frame, and the sender that has seen it, speak of an envelope  *)
(* that is stored or read.                                                   *)
Stored(s) == s \in directBox \/ wire[s].letter \in savedMail
StoredBeforeReported ==
  \A s \in Sessions :
    (wire[s].near = "open" \/ [type |-> "stored", session |-> s] \in frames) => Stored(s)

DirectInv ==
  DirectTyped /\ ReceiptsOfSaved /\ CopiesOfSessions /\ AckedAreSaved /\ OnlyWritten /\ StoredBeforeReported

LEMMA LettersGrow ==
  ASSUME DirectInv, [DirectNext]_directVars
  PROVE  savedMail \subseteq savedMail' /\ Letters \subseteq Letters'
<1>1. \A d \in Letter : Write(d) => waiting \subseteq waiting'
  BY DEF Write
<1>2. \A d \in Letter : ApplyReceipt(d) => waiting' = waiting \ {d} /\ d \in savedMail
  BY DEF ApplyReceipt, DirectInv, ReceiptsOfSaved
<1>3. \A x \in Copy : ReadCopy(x) => savedMail \subseteq savedMail'
  BY DEF ReadCopy, ReadMessage
<1>. QED
  BY <1>1, <1>2, <1>3, MailMoves DEF Letters

LEMMA ReceiptsStaySaved ==
  ASSUME DirectInv, [DirectNext]_directVars
  PROVE  ReceiptsOfSaved'
<1>. DirectTyped /\ ReceiptsOfSaved /\ AckedAreSaved /\ savedMail \subseteq savedMail'
  BY LettersGrow DEF DirectInv
<1>1. \A x \in Copy : SendReceipt(x) => x.letter \in savedMail
  BY DEF SendReceipt, AckedAreSaved
<1>2. relayReceipts' \cup directReceipts' \subseteq savedMail
  <2>1. \A x \in polled["sender"] : ProcessReceipt(x) => directReceipts' \subseteq savedMail
    BY DEF ProcessReceipt, ReceiptsOfSaved, End
  <2>2. \A f \in frames : ReceiptOnChannel(f) => directReceipts' \subseteq savedMail
    BY DEF ReceiptOnChannel, ReceiptsOfSaved
  <2>3. ClearReceipts => relayReceipts' \cup directReceipts' \subseteq savedMail
    BY DEF ClearReceipts, ReceiptsOfSaved
  <2>4. RelayAcknowledges => relayReceipts' \subseteq savedMail
    BY DEF RelayAcknowledges, ReceiptsOfSaved, AckedAreSaved
  <2>. QED
    BY <2>1, <2>2, <2>3, <2>4, BoxMoves DEF ReceiptsOfSaved
<1>3. \A e \in End : \A x \in signals'[e] \cup polled'[e] : x.type = "receipt" => x.letter \in savedMail
  BY <1>1, SignalsMove, PolledMove DEF SignalsMoved, ReceiptsOfSaved
<1>4. \A f \in frames' : f.type = "receipt" => f.letter \in savedMail
  BY <1>1, FramesMove DEF ReceiptsOfSaved
<1>. QED
  BY <1>2, <1>3, <1>4 DEF ReceiptsOfSaved

LEMMA TurnStaysSaved ==
  ASSUME DirectInv, [DirectNext]_directVars
  PROVE  CopiesOfSessions' /\ AckedAreSaved'
<1>. DirectTyped /\ CopiesOfSessions /\ AckedAreSaved /\ OnlyWritten
  BY DEF DirectInv
<1>. DEFINE Held(x) == x.letter \in Letters /\ (x.session # 0 => wire[x.session].letter = x.letter)
<1>1. savedMail \subseteq savedMail' /\ Letters \subseteq Letters' /\ WireKept
  BY LettersGrow, WireStays
<1>2. /\ reader.batch \subseteq Copy /\ reader.acked \subseteq Copy /\ reader.handled \subseteq Sessions
      /\ reader \in ReaderType
  BY DEF DirectTyped, ReaderOK, ReaderType
<1>3. IdleReader.batch = {} /\ IdleReader.acked = {} /\ IdleReader.handled = {}
  BY DEF IdleReader
<1>4. \A x \in reader.batch \cup reader.acked : Held(x)
  BY DEF CopiesOfSessions
<1>5. /\ \A x \in reader'.batch \cup reader'.acked : x \in Copy /\ Held(x)
      /\ \A x \in reader'.acked : x.letter \in savedMail'
      /\ \A s \in reader'.handled : s \in Sessions /\ wire[s].letter \in savedMail
  <2>1. CASE reader' = reader \/ reader' = IdleReader
    BY <1>1, <1>2, <1>3, <1>4, <2>1 DEF AckedAreSaved
  <2>2. ASSUME NEW x \in Copy, ReadCopy(x)
        PROVE  /\ reader'.batch \cup reader'.acked \subseteq reader.batch \cup reader.acked
               /\ reader'.acked \subseteq reader.acked \cup {x} /\ reader'.handled = reader.handled
               /\ reader'.acked = reader.acked \/ x.letter \in savedMail'
    <3>1. CASE Opens(x.letter)
      <4>1. /\ savedMail' = savedMail \cup {x.letter} /\ x \in reader.batch
            /\ reader' = [reader EXCEPT !.batch = @ \ {x}, !.acked = @ \cup {x}]
        BY <2>2, <3>1 DEF ReadCopy, ReadMessage
      <4>2. /\ reader'.batch = reader.batch \ {x} /\ reader'.acked = reader.acked \cup {x}
            /\ reader'.handled = reader.handled
        BY <1>2, <4>1 DEF ReaderType
      <4>. QED
        BY <4>1, <4>2
    <3>2. CASE ~Opens(x.letter)
      <4>1. reader' = [reader EXCEPT !.batch = @ \ {x}]
        BY <2>2, <3>2 DEF ReadCopy
      <4>2. reader'.batch = reader.batch \ {x} /\ reader'.acked = reader.acked /\ reader'.handled = reader.handled
        BY <1>2, <4>1 DEF ReaderType
      <4>. QED
        BY <4>2
    <3>. QED
      BY <3>1, <3>2
  <2>3. ASSUME NEW x \in Copy, SendReceipt(x)
        PROVE  /\ reader'.batch = reader.batch /\ reader'.acked \subseteq reader.acked
               /\ reader'.handled = reader.handled \cup {x.session}
               /\ x.session \in Sessions /\ wire[x.session].letter \in savedMail
    <3>1. reader' = [reader EXCEPT !.acked = @ \ {x}, !.handled = @ \cup {x.session}]
      BY <2>3 DEF SendReceipt
    <3>2. x \in reader.acked /\ x.session # 0
      BY <2>3 DEF SendReceipt
    <3>3. /\ reader'.batch = reader.batch /\ reader'.acked = reader.acked \ {x}
          /\ reader'.handled = reader.handled \cup {x.session}
      BY <1>2, <3>1 DEF ReaderType
    <3>4. x.session \in Sessions /\ wire[x.session].letter \in savedMail
      BY <3>2 DEF Copy, CopiesOfSessions, AckedAreSaved
    <3>. QED
      BY <3>3, <3>4
  <2>4. CASE PullBoth
    <3>1. reader' = [IdleReader EXCEPT !.at = "process", !.batch = DirectCopies \cup RelayCopies]
      BY <2>4 DEF PullBoth
    <3>2. reader'.batch = DirectCopies \cup RelayCopies /\ reader'.acked = {} /\ reader'.handled = {}
      BY <3>1 DEF IdleReader
    <3>3. \A x \in DirectCopies : x \in Copy /\ Held(x)
      BY DEF DirectCopies, OnlyWritten, Copy, DirectTyped, ReaderOK, WireOK, WireRecord
    <3>4. \A x \in RelayCopies : x \in Copy /\ Held(x)
      BY DEF RelayCopies, OnlyWritten, Copy, DirectTyped, OutboxOK
    <3>. QED
      BY <3>2, <3>3, <3>4
  <2>5. CASE AckBegins
    <3>1. reader' = IdleReader \/ reader' = [reader EXCEPT !.at = "receipts"]
      BY <2>5 DEF AckBegins
    <3>2. CASE reader' = [reader EXCEPT !.at = "receipts"]
      <4>1. reader'.batch = reader.batch /\ reader'.acked = reader.acked /\ reader'.handled = reader.handled
        BY <1>2, <3>2 DEF ReaderType
      <4>. QED
        BY <1>1, <1>2, <1>4, <4>1 DEF AckedAreSaved
    <3>. QED
      BY <2>1, <3>1, <3>2
  <2>6. CASE DeleteHandled
    <3>1. reader' = IdleReader \/ reader' = [reader EXCEPT !.at = "ack", !.handled = {}]
      BY <2>6 DEF DeleteHandled
    <3>2. CASE reader' = [reader EXCEPT !.at = "ack", !.handled = {}]
      <4>1. reader'.batch = reader.batch /\ reader'.acked = reader.acked /\ reader'.handled = {}
        BY <1>2, <3>2 DEF ReaderType
      <4>. QED
        BY <1>1, <1>2, <1>4, <4>1 DEF AckedAreSaved
    <3>. QED
      BY <2>1, <3>1, <3>2
  <2>7. RelayAcknowledges \/ ReaderStops => reader' = IdleReader
    BY DEF RelayAcknowledges, ReaderStops
  <2>8. \A s \in Sessions : EnvelopeArrives(s) => reader' = reader
    BY DEF EnvelopeArrives
  <2>9. ASSUME NEW x \in Copy, ReadCopy(x) \/ SendReceipt(x)
        PROVE  /\ \A y \in reader'.batch \cup reader'.acked : y \in Copy /\ Held(y)
               /\ \A y \in reader'.acked : y.letter \in savedMail'
               /\ \A s \in reader'.handled : s \in Sessions /\ wire[s].letter \in savedMail
    <3>. HIDE DEF Held
    <3>. QED
      BY <1>1, <1>2, <1>4, <2>2, <2>3, <2>9 DEF AckedAreSaved
  <2>. HIDE DEF Held
  <2>. QED
    BY <2>1, <2>4, <2>5, <2>6, <2>7, <2>8, <2>9, ReaderMoves
<1>6. ASSUME NEW x \in Copy, Held(x)
      PROVE  x.letter \in Letters' /\ (x.session # 0 => wire'[x.session].letter = x.letter)
  BY <1>1, <1>6 DEF WireKept, Copy
<1>7. \A s \in Sessions : wire'[s].letter = wire[s].letter
  BY <1>1 DEF WireKept
<1>. QED
  BY <1>1, <1>5, <1>6, <1>7 DEF CopiesOfSessions, AckedAreSaved

LEMMA NewSessions ==
  ASSUME DirectTyped, [DirectNext]_directVars, NEW s \in Sessions', s \notin Sessions
  PROVE  \E d \in Letter : TrySend(d) /\ wire'[s].letter = d /\ wire'[s].near = "offer"
<1>1. CASE UNCHANGED wire
  BY <1>1 DEF Sessions
<1>2. UNCHANGED directVars => UNCHANGED wire
  BY DEF directVars
<1>3. PICK d \in Letter : TrySend(d)
  BY <1>1, <1>2, DirectSteps, SessionStepKeepsWire, SignalStepKeepsWire, ReloadKeepsWire, ElsewhereKeepsWire
<1>4. CASE ~UNCHANGED wire
  <2>. DEFINE S == Sessions
              k == Cardinality(Sessions) + 1
              r == [letter |-> d, near |-> "offer", far |-> "none"]
  <2>1. wire' = [t \in S \cup {k} |-> IF t \in S THEN wire[t] ELSE r]
    BY <1>3, <1>4 DEF TrySend
  <2>2. r.letter = d /\ r.near = "offer" /\ s \in DOMAIN wire' /\ s \notin S
    BY DEF Sessions
  <2>. HIDE DEF S, k, r
  <2>3. wire'[s] = r
    BY <2>1, <2>2
  <2>. QED
    BY <1>3, <2>2, <2>3
<1>. QED
  BY <1>1, <1>4

LEMMA OpensOnReport ==
  ASSUME DirectTyped, [DirectNext]_directVars, NEW s \in Sessions, wire'[s].near = "open"
  PROVE  wire[s].near = "open" \/ StoredArrives(s)
<1>. WireOK
  BY DEF DirectTyped
<1>1. CASE UNCHANGED wire
  BY <1>1
<1>2. ASSUME NEW d \in Letter, TrySend(d) PROVE wire[s].near = "open"
  <2>1. wire' = wire \/ wire' = [t \in Sessions \cup {Cardinality(Sessions) + 1} |->
          IF t \in Sessions THEN wire[t] ELSE [letter |-> d, near |-> "offer", far |-> "none"]]
    BY <1>2 DEF TrySend
  <2>2. wire'[s] = wire[s]
    BY <2>1
  <2>. QED
    BY <2>2
<1>3. ASSUME NEW t \in Sessions, SessionStep(t) \/ ChannelDies(t) PROVE wire[s].near = "open" \/ StoredArrives(s)
  <2>1. CASE SendOffer(t)
    <3>1. wire' = [wire EXCEPT ![t].near = "wait"]
      BY <2>1 DEF SendOffer
    <3>. QED
      BY <3>1, NearMoves
  <2>2. CASE SendFrame(t)
    <3>. DEFINE r == [wire[t] EXCEPT !.near = "frame", !.far = "open"]
    <3>1. wire' = [wire EXCEPT ![t] = r]
      BY <2>2 DEF SendFrame
    <3>2. r \in WireRecord /\ r.letter = wire[t].letter /\ r.near = "frame"
      BY DEF WireOK, WireRecord
    <3>. HIDE DEF r
    <3>. QED
      BY <3>1, <3>2, SessionMoves
  <2>3. CASE StoredArrives(t)
    <3>1. UNCHANGED wire \/ wire' = [wire EXCEPT ![t].near = "open"]
      BY <2>3 DEF StoredArrives
    <3>. QED
      BY <1>1, <2>3, <3>1, NearMoves
  <2>4. CASE Fallback(t)
    <3>1. wire' = [wire EXCEPT ![t].near = "closed"]
      BY <2>4 DEF Fallback
    <3>. QED
      BY <3>1, NearMoves
  <2>5. CASE ChannelDies(t)
    <3>1. PICK far \in {wire[t].far, "closed"} : wire' = [wire EXCEPT ![t].far = far]
      BY <2>5 DEF ChannelDies
    <3>2. far \in {"none", "answered", "open", "closed"}
      BY <3>1 DEF WireOK, WireRecord
    <3>. QED
      BY <3>1, <3>2, FarMoves
  <2>6. EnvelopeArrives(t) => UNCHANGED wire
    BY DEF EnvelopeArrives, readerKeeps
  <2>. QED
    BY <1>1, <1>3, <2>1, <2>2, <2>3, <2>4, <2>5, <2>6 DEF SessionStep
<1>4. ASSUME NEW e \in End, NEW x \in polled[e], SignalStep(x) PROVE wire[s].near = "open"
  <2>1. \A y \in Signal : y.type \in {"offer", "answer"} => y.session \in Sessions
    BY SignalFacts
  <2>2. polled["recipient"] \subseteq Signal /\ polled["sender"] \subseteq Signal
    BY DEF DirectTyped, PathsOK, End
  <2>3. CASE ProcessOffer(x)
    <3>1. x.session \in Sessions /\ wire' = [wire EXCEPT ![x.session].far = "answered"]
      BY <2>1, <2>2, <2>3 DEF ProcessOffer
    <3>. QED
      BY <3>1, FarMoves
  <2>4. CASE ProcessAnswer(x)
    <3>1. /\ x.session \in Sessions
          /\ UNCHANGED wire \/ wire' = [wire EXCEPT ![x.session].near = "answered"]
      BY <2>1, <2>2, <2>4 DEF ProcessAnswer
    <3>. QED
      BY <1>1, <3>1, NearMoves
  <2>5. ProcessReceipt(x) => UNCHANGED wire
    BY DEF ProcessReceipt
  <2>. QED
    BY <1>4, <2>3, <2>4, <2>5 DEF SignalStep
<1>5. UNCHANGED directVars => UNCHANGED wire
  BY DEF directVars
<1>6. ~SenderReloads
  BY ReloadKeepsWire
<1>. QED
  BY <1>1, <1>2, <1>3, <1>4, <1>5, <1>6, DirectSteps, ElsewhereKeepsWire

LEMMA OnlyWrittenStays ==
  ASSUME DirectInv, [DirectNext]_directVars
  PROVE  OnlyWritten'
<1>. DirectTyped /\ OnlyWritten
  BY DEF DirectInv
<1>1. Letters \subseteq Letters' /\ WireKept
  BY LettersGrow, WireStays
<1>2. relayBox' \subseteq Letters
  <2>1. \A d \in Letter : RelayQueues(d) => relayBox' = relayBox \cup {d} /\ d \in Letters
    BY DEF RelayQueues, OnlyWritten
  <2>2. RelayAcknowledges => relayBox' \subseteq relayBox
    BY DEF RelayAcknowledges
  <2>. QED
    BY <2>1, <2>2, BoxMoves DEF OnlyWritten
<1>3. \A d \in Letter : sending'[d] # "idle" => d \in Letters
  <2>1. sending \in [Letter -> {"idle", "direct", "relay"}] /\ \A s \in Sessions : wire[s].letter \in Letters
    BY DEF DirectTyped, OutboxOK, OnlyWritten
  <2>2. ASSUME NEW d \in Letter, NEW v, sending' = [sending EXCEPT ![d] = v], d \in Letters \/ v = "idle"
        PROVE  \A c \in Letter : sending'[c] # "idle" => c \in Letters
    BY <2>1, <2>2 DEF OnlyWritten
  <2>3. \A d \in Letter : TrySend(d) => d \in Letters /\ \E v : sending' = [sending EXCEPT ![d] = v]
    BY DEF TrySend, Letters
  <2>4. \A d \in Letter : RelayQueues(d) \/ SendFails(d) => sending' = [sending EXCEPT ![d] = "idle"]
    BY DEF RelayQueues, SendFails
  <2>5. \A s \in Sessions : StoredArrives(s) \/ Fallback(s) =>
          UNCHANGED sending \/ \E v : sending' = [sending EXCEPT ![wire[s].letter] = v]
    BY DEF StoredArrives, Fallback
  <2>6. SenderReloads => sending' = [d \in Letter |-> "idle"]
    BY DEF SenderReloads
  <2>7. \A s \in Sessions : wire[s].letter \in Letter
    BY DEF DirectTyped, WireOK, WireRecord
  <2>8. CASE UNCHANGED sending
    BY <2>8 DEF OnlyWritten
  <2>9. CASE SenderReloads
    BY <2>6, <2>9
  <2>10. ASSUME NEW d \in Letter, TrySend(d) \/ RelayQueues(d) \/ SendFails(d)
         PROVE  \A c \in Letter : sending'[c] # "idle" => c \in Letters
    BY <2>2, <2>3, <2>4, <2>10
  <2>11. ASSUME NEW s \in Sessions, StoredArrives(s) \/ Fallback(s)
         PROVE  \A c \in Letter : sending'[c] # "idle" => c \in Letters
    BY <2>1, <2>2, <2>5, <2>7, <2>8, <2>11
  <2>. QED
    BY <2>8, <2>9, <2>10, <2>11, SendingMoves
<1>4. ASSUME NEW s \in Sessions' PROVE wire'[s].letter \in Letters'
  <2>1. CASE s \in Sessions
    BY <1>1, <2>1 DEF WireKept, OnlyWritten
  <2>2. CASE s \notin Sessions
    <3>1. PICK d \in Letter : TrySend(d) /\ wire'[s].letter = d
      BY <2>2, NewSessions
    <3>. QED
      BY <1>1, <3>1 DEF TrySend, Letters
  <2>. QED
    BY <2>1, <2>2
<1>. QED
  BY <1>1, <1>2, <1>3, <1>4 DEF OnlyWritten

LEMMA StoredStays ==
  ASSUME DirectInv, [DirectNext]_directVars
  PROVE  StoredBeforeReported'
<1>. DirectTyped /\ StoredBeforeReported /\ AckedAreSaved
  BY DEF DirectInv
<1>1. savedMail \subseteq savedMail' /\ WireKept
  BY LettersGrow, WireStays
<1>2. ASSUME NEW s \in Sessions, Stored(s) PROVE Stored(s)'
  <2>1. DeleteHandled => directBox' = directBox \ reader.handled
    BY DEF DeleteHandled
  <2>2. \A t \in Sessions : EnvelopeArrives(t) => directBox' = directBox \cup {t}
    BY DEF EnvelopeArrives, StoreDirect
  <2>3. PullBoth \/ AckBegins \/ RelayAcknowledges \/ ReaderStops => directBox' = directBox
    BY DEF PullBoth, AckBegins, RelayAcknowledges, ReaderStops
  <2>4. \A x \in Copy : ReadCopy(x) \/ SendReceipt(x) => directBox' = directBox
    BY DEF ReadCopy, SendReceipt
  <2>5. s \in directBox /\ s \notin directBox' => s \in reader.handled
    BY <2>1, <2>2, <2>3, <2>4, ReaderMoves
  <2>. QED
    BY <1>1, <1>2, <2>5 DEF Stored, AckedAreSaved, WireKept
<1>3. ASSUME NEW s \in Sessions', wire'[s].near = "open" \/ [type |-> "stored", session |-> s] \in frames'
      PROVE  Stored(s)'
  <2>. DEFINE f == [type |-> "stored", session |-> s]
  <2>1. f.type = "stored" /\ f.session = s
    OBVIOUS
  <2>2. CASE f \in frames' /\ f \notin frames
    <3>1. PICK t \in Sessions : EnvelopeArrives(t) /\ f = [type |-> "stored", session |-> t]
      BY <2>1, <2>2, FramesMove
    <3>2. s = t
      BY <2>1, <3>1
    <3>3. directBox' = directBox \cup {s}
      BY <3>1, <3>2 DEF EnvelopeArrives, StoreDirect
    <3>. QED
      BY <3>3 DEF Stored
  <2>3. CASE f \in frames
    <3>1. s \in Sessions
      BY <2>1, <2>3, FrameFacts DEF DirectTyped, PathsOK
    <3>. QED
      BY <1>2, <2>3, <3>1 DEF StoredBeforeReported
  <2>4. CASE wire'[s].near = "open"
    <3>1. s \in Sessions
      BY <2>4, NewSessions
    <3>2. wire[s].near = "open" \/ f \in frames
      BY <2>4, <3>1, OpensOnReport DEF StoredArrives
    <3>. QED
      BY <1>2, <3>1, <3>2 DEF StoredBeforeReported
  <2>. QED
    BY <1>3, <2>2, <2>3, <2>4
<1>. QED
  BY <1>3 DEF StoredBeforeReported

LEMMA DirectStart ==
  ASSUME DirectInit
  PROVE  DirectInv
<1>1. Sessions = {} /\ wire \in [Sessions -> WireRecord]
  BY DEF DirectInit, Sessions
<1>2. \E n \in Nat : Sessions = 1 .. n
  <2>1. 1 .. 0 = {} /\ 0 \in Nat
    OBVIOUS
  <2>. QED
    BY <1>1, <2>1
<1>3. PathsOK
  <2>1. IsFiniteSet({}) /\ Cardinality({}) = 0 /\ 0 <= MaxSignals
    BY FS_EmptySet, DirectAssumption
  <2>. QED
    BY <2>1 DEF DirectInit, PathsOK
<1>4. reader = IdleReader /\ reader.batch = {} /\ reader.acked = {} /\ reader.handled = {} /\ reader \in ReaderType
  BY IdleIsTyped DEF DirectInit, IdleReader
<1>5. ReaderOK /\ OutboxOK
  BY <1>4 DEF DirectInit, ReaderOK, OutboxOK, ReaderType
<1>6. ReceiptsOfSaved /\ CopiesOfSessions /\ AckedAreSaved
  BY <1>4 DEF DirectInit, ReceiptsOfSaved, CopiesOfSessions, AckedAreSaved
<1>7. OnlyWritten /\ StoredBeforeReported
  BY <1>1 DEF DirectInit, OnlyWritten, StoredBeforeReported
<1>. QED
  BY <1>1, <1>2, <1>3, <1>5, <1>6, <1>7 DEF DirectInv, DirectTyped, WireOK

\* The inductive invariant of the direct transport: types; a receipt, on the channel,
\* in a signal or at a relay, is of a saved letter; the turn holds copies of letters
\* the user wrote; and what is reported as stored is stored or read.
THEOREM DirectInvariant == DirectSpec => []DirectInv
<1>1. DirectInit => DirectInv
  BY DirectStart
<1>2. DirectInv /\ [DirectNext]_directVars => DirectInv'
  <2>. SUFFICES ASSUME DirectInv, [DirectNext]_directVars PROVE DirectInv'
    OBVIOUS
  <2>. DirectTyped
    BY DEF DirectInv
  <2>1. DirectTyped'
    BY WireStays, PathsStay, ReaderStays, OutboxStays DEF DirectTyped
  <2>. QED
    BY <2>1, ReceiptsStaySaved, TurnStaysSaved, OnlyWrittenStays, StoredStays DEF DirectInv
<1>. QED
  BY <1>1, <1>2, PTL DEF DirectSpec

\* Sessions are numbered without gaps, no signaling queue exceeds maxQueue, and all
\* that is under way is of a known session or letter (direct-signaling.ts).
THEOREM DirectTypes == DirectSpec => []DirectTypeOK
<1>1. DirectInv => DirectTypeOK
  BY DirectTypedIsTypeOK DEF DirectInv
<1>. QED
  BY <1>1, DirectInvariant, PTL

\* "delivered-direct" is only reported for an envelope that the recipient has stored,
\* and it stays until its message is saved (bindChannel, acknowledgeEnvelopes).
THEOREM DeliveredIsKept == DirectSpec => []DeliveredDirectIsKept
<1>1. DirectInv => DeliveredDirectIsKept
  BY DEF DirectInv, StoredBeforeReported, Stored, DeliveredDirectIsKept
<1>. QED
  BY <1>1, DirectInvariant, PTL

(* Module DirectTransport implements module ReliableDelivery: to write is to *)
(* submit, to read a copy to store, to apply a receipt to release.           *)
LEMMA DirectStepImplements ==
  ASSUME DirectInv, [DirectNext]_directVars
  PROVE  [DirectPromise!Next]_(DirectPromise!vars)
<1>1. CASE UNCHANGED <<waiting, savedMail>>
  BY <1>1 DEF DirectPromise!vars, Letters
<1>2. ASSUME NEW d \in Letter, Write(d), UNCHANGED savedMail
      PROVE  [DirectPromise!Next]_(DirectPromise!vars)
  <2>1. /\ d \notin Letters /\ waiting' = waiting \cup {d} /\ savedMail' = savedMail
        /\ Letters' = Letters \cup {d}
    BY <1>2 DEF Write, Letters
  <2>2. DirectPromise!Submit(d)
    BY <2>1 DEF DirectPromise!Submit
  <2>. QED
    BY <2>2 DEF DirectPromise!Next
<1>3. ASSUME NEW d \in Letter, ApplyReceipt(d), UNCHANGED savedMail
      PROVE  [DirectPromise!Next]_(DirectPromise!vars)
  <2>1. d \in savedMail /\ waiting' = waiting \ {d} /\ savedMail' = savedMail
    BY <1>3 DEF ApplyReceipt, DirectInv, ReceiptsOfSaved
  <2>2. Letters' = Letters
    BY <2>1 DEF Letters
  <2>3. DirectPromise!Release(d)
    BY <2>1, <2>2 DEF DirectPromise!Release
  <2>. QED
    BY <2>3 DEF DirectPromise!Next
<1>4. ASSUME NEW x \in Copy, ReadCopy(x), UNCHANGED waiting
      PROVE  [DirectPromise!Next]_(DirectPromise!vars)
  <2>1. x.letter \in Letters /\ x.letter \in Letter
    BY <1>4 DEF ReadCopy, DirectInv, CopiesOfSessions, Copy
  <2>2. UNCHANGED savedMail \/ savedMail' = savedMail \cup {x.letter}
    BY <1>4 DEF ReadCopy, ReadMessage
  <2>3. CASE savedMail' = savedMail \cup {x.letter}
    <3>1. Letters' = Letters /\ waiting' = waiting
      BY <1>4, <2>1, <2>3 DEF Letters
    <3>2. DirectPromise!Store(x.letter)
      BY <2>1, <2>3, <3>1 DEF DirectPromise!Store
    <3>. QED
      BY <2>1, <3>2 DEF DirectPromise!Next
  <2>. QED
    BY <1>1, <1>4, <2>2, <2>3
<1>. QED
  BY <1>1, <1>2, <1>3, <1>4, MailMoves

\* A letter leaves the outbox only when the recipient has saved it, over whichever of
\* the two paths it or its receipts travelled, through reloads, lost signals and dead
\* channels (window.fetch of instrumentation-client.ts, sync of quantic-network-v11-app.tsx).
THEOREM DirectImplements == DirectSpec => DirectKeepsPromise
<1>1. DirectInit => DirectPromise!Init
  BY DEF DirectInit, DirectPromise!Init, Letters
<1>2. DirectInv /\ [DirectNext]_directVars => [DirectPromise!Next]_(DirectPromise!vars)
  BY DirectStepImplements
<1>. QED
  BY <1>1, <1>2, DirectInvariant, PTL DEF DirectSpec, DirectKeepsPromise, DirectPromise!Spec

-----------------------------------------------------------------------------
(* The components side by side.                                              *)

LEMMA NetworkStarts ==
  ASSUME NetworkInit
  PROVE  RegistryInit /\ PoolInit /\ PairingInit /\ RegistrationInit /\ DirectInit
  BY DEF NetworkInit

LEMMA NetworkSteps ==
  ASSUME [NetworkNext]_networkVars
  PROVE  /\ [RegistryNext]_registryVars /\ [PoolNext]_poolVars /\ [PairingNext]_pairingVars
         /\ [RegistrationNext]_regVars /\ [DirectNext]_directVars
<1>1. UNCHANGED networkVars =>
        /\ UNCHANGED registryVars /\ UNCHANGED poolVars /\ UNCHANGED pairingVars
        /\ UNCHANGED regVars /\ UNCHANGED directVars
  BY DEF networkVars
<1>. QED
  BY <1>1 DEF NetworkNext

\* What one run lets go beside another are behaviours of each component: what is proved
\* of a component holds in their composition.
THEOREM NetworkKeepsComponents ==
  NetworkSpec => RegistrySpec /\ PoolSpec /\ PairingSpec /\ RegistrationSpec /\ DirectSpec
<1>1. NetworkInit => RegistryInit /\ PoolInit /\ PairingInit /\ RegistrationInit /\ DirectInit
  BY NetworkStarts
<1>2. [NetworkNext]_networkVars =>
        /\ [RegistryNext]_registryVars /\ [PoolNext]_poolVars /\ [PairingNext]_pairingVars
        /\ [RegistrationNext]_regVars /\ [DirectNext]_directVars
  BY NetworkSteps
<1>. QED
  BY <1>1, <1>2, PTL
     DEF NetworkSpec, RegistrySpec, PoolSpec, PairingSpec, RegistrationSpec, DirectSpec

\* The types of the five components hold together.
THEOREM NetworkTypes == NetworkSpec => []NetworkTypeOK
<1>1. RegistryTypeOK /\ PoolTypeOK /\ PairingTypeOK /\ RegistrationTypeOK /\ DirectTypeOK => NetworkTypeOK
  BY DEF NetworkTypeOK
<1>. QED
  BY <1>1, NetworkKeepsComponents, RegistryTypes, PoolTypes, PairingTypes, RegistrationTypes,
     DirectTypes, PTL
=============================================================================
