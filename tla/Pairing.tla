------------------------------- MODULE Pairing -------------------------------
(***************************************************************************)
(* Linking a device by QR: the root's devices page, the rendezvous kept by *)
(* the web server, and the pages of the newcomers that opened the link.    *)
(* lib/quantic/pairing-store.mjs, pairing-relay.ts, device.ts and          *)
(* devices-v11-app.tsx.                                                    *)
(*                                                                         *)
(* A newcomer generates a device (numbered here) each time it joins.  The  *)
(* root's manifest is the set of devices it lists (ManifestRegistry models *)
(* how it is published); secrets, signatures and the encryption of the     *)
(* package are ideal; the size of the history does not matter.             *)
(***************************************************************************)
EXTENDS Naturals, FiniteSets

CONSTANTS
  Newcomer,        \* browsers that open the link
  MaxInvites,      \* TLC bound: invitations created
  MaxJoins,        \* TLC bound: devices generated
  MaxPairFaults    \* TLC bound: lost calls, expiries, restarts, reloads at a bad moment

ASSUME PairingAssumption ==
  IsFiniteSet(Newcomer) /\ MaxInvites \in Nat /\ MaxJoins \in Nat /\ MaxPairFaults \in Nat

VARIABLES
  invites,     \* pairing store: invitation -> its request and package, 0 for none
  created,     \* invitations created so far
  root,        \* the root's devices page: invitation shown, request polled, approval under way
  authorised,  \* devices in the published manifest
  joins,       \* devices generated so far
  savedPending,\* newcomer -> pending device in IndexedDB, 0 for none
  page,        \* newcomer -> state of its devices page
  tokened,  \* devices with a token on the relay
  installed,   \* newcomer -> device of its saved identity, 0 for none
  pairTrouble

pairingVars ==
  <<invites, created, root, authorised, joins, savedPending, page, tokened, installed, pairTrouble>>

Id == 1 .. created
Key == 1 .. joins
OpenPage == [at |-> "open", link |-> 0, pending |-> 0, ready |-> FALSE, got |-> 0]
(* A page opened on an invitation that is gone shows nothing to join.       *)
\* Mutant: a page that is opened again does not ask for the status.
ReopenedBlind(n, i) ==
  [OpenPage EXCEPT !.link = IF i \in DOMAIN invites THEN i ELSE 0, !.pending = savedPending[n]]
Reopened(n, i) ==
  IF i \in DOMAIN invites
  THEN [OpenPage EXCEPT !.link = i, !.pending = savedPending[n], !.ready = invites[i].package # 0]
  ELSE [OpenPage EXCEPT !.pending = savedPending[n]]

PairingTypeOK ==
  /\ DOMAIN invites \subseteq Id
  /\ \A i \in DOMAIN invites : invites[i] \in [request : Key \cup {0}, package : Key \cup {0}]
  /\ created \in Nat /\ joins \in Nat /\ pairTrouble \in Nat
  /\ root \in [at : {"idle", "publish", "put"}, invite : Id \cup {0}, request : Key \cup {0},
               approving : Key \cup {0}]
  /\ authorised \subseteq Key /\ tokened \subseteq Key
  /\ savedPending \in [Newcomer -> Key \cup {0}] /\ installed \in [Newcomer -> Key \cup {0}]
  /\ page \in [Newcomer -> [at : {"open", "join", "joined", "taken", "register", "save"},
                            link : Id \cup {0}, pending : Key \cup {0},
                            ready : BOOLEAN, got : Key \cup {0}]]

PairingInit ==
  /\ invites = [i \in {} |-> 0] /\ created = 0
  /\ root = [at |-> "idle", invite |-> 0, request |-> 0, approving |-> 0]
  /\ authorised = {} /\ joins = 0
  /\ savedPending = [n \in Newcomer |-> 0] /\ installed = [n \in Newcomer |-> 0]
  /\ page = [n \in Newcomer |-> OpenPage]
  /\ tokened = {} /\ pairTrouble = 0

\* Mutant: the invitation outlives its package.
ForgetNothing(i) == invites
Forget(i) == [j \in DOMAIN invites \ {i} |-> invites[j]]

---------------------------------------------------------------------------
(* The root.                                                                *)

(* createQrInvite; the button is only there while no invitation is shown.   *)
CreateInvite ==
  /\ root.at = "idle" /\ root.invite = 0 /\ created < MaxInvites
  /\ created' = created + 1
  /\ invites' = [i \in DOMAIN invites \cup {created + 1} |->
                   IF i = created + 1 THEN [request |-> 0, package |-> 0] ELSE invites[i]]
  /\ root' = [root EXCEPT !.invite = created + 1, !.request = 0]
  /\ UNCHANGED <<authorised, joins, savedPending, page, tokened, installed, pairTrouble>>

(* Every two seconds, also while an approval is under way.                  *)
PollRequest ==
  /\ root.invite \in DOMAIN invites
  /\ root' = [root EXCEPT !.request = invites[root.invite].request]
  /\ UNCHANGED <<invites, created, authorised, joins, savedPending, page, tokened, installed, pairTrouble>>

(* approvePairing: certificate for the request as polled, manifest          *)
(* published, then the package attached if the invitation is still there.   *)
ApproveRequest ==
  /\ root.at = "idle" /\ root.request # 0
  /\ root' = [root EXCEPT !.at = "publish", !.approving = root.request]
  /\ UNCHANGED <<invites, created, authorised, joins, savedPending, page, tokened, installed, pairTrouble>>

ManifestAccepted ==
  /\ root.at = "publish"
  /\ authorised' = authorised \cup {root.approving}
  /\ root' = [root EXCEPT !.at = "put"]
  /\ UNCHANGED <<invites, created, joins, savedPending, page, tokened, installed, pairTrouble>>

AttachPackage ==
  /\ root.at = "put"
  /\ invites' = IF root.invite \in DOMAIN invites
                THEN [invites EXCEPT ![root.invite].package = root.approving] ELSE invites
  /\ root' = [root EXCEPT !.at = "idle", !.approving = 0]
  /\ UNCHANGED <<created, authorised, joins, savedPending, page, tokened, installed, pairTrouble>>

---------------------------------------------------------------------------
(* A newcomer.                                                              *)
newcomerKeeps == UNCHANGED <<created, root, authorised, pairTrouble>>

(* The link is opened, or the page that shows it is opened again: the       *)
(* status is asked for once.                                                *)
OpenLink(n, i) ==
  /\ installed[n] = 0 /\ page[n].at \in {"open", "joined"} /\ i \in DOMAIN invites
  /\ page[n].link \in {0, i} /\ ~page[n].ready
  /\ page' = [page EXCEPT ![n] = Reopened(n, i)]
  /\ UNCHANGED <<invites, joins, savedPending, tokened, installed>> /\ newcomerKeeps

(* joinPairing: new keys, saved as pending, then the request is posted.     *)
\* Mutant: two newcomers generate the same device.
JoinSameDevice(n) ==
  /\ page[n].at = "open" /\ page[n].link # 0 /\ page[n].pending = 0 /\ joins < MaxJoins
  /\ savedPending' = [savedPending EXCEPT ![n] = joins + 1]
  /\ page' = [page EXCEPT ![n].at = "join"]
  /\ UNCHANGED <<invites, joins, tokened, installed>> /\ newcomerKeeps
Join(n) ==
  /\ page[n].at = "open" /\ page[n].link # 0 /\ page[n].pending = 0 /\ joins < MaxJoins
  /\ joins' = joins + 1
  /\ savedPending' = [savedPending EXCEPT ![n] = joins + 1]
  /\ page' = [page EXCEPT ![n].at = "join"]
  /\ UNCHANGED <<invites, tokened, installed>> /\ newcomerKeeps

(* submitPairingRequest replaces whatever request the invitation had.       *)
SubmitRequest(n) == invites' = [invites EXCEPT ![page[n].link].request = savedPending[n]]

Joined(n) ==
  /\ page[n].at = "join" /\ page[n].link \in DOMAIN invites
  /\ SubmitRequest(n)
  /\ page' = [page EXCEPT ![n] = [@ EXCEPT !.at = "joined", !.pending = savedPending[n],
                                           !.ready = invites[page[n].link].package # 0]]
  /\ UNCHANGED <<joins, savedPending, tokened, installed>> /\ newcomerKeeps

JoinFails(n) ==
  /\ page[n].at = "join" /\ page[n].link \notin DOMAIN invites
  /\ page' = [page EXCEPT ![n].at = "open"]
  /\ UNCHANGED <<invites, joins, savedPending, tokened, installed>> /\ newcomerKeeps

(* takePairingPackage: the invitation is gone with the answer.              *)
TakePackage(n) ==
  LET i == page[n].link IN
  /\ page[n].at \in {"open", "joined"} /\ page[n].ready /\ page[n].pending # 0
  /\ IF i \in DOMAIN invites /\ invites[i].package # 0
     THEN /\ invites' = Forget(i)
          /\ page' = [page EXCEPT ![n] = [@ EXCEPT !.at = "taken", !.ready = FALSE, !.got = invites[i].package]]
     ELSE UNCHANGED invites /\ page' = [page EXCEPT ![n].ready = FALSE]
  /\ UNCHANGED <<joins, savedPending, tokened, installed>> /\ newcomerKeeps

(* installDeviceCertificate refuses the certificate of another device.      *)
\* Mutant: the identity is saved without a registration.
InstallUnregistered(n) ==
  /\ page[n].at = "taken"
  /\ page' = [page EXCEPT ![n].at = IF page[n].got = page[n].pending THEN "save" ELSE "joined"]
  /\ UNCHANGED <<invites, joins, savedPending, tokened, installed>> /\ newcomerKeeps
InstallCertificate(n) ==
  /\ page[n].at = "taken"
  /\ page' = [page EXCEPT ![n].at = IF page[n].got = page[n].pending THEN "register" ELSE "joined"]
  /\ UNCHANGED <<invites, joins, savedPending, tokened, installed>> /\ newcomerKeeps

RegisterDevice(n) ==
  /\ page[n].at = "register"
  /\ tokened' = tokened \cup ({page[n].got} \cap authorised)
  /\ page' = [page EXCEPT ![n].at = IF page[n].got \in authorised THEN "save" ELSE "joined"]
  /\ UNCHANGED <<invites, joins, savedPending, installed>> /\ newcomerKeeps

SaveInstalled(n) ==
  /\ page[n].at = "save"
  /\ installed' = [installed EXCEPT ![n] = page[n].got]
  /\ savedPending' = [savedPending EXCEPT ![n] = 0]
  /\ page' = [page EXCEPT ![n] = OpenPage]
  /\ UNCHANGED <<invites, joins, tokened>> /\ newcomerKeeps

---------------------------------------------------------------------------
(* Faults.                                                                  *)
PairTrouble == pairTrouble < MaxPairFaults /\ pairTrouble' = pairTrouble + 1

InviteExpires(i) ==   \* ten minutes, or a restart of the server
  /\ i \in DOMAIN invites /\ PairTrouble
  /\ invites' = Forget(i)
  /\ UNCHANGED <<created, root, authorised, joins, savedPending, page, tokened, installed>>

(* The root's call fails, before or after the manifest was accepted; or its *)
(* page is reloaded and the invitation no longer shown.                     *)
RootFails ==
  /\ PairTrouble
  /\ \/ root.at = "publish" /\ authorised' \in {authorised, authorised \cup {root.approving}}
        /\ root' = [root EXCEPT !.at = "idle", !.approving = 0]
     \/ root.at = "put" /\ root' = [root EXCEPT !.at = "idle", !.approving = 0] /\ UNCHANGED authorised
     \/ root' = [at |-> "idle", invite |-> 0, request |-> 0, approving |-> 0] /\ UNCHANGED authorised
  /\ UNCHANGED <<invites, created, joins, savedPending, page, tokened, installed>>

(* The answer to the request, or to the registration, is lost.              *)
NewcomerFails(n) ==
  /\ PairTrouble
  /\ \/ page[n].at = "join" /\ page[n].link \in DOMAIN invites /\ SubmitRequest(n)
        /\ page' = [page EXCEPT ![n].at = "open"] /\ UNCHANGED tokened
     \/ page[n].at = "register" /\ tokened' = tokened \cup ({page[n].got} \cap authorised)
        /\ page' = [page EXCEPT ![n].at = "joined"] /\ UNCHANGED invites
  /\ UNCHANGED <<created, root, authorised, joins, savedPending, installed>>

(* The page is reloaded while it installs: the package it took is gone.     *)
NewcomerReloads(n) ==
  /\ PairTrouble /\ installed[n] = 0 /\ page[n].at \in {"join", "taken", "register", "save"}
  /\ page' = [page EXCEPT ![n] = Reopened(n, page[n].link)]
  /\ UNCHANGED <<invites, created, root, authorised, joins, savedPending, tokened, installed>>

---------------------------------------------------------------------------
RootStep == PollRequest \/ ApproveRequest \/ ManifestAccepted \/ AttachPackage
NewcomerStep(n) ==
  \/ Joined(n) \/ JoinFails(n) \/ TakePackage(n) \/ InstallCertificate(n)
  \/ RegisterDevice(n) \/ SaveInstalled(n)

PairingNext ==
  \/ CreateInvite \/ RootStep \/ RootFails
  \/ \E n \in Newcomer : \/ Join(n) \/ NewcomerStep(n) \/ NewcomerFails(n) \/ NewcomerReloads(n)
                         \/ \E i \in Id : OpenLink(n, i)
  \/ \E i \in Id : InviteExpires(i)

PairingSpec == PairingInit /\ [][PairingNext]_pairingVars

(* The root polls and answers; pages do what they started.                  *)
PairingFairness ==
  /\ WF_pairingVars(PollRequest) /\ WF_pairingVars(ManifestAccepted \/ AttachPackage)
  /\ WF_pairingVars(ApproveRequest /\ root.request \notin authorised)
  /\ \A n \in Newcomer : WF_pairingVars(NewcomerStep(n))

(* The same, with a user who opens the waiting page again and again.        *)
ReopeningFairness ==
  /\ PairingFairness
  /\ \A n \in Newcomer : SF_pairingVars(OpenLink(n, page[n].link))

---------------------------------------------------------------------------
(* Whatever is overwritten, lost or taken by the wrong newcomer, a device   *)
(* that is installed is the one its certificate names: authorised by the    *)
(* published manifest, tokened, and of one browser only.                 *)
InstalledIsLinked ==
  \A n \in Newcomer : installed[n] # 0 =>
    /\ installed[n] \in authorised \cap tokened
    /\ \A o \in Newcomer \ {n} : installed[o] # installed[n]

(* An invitation links at most one device, however many browsers opened it  *)
(* and however often the root approves.                                     *)
OneDevicePerInvite ==
  Cardinality({n \in Newcomer : installed[n] # 0}) <= Cardinality(Id \ DOMAIN invites)

(* Without faults, a newcomer whose request was accepted ends installed,    *)
(* unless another one opened the link too: it may have replaced the request *)
(* or taken the package.                                                    *)
JoinedIsInstalled ==
  \A n \in Newcomer :
    page[n].at = "joined" ~>
      installed[n] # 0 \/ pairTrouble > 0 \/ \E o \in Newcomer \ {n} : page[o].link # 0
=============================================================================
