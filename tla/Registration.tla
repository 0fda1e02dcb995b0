----------------------------- MODULE Registration -----------------------------
(***************************************************************************)
(* How the root of one identity, a browser restored from its vault and one *)
(* linked device make themselves known to a relay, and what the relay then *)
(* serves them: relay.ts (challenges, registration, authentication),       *)
(* register-compat.ts, the register, pull and send routes (the standalone  *)
(* relay's register-compat-http.ts among them), vault.ts and the start of  *)
(* a sync turn in quantic-network-v11-app.tsx.                             *)
(*                                                                         *)
(* A canonical address and a device id are both digests of a key, of 10    *)
(* ("weak") or 32 ("strong") hexadecimal digits.  The relay is "web"       *)
(* (state in memory, manifest checks, published manifests durable in the   *)
(* registry) or "standalone" (state durable, no manifest checks); both     *)
(* migrate the root device.                                                *)
(* Manifests appear here only by the root id they list and by the state of *)
(* the linked device; signatures are ideal.                                *)
(***************************************************************************)
EXTENDS Naturals, FiniteSets

CONSTANTS
  MaxLinks,       \* TLC bound: linked devices, 0 or 1
  MaxMail,        \* TLC bound: envelopes sent to the identity
  MaxChallenges,  \* TLC bound: challenges issued
  MaxRegFaults    \* TLC bound: lost answers, expired challenges, restarts

ASSUME RegistrationAssumption ==
  MaxLinks \in 0 .. 1 /\ MaxMail \in Nat /\ MaxChallenges \in Nat /\ MaxRegFaults \in Nat

VARIABLES
  host,       \* "web" or "standalone"
  era,        \* "new": created here;  "legacy": created by V1 with short digests
  local,      \* root browser -> identity in its IndexedDB
  login,      \* session -> progress of publishIdentity and of the turn it belongs to
  token,      \* relay: address -> whose token the identity record has
  rootDevice, \* relay: address -> id of the root device record
  challenge, issued, spent, \* relay: address -> challenge; how many; used by a registration
  boxes,      \* relay: address -> root device id -> envelopes
  linked, linkedBox, \* relay: the linked device is registered; its envelopes
  listed,     \* published manifest: address -> root device id it lists
  link,       \* published manifest: the linked device
  cached,     \* addresses whose manifest the relay has
  sent,       \* envelopes accepted so far
  regTrouble

regVars ==
  <<host, era, local, login, token, rootDevice, challenge, issued, spent, boxes, linked,
    linkedBox, listed, link, cached, sent, regTrouble>>

Form == {"weak", "strong"}
None == "none"
Holder == {"first", "restored"}          \* browsers with the root keys
(* What runs in them: the turn a page makes when it opens and the one of    *)
(* its timer overlap.                                                       *)
Session == {"open", "tick", "restored"}
HolderOf(b) == IF b = "restored" THEN "restored" ELSE "first"
Address == IF era = "new" THEN "strong" ELSE "weak"   \* of the identity, as created
NoLocal == [address |-> None, device |-> None, listed |-> None]
NoLogin == [at |-> "idle", challenge |-> 0, answer |-> None]
PageOpened == [NoLogin EXCEPT !.at = "new"]
Mail == 1 .. sent

RegistrationTypeOK ==
  /\ host \in {"web", "standalone"} /\ era \in {"new", "legacy"}
  /\ local \in [Holder -> [address : Form \cup {None}, device : Form \cup {None}, listed : Form \cup {None}]]
  /\ login \in [Session -> [at : {"idle", "new", "create", "register", "challenge", "prove", "adopt", "manifest", "pull"},
                           challenge : 0 .. issued, answer : Form \cup {None}]]
  /\ token \in [Form -> Holder \cup {None, "empty"}] /\ rootDevice \in [Form -> Form \cup {None}]
  /\ challenge \in [Form -> 0 .. issued] /\ issued \in Nat /\ spent \subseteq 1 .. issued
  /\ boxes \in [Form -> [Form -> SUBSET Mail]]
  /\ linked \in BOOLEAN /\ linkedBox \subseteq Mail
  /\ listed \in [Form -> Form \cup {None}] /\ link \in {None, "active", "revoked"}
  /\ cached \subseteq Form /\ sent \in Nat /\ regTrouble \in Nat

(* A legacy identity is installed with its manifest, on a relay that knows  *)
(* it; a new one is about to be created.                                    *)
RegistrationInit ==
  /\ host \in {"web", "standalone"} /\ era \in {"new", "legacy"}
  /\ LET known == era = "legacy"
         legacy == [address |-> "weak", device |-> "weak", listed |-> "weak"]
     IN /\ local = [b \in Holder |-> IF known /\ b = "first" THEN legacy ELSE NoLocal]
        /\ token = [a \in Form |-> IF known /\ a = "weak" THEN "first" ELSE None]
        /\ rootDevice = [a \in Form |-> IF known /\ a = "weak" THEN "weak" ELSE None]
        /\ listed = [a \in Form |-> IF known /\ a = "weak" THEN "weak" ELSE None]
        /\ cached = IF known THEN {"weak"} ELSE {}
  /\ login = [b \in Session |-> IF era = "legacy" /\ b = "open" THEN PageOpened ELSE NoLogin]
  /\ challenge = [a \in Form |-> 0] /\ issued = 0 /\ spent = {}
  /\ boxes = [a \in Form |-> [d \in Form |-> {}]]
  /\ linked = FALSE /\ linkedBox = {} /\ link = None /\ sent = 0 /\ regTrouble = 0

relayKeeps ==
  UNCHANGED <<token, rootDevice, challenge, issued, spent, boxes, linked, linkedBox, cached>>
manifestKeeps == UNCHANGED <<listed, link>>
Installed(b) == local[HolderOf(b)].address # None
AddressOf(b) == IF Installed(b) THEN local[HolderOf(b)].address ELSE Address
DeviceOf(b) == local[HolderOf(b)].device
Turn(b, at) == login' = [login EXCEPT ![b].at = at]
GiveUp(b) == login' = [login EXCEPT ![b] = NoLogin]

---------------------------------------------------------------------------
(* Relay operations.                                                        *)

(* rootDeviceIdForIdentity: the record's id, or the digest of the key.      *)
RootId(a) == IF rootDevice[a] # None THEN rootDevice[a] ELSE a

(* registerIdentity keeps the id of the root device it has; without one it  *)
(* takes the id it is given, or a short digest of the key.                  *)
RegisteredRoot(a, given) ==
  IF rootDevice[a] # None THEN rootDevice[a] ELSE IF given # None THEN given ELSE "weak"

(* registerIdentityCompat, behind the register route of both relays, then   *)
(* moves the root device to the id it was given: record, queues, receipts.  *)
\* Mutant: the root device is never migrated.
MigratesNever(a, given) == FALSE
Migrates(a, given) == given \notin {None, RegisteredRoot(a, given)}
\* Mutant: the queues stay under the old id.
MoveNothing(a, old, new) == UNCHANGED boxes
MoveBox(a, old, new) == boxes' = [boxes EXCEPT ![a][new] = @ \cup boxes[a][old], ![a][old] = {}]

(* withPersistedRootDeviceId: the id sent is the one in IndexedDB, if any.  *)
Register(b, next) ==
  LET a == AddressOf(b)  given == DeviceOf(b)  old == RegisteredRoot(a, given)
      new == IF Migrates(a, given) THEN given ELSE old
  IN /\ token' = [token EXCEPT ![a] = HolderOf(b)]
     /\ rootDevice' = [rootDevice EXCEPT ![a] = new]
     /\ IF new # old THEN MoveBox(a, old, new) ELSE UNCHANGED boxes
     /\ login' = [login EXCEPT ![b] = [@ EXCEPT !.at = next, !.answer = new]]
     /\ UNCHANGED <<linked, linkedBox, cached>>

(* authenticateDevice for the root, and the manifest check of the web pull. *)
Authentic(b) == token[AddressOf(b)] = HolderOf(b) /\ DeviceOf(b) = RootId(AddressOf(b))
PassesManifest(a, listedHere) == host = "web" /\ a \in cached => listedHere
ServesRoot(b) ==
  /\ Authentic(b)
  /\ PassesManifest(AddressOf(b), DeviceOf(b) = listed[AddressOf(b)])

---------------------------------------------------------------------------
(* The root browsers.                                                       *)
browserKeeps == UNCHANGED <<host, era, sent, regTrouble>>

(* createIdentity registers before anything is saved, so without an id.     *)
CreateIdentity ==
  /\ era = "new" /\ ~Installed("first") /\ login["tick"].at = "idle"
  /\ Turn("tick", "register")
  /\ UNCHANGED local /\ relayKeeps /\ manifestKeeps /\ browserKeeps

(* restoreVault: the address is computed anew, with a short fingerprint;    *)
(* ensureLocalIdentity adds a long device id.  The old browser may be gone. *)
ImportVault == [address |-> "weak", device |-> "strong", listed |-> None]

RestoreVault ==
  /\ Installed("first") /\ ~Installed("restored")
  /\ local' = [local EXCEPT !["restored"] = ImportVault]
  /\ UNCHANGED login /\ relayKeeps /\ manifestKeeps /\ browserKeeps

OpenTurn(b) ==
  /\ Installed(b) /\ login[b].at = (IF b = "open" THEN "new" ELSE "idle")
  /\ Turn(b, "register")
  /\ UNCHANGED local /\ relayKeeps /\ manifestKeeps /\ browserKeeps

After(b) == IF Installed(b) THEN "adopt" ELSE "create"

RegisterKnown(b) ==
  /\ login[b].at = "register" /\ token[AddressOf(b)] = HolderOf(b)
  /\ Register(b, After(b))
  /\ UNCHANGED <<local, challenge, issued, spent>> /\ manifestKeeps /\ browserKeeps

RegisterNeedsProof(b) ==
  /\ login[b].at = "register" /\ token[AddressOf(b)] # HolderOf(b)
  /\ Turn(b, "challenge")
  /\ UNCHANGED local /\ relayKeeps /\ manifestKeeps /\ browserKeeps

(* createIdentityChallenge: one per address, the last one asked for.        *)
AskChallenge(b) ==
  /\ login[b].at = "challenge" /\ issued < MaxChallenges
  /\ issued' = issued + 1
  /\ challenge' = [challenge EXCEPT ![AddressOf(b)] = issued + 1]
  /\ login' = [login EXCEPT ![b] = [@ EXCEPT !.at = "prove", !.challenge = issued + 1]]
  /\ UNCHANGED <<local, token, rootDevice, spent, boxes, linked, linkedBox, cached>>
  /\ manifestKeeps /\ browserKeeps

(* consumeProof removes the challenge before it checks the signature.       *)
\* Mutant: the challenge stays.
ConsumeLater(a, c) == UNCHANGED challenge /\ spent' = spent \cup {c}
ConsumeProof(a, c) == challenge' = [challenge EXCEPT ![a] = 0] /\ spent' = spent \cup {c}

RegisterProved(b) ==
  LET a == AddressOf(b) IN
  /\ login[b].at = "prove" /\ challenge[a] = login[b].challenge
  /\ ConsumeProof(a, login[b].challenge)
  /\ Register(b, After(b))
  /\ UNCHANGED <<local, issued>> /\ manifestKeeps /\ browserKeeps

ProofRefused(b) ==
  /\ login[b].at = "prove" /\ challenge[AddressOf(b)] # login[b].challenge
  /\ GiveUp(b)
  /\ UNCHANGED local /\ relayKeeps /\ manifestKeeps /\ browserKeeps

(* The rest of createIdentity: the first manifest lists the long id, then   *)
(* the identity is saved.                                                   *)
FinishCreation(b) ==
  LET a == Address IN
  /\ login[b].at = "create"
  /\ listed' = [listed EXCEPT ![a] = "strong"] /\ cached' = cached \cup {a}
  /\ local' = [local EXCEPT !["first"] = [address |-> a, device |-> "strong", listed |-> "strong"]]
  /\ GiveUp(b)
  /\ UNCHANGED <<token, rootDevice, challenge, issued, spent, boxes, linked, linkedBox, link>>
  /\ browserKeeps

(* sync: an id that differs is adopted unless the local manifest names      *)
(* another one, which ends the turn.                                        *)
AdoptRootId(b) ==
  LET id == login[b].answer IN
  /\ login[b].at = "adopt"
  /\ IF id = DeviceOf(b) THEN Turn(b, "manifest") /\ UNCHANGED local
     ELSE IF local[HolderOf(b)].listed \in {None, id}
     THEN Turn(b, "manifest") /\ local' = [local EXCEPT ![HolderOf(b)].device = id]
     ELSE GiveUp(b) /\ UNCHANGED local
  /\ relayKeeps /\ manifestKeeps /\ browserKeeps

(* syncOwnManifest: post the local manifest, adopt the published one, or    *)
(* bootstrap the first with the id of this device.                          *)
SyncManifest(b) ==
  LET a == AddressOf(b)
      root == IF listed[a] # None THEN listed[a] ELSE DeviceOf(b)
  IN
  /\ login[b].at = "manifest"
  /\ listed' = [listed EXCEPT ![a] = root] /\ cached' = cached \cup {a}
  /\ local' = [local EXCEPT ![HolderOf(b)].listed = root]
  /\ IF b = "open" THEN GiveUp(b) ELSE Turn(b, "pull")
  /\ UNCHANGED <<token, rootDevice, challenge, issued, spent, boxes, linked, linkedBox, link>>
  /\ browserKeeps

Pull(b) ==
  LET a == AddressOf(b) IN
  /\ login[b].at = "pull" /\ ServesRoot(b)
  /\ boxes' = [boxes EXCEPT ![a][DeviceOf(b)] = {}]
  /\ GiveUp(b)
  /\ UNCHANGED <<local, token, rootDevice, challenge, issued, spent, linked, linkedBox, cached>>
  /\ manifestKeeps /\ browserKeeps

PullRefused(b) ==
  /\ login[b].at = "pull" /\ ~ServesRoot(b)
  /\ GiveUp(b)
  /\ UNCHANGED local /\ relayKeeps /\ manifestKeeps /\ browserKeeps

---------------------------------------------------------------------------
(* The linked device, its authorisation, and the senders.                   *)

LinkMoves ==
  /\ listed[Address] # None /\ MaxLinks > 0
  /\ \/ link = None /\ link' = "active"
     \/ link = "active" /\ link' = "revoked"
  /\ cached' = cached \cup {Address}
  /\ UNCHANGED <<local, login, token, rootDevice, challenge, issued, spent, boxes, linked, linkedBox, listed>>
  /\ browserKeeps

(* The web route reads the manifest first, which also caches it.            *)
RegisterLinked ==
  /\ link # None /\ ~linked
  /\ host = "web" => link = "active"
  /\ linked' = TRUE
  /\ token' = [token EXCEPT ![Address] = IF @ = None THEN "empty" ELSE @]
  /\ cached' = IF host = "web" THEN cached \cup {Address} ELSE cached
  /\ UNCHANGED <<local, login, rootDevice, challenge, issued, spent, boxes, linkedBox>>
  /\ manifestKeeps /\ browserKeeps

ServesLinked == linked /\ PassesManifest(Address, link = "active")

PullLinked ==
  /\ ServesLinked /\ linkedBox # {}
  /\ linkedBox' = {}
  /\ UNCHANGED <<local, login, token, rootDevice, challenge, issued, spent, boxes, linked, cached>>
  /\ manifestKeeps /\ browserKeeps

(* enqueueEnvelope for a device the relay lists; a web relay that has the   *)
(* manifest asks that it is active there.                                   *)
SendToRoot(a) ==
  /\ token[a] # None /\ sent < MaxMail
  /\ PassesManifest(a, RootId(a) = listed[a])
  /\ sent' = sent + 1
  /\ boxes' = [boxes EXCEPT ![a][RootId(a)] = @ \cup {sent + 1}]
  /\ UNCHANGED <<host, era, local, login, token, rootDevice, challenge, issued, spent, linked, linkedBox, cached, regTrouble>>
  /\ manifestKeeps

SendToLinked ==
  /\ ServesLinked /\ sent < MaxMail
  /\ sent' = sent + 1
  /\ linkedBox' = linkedBox \cup {sent + 1}
  /\ UNCHANGED <<host, era, local, login, token, rootDevice, challenge, issued, spent, boxes, linked, cached, regTrouble>>
  /\ manifestKeeps

---------------------------------------------------------------------------
(* Faults.                                                                  *)
RegTrouble == regTrouble < MaxRegFaults /\ regTrouble' = regTrouble + 1

(* The page of the first browser is opened again.                           *)
Reopen ==
  /\ Installed("first") /\ RegTrouble
  /\ login' = [login EXCEPT !["open"] = PageOpened, !["tick"] = NoLogin]
  /\ UNCHANGED <<host, era, local, sent>> /\ relayKeeps /\ manifestKeeps

(* An answer is lost.  (In createIdentity the keys would go with it: the    *)
(* next attempt creates another identity.)                                  *)
AnswerLost(b) ==
  /\ Installed(b) /\ login[b].at \notin {"idle", "new"} /\ RegTrouble
  /\ GiveUp(b)
  /\ UNCHANGED <<host, era, local, sent>> /\ relayKeeps /\ manifestKeeps

ChallengeExpires(a) ==
  /\ challenge[a] # 0 /\ RegTrouble
  /\ challenge' = [challenge EXCEPT ![a] = 0]
  /\ UNCHANGED <<host, era, local, login, token, rootDevice, issued, spent, boxes, linked, linkedBox, cached, sent>>
  /\ manifestKeeps

WebForgets ==
  /\ host = "web" /\ RegTrouble
  /\ token' = [a \in Form |-> None] /\ rootDevice' = [a \in Form |-> None]
  /\ challenge' = [a \in Form |-> 0]
  /\ boxes' = [a \in Form |-> [d \in Form |-> {}]]
  /\ linked' = FALSE /\ linkedBox' = {} /\ cached' = {}
  /\ UNCHANGED <<host, era, local, login, issued, spent, sent>> /\ manifestKeeps

---------------------------------------------------------------------------
LoginStep(b) ==
  \/ RegisterKnown(b) \/ RegisterNeedsProof(b) \/ AskChallenge(b) \/ RegisterProved(b) \/ ProofRefused(b)
  \/ FinishCreation(b) \/ AdoptRootId(b) \/ SyncManifest(b) \/ Pull(b) \/ PullRefused(b)

RegistrationNext ==
  \/ CreateIdentity \/ RestoreVault
  \/ \E b \in Session : OpenTurn(b) \/ LoginStep(b) \/ AnswerLost(b)
  \/ LinkMoves \/ RegisterLinked \/ PullLinked \/ SendToLinked
  \/ \E a \in Form : SendToRoot(a) \/ ChallengeExpires(a)
  \/ Reopen \/ WebForgets

RegistrationSpec == RegistrationInit /\ [][RegistrationNext]_regVars

(* A page that is open syncs every twelve seconds and finishes its calls.   *)
RegistrationFairness ==
  \A b \in Session : WF_regVars(OpenTurn(b) \/ LoginStep(b))

---------------------------------------------------------------------------
(* The root's messages wait under the id with which the relay authenticates *)
(* the root and accepts new messages: a migration leaves none behind.  (A   *)
(* legacy identity that was restored from its vault keeps two addresses.)   *)
MailFollowsRoot ==
  era = "new" \/ ~Installed("restored") => \A a, d \in Form : boxes[a][d] # {} => d = RootId(a)

(* A challenge proves one registration: it is gone before anything else is  *)
(* checked, and a later proof needs the one that replaced it.               *)
ChallengeUsedOnce == \A a \in Form : challenge[a] \notin spent

(* While its browser is the only one with the root keys, a root keeps being *)
(* served, through restarts, migration and lost answers, on either relay:   *)
(* the id it was registered under before it had one, or by V1, never keeps  *)
(* it out for good (or the bound on challenges ends the run).               *)
OnlyFirst == Installed("first") /\ ~Installed("restored")
OutOfChallenges == issued = MaxChallenges

RootKeepsPulling ==
  <>[]OnlyFirst => []<><<Pull("tick")>>_regVars \/ <>OutOfChallenges

(* A revoked device is served no messages.  On a standalone relay it is:    *)
(* the manifest is not consulted.                                           *)
RevokedDeviceRefused ==
  [][linkedBox # {} /\ linkedBox' = {} /\ linked' => link # "revoked"]_regVars

(* A restored identity registers under the address it had.                  *)
RestoredKeepsAddress ==
  \A b \in Session : login[b].at = "adopt" => AddressOf(b) = Address
=============================================================================
