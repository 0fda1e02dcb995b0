# QuanticMail, specified in TLA+

This directory holds the TLA+ specifications of QuanticMail, the TLC instances
that check them, and proofs for TLAPS. Everything is translated from the code;
paths below are relative to the repository root.

## 1. The system

QuanticMail sends end-to-end encrypted messages between browsers through relays
that see only ciphertext. An identity (`name~fingerprint@quantic`) has a root
device and any number of linked devices; a message is encrypted separately for
each device and queued for it at a relay.

| Component | Code | State it keeps | Operations | Talks to |
|---|---|---|---|---|
| Browser client | `components/quantic-network-v11-app.tsx`, `lib/quantic/local-db.ts` | IndexedDB: outbox, messages, private prekeys; one sync loop per tab | send, sync every 12 s (register, flush the outbox, pull, acknowledge, apply receipts) | relay, by HTTP |
| Relay core | `lib/quantic/relay.ts` | identities, challenges, queues, receipts, send windows | challenge, register, resolve, send, pull, ack, receipts | called by the web routes and by the standalone relay |
| Runtime and stores | `standalone-relay/runtime.ts`, `storage.ts`, `postgres-storage.ts`, `mysql-storage.ts` | transaction chain; a snapshot in a file or a database row | read, mutate, flush; load, save | wraps every standalone operation |
| Server lifecycle | `standalone-relay/server.ts`, `embedded.ts`, `main.ts` | HTTP server, retry timer | boot, close | runtime, federation retry |
| Federation | `standalone-relay/http.ts`, `federation-*.ts`, `lib/quantic/federation-*` | seen ids, inbound and outbound transfers, pending receipts | send, forward, receipt, retry | other relays |
| Prekeys | `lib/quantic/prekey-pool.mjs`, `prekey-relay.ts`, `standalone-prekeys.ts` | available prekeys, tombstones | publish, claim, status | client, manifests |
| Identity manifests | `lib/quantic/manifest-*.{mjs,ts}` | signed monotonic device lists | publish, revoke, merge | clients, registry, relay |
| Registry | `lib/quantic/registry-*` | a JSON file per identity on a git branch | read, compare-and-swap write | manifests |
| Registration | `relay.ts`, `register-compat.ts` | challenges, auth-token hashes, devices | challenge, register, migrate | client, manifests |
| Route manifests, Crypto Profiles | `route-manifest-*`, `crypto-profile-*` | pinned newest version per identity | accept | federation, discovery |
| Pairing | `pairing-store.mjs`, `pairing-relay.ts` | invitations for ten minutes | create, submit, attach, take | two browsers |
| Direct transport | `lib/quantic-network/direct-transport.ts`, `standalone-relay/direct-signaling.ts` | WebRTC sessions, signalling mailboxes | announce, signal, send, acknowledge | two browsers |
| Discovery mesh | `standalone-relay/discovery-*.ts`, `kademlia.ts` | peers, signed bundles | publish, find, resolve | relays |
| Relay failover | `lib/quantic/relay-client.ts` | ordered relay list | fetch with failover | client |
| Relay identity | `standalone-relay/identity.ts` and the SQL stores | the relay's key pair | load or create | server |

What is hard in it, and what must hold:

- *Delivery.* Calls are lost, answered late or handled after their caller gave
  up; tabs reload between two database writes; the web relay forgets everything
  when it restarts; entries expire after thirty days; several tabs run the same
  loop on one database. A message the user sent must exist somewhere until the
  recipient has it, a receipt must mean a stored message, a spent one-time
  prekey must never have been the only way to read a message, and what was sent
  must arrive.
- *Mailboxes.* Bounded queues and receipts, deduplication on repeated pushes,
  acknowledgements that create several receipts at once.
- *Durability.* One transaction at a time, rollback of a failed save, crash and
  restart, two processes on one row in a rolling deployment, a flush at shutdown.
- *Federation.* Two relays, each with its own durable state, a packet or a
  receipt that is lost, repeated or early, retries from a timer and from request
  handlers working on snapshots of the same list.
- *Manifests.* Monotonic, root-signed, published to a registry that answers late:
  a revoked device must not return.
- *Prekeys.* Claimed at most once, tombstones that survive as long as they are
  needed, pools republished while they are claimed.
- *Pairing, direct transport, discovery.* One-shot retrieval, acknowledgements
  that race timeouts, the newest signed bundle winning in a mesh.

The complete list, each entry at its line, is under `hazards` in `PROJECT.json`.

## 2. Modules

| Module | Models |
|---|---|
| `Mailboxes` | the arrays of `relay.ts` and `prekey-pool.mjs`: filter and slice, as recursive functions |
| `MessageDelivery` | sender's outbox, relay, recipient's database: end-to-end delivery |
| `ReliableDelivery` | abstract: what delivery promises, over the relay and over the direct path |
| `RelayDurability` | transactions and stores of the standalone relay |
| `Federation` | forwarding between relays, receipts and their retry |
| `IdentityManifest` | the signed manifest and the rules that compare two of them |
| `ManifestRegistry` | where manifests live and how they move: registry, server caches, browsers |
| `PrekeyPool` | one-time prekeys: publish, claim, tombstones, private halves |
| `Pairing` | linking a device by QR |
| `Registration` | challenges, registration, root migration, restored vaults |
| `DirectTransport` | the WebRTC path beside the relay path |
| `Discovery` | the mesh: publication, replication, search, pinning |
| `RelayIdentity` | a relay's key pair: created by racing processes, sealed, reloaded |
| `Network` | `ManifestRegistry`, `PrekeyPool`, `Pairing`, `Registration` and `DirectTransport`, one beside another |
| `Mesh` | `RelayDurability`, `RelayIdentity` and `Discovery`, one beside another |
| `MCMessageDelivery`, `MCRelayDurability`, `MCFederation`, `MCManifestRegistry`, `MCDiscovery` | TLC instances of one module |
| `MCNetwork`, `MCMesh`, `MCSettle` | TLC instances of several modules in one run |
| `MailboxesProofs`, `MessageDeliveryProofs`, `RelayDurabilityProofs`, `FederationProofs`, `ManifestRegistryProofs`, `PrekeyPoolProofs` | theorems and proofs of one module |
| `NetworkProofs` | theorems and proofs of `Pairing`, `Registration`, `DirectTransport` and `Network` |
| `MeshProofs` | theorems and proofs of `RelayIdentity`, `Discovery` and `Mesh` |

`MessageDelivery` and `PrekeyPool` use `Mailboxes`; `ManifestRegistry` and `Discovery`
use `IdentityManifest`; `MessageDelivery` and `DirectTransport` implement
`ReliableDelivery`.

### MessageDelivery

A *delivery* is one outbox item: a message encrypted for one target device. Its
id is the `clientMessageId`. The state is the relay's (`registered`, `queue`,
`receipts`), the two browsers' IndexedDB (`outbox`, `recent`, `inbox`,
`prekeys`), the program counters of the code (`compose` for `queueDelivery`,
`tab` for the sync loop) and the network (`orphans`).

| Actions | Code |
|---|---|
| `Submit`, `ComposeAnswered`, `ComposeMark`, `ComposeFails` | `queueDelivery`, `pushOutboxItem` |
| `StartSync`, `Registered` | the timer; `publishIdentity` in `sync` |
| `FlushNext`, `FlushAnswered`, `FlushMark`, `FlushDone`, `Cooldown` | `flushOutbox` and its 30-second retry delay |
| `Pulled`, `Store`, `Consume`, `Skip`, `BatchDone`, `Acked` | pull, decrypt, save, delete the prekey, acknowledge |
| `ReceiptsPulled`, `ClearItem`, `ClearDone`, `Confirmed` | receipts |
| `RelayRegister`, `RelaySendAccepted`, `RelaySendRefused`, `RelayAck`, `RelayConfirm`, `Prune` | operations of `relay.ts` |
| `CallFails`, `HandleOrphan`, `DropOrphan` | a call that fails: its request may be handled later, or never |
| `Reload`, `RelayRestart`, `TTLPasses` | the other faults |

A step of the client is one stretch between two awaits. A relay operation runs
without interruption, as it does in the single-threaded server, and is one step
with the arrival of its answer; if the answer is lost, `CallFails` has moved the
request to `orphans` and the relay's part happens on its own. Payloads and keys
are abstracted to the delivery and whether it needs a one-time prekey; clocks to
"older than the TTL" and "tried in the last 30 seconds". A receipt's UUID is the
id of the envelope whose acknowledgement created it (no other acknowledgement
can, since ids are not reused). A rate-limit refusal is a lost request.

Left out: manifest upkeep and prekey-pool upkeep in `sync` (see `ManifestRegistry` and
`PrekeyPool`), which either succeed or end the sync, as `CallFails` does; relay
failover, that is more than one relay; copies for the sender's other devices,
which are deliveries like any other.

### ReliableDelivery

Three sets: submitted, held by the sender, stored by the recipient. Only a stored
delivery may be released, and every submitted one is stored in the end.
`MessageDelivery` refers to it as `Promise`, with `outbox` for `held` and `inbox`
for `stored`; `DirectTransport` as `DirectPromise`, with `waiting` and `savedMail`.

### RelayDurability

The relay state is the set of operations applied to it; each operation is one
`runtime.mutate`.

| Actions | Code |
|---|---|
| `Boot` | `initialize`, `loadState` |
| `Call`, `Begin`, `MutateReturns`, `MutateRollsBack` | `mutate`: the chain, the save, the rollback |
| `Read` | `read`, between transactions |
| `SaveCommits`, `SaveConflicts`, `SaveFails` | the file's rename; the row's `INSERT ... DO NOTHING` and `UPDATE ... WHERE revision` |
| `Close`, `Flush`, `FlushBegins`, `FlushReturns`, `Exit` | `close` of `server.ts`, `flush` |
| `Crash` | the process dies; a statement already sent may still be executed |

A transaction's read of the state, its operation and the export are one step: all
operations are synchronous. A *detached* operation is called by a handler whose
client has gone (the second `mutate` of `/federation/send`, those after a
federated acknowledgement): `server.close` does not wait for it. An operation in
`Throws` changes the state and then throws; it is saved all the same, as
`runtime.ts` does. The content of a snapshot and its validation at load are
abstracted.

### Federation

One origin relay and the destinations that host the recipient's device. A *transfer* is
a `federationId`, which determines the envelope. The origin keeps what it remembers of a
transfer (`outbound`) and the sender's receipt mailbox (`box`); a destination keeps the
queue, the replay memory (`seenIds`), the `inbound` records to sign a receipt for and
the `pending` receipts. Each relay pins the newest route it has accepted. Handlers
(`send`, `retry`) live in memory; `Earlier` messages may occupy places at the start; `packets` are requests nobody waits for any more.

| Actions | Code |
|---|---|
| `SendStart`, `SendCheck`, `SendForward`, `ForwardLost`, `SendGivesUp`, `SendRemember` | `/federation/send`, `forwardToRoute` |
| `Ingest`, `Refuse` | `/federation/forward`, `enqueueFederatedEnvelope` |
| `Ack` | `/ack` at the destination |
| `TimerFires`, `RetryList`, `RetryPost`, `RetryPostLost`, `RetryRemove`, `RetryRequeue`, `RetryDone`, `BackoffEnds` | `retryPendingFederationReceipts`, `flushPendingReceipts` |
| `AcceptReceipt`, `ReadReceipt` | `/federation/receipt`; `/receipts/ack` |
| `PacketArrives`, `PacketLost`, `OriginCrashes`, `DestCrashes` | a request without its caller; restarts |
| `Expires`, `Publish` | `prune`; a new route manifest |

Every `runtime.mutate` is one durable step, which is what `RelayDurability` is about; an
operation that throws keeps the changes it made before (a refused forward leaves its
route pinned). A call between relays that is answered is one step: the caller only waits
meanwhile, and no property sees the time between the two. The handshake that precedes a
forward changes nothing. An acknowledgement of several envelopes is one of each.

Left out: signatures, digests and the checks against the identity manifest (ideal); the
pruning of envelopes after 30 days and of pending receipts after 7; the local delivery
receipt that `acknowledgeEnvelopes` also leaves at the destination, which no device of
the sender reads there; the crash between a forward's arrival and its answer as a step
of its own (it is `ForwardLost` with the packet arriving).

### IdentityManifest and ManifestRegistry

`IdentityManifest` has no state: a manifest is a sequence, the linked devices, the
revocations and the instant of its signature, and the operators are the code's rules,
`mergeManifestState` (`Accepts`), `reconcileManifestAuthority` (`Reconciles`),
`decideRegistryWrite` (`RegistryWrites`), and the edits the root signs.

`ManifestRegistry` is one identity in one of three deployments (`mode`): a web server
with the GitHub registry, a web server without it, a standalone relay. `remote` is the
durable manifest (the file on the branch, or the relay's saved state), `cache` what each
server process holds, `db`, `held` and `shown` what each browser saved, each mailbox page
and each devices page has in hand, `call` the HTTP calls under way.

| Actions | Code |
|---|---|
| `SyncOwnManifest`, `AdoptRead`, `Bootstrap`, `SyncPublished`, `Dropped` | `syncOwnManifest`, `publishManifest` of the mailbox page |
| `RefreshManifest`, `Refreshed`, `ApprovePairing`, `Revoke`, `Edited`, `InstallPackage` | the devices page |
| `GetCached`, `GetRead`, `GetAccepts` | `getManifest`, `loadRegistryManifest` |
| `PublishStarts`, `PublishReconciles`, `SaveReads`, `SavePuts`, `CacheAccepted`, `PublishFinishes` | `publishManifest` of the server, `saveRegistryManifest`: every `await` ends a step |
| `RegistryFails`, `LoseAnswer`, `ReloadPage`, `Restart`, `OrphanPut` | a failing registry, a lost answer, a reload, a restart of a process whose PUT may still land |

Left out: signatures (ideal), file paths and commit messages.

### PrekeyPool

One device at one relay of either kind (`kind`). Prekeys are numbered as they are
generated and expire in that order. `opened` are the private halves in IndexedDB, `pool`
and `consumed` are the relay's, `handed` is a history variable.

| Actions | Code |
|---|---|
| `AskStatus`, `PoolIsFull`, `GenerateAndPost`, `PostAnswered` | `ensurePreKeyPool` |
| `PublishRefused`, `PublishChecked`, `PublishStores` | `publishPreKeys`, `publishStandalonePreKeys`, `publishToPreKeyPool` |
| `AskClaim`, `ClaimRevoked`, `ClaimEmpty`, `ClaimTakes`, `ClaimAnswered` | `claimDeliveryKey`, `claimPreKey`, `claimFromPreKeyPool` |
| `MessageStored` | the recipient saves the message and deletes the private half |
| `ManifestMoves`, `KeyExpires` | the manifest lists or revokes the device; time |
| `ClaimAnswerLost`, `PostRepeated`, `WebRestarts`, `StandaloneRestarts` | faults |

Left out: record shapes and signatures (ideal); the migration of a root device
(`register-compat.ts:130`), which drops the pool and the tombstones of its former and its
new id (the page then publishes prekeys under the new one).

### Pairing

A root's devices page (`root`), the rendezvous (`invites`), and the devices pages of the
newcomers (`page`, `savedPending`, `installed`). `CreateInvite`, `PollRequest`,
`ApproveRequest`, `ManifestAccepted`, `AttachPackage` are the root's; `OpenLink`, `Join`,
`SubmitRequest`, `Joined`, `JoinFails`, `TakePackage`, `InstallCertificate`,
`RegisterDevice`, `SaveInstalled` a newcomer's; `InviteExpires`, `RootFails`,
`NewcomerFails`, `NewcomerReloads` the faults. Publishing the manifest is one step here
(`ManifestRegistry` takes it apart). Left out: the encryption of the package and the
message history it carries.

### Registration

One identity at one relay, seen from three browsers: the one it was created in, one
restored from its vault, and one linked device. Addresses and device ids are *weak* (10
digits of a digest) or *strong* (32), since that difference drives the migration. The
relay is web (in memory, checks the manifest) or standalone. Both migrate the root: the
web route calls `registerIdentityCompat`, and so does
`standalone-relay/register-compat-http.ts`, inside `runtime.mutate`, which `server.ts` and
`embedded.ts` put in front of the ordinary handler.

| Actions | Code |
|---|---|
| `CreateIdentity`, `FinishCreation`, `RestoreVault` | `createIdentity`, `importIdentityVault` |
| `OpenTurn`, `RegisterKnown`, `RegisterNeedsProof`, `AskChallenge`, `RegisterProved`, `ProofRefused`, `AdoptRootId`, `SyncManifest`, `Pull`, `PullRefused` | a turn of `sync` up to its pull, `publishIdentity` |
| `Register` with `Migrates` and `MoveBox`, `ConsumeProof` | `registerIdentity`, `registerIdentityCompat`, `migrateRootSnapshot`, `consumeProof` |
| `RegisterLinked`, `PullLinked`, `LinkMoves`, `SendToRoot`, `SendToLinked` | linked devices; senders |
| `Reopen`, `AnswerLost`, `ChallengeExpires`, `WebForgets` | faults |

Left out: the export of a vault, two pages that register at once with different tokens,
rate limits, handle aliases, the refusal (409) of a migration to an id that another key
already has.

### DirectTransport

One device sends to one other. A *session* is one attempt of `trySend`, with its own
connection and envelope id.

| Actions | Code |
|---|---|
| `Write`, `TrySend`, `SendOffer`, `SendFrame`, `StoredArrives`, `Fallback`, `RelayQueues` | `queueDelivery` under the patched `fetch`; `trySend` and its timeouts |
| `PollSignals`, `ProcessOffer`, `ProcessAnswer`, `ProcessReceipt` | `pollSignals`, `processSignal`, the relay's `direct-signaling.ts` |
| `EnvelopeArrives`, `ReceiptOnChannel` | `bindChannel` |
| `PullBoth`, `ReadMessage`, `ReadCopy`, `AckBegins`, `SendReceipt`, `DeleteHandled`, `RelayAcknowledges` | the reader's `sync` over the merged mailbox, `acknowledgeEnvelopes` |
| `ApplyReceipt`, `ClearReceipts` | merged receipts at the sender |
| `SignalsLost`, `ChannelDies`, `SendFails`, `ReaderStops`, `SenderReloads` | faults |

`TrySend` leads to `Fallback` at every stage: the wait for the channel and the wait for
the storage acknowledgement both have a timeout. Left out: ICE candidates (a channel that
never opens stands for those that are lost), presence, the limit of signals over all
devices.

### Discovery

`shelf` is what each relay holds of each address: identity, Crypto Profile, Route
Manifest. `known` are its peers. One search runs at a time, taken apart at every batch of
`iterativeFindRecord`; publications, manifests, packets and copies run beside it and
change what it started from.

| Actions | Code |
|---|---|
| `PublishBundle`, `PublishManifest`, `AcceptRouteOfPacket` | the three doors by which a record comes in |
| `Replicate`, `CopyArrives`, `Remember`, `BootstrapPeers` | `replicate`, `publishOnPeer`, `rememberDiscoveryPeer`, `bootstrapDiscoveryPeers` |
| `Lookup`, `ResolveHandle`, `AskBatch`, `PeerAnswers`, `PeerFails`, `CloseBatch` | `lookup`, `lookupHandle`, the resolve endpoint, the search |
| `AcceptFound`, `RefusedAnswer`, `SaveOfFoundFails` | what was found is validated again and stored |
| `RouteExpires` | time |

The rules that accept, merge and pin the three records are operators, one per function of
the code. XOR distance is abstracted to any choice of peers: a search starts from
`Nearest` of them (`k`, 20 in the code), a relay hints at as many, and a batch has `Alpha`
(3). A search asks at most `MaxQueries` (`maxQueries`, 24) peers and then ends with
candidates it has not asked. `server.ts` listens before it has greeted the peers it is
configured with, so a relay begins with those that answered before its first request
(`Greeted`), and the others answer (`BootstrapPeers`) at any time later, or never.

Left out: signatures (ideal), the pruning of peers that fail, `KBucketTable`, which no
server code uses, and two limits on what a search by handle collects: 16 bundles of one
relay (`MAX_HANDLE_BUNDLES`) and 64 in all (`maxRecords`), which are reached only when
relays hold several addresses of one handle.

### RelayIdentity

What the directory or the database holds of the relay's key pair (`record`), and how far
each of several processes has come in its boot. A pair is the number of its generation; a
file that was created and not yet filled is `Torn`.

| Actions | Code |
|---|---|
| `StartInstance`, `StopInstance` | `startRelayServer`; a crash, a stop, or a boot that throws |
| `ReadFile`, `CreateFile`, `FillFile` | `loadOrCreateRelayIdentity` of `identity.ts` |
| `ReadRow`, `SealRow`, `InsertRow` | `loadOrCreateIdentity` of the two SQL stores, which take the same steps |
| `Reread` | the loser of either race |

Left out: the checks of a record's fields (a record is readable or not), secrets that
differ between processes, and `signRelayHello`, which uses the pair.

## 3. Runs

Three runs hold several modules. `Network`, `MCSettle` and `Mesh` have a variable
`focus`, chosen once at the start: the module it names runs, the others keep their initial
state. Such a run is therefore several independent instances, not a product, and every
property is checked over the behaviours of its module.

| Run | Question | Bounds |
|---|---|---|
| `live` | Can a fault lose a message, issue a receipt too early or waste a prekey? Does every message arrive, does the outbox empty, is the promise implemented? | 1 delivery, both key modes, 1 tab per browser, mailboxes of 1, 1 fault, fairness |
| `pair` | Do acknowledgements of two envelopes respect a receipt mailbox of one? Does the invariant used by the proofs hold? | 2 deliveries, queue and batch of 2, no faults |
| `requeue` | (violation) Are repeated submissions deduplicated while the relay lives? | 1 delivery, no faults |
| `shutdown` | (violation) Does the shutdown keep memory and disk together? | 1 process on a file, 2 operations, one detached |
| `routes` | Can a receipt run ahead of the acknowledgement? Can a repeated forward make a second envelope? | 1 transfer and 1 earlier message, 2 destinations, 2 routes, 2 faults, 1 expiry |
| `retry` | Does a fitting receipt arrive, does retrying end? | 1 transfer and 1 earlier message, 2 sends at a time, timer and flush, 2 faults, fairness |
| `lateack` | (violation) Does every acknowledgement sign a receipt? | 1 transfer, 1 expiry, no faults |
| `network` | Does anything kept get lost from the registry? Is a prekey used once and openable? Is what is installed what was approved? Does mail follow a migrating root? Is what the direct path reports stored? | one fault each. Registry: 1 process, 2 calls, 3 pages, 3 signatures. Prekeys: pool of 1, 2 senders, 3 prekeys. Pairing: 2 newcomers, 2 invitations, 3 devices. Registration: 1 linked device, 1 message, 2 challenges. Direct: 1 letter, 1 signal, 2 sessions |
| `settle` | What must happen in the end | Durability: 1 process on a file, 3 operations of which one throws, 3 faults, 3 boots. Pairing: 1 newcomer, 1 invitation, 2 devices. Registration: 2 challenges. Direct: 1 letter, 1 session. 1 fault each, fairness |
| `mesh` | Can two processes on one row overwrite each other? Do all processes of a relay have one identity? Does anything a relay holds of an address go back? Is a handle answered alone? | Durability: 2 processes, 2 operations, one detached, 1 fault, 3 boots. Identity: 3 processes, 2 of them with the secret, 4 key pairs, any crashes. Mesh: 3 relays, 2 addresses with one handle, 5 bundles, a search that asks 2 relays at most, 1 copy, 2 publications, 1 search, 1 fault |
| `linked` | (violation) Does a linked device keep syncing? | 3 calls, no faults, fairness |
| `renewal` | (violation) Is a renewed route cached? | as the mesh of `mesh` |

Why the bounds are enough. A mailbox of one place already has both cases of every
guard (full and not full); two deliveries fill it and compete for receipts. One
fault suffices to lose an acknowledgement, a receipt or the relay's memory. The theorems
of section 4 lift every safety property of the passing runs to all bounds; what rests on
the bounds alone is liveness. For `RelayDurability`, three operations give a
failing transaction one before and one after it, and three boots give a process, its
rival and a successor of one of them. For `Federation`, a second destination matters only
for the fall-back of `forwardToRoute` (`routes`) and a second handler only for concurrent
sends and retries (`retry`); transfers meet only in a full queue or mailbox, which the
earlier message fills (the caps are 1).

For `ManifestRegistry`, two calls give every race of a publication with a read or with
another publication, and three signatures a first manifest, a link and a revocation. For
`PrekeyPool`, a pool of one is full after one key and empty after one claim; two senders
compete for it and a third key can meet the tombstones of two. For `Pairing`, two
newcomers can replace each other's request and take each other's package, and a second
invitation is needed for a request of the first that is approved late. For `Registration`
one message shows which mailbox is served, and a second challenge replaces the first. For
`DirectTransport`, a second session is a retry while the first one's frames are still
under way (`network`). In `settle` one session is enough, and is not what makes the
properties hold: `DirectDelivers` asks for one saved copy, which the relay's is, and
`RelayCopySettles` speaks of a copy the relay has queued already, whatever further direct
attempts do. With two sessions the run passes as well (137,569 states instead of 40,828).
For `Discovery`, two homes and a seeker are needed for peers that answer
differently; five bundles give a renewal, a change of keys, a revocation, a fork and a
namesake. A relay may be hinted at itself, so three relays are one more than the two queries a
search has here: it ends by its limit as well as for want of candidates, also with the
namesake at the relay it did not ask. The seeker has greeted one of its two peers when it
starts and may greet the other at any time, so a search begins with either or with both in
one batch. `Nearest` is 2 and cuts nothing off here; the theorems
hold for any value. For `RelayIdentity`, three processes are a winner, a loser and one that comes
after both, with and without the secret; a fourth pair is generated after a crash.

All counters that would grow for ever are bounded (`MaxFaults`, `MaxBoots`, `MaxRoute`,
`MaxExpiries`, and each constant that its module marks as a TLC bound). Deadlock is not
checked where such a bound ends every behaviour (`mesh`, `network`, `settle`, `shutdown`,
`linked`, `renewal`); it is for `MessageDelivery`, whose timers never stop, and for
`Federation`, whose senders may always send again.

Fairness.

- `MessageDelivery!FairSpec`: the steps of each tab and of `queueDelivery` (JavaScript's
  event loop, the 12-second timer, and a relay that answers when no fault happens) and
  the passing of thirty seconds. Nothing is assumed of the orphaned requests, of the user,
  or of faults except that there are finitely many.
- `Federation!FairSpec`: the handlers of the origin, the retriers of a destination with
  the timer that starts them, the end of a back-off, and the sender's device reading its
  receipts (without which a full mailbox stays full). Nobody need send or acknowledge,
  and no packet without its caller need arrive.
- `DurabilityFairness`: the event loop of each process, and a store that settles each
  save one way or another.
- `PairingFairness`: the root's polling timer, what each page has started, and a root that
  approves a request it sees. `ReopeningFairness` adds a newcomer who opens the waiting
  page again and again: nothing in the code does it for them (section 5, *Pairing*). It is
  strong fairness because the page can be reloaded only while the invitation lives.
- `RegistrationFairness`: an open page keeps going: it starts its turns and takes the next step
  of a call that is open.
- `DirectFairness`: the reader's timer, `trySend`'s timeouts, and a relay that answers.
  Nothing is assumed of signals, channels or frames: a letter must arrive without them.
- `RegistryFairSpec` (`linked`): handlers, answers, and each mailbox page's timer.

### The five violations

`requeue`: `enqueueEnvelope` (`relay.ts:655`) looks for the `clientMessageId` only
among envelopes still queued. A push repeated after the recipient acknowledged is
queued again, although the relay still holds its receipt;
`docs/V0.6-DURABLE-DELIVERY.md:12` says repeated submissions are deduplicated while
the process lives. Nothing is lost: the recipient's database is keyed by message id,
and for a static key the second copy is acknowledged again.

`shutdown`: `runtime.flush` (`runtime.ts:68`) waits for the chain but does not join
it, and `server.close` does not wait for handlers without a client. On a file, the
flush's older snapshot may be renamed over the newer one of such a handler's
transaction. `docs/quantic-relay-standalone.md:134` says writes are serialised and
memory and disk do not diverge. On a database row the revision check turns the same
overlap into a conflict (run `mesh`, whose second operation is detached, and theorem
`MemoryIsSnapshot`).

`lateack`: `forwardToRoute` (`federation-client.ts:104`) limits a packet to 24 hours, and
the destination copies that limit into the inbound record (`http.ts:372`), which `prune`
deletes, while the queued envelope lives 30 days. An acknowledgement after a day signs no
receipt. The design (section 18 of the federation design, "destination ACK creates
exactly one federation receipt") makes no such limit.

`linked`: `syncOwnManifest` (`quantic-network-v11-app.tsx:338`) of a browser that holds a
manifest posts it at every sync and never reads the relay's. Once the root has published a
newer one, the post of a linked device is refused, `sync` ends before it pulls, and the
device neither learns of the newer manifest nor gets its messages.
`tests/manifest-v11-authority.test.mjs:40` says the client's sync chooses a newer remote
manifest instead of publishing stale local state; the function it tests is called only by
`quantic-manifest-gate.tsx`, once when the page is loaded, and only in builds that turn
that gate on.

`renewal`: `publishBundle` (`discovery-http.ts:174`) validates a bundle against the profile
the relay holds, then stores its parts one by one; `acceptCryptoProfile` asks for a strictly
higher sequence, so a bundle whose profile has not changed fails after its identity was
stored and before its route is. A renewed route is never cached. Section 12.4 of the federation design
says "higher valid sequence: accept and cache".

## 4. Theorems

All proofs are checked by `tlapm` from the named assumptions on constants only
(`DeliveryAssumption`, `DurabilityAssumption`, `FederationAssumption`,
`RegistryAssumption`, `PoolAssumption`, `PairingAssumption`, `RegistrationAssumption`,
`DirectAssumption`, `IdentityAssumption`, `DiscoveryAssumption`); the theorems about a
store also assume `OrderedSaves`, for the reason given below. Every safety property that a
passing run checks, state or action, is stated by one of them.

| Theorem | Statement |
|---|---|
| `TypeCorrect` | `Spec => []TypeOK` of `MessageDelivery` |
| `DeliveryInvariant` | `Spec => []DeliveryInv` |
| `OutboxSafe`, `ReceiptSafe`, `PrekeySafe` | `Spec => []` each safety property of run `live` |
| `Implements` | `Spec => KeepsPromise`: delivery implements `ReliableDelivery` |
| `LimitsHold` | `Spec => []MailboxesBoundedAndUnique` |
| `DurabilityInvariant`, `DurabilityTypes` | `OrderedSaves` implies `Spec => []DurabilityInv` and types |
| `ReportedIsDurable`, `MemoryIsSnapshot`, `NothingIsTakenBack` | the same for `ReportedSurvives`, `SnapshotMatchesMemory` and `RowOnlyGrows` |
| `FederationTypes` | `Spec => []TypeOK` of `Federation` |
| `ReceiptsAreEarned` | `Spec => []ReceiptMeansAcked` |
| `ForwardsAreIdempotent` | `Spec => []OneEnvelopePerTransfer` |
| `RegistryInvariant`, `RegistryTypes` | `RegistrySpec => []RegistryInv` and types |
| `OnlyDurableIsKept` | `RegistrySpec => []KeptIsPublished` |
| `RevocationsAreDurable` | `RegistrySpec => CheckpointGrows` |
| `MemoryKeepsRevocations` | `RegistrySpec => MemoryCacheGrows` |
| `PoolInvariant`, `PoolTypes` | `PoolSpec => []PoolInv` and types |
| `ClaimedOnce`, `EveryClaimOpens` | `PoolSpec => []` of `HandedOutOnce` and `ClaimedKeyOpens` |
| `PoolKeepsItsLimit` | `PoolSpec => []PoolBounded`: the pool respects its limit (proved only) |
| `PairingInvariant`, `PairingTypes` | `PairingSpec => []PairingInv` and types |
| `InstalledDevicesAreLinked`, `InvitesLinkOneDevice` | `PairingSpec => []` of `InstalledIsLinked` and `OneDevicePerInvite` |
| `RegistrationInvariant`, `RegistrationTypes` | `RegistrationSpec => []RegistrationInv` and types |
| `MailStaysWithRoot`, `ChallengesProveOnce` | `RegistrationSpec => []` of `MailFollowsRoot` and `ChallengeUsedOnce` |
| `DirectInvariant`, `DirectTypes` | `DirectSpec => []DirectInv` and types |
| `DeliveredIsKept` | `DirectSpec => []DeliveredDirectIsKept` |
| `DirectImplements` | `DirectSpec => DirectKeepsPromise`: the direct transport implements `ReliableDelivery` |
| `IdentityInvariant`, `OneRelayId` | `IdentitySpec => []` of `IdentityInv` and `OneIdentity` |
| `DiscoveryInvariant`, `DiscoveryTypes` | `DiscoverySpec => []DiscoveryInv` and types |
| `RelaysOnlyMoveOn` | `DiscoverySpec => PinnedOnlyGrow` |
| `AnswersArePinned`, `HandleAnswersAreAlone` | `DiscoverySpec => []` of `AnswersStayPinned` and `HandleAnswerIsAlone` |
| `NetworkKeepsComponents`, `NetworkTypes` | `NetworkSpec` implies the specifications of its five components; their types hold together |
| `MeshKeepsComponents`, `MeshTypes` | the same for `MeshSpec` and its three |
| `KeepProperties`, `FirstOfProperties` | the filter and the slice of a mailbox of any length |

*Delivery.* The three safety properties are not inductive by themselves: an
acknowledgement carries ids, not messages, and one that is handled late might name
an envelope queued after it was sent. `DeliveryInv` adds what rules this out.
`IdNamesOneMessage`: within a mailbox, and between it and what was pulled from it,
an id names one message. `AcksNameStored`: an envelope whose id some acknowledgement
of its owner carries, now or in flight, is of a stored message. It is kept because
`randomUUID` returns an id nothing refers to (`UsedIds`), whatever is in flight.
`ItemInHand`: the prekey about to be deleted is of a stored message.
`TravelsSubmitted` is there for the refinement: whatever is stored was submitted.
`MessageDeliveryProofs` proves the types, one lemma per group of actions, then one
conjunct at a time under every action, and the refinement step by step. The theorems hold
for any number of tabs on one database, which the runs do not show (they have one tab per
browser). `LimitsHold` needs no strengthening beyond types, only that filtering preserves
uniqueness and does not lengthen a mailbox, which `MailboxesProofs` derives by induction
over prefixes.

*Stores.* `ReportedSurvives` and `RowOnlyGrows` say nothing of memory, so the invariant
ties the three together. An operation that waits for its turn is nowhere
(`WaitingUntouched`); a process that expects the current revision has all of the snapshot
in memory, and all it has in memory except its open transaction is in the snapshot
(`ProcGood`); a save that can still commit contains the snapshot it would replace
(`SaveGood`), also one whose process has died (`by = "ghost"`). On a row this follows from
the revision, whatever overlaps. A file has no revision: `FileAlone` says that no two
saves overlap, which holds when no operation is detached. So the theorems assume
`OrderedSaves == Backing = "sql" \/ Detached = {}`; run `shutdown` shows that without it
`SnapshotMatchesMemory` fails.

*Federation.* `ReceiptMeansAcked` needs `ReceiptsAcked`: every receipt on its way
(pending, copied by a retry, or in a packet) is of an acknowledged transfer.
`OneEnvelopePerTransfer` needs that no envelope was made of a transfer the replay memory
does not hold. Both keep under every action, however stale the copy that a retry writes
back, because acknowledgements are never taken back.

*Registry.* The registry's decision compares sequences only. That it loses no revocation
rests on what the pages send: each signs the next sequence after a manifest it was shown,
and what is shown was durable. `RegistryInv` follows that through the stages of a call:
what was just posted is durable or the successor of a durable manifest; what is about to
be written replaces what was read (`Replaces`), and `SuccessorReplacesIts` shows why the
comparison of sequences is enough for that; what is answered is durable. A PUT that
outlives its process still has its base, so the branch refuses it if it moved.

*Prekeys.* A tombstone is dropped when its key expires. `HandedAreSpent` says that this
is soon enough: what was handed out lies under a tombstone or has expired, and a
publication is filtered by both, so nothing handed out is in the pool again
(`PoolIsUnused`). `HalvesGood` adds who has the keys whose private half is gone.

*Memory caches.* Without a registry the cache of a process is all there is, and
`MemoryCacheGrows` is an action property of it. Two facts carry it: what is cached is well
formed (`CachesSound`), so that a manifest that stays is accepted over itself; and no call
is past an await (`RegistryInv`), so that the cache is written only by the step that has
just reconciled with it (`ReconciledIsAccepted`). With a registry there is an await between
the two, and the cache may go back (section 5).

*Pairing.* `InstalledIsLinked` speaks of the end of the pairing; the invariant follows a
key from the request to the database. A page that works on a key has it in its saved
pending request (`PendingIsSaved`, which a reload relies on), one that registers a
device has checked that the package was for its key (`TakenIsPending`), what is about to
be saved was authorised and has its token (`SavedIsLinked`), and no key is of two
browsers (`DevicesApart`). `OneDevicePerInvite` compares cardinalities: the newcomers that have
taken a package, installed or on the way (`Busy`), are at most as many as the invitations
that are gone (`PackagesTaken`). Taking a package removes the invitation in the same step,
and no other step makes a newcomer busy.

*Registration.* `MailFollowsRoot` is inductive only together with who the root is
(`RootsInv`): the first browser is the device its own manifest lists (`FirstIsRoot`), before
it exists nothing of it does, except a session of the page that creates it
(`NotYetCreated`, `SessionsInstalled`), a restored vault is under the weak address
(`RestoredIsWeak`), and nothing waits at an address the relay knows no root of, unless a
linked device registered first and left a record with an empty token (`BoxesOfKnownRoots`).
`ChallengeUsedOnce` needs that the two addresses of an identity never show the same
challenge (`ChallengesApart`).

*Direct transport.* A receipt reaches the sender over the channel, in a signal that waits
or was polled, or from the relay: `ReceiptsOfSaved` says of all of them that the letter is
saved, and `AckedAreSaved` says it of what the recipient's turn is about to acknowledge,
which is where receipts come from. `CopiesOfSessions` ties the copies the turn holds to
their sessions, so that merging the two mailboxes acknowledges on each path what was saved
from the other. `OnlyWritten` is needed for the refinement: what is under way was written
by the user. `StoredBeforeReported` extends `DeliveredDirectIsKept` to the control frame
that the sender has not seen yet. `DirectImplements` then maps each step to a step of
`ReliableDelivery` or a stutter, the abstract variables being what was written, saved and
is still in the outbox.

*Relay identity.* Whoever serves, or is about to seal the row, holds the pair of the record
(`OwnersAgree`); whoever is about to fill the file created it, finds it empty and is the only
one (`OneFills`), since creation is exclusive; and nobody seals or writes before it has a
pair (`PairsHeld`).

*Mesh.* That a relay only moves on is shown of the one operation all doors end in
(`KeepBundleGrows`): whatever was kept before, each of the three records is replaced under
its own rule, also when the profile step stops the route step. That an answer stays pinned
for good needs these rules to compose over any number of later steps: `AcceptsTransitive`
for manifests and `RouteSucceedsTransitive`; `WellKept` says that what is kept is well
formed, without which not even a manifest that stays is accepted over itself. `Pinned`
keeps what a search began with behind the shelf while its peers are asked;
`AcceptsWhatIsAlone` carries the outcome of the last batch over to the step that stores
it. `QueriesBounded` says that no search asks more than `MaxQueries` peers, so that one that
ended with candidates left has asked exactly that many; it counts the asked peers, hence
the assumption that the relays are finitely many.

*Composition.* `NetworkSpec` and `MeshSpec` let one component run beside others that
rest, so their theorems say only that the runs `network` and `mesh` check behaviours of
the components' own specifications.

Only model-checked: every liveness property, since the prover handles neither fairness
nor `ENABLED` here (`DeliversEventually`, `OutboxSettles`, `ReceiptArrives`,
`PendingSettles`, and in `settle` `CallsAnswered`, `ShutdownEnds`, `JoinedIsInstalled`,
`RootKeepsPulling`, `DirectDelivers` and `RelayCopySettles`). What the code computes
over data of any length is proved as far as a property needs it: of the filters and slices
of mailboxes `KeepProperties` and `FirstOfProperties`, but not that they are the code's
loops, which is a matter of translation.

## 5. What the models do not show

Limits of the code that shaped a property:

- *Blocked heads.* `pull` returns the first hundred envelopes; a hundred that cannot be
  decrypted hide the rest until the TTL. `DeliversEventually` is checked for one
  delivery, which nothing can block.
- *One-time prekeys and lost acknowledgements.* If the acknowledgement of such an
  envelope is lost after its private prekey was deleted, the envelope can be neither
  opened again nor acknowledged; the message is stored, but the sender's item stays
  until the TTL and is then pushed again. `OutboxSettles` and `RelayCopySettles` are
  therefore about static keys, and `DeliversEventually` about both.
- *Receipts of the direct path.* Every POST tries the direct channel first
  (`instrumentation-client.ts:184`), and `acknowledgeEnvelopes` sends the receipt to the
  first session that looks open (`direct-transport.ts:460`), where it is lost if the
  sender's end is gone; the direct copy is deleted all the same. The next retry may take
  the same way, so nothing makes the item leave the outbox, whatever the fairness, before
  the TTL. The comment at `direct-transport.ts:484` counts on the relay for this case
  ("will fall back to relay delivery"), which happens only when a direct attempt fails.
  `RelayCopySettles` therefore starts from the letter the relay has queued; that each
  letter is read does not depend on it (`DirectDelivers`).
- *Two relays for one envelope.* If a relay accepts a packet and its answer is lost,
  `forwardToRoute` tries the next one. The recipient may get the message twice (its
  database stores it once), and the receipt of the first relay is refused until it
  expires. Likewise if the route was renewed between a lost forward and its repetition,
  or the origin crashed before it remembered the transfer. `ReceiptArrives` is
  therefore about receipts that fit what the origin remembers.
- *Routes and retries.* `retry` is checked for one route and no expiry: with a route
  that changes while a copy of an older receipt is being retried, the stale copy may
  replace the newer, fitting receipt.
- *Embedded relay.* `embedded.ts` flushes without closing a server: there every
  operation is detached in the sense of `RelayDurability`.
- *Web cache.* With a registry, a publication that is answered late caches its older
  manifest over a newer one another call cached meanwhile (`manifest-state.ts:84`): the
  process accepts a revoked device again until the next publication. `MemoryCacheGrows`
  is about deployments without a registry; `ObservedRevocationHolds` states what fails.
- *Restarted web relay.* It forgets the tombstones of prekeys, so `ClaimedKeyOpens` is
  about relays that have forgotten nothing.
- *Pairing.* A newcomer's page asks for the status of its invitation when it is opened
  and never again; it learns of the package only when it is opened once more, although in
  `docs/V1.1-SECURE-SYNC.md:96` it retrieves the package as the next step. `JoinedIsInstalled` therefore assumes
  that the user does, and that nobody else opened the link.
- *Standalone relay and manifests.* It does not consult the manifest when it registers or
  authenticates a device (`http.ts:595`): a revoked device is still served
  (`RevokedDeviceRefused` states what fails).
- *Restored vaults.* `importIdentityVault` computes the address with the short fingerprint
  (`vault.ts:205`), so a strong identity comes back under another address
  (`RestoredKeepsAddress`), and a legacy one gets a device id its manifest does not list.
  `MailFollowsRoot` leaves this case out.
- *Device ids in Crypto Profiles.* `canonicalDevice` accepts ten digits only
  (`crypto-profile-core.mjs:53`): an identity with strong ids has no profile.
- *Identity at rest.* A process that has the secret and loses the race to insert the row
  reads the winner's without sealing it (`postgres-storage.ts:314`): if the winner has no
  secret, the private key stays in plain text until a process with the secret boots again.
- *Identity file.* A crash between creating `relay-identity.json` and writing it leaves an
  empty file, which every later boot refuses (`identity.ts:115`); `OneIdentity` says only
  that what does serve serves as one relay.
- *Mesh.* A lookup ends at the first batch with a record and returns its newest; a relay
  serves a route that has expired; a handle that a forked identity shares resolves to the
  other one; `resolve` answers a handle from a single local candidate without asking the
  mesh, while `docs/superpowers/specs/2026-09-17-quantic-network-v1.3-stabilization-design.md:14`
  has ambiguous handles fail closed. A search stops after 24 relays (`kademlia.ts:198`,
  `discovery-service.ts:252`) and answers with what it has: if a namesake is known only to
  relays beyond them, the handle resolves to one of the two. `HandleAnswerIsAlone` is about
  searches, and says of one that ended by its limit only that it asked as many relays as it
  may; run `mesh` reaches the case. A relay
  whose profile names a device that its newer identity revoked serves a bundle that other
  relays refuse.

Not modelled, with the reasons in `PROJECT.json`: cryptography, which every model takes as
ideal; user interfaces other than the mailbox and devices pages; the legacy mail product;
the Pulse store and the Aura bridge; and, next in the plan, the client's choice among
several relays (`relay-client.ts`). Of what is modelled, section 2 names what each module
leaves out.

## 6. Plan

1. `RelayFailover`: the order of relays, which answers move the client to the next one,
   and what that means for an outbox whose receipts wait at the former relay. It composes
   with `MessageDelivery`, whose relay becomes one of several.
2. An abstract specification of `Federation` (a transfer is delivered at most once per
   destination memory, and its receipt follows) and one of the relay's store (an atomic
   snapshot) that `RelayDurability` implements, each with the refinement proved from the
   invariants that exist.
3. In `Federation`, the expiry of pending receipts and the changing routes that `retry`
   leaves out.

## 7. Running

    tlc -config MCMessageDelivery_live.cfg MCMessageDelivery
    tlc -config MCNetwork_network.cfg MCNetwork
    tlapm MessageDeliveryProofs.tla
    tlapm NetworkProofs.tla
