----------------------------- MODULE PrekeyPool -----------------------------
(***************************************************************************)
(* One-time prekeys of one device at one relay: the device's mailbox tabs  *)
(* keep the pool filled, senders claim from it, and the device destroys    *)
(* the private half once the message is stored.  prekey-pool.mjs,          *)
(* prekey-relay.ts (web), standalone-prekeys.ts (relay), prekey.ts,        *)
(* prekey-core.mjs, standalone-v11-state.ts and their callers in           *)
(* quantic-network-v11-app.tsx.                                            *)
(*                                                                         *)
(* The relay is "web" (handlers interleave at every await, state in        *)
(* memory) or "standalone" (a request is one durable mutation).  Prekeys   *)
(* are numbered as they are generated; all live equally long, so they also *)
(* expire in that order.  Signatures are ideal.                            *)
(***************************************************************************)
EXTENDS Integers, Sequences, Mailboxes

CONSTANTS
  Owner,           \* mailbox tabs of the device that owns the prekeys
  Sender,          \* devices that claim one
  MAX_POOL, LowWater, Target,   \* 64, 12 and 32 in the code
  MaxPrekeys,      \* TLC bound: prekeys generated
  MaxPoolFaults    \* TLC bound: lost answers, repeated requests, restarts

ASSUME PoolAssumption ==
  /\ MAX_POOL \in Nat \ {0} /\ LowWater \in Nat /\ Target \in Nat \ {0} /\ Target <= MAX_POOL
  /\ MaxPrekeys \in Nat /\ MaxPoolFaults \in Nat

VARIABLES
  kind,      \* "web" or "standalone"
  generated, \* prekeys 1..generated exist
  expiry,    \* prekeys 1..expiry have expired
  opened,    \* private halves in the device's IndexedDB
  pool, consumed,   \* PreKeyPoolStore: the pool, oldest first, and the tombstones
  standing,  \* what the manifest the relay has says of the device
  turn,      \* owner tab -> progress of ensurePreKeyPool
  posts,     \* publish requests the relay has still to handle
  claim,     \* sender -> progress of claimDeliveryKey
  handed,    \* history: keys that left the pool in this life of the relay, one entry each time
  poolTrouble

poolVars ==
  <<kind, generated, expiry, opened, pool, consumed, standing, turn, posts, claim, handed, poolTrouble>>

Prekey == 1 .. generated
IdleTurn == [at |-> "idle", count |-> 0, records |-> <<>>]
IdleClaim == [at |-> "idle", key |-> 0]

PoolTypeOK ==
  /\ kind \in {"web", "standalone"} /\ generated \in Nat /\ expiry \in 0 .. generated
  /\ opened \subseteq Prekey /\ pool \in Seq(Prekey) /\ consumed \subseteq Prekey
  /\ standing \in {"none", "active", "revoked"}
  /\ turn \in [Owner -> [at : {"idle", "status", "post"}, count : Nat, records : Seq(Prekey)]]
  /\ posts \subseteq [records : Seq(Prekey), checked : BOOLEAN]
  /\ claim \in [Sender -> [at : {"idle", "asked", "verify", "key"},
                           key : Prekey \cup {0}]]
  /\ handed \in Seq(Prekey) /\ poolTrouble \in Nat

PoolInit ==
  /\ kind \in {"web", "standalone"} /\ generated = 0 /\ expiry = 0 /\ opened = {}
  /\ pool = <<>> /\ consumed = {} /\ standing = "none"
  /\ turn = [w \in Owner |-> IdleTurn] /\ posts = {}
  /\ claim = [s \in Sender |-> IdleClaim]
  /\ handed = <<>> /\ poolTrouble = 0

---------------------------------------------------------------------------
(* The pool store.  Every operation first prunes what has expired.          *)
Fresh(records) == Keep(records, 1 .. expiry)
Tombstones == {k \in consumed : k > expiry}
PrunePool == pool' = Fresh(pool) /\ consumed' = Tombstones

(* publishToPreKeyPool: expired, consumed and known records are skipped and *)
(* the pool is never filled beyond its limit.                               *)
\* Mutant: the tombstones are not looked at.
PublishableAgain(records) == Keep(Fresh(records), Elems(Fresh(pool)))
Publishable(records) == Keep(Fresh(records), Tombstones \cup Elems(Fresh(pool)))
PublishToPool(records) ==
  /\ consumed' = Tombstones
  /\ pool' = FirstOf(Fresh(pool) \o Publishable(records), MAX_POOL)

(* claimFromPreKeyPool: the oldest fresh record leaves the pool for good.   *)
ClaimFromPool(k) ==
  /\ pool' = Tail(Fresh(pool))
  /\ consumed' = Tombstones \cup {k}

---------------------------------------------------------------------------
(* The owner: ensurePreKeyPool.  A turn that is refused is over at once.    *)
ownerUnchanged == UNCHANGED <<kind, expiry, standing, claim, handed, poolTrouble>>

AskStatus(w) ==
  /\ turn[w].at = "idle" /\ standing = "active"
  /\ PrunePool
  /\ turn' = [turn EXCEPT ![w] = [@ EXCEPT !.at = "status", !.count = Len(Fresh(pool))]]
  /\ UNCHANGED <<generated, opened, posts>> /\ ownerUnchanged

PoolIsFull(w) ==
  /\ turn[w].at = "status" /\ turn[w].count >= LowWater
  /\ turn' = [turn EXCEPT ![w] = IdleTurn]
  /\ UNCHANGED <<generated, opened, pool, consumed, posts>> /\ ownerUnchanged

(* The private halves are saved before the public ones are posted.          *)
BatchSize(w) == IF turn[w].count < Target THEN Target - turn[w].count ELSE 1
\* Mutant: the private halves are not saved.
SaveNoKeys(keys) == UNCHANGED opened
SaveKeys(keys) == opened' = opened \cup keys

GenerateAndPost(w) ==
  LET n == BatchSize(w)  records == [i \in 1 .. n |-> generated + i] IN
  /\ turn[w].at = "status" /\ turn[w].count < LowWater
  /\ generated + n <= MaxPrekeys
  /\ generated' = generated + n
  /\ SaveKeys(Elems(records))
  /\ turn' = [turn EXCEPT ![w] = [@ EXCEPT !.at = "post", !.records = records]]
  /\ posts' = posts \cup {[records |-> records, checked |-> FALSE]}
  /\ UNCHANGED <<pool, consumed>> /\ ownerUnchanged

(* publishPreKeys: authentication and the manifest; a web relay then awaits *)
(* the signature checks before it stores the records.                       *)
PublishRefused(p) ==
  /\ ~p.checked /\ standing # "active"
  /\ posts' = posts \ {p}
  /\ UNCHANGED <<generated, opened, pool, consumed, turn>> /\ ownerUnchanged

PublishChecked(p) ==
  /\ kind = "web" /\ ~p.checked /\ standing = "active"
  /\ posts' = (posts \ {p}) \cup {[p EXCEPT !.checked = TRUE]}
  /\ UNCHANGED <<generated, opened, pool, consumed, turn>> /\ ownerUnchanged

PublishStores(p) ==
  /\ p.checked \/ (kind = "standalone" /\ standing = "active")
  /\ posts' = posts \ {p}
  /\ PublishToPool(p.records)
  /\ UNCHANGED <<generated, opened, turn>> /\ ownerUnchanged

PostAnswered(w) ==
  /\ turn[w].at = "post" /\ \A p \in posts : p.records # turn[w].records
  /\ turn' = [turn EXCEPT ![w] = IdleTurn]
  /\ UNCHANGED <<generated, opened, pool, consumed, posts>> /\ ownerUnchanged

---------------------------------------------------------------------------
(* The sender: claimDeliveryKey, and the relay's claim loop.                *)
senderUnchanged == UNCHANGED <<kind, generated, expiry, standing, turn, posts, poolTrouble>>
Claiming(s, at) == claim' = [claim EXCEPT ![s].at = at]

AskClaim(s) ==
  /\ claim[s].at = "idle" /\ Claiming(s, "asked")
  /\ UNCHANGED <<opened, pool, consumed, handed>> /\ senderUnchanged

(* A revoked device (401) ends the delivery; no manifest (409) and an empty *)
(* pool (404) make the sender fall back to the static key.                  *)
ClaimRevoked(s) ==
  /\ claim[s].at = "asked" /\ standing = "revoked" /\ Claiming(s, "idle")
  /\ UNCHANGED <<opened, pool, consumed, handed>> /\ senderUnchanged

ClaimEmpty(s) ==
  /\ claim[s].at = "asked" /\ Claiming(s, "idle")
  /\ \/ standing = "none" /\ UNCHANGED <<pool, consumed>>
     \/ standing = "active" /\ Fresh(pool) = <<>> /\ PrunePool
  /\ UNCHANGED <<opened, handed>> /\ senderUnchanged

(* The record leaves the pool before its signature is verified (an await).  *)
ClaimTakes(s) ==
  LET k == Head(Fresh(pool)) IN
  /\ claim[s].at = "asked" /\ standing = "active" /\ Fresh(pool) # <<>>
  /\ ClaimFromPool(k)
  /\ handed' = Append(handed, k)
  /\ claim' = [claim EXCEPT ![s] = [at |-> "verify", key |-> k]]
  /\ UNCHANGED opened /\ senderUnchanged

ClaimAnswered(s) ==
  /\ claim[s].at = "verify" /\ Claiming(s, "key")
  /\ UNCHANGED <<opened, pool, consumed, handed>> /\ senderUnchanged

(* The message is encrypted to the key, sent and stored; then the owner      *)
(* destroys the private half.                                               *)
MessageStored(s) ==
  /\ claim[s].at = "key" /\ claim[s].key \in opened
  /\ opened' = opened \ {claim[s].key}
  /\ claim' = [claim EXCEPT ![s] = IdleClaim]
  /\ UNCHANGED <<pool, consumed, handed>> /\ senderUnchanged

---------------------------------------------------------------------------
(* The manifest moves, time passes, things fail.                            *)

ManifestMoves ==
  /\ \/ standing = "none" /\ standing' = "active"
     \/ standing = "active" /\ standing' = "revoked"
  /\ UNCHANGED <<kind, generated, expiry, opened, pool, consumed, turn, posts, claim, handed, poolTrouble>>

KeyExpires ==
  /\ expiry < generated
  /\ expiry' = expiry + 1
  /\ UNCHANGED <<kind, generated, opened, pool, consumed, standing, turn, posts, claim, handed, poolTrouble>>

PoolTrouble == poolTrouble < MaxPoolFaults /\ poolTrouble' = poolTrouble + 1

(* The answer to a claim is lost: the key is spent, nobody uses it.         *)
ClaimAnswerLost(s) ==
  /\ claim[s].at = "verify" /\ PoolTrouble
  /\ claim' = [claim EXCEPT ![s] = IdleClaim]
  /\ UNCHANGED <<kind, generated, expiry, opened, pool, consumed, standing, turn, posts, handed>>

(* A publication is repeated, or given up while the relay still handles it. *)
PostRepeated(w) ==
  /\ turn[w].at = "post" /\ PoolTrouble
  /\ \/ posts' = posts \cup {[records |-> turn[w].records, checked |-> FALSE]} /\ UNCHANGED turn
     \/ turn' = [turn EXCEPT ![w] = IdleTurn] /\ UNCHANGED posts
  /\ UNCHANGED <<kind, generated, expiry, opened, pool, consumed, standing, claim, handed>>

(* A web relay forgets pools, tombstones, manifests and handlers; requests  *)
(* it has not begun to handle may still reach it.                           *)
WebRestarts ==
  /\ kind = "web" /\ PoolTrouble
  /\ pool' = <<>> /\ consumed' = {} /\ standing' = "none" /\ handed' = <<>>
  /\ posts' = {p \in posts : ~p.checked}
  /\ claim' = [s \in Sender |-> IF claim[s].at \in {"asked", "verify"} THEN IdleClaim ELSE claim[s]]
  /\ UNCHANGED <<kind, generated, expiry, opened, turn>>

(* A standalone one restores its snapshot without what has expired.         *)
StandaloneRestarts ==
  /\ kind = "standalone" /\ PoolTrouble
  /\ PrunePool
  /\ claim' = [s \in Sender |-> IF claim[s].at = "asked" THEN IdleClaim ELSE claim[s]]
  /\ UNCHANGED <<kind, generated, expiry, opened, standing, turn, posts, handed>>

---------------------------------------------------------------------------
PoolNext ==
  \/ \E w \in Owner : \/ AskStatus(w) \/ PoolIsFull(w) \/ GenerateAndPost(w)
                      \/ PostAnswered(w) \/ PostRepeated(w)
  \/ \E p \in posts : PublishRefused(p) \/ PublishChecked(p) \/ PublishStores(p)
  \/ \E s \in Sender : \/ AskClaim(s) \/ ClaimRevoked(s) \/ ClaimEmpty(s) \/ ClaimTakes(s)
                       \/ ClaimAnswered(s) \/ MessageStored(s) \/ ClaimAnswerLost(s)
  \/ ManifestMoves \/ KeyExpires \/ WebRestarts \/ StandaloneRestarts

PoolSpec == PoolInit /\ [][PoolNext]_poolVars

---------------------------------------------------------------------------
NoRepeats(q) == \A i, j \in DOMAIN q : q[i] = q[j] => i = j

(* A relay hands out a prekey at most once between two losses of its        *)
(* memory, whatever claims, repeated publications and expiries do.          *)
HandedOutOnce == NoRepeats(handed)

(* The device can open every message: the private half of a key that is     *)
(* offered, or that a sender has, exists.  (A web relay that restarts loses *)
(* the tombstone with which it refuses a publication it sees again.)        *)
ClaimedKeyOpens ==
  kind = "standalone" \/ poolTrouble = 0 =>
    \A k \in Elems(pool) \cup {claim[s].key : s \in {t \in Sender : claim[t].key # 0}} : k \in opened

(* The pool never holds a key twice nor more keys than its limit.           *)
PoolBounded == Len(pool) <= MAX_POOL /\ NoRepeats(pool)
=============================================================================
