-------------------------- MODULE PrekeyPoolProofs --------------------------
(***************************************************************************)
(* Types and the safety properties of module PrekeyPool, for any number of *)
(* owner tabs and senders, any pool size and any number of prekeys.        *)
(*                                                                         *)
(* A tombstone is dropped when its prekey expires.  That is soon enough:   *)
(* what was handed out is either under a tombstone or expired              *)
(* (HandedAreSpent), and a publication is filtered by both, so a prekey    *)
(* that left the pool never comes back into it (PoolIsUnused).             *)
(***************************************************************************)
EXTENDS PrekeyPool, MailboxesProofs

\* No relay with a memory has forgotten anything.
Remembers == kind = "standalone" \/ poolTrouble = 0

HandedAreSpent == \A k \in Elems(handed) : k <= expiry \/ k \in consumed
PoolIsUnused == Elems(pool) \cap Elems(handed) = {}

\* Only a claimed prekey is without its private half, and nobody has it any more.
HalvesGood ==
  Remembers =>
    /\ \A s \in Sender : claim[s].key # 0 => claim[s].key \in Elems(handed)
    /\ \A s, t \in Sender : claim[s].key # 0 /\ claim[s].key = claim[t].key => s = t
    /\ \A k \in Prekey \ opened : k \in Elems(handed) /\ \A s \in Sender : claim[s].key # k

BatchesDistinct ==
  /\ \A p \in posts : NoRepeats(p.records)
  /\ \A w \in Owner : NoRepeats(turn[w].records)

\* The pool, its tombstones and what it handed out.
StoreGood ==
  /\ pool \in Seq(Prekey) /\ consumed \subseteq Prekey /\ handed \in Seq(Prekey)
  /\ HandedAreSpent /\ PoolIsUnused /\ HandedOutOnce /\ PoolBounded

\* The types of everything else.
ClientTypes ==
  /\ kind \in {"web", "standalone"} /\ generated \in Nat /\ expiry \in 0 .. generated
  /\ opened \subseteq Prekey /\ standing \in {"none", "active", "revoked"}
  /\ turn \in [Owner -> [at : {"idle", "status", "post"}, count : Nat, records : Seq(Prekey)]]
  /\ posts \subseteq [records : Seq(Prekey), checked : BOOLEAN]
  /\ claim \in [Sender -> [at : {"idle", "asked", "verify", "key"}, key : Prekey \cup {0}]]
  /\ poolTrouble \in Nat

PoolInv == ClientTypes /\ BatchesDistinct /\ StoreGood /\ HalvesGood

-----------------------------------------------------------------------------
(* Lists without repetition. *)

LEMMA KeepDistinct ==
  ASSUME NEW S, NEW box \in Seq(S), NEW drop, NoRepeats(box)
  PROVE  NoRepeats(Keep(box, drop))
<1>. DEFINE r == Keep(box, drop)
<1>1. r \in Seq(S) /\ InOrder(r, box, Len(box))
  BY KeepProperties
<1>. HIDE DEF r
<1>2. PICK f \in [1..Len(r) -> 1..Len(box)] :
        /\ \A k \in 1..Len(r) : r[k] = box[f[k]]
        /\ \A k, l \in 1..Len(r) : k < l => f[k] < f[l]
  BY <1>1 DEF InOrder
<1>3. DOMAIN r = 1..Len(r) /\ DOMAIN box = 1..Len(box) /\ Len(r) \in Nat /\ Len(box) \in Nat
  BY <1>1
<1>4. ASSUME NEW i \in DOMAIN r, NEW j \in DOMAIN r, r[i] = r[j] PROVE i = j
  <2>1. box[f[i]] = box[f[j]] /\ f[i] \in DOMAIN box /\ f[j] \in DOMAIN box
    BY <1>2, <1>3, <1>4
  <2>2. f[i] = f[j] /\ f[i] \in Int /\ f[j] \in Int
    BY <1>3, <2>1 DEF NoRepeats
  <2>. QED
    BY <1>2, <1>3, <2>2
<1>. QED
  BY <1>4 DEF NoRepeats, r

LEMMA FirstOfDistinct ==
  ASSUME NEW S, NEW box \in Seq(S), NEW n \in Int, NoRepeats(box)
  PROVE  NoRepeats(FirstOf(box, n))
  BY FirstOfProperties DEF NoRepeats

LEMMA ConcatDistinct ==
  ASSUME NEW S, NEW a \in Seq(S), NEW b \in Seq(S), NoRepeats(a), NoRepeats(b),
         Elems(a) \cap Elems(b) = {}
  PROVE  /\ a \o b \in Seq(S) /\ NoRepeats(a \o b) /\ Elems(a \o b) = Elems(a) \cup Elems(b)
<1>. DEFINE c == a \o b
<1>1. /\ c \in Seq(S) /\ DOMAIN c = 1..(Len(a) + Len(b)) /\ Len(a) \in Nat /\ Len(b) \in Nat
      /\ DOMAIN a = 1..Len(a) /\ DOMAIN b = 1..Len(b)
      /\ \A i \in DOMAIN c : c[i] = IF i <= Len(a) THEN a[i] ELSE b[i - Len(a)]
  OBVIOUS
<1>. HIDE DEF c
<1>2. \A i \in DOMAIN c : \/ i \in DOMAIN a /\ c[i] = a[i]
                          \/ i - Len(a) \in DOMAIN b /\ c[i] = b[i - Len(a)] /\ i \notin DOMAIN a
  BY <1>1
<1>3. NoRepeats(c)
  <2>1. ASSUME NEW i \in DOMAIN c, NEW j \in DOMAIN c, c[i] = c[j] PROVE i = j
    <3>1. CASE i \in DOMAIN a /\ j \in DOMAIN a
      BY <1>1, <1>2, <2>1, <3>1 DEF NoRepeats
    <3>2. CASE i \notin DOMAIN a /\ j \notin DOMAIN a
      <4>1. i - Len(a) = j - Len(a)
        BY <1>2, <2>1, <3>2 DEF NoRepeats
      <4>. QED
        BY <1>1, <4>1
    <3>3. CASE i \in DOMAIN a /\ j \notin DOMAIN a
      BY <1>2, <2>1, <3>3 DEF Elems
    <3>4. CASE i \notin DOMAIN a /\ j \in DOMAIN a
      BY <1>2, <2>1, <3>4 DEF Elems
    <3>. QED
      BY <3>1, <3>2, <3>3, <3>4
  <2>. QED
    BY <2>1 DEF NoRepeats
<1>4. Elems(c) = Elems(a) \cup Elems(b)
  <2>1. \A i \in DOMAIN a : i \in DOMAIN c /\ c[i] = a[i]
    BY <1>1
  <2>2. \A i \in DOMAIN b : i + Len(a) \in DOMAIN c /\ c[i + Len(a)] = b[i]
    BY <1>1
  <2>. QED
    BY <1>2, <2>1, <2>2 DEF Elems
<1>. QED
  BY <1>1, <1>3, <1>4 DEF c

LEMMA AppendDistinct ==
  ASSUME NEW S, NEW q \in Seq(S), NEW x \in S, x \notin Elems(q), NoRepeats(q)
  PROVE  /\ Append(q, x) \in Seq(S) /\ NoRepeats(Append(q, x))
         /\ Elems(Append(q, x)) = Elems(q) \cup {x}
<1>. DEFINE r == Append(q, x)
<1>1. /\ r \in Seq(S) /\ Len(q) \in Nat /\ DOMAIN q = 1..Len(q) /\ DOMAIN r = 1..(Len(q) + 1)
      /\ r[Len(q) + 1] = x /\ \A i \in DOMAIN q : r[i] = q[i]
  OBVIOUS
<1>. HIDE DEF r
<1>2. DOMAIN r = DOMAIN q \cup {Len(q) + 1} /\ \A i \in DOMAIN q : q[i] # x
  BY <1>1 DEF Elems
<1>3. Elems(r) = Elems(q) \cup {x} /\ NoRepeats(r)
  BY <1>1, <1>2 DEF Elems, NoRepeats
<1>. QED
  BY <1>1, <1>3 DEF r

LEMMA TailDistinct ==
  ASSUME NEW S, NEW q \in Seq(S), q # << >>, NoRepeats(q)
  PROVE  /\ Tail(q) \in Seq(S) /\ Head(q) \in Elems(q) /\ Head(q) \in S /\ NoRepeats(Tail(q))
         /\ Elems(Tail(q)) \subseteq Elems(q) \ {Head(q)} /\ Len(Tail(q)) <= Len(q)
<1>1. /\ Len(q) \in Nat \ {0} /\ Tail(q) \in Seq(S) /\ Head(q) = q[1] /\ Len(Tail(q)) = Len(q) - 1
      /\ \A i \in DOMAIN Tail(q) : Tail(q)[i] = q[i + 1]
  OBVIOUS
<1>2. DOMAIN q = 1..Len(q) /\ DOMAIN Tail(q) = 1..(Len(q) - 1)
  BY <1>1
<1>3. Head(q) \in Elems(q) /\ Head(q) \in S
  BY <1>1, <1>2 DEF Elems
<1>4. ASSUME NEW i \in DOMAIN Tail(q) PROVE Tail(q)[i] \in Elems(q) \ {Head(q)}
  <2>1. i + 1 \in DOMAIN q /\ i + 1 # 1 /\ 1 \in DOMAIN q
    BY <1>1, <1>2
  <2>. QED
    BY <1>1, <2>1 DEF Elems, NoRepeats
<1>5. ASSUME NEW i \in DOMAIN Tail(q), NEW j \in DOMAIN Tail(q), Tail(q)[i] = Tail(q)[j]
      PROVE  i = j
  <2>1. i + 1 \in DOMAIN q /\ j + 1 \in DOMAIN q /\ q[i + 1] = q[j + 1]
    BY <1>1, <1>2, <1>5
  <2>2. i + 1 = j + 1
    BY <2>1 DEF NoRepeats
  <2>. QED
    BY <1>2, <2>2
<1>. QED
  BY <1>1, <1>3, <1>4, <1>5 DEF Elems, NoRepeats

LEMMA EmptyDistinct ==
  ASSUME NEW S
  PROVE  << >> \in Seq(S) /\ NoRepeats(<< >>) /\ Elems(<< >>) = {}
  BY DEF NoRepeats, Elems

LEMMA ElemsTypes ==
  ASSUME NEW S, NEW q \in Seq(S)
  PROVE  Elems(q) \subseteq S
  BY DEF Elems

-----------------------------------------------------------------------------
(* The pool store. *)

LEMMA FreshGood ==
  ASSUME NEW S, NEW q \in Seq(S), NoRepeats(q)
  PROVE  /\ Fresh(q) \in Seq(S) /\ NoRepeats(Fresh(q)) /\ Len(Fresh(q)) <= Len(q)
         /\ Elems(Fresh(q)) = Elems(q) \ (1 .. expiry)
  BY KeepProperties, KeepDistinct DEF Fresh

LEMMA StoreTypes ==
  ASSUME PoolInv
  PROVE  /\ generated \in Nat /\ expiry \in Nat /\ MAX_POOL \in Nat
         /\ pool \in Seq(Prekey) /\ consumed \subseteq Prekey /\ handed \in Seq(Prekey)
         /\ Elems(pool) \subseteq Prekey /\ Elems(handed) \subseteq Prekey
         /\ Len(pool) \in Nat /\ Len(pool) <= MAX_POOL /\ NoRepeats(pool) /\ NoRepeats(handed)
         /\ \A k \in Prekey : k \in Nat /\ k # 0
<1>1. generated \in Nat /\ expiry \in Nat
  BY DEF PoolInv, ClientTypes
<1>2. /\ pool \in Seq(Prekey) /\ consumed \subseteq Prekey /\ handed \in Seq(Prekey)
      /\ Len(pool) <= MAX_POOL /\ NoRepeats(pool) /\ NoRepeats(handed)
  BY DEF PoolInv, StoreGood, PoolBounded, HandedOutOnce
<1>3. Elems(pool) \subseteq Prekey /\ Elems(handed) \subseteq Prekey /\ Len(pool) \in Nat
  BY <1>2, ElemsTypes
<1>4. MAX_POOL \in Nat /\ \A k \in Prekey : k \in Nat /\ k # 0
  BY <1>1, PoolAssumption DEF Prekey
<1>. QED
  BY <1>1, <1>2, <1>3, <1>4

LEMMA TombstonesKeep ==
  ASSUME PoolInv, handed' = handed, expiry' = expiry, consumed' = Tombstones
  PROVE  HandedAreSpent' /\ consumed' \subseteq Prekey
<1>1. \A k \in Elems(handed) : k \in Nat
  BY StoreTypes
<1>2. HandedAreSpent
  BY DEF PoolInv, StoreGood
<1>. QED
  BY <1>1, <1>2, StoreTypes DEF HandedAreSpent, Tombstones

LEMMA PruneKeeps ==
  ASSUME PoolInv, PrunePool, handed' = handed, expiry' = expiry, generated' = generated
  PROVE  StoreGood'
<1>1. /\ Fresh(pool) \in Seq(Prekey) /\ NoRepeats(Fresh(pool)) /\ Len(Fresh(pool)) <= Len(pool)
      /\ Len(Fresh(pool)) \in Nat /\ Elems(Fresh(pool)) \subseteq Elems(pool)
  BY StoreTypes, FreshGood
<1>2. pool' = Fresh(pool) /\ consumed' = Tombstones
  BY DEF PrunePool
<1>3. PoolIsUnused'
  BY <1>1, <1>2 DEF PoolIsUnused, PoolInv, StoreGood, Elems
<1>4. PoolBounded' /\ HandedOutOnce'
  BY <1>1, <1>2, StoreTypes DEF PoolBounded, HandedOutOnce, NoRepeats
<1>5. pool' \in Seq(Prekey') /\ handed' \in Seq(Prekey') /\ Prekey' = Prekey
  BY <1>1, <1>2, StoreTypes DEF Prekey
<1>. QED
  BY <1>2, <1>3, <1>4, <1>5, TombstonesKeep DEF StoreGood

LEMMA SameStore ==
  ASSUME PoolInv, pool' = pool, consumed' = consumed, handed' = handed, expiry' = expiry,
         generated' = generated
  PROVE  StoreGood'
  BY DEF PoolInv, StoreGood, HandedAreSpent, PoolIsUnused, HandedOutOnce, PoolBounded, Prekey, NoRepeats,
         Elems

\* A publication brings back nothing that was handed out.
LEMMA PublishKeeps ==
  ASSUME PoolInv, NEW records \in Seq(Prekey), NoRepeats(records), PublishToPool(records),
         handed' = handed, expiry' = expiry, generated' = generated
  PROVE  StoreGood'
<1>1. /\ Fresh(pool) \in Seq(Prekey) /\ NoRepeats(Fresh(pool)) /\ Elems(Fresh(pool)) \subseteq Elems(pool)
  BY StoreTypes, FreshGood
<1>2. /\ Fresh(records) \in Seq(Prekey) /\ NoRepeats(Fresh(records))
      /\ Elems(Fresh(records)) = Elems(records) \ (1 .. expiry)
  BY FreshGood
<1>3. /\ Publishable(records) \in Seq(Prekey) /\ NoRepeats(Publishable(records))
      /\ Elems(Publishable(records)) = Elems(Fresh(records)) \ (Tombstones \cup Elems(Fresh(pool)))
  BY <1>2, KeepProperties, KeepDistinct DEF Publishable
<1>4. PICK next : next = Fresh(pool) \o Publishable(records)
  OBVIOUS
<1>5. /\ next \in Seq(Prekey) /\ NoRepeats(next)
      /\ Elems(next) = Elems(Fresh(pool)) \cup Elems(Publishable(records))
  BY <1>1, <1>3, <1>4, ConcatDistinct
<1>6. Elems(Publishable(records)) \cap Elems(handed) = {}
  <2>1. ASSUME NEW k \in Elems(handed) PROVE k \in 1 .. expiry \/ k \in Tombstones
    <3>1. k <= expiry \/ k \in consumed
      BY DEF PoolInv, StoreGood, HandedAreSpent
    <3>2. k \in Nat /\ k # 0 /\ expiry \in Nat
      BY StoreTypes
    <3>. QED
      BY <3>1, <3>2 DEF Tombstones
  <2>. QED
    BY <1>2, <1>3, <2>1
<1>7. Elems(next) \cap Elems(handed) = {}
  BY <1>1, <1>5, <1>6 DEF PoolInv, StoreGood, PoolIsUnused
<1>8. pool' = FirstOf(next, MAX_POOL) /\ consumed' = Tombstones
  BY <1>4 DEF PublishToPool
<1>9. /\ FirstOf(next, MAX_POOL) \in Seq(Prekey) /\ NoRepeats(FirstOf(next, MAX_POOL))
      /\ Elems(FirstOf(next, MAX_POOL)) \subseteq Elems(next) /\ Len(FirstOf(next, MAX_POOL)) <= MAX_POOL
  <2>1. MAX_POOL \in Int /\ MAX_POOL >= 0
    BY StoreTypes
  <2>. QED
    BY <1>5, <2>1, FirstOfProperties, FirstOfDistinct
<1>10. PoolIsUnused'
  BY <1>7, <1>8, <1>9 DEF PoolIsUnused, Elems
<1>11. PoolBounded' /\ HandedOutOnce'
  BY <1>8, <1>9, StoreTypes DEF PoolBounded, HandedOutOnce, NoRepeats
<1>12. pool' \in Seq(Prekey') /\ handed' \in Seq(Prekey') /\ Prekey' = Prekey
  BY <1>8, <1>9, StoreTypes DEF Prekey
<1>. QED
  BY <1>8, <1>10, <1>11, <1>12, TombstonesKeep DEF StoreGood

\* The oldest fresh prekey is handed out, for the first time.
LEMMA ClaimKeeps ==
  ASSUME PoolInv, Fresh(pool) # << >>, NEW k, k = Head(Fresh(pool)), ClaimFromPool(k),
         handed' = Append(handed, k), expiry' = expiry, generated' = generated
  PROVE  /\ StoreGood' /\ k \in Elems(pool) /\ k \in Prekey /\ k \notin Elems(handed)
         /\ Elems(handed)' = Elems(handed) \cup {k}
<1>1. /\ Fresh(pool) \in Seq(Prekey) /\ NoRepeats(Fresh(pool)) /\ Elems(Fresh(pool)) \subseteq Elems(pool)
      /\ Len(Fresh(pool)) <= Len(pool) /\ Len(Fresh(pool)) \in Nat
  BY StoreTypes, FreshGood
<1>2. PICK rest : rest = Tail(Fresh(pool))
  OBVIOUS
<1>3. /\ rest \in Seq(Prekey) /\ k \in Elems(Fresh(pool)) /\ k \in Prekey /\ NoRepeats(rest)
      /\ Elems(rest) \subseteq Elems(Fresh(pool)) \ {k} /\ Len(rest) <= Len(Fresh(pool)) /\ Len(rest) \in Nat
  BY <1>1, <1>2, TailDistinct
<1>4. k \in Elems(pool) /\ k \notin Elems(handed)
  BY <1>1, <1>3 DEF PoolInv, StoreGood, PoolIsUnused
<1>5. PICK all : all = Append(handed, k)
  OBVIOUS
<1>6. all \in Seq(Prekey) /\ NoRepeats(all) /\ Elems(all) = Elems(handed) \cup {k}
  BY <1>3, <1>4, <1>5, StoreTypes, AppendDistinct
<1>7. pool' = rest /\ consumed' = Tombstones \cup {k} /\ handed' = all
  BY <1>2, <1>5 DEF ClaimFromPool
<1>8. Elems(handed)' = Elems(all) /\ Elems(pool)' = Elems(rest)
  BY <1>7 DEF Elems
<1>9. HandedAreSpent'
  <2>1. \A x \in Elems(handed) : (x <= expiry \/ x \in consumed) /\ x \in Nat /\ expiry \in Nat
    BY StoreTypes DEF PoolInv, StoreGood, HandedAreSpent
  <2>. QED
    BY <1>6, <1>7, <1>8, <2>1 DEF HandedAreSpent, Tombstones
<1>10. PoolIsUnused'
  BY <1>1, <1>3, <1>6, <1>8 DEF PoolIsUnused, PoolInv, StoreGood
<1>11. PoolBounded' /\ HandedOutOnce'
  <2>1. Len(rest) <= MAX_POOL
    BY <1>1, <1>3, StoreTypes
  <2>. QED
    BY <1>3, <1>6, <1>7, <2>1 DEF PoolBounded, HandedOutOnce, NoRepeats
<1>12. /\ pool' \in Seq(Prekey') /\ handed' \in Seq(Prekey') /\ Prekey' = Prekey
       /\ consumed' \subseteq Prekey'
  BY <1>3, <1>6, <1>7, StoreTypes DEF Prekey, Tombstones
<1>. QED
  BY <1>3, <1>4, <1>6, <1>8, <1>9, <1>10, <1>11, <1>12 DEF StoreGood

-----------------------------------------------------------------------------
(* The private halves. *)

LEMMA HalvesStay ==
  ASSUME PoolInv, kind' = kind, poolTrouble' \in Nat, poolTrouble' >= poolTrouble, generated' = generated,
         opened' = opened, handed' = handed,
         \A s \in Sender : claim'[s].key \in {claim[s].key, 0}
  PROVE  HalvesGood'
<1>1. Remembers' => Remembers
  BY DEF Remembers, PoolInv, ClientTypes
<1>2. Elems(handed)' = Elems(handed) /\ Prekey' = Prekey /\ \A k \in Prekey : k # 0
  BY StoreTypes DEF Elems, Prekey
<1>. QED
  BY <1>1, <1>2 DEF HalvesGood, PoolInv

LEMMA SameBatches ==
  ASSUME PoolInv, turn' = turn, posts' = posts
  PROVE  BatchesDistinct'
  BY DEF PoolInv, BatchesDistinct

\* Where a claim stands changes, not what it has.
LEMMA ClaimMoves ==
  ASSUME PoolInv, NEW s \in Sender, NEW at \in {"idle", "asked", "verify", "key"}, Claiming(s, at)
  PROVE  /\ claim' \in [Sender -> [at : {"idle", "asked", "verify", "key"}, key : Prekey \cup {0}]]
         /\ \A t \in Sender : claim'[t].key \in {claim[t].key, 0}
  BY DEF Claiming, PoolInv, ClientTypes

-----------------------------------------------------------------------------
(* The owner. *)

LEMMA AskStatusKeeps ==
  ASSUME PoolInv, NEW w \in Owner, AskStatus(w)
  PROVE  PoolInv'
<1>. USE DEF AskStatus, ownerUnchanged
<1>1. /\ Fresh(pool) \in Seq(Prekey) /\ Len(Fresh(pool)) \in Nat
  BY StoreTypes, FreshGood
<1>2. ClientTypes'
  BY <1>1 DEF PoolInv, ClientTypes, Prekey
<1>3. BatchesDistinct'
  BY DEF PoolInv, ClientTypes, BatchesDistinct
<1>4. StoreGood'
  BY PruneKeeps
<1>5. HalvesGood'
  BY HalvesStay DEF PoolInv, ClientTypes
<1>. QED
  BY <1>2, <1>3, <1>4, <1>5 DEF PoolInv

LEMMA IdleTypes ==
  /\ \A S : IdleTurn \in [at : {"idle", "status", "post"}, count : Nat, records : Seq(S)]
  /\ NoRepeats(IdleTurn.records)
  /\ \A S : IdleClaim \in [at : {"idle", "asked", "verify", "key"}, key : S \cup {0}]
  /\ IdleClaim.key = 0
  BY EmptyDistinct DEF IdleTurn, IdleClaim

\* A tab that has nothing more to do.
EndsTurn(w) ==
  /\ turn' = [turn EXCEPT ![w] = IdleTurn]
  /\ UNCHANGED <<kind, generated, expiry, opened, pool, consumed, standing, posts, claim, handed>>

LEMMA TurnEnds ==
  ASSUME PoolInv, NEW w \in Owner, EndsTurn(w), poolTrouble' \in Nat, poolTrouble' >= poolTrouble
  PROVE  PoolInv'
<1>. USE DEF EndsTurn
<1>1. ClientTypes'
  BY IdleTypes DEF PoolInv, ClientTypes, Prekey
<1>2. BatchesDistinct'
  BY IdleTypes DEF PoolInv, ClientTypes, BatchesDistinct
<1>3. StoreGood' /\ HalvesGood'
  BY SameStore, HalvesStay
<1>. QED
  BY <1>1, <1>2, <1>3 DEF PoolInv

LEMMA PoolIsFullKeeps ==
  ASSUME PoolInv, NEW w \in Owner, PoolIsFull(w)
  PROVE  PoolInv'
<1>1. EndsTurn(w)
  BY DEF PoolIsFull, ownerUnchanged, EndsTurn
<1>2. poolTrouble' \in Nat /\ poolTrouble' >= poolTrouble
  BY DEF PoolIsFull, ownerUnchanged, PoolInv, ClientTypes
<1>. QED
  BY <1>1, <1>2, TurnEnds

LEMMA PostAnsweredKeeps ==
  ASSUME PoolInv, NEW w \in Owner, PostAnswered(w)
  PROVE  PoolInv'
<1>1. EndsTurn(w)
  BY DEF PostAnswered, ownerUnchanged, EndsTurn
<1>2. poolTrouble' \in Nat /\ poolTrouble' >= poolTrouble
  BY DEF PostAnswered, ownerUnchanged, PoolInv, ClientTypes
<1>. QED
  BY <1>1, <1>2, TurnEnds

\* A new batch: distinct prekeys that nobody has seen.
LEMMA GenerateAndPostKeeps ==
  ASSUME PoolInv, NEW w \in Owner, GenerateAndPost(w)
  PROVE  PoolInv'
<1>1. PICK n, records :
        /\ n = BatchSize(w) /\ records = [i \in 1 .. n |-> generated + i]
        /\ generated' = generated + n /\ opened' = opened \cup Elems(records)
        /\ turn' = [turn EXCEPT ![w] = [@ EXCEPT !.at = "post", !.records = records]]
        /\ posts' = posts \cup {[records |-> records, checked |-> FALSE]}
        /\ pool' = pool /\ consumed' = consumed /\ kind' = kind /\ expiry' = expiry
        /\ standing' = standing /\ claim' = claim /\ handed' = handed /\ poolTrouble' = poolTrouble
  BY DEF GenerateAndPost, SaveKeys, ownerUnchanged
<1>2. n \in Nat \ {0}
  BY <1>1, PoolAssumption DEF BatchSize, PoolInv, ClientTypes
<1>3. generated \in Nat /\ expiry \in 0 .. generated
  BY DEF PoolInv, ClientTypes
<1>4. /\ Prekey' = Prekey \cup (generated + 1) .. (generated + n) /\ Prekey \subseteq Prekey'
      /\ expiry' \in 0 .. generated' /\ generated' \in Nat
  BY <1>1, <1>2, <1>3 DEF Prekey
<1>5. records \in Seq(Prekey') /\ NoRepeats(records)
      /\ Elems(records) = (generated + 1) .. (generated + n)
  <2>1. DOMAIN records = 1 .. n /\ \A i \in 1 .. n : records[i] = generated + i /\ records[i] \in Prekey'
    BY <1>1, <1>2, <1>3 DEF Prekey
  <2>2. records \in [1 .. n -> Prekey']
    BY <1>1, <2>1
  <2>3. records \in Seq(Prekey')
    BY <1>2, <2>2
  <2>4. NoRepeats(records)
    BY <1>2, <1>3, <2>1 DEF NoRepeats
  <2>5. \A k \in (generated + 1) .. (generated + n) : k - generated \in 1 .. n /\ generated + (k - generated) = k
    BY <1>2, <1>3
  <2>6. \A i \in 1 .. n : generated + i \in (generated + 1) .. (generated + n)
    BY <1>2, <1>3
  <2>7. Elems(records) = (generated + 1) .. (generated + n)
    BY <2>1, <2>5, <2>6 DEF Elems
  <2>. QED
    BY <2>3, <2>4, <2>7
<1>6. \A q : q \in Seq(Prekey) => q \in Seq(Prekey')
  BY <1>4
<1>7. ClientTypes'
  <2>1. turn' \in [Owner -> [at : {"idle", "status", "post"}, count : Nat, records : Seq(Prekey')]]
    <3>1. turn \in [Owner -> [at : {"idle", "status", "post"}, count : Nat, records : Seq(Prekey')]]
      BY <1>6 DEF PoolInv, ClientTypes
    <3>. QED
      BY <1>1, <1>5, <3>1
  <2>2. posts' \subseteq [records : Seq(Prekey'), checked : BOOLEAN]
    <3>1. [records |-> records, checked |-> FALSE] \in [records : Seq(Prekey'), checked : BOOLEAN]
      BY <1>5
    <3>2. ASSUME NEW p \in posts PROVE p \in [records : Seq(Prekey'), checked : BOOLEAN]
      <4>1. p \in [records : Seq(Prekey), checked : BOOLEAN]
        BY DEF PoolInv, ClientTypes
      <4>. QED
        BY <1>6, <4>1
    <3>. QED
      BY <1>1, <3>1, <3>2
  <2>3. claim' \in [Sender -> [at : {"idle", "asked", "verify", "key"}, key : Prekey' \cup {0}]]
    BY <1>1, <1>4 DEF PoolInv, ClientTypes
  <2>4. opened' \subseteq Prekey'
    BY <1>1, <1>4, <1>5 DEF PoolInv, ClientTypes
  <2>. QED
    BY <1>1, <1>4, <2>1, <2>2, <2>3, <2>4 DEF PoolInv, ClientTypes
<1>8. BatchesDistinct'
  <2>1. ASSUME NEW p \in posts' PROVE NoRepeats(p.records)
    <3>1. p \in posts \/ p = [records |-> records, checked |-> FALSE]
      <4>1. posts' = posts \cup {[records |-> records, checked |-> FALSE]}
        BY <1>1
      <4>. QED
        BY <4>1, Zenon
    <3>. QED
      BY <1>5, <3>1 DEF PoolInv, BatchesDistinct
  <2>2. ASSUME NEW v \in Owner PROVE NoRepeats(turn'[v].records)
    <3>1. turn'[v].records \in {turn[v].records, records}
      BY <1>1 DEF PoolInv, ClientTypes
    <3>. QED
      BY <1>5, <3>1 DEF PoolInv, BatchesDistinct
  <2>. QED
    BY <2>1, <2>2 DEF BatchesDistinct
<1>9. StoreGood'
  <2>1. pool' \in Seq(Prekey') /\ handed' \in Seq(Prekey') /\ consumed' \subseteq Prekey'
    BY <1>1, <1>4, <1>6, StoreTypes
  <2>2. HandedAreSpent' /\ PoolIsUnused' /\ HandedOutOnce' /\ PoolBounded'
    BY <1>1 DEF PoolInv, StoreGood, HandedAreSpent, PoolIsUnused, HandedOutOnce, PoolBounded, NoRepeats, Elems
  <2>. QED
    BY <2>1, <2>2 DEF StoreGood
<1>10. HalvesGood'
  <2>1. (Remembers' => Remembers) /\ Elems(handed)' = Elems(handed)
    BY <1>1 DEF Remembers, Elems
  <2>2. Prekey' \ opened' \subseteq Prekey \ opened
    BY <1>1, <1>4, <1>5
  <2>. QED
    BY <1>1, <2>1, <2>2 DEF HalvesGood, PoolInv
<1>. QED
  BY <1>7, <1>8, <1>9, <1>10 DEF PoolInv

\* A request is dropped, or its manifest is checked.
LEMMA RequestMoves ==
  ASSUME PoolInv, NEW p \in posts,
         posts' \subseteq posts \cup {[p EXCEPT !.checked = TRUE]},
         UNCHANGED <<kind, generated, expiry, opened, pool, consumed, standing, turn, claim, handed, poolTrouble>>
  PROVE  PoolInv'
<1>1. p \in [records : Seq(Prekey), checked : BOOLEAN] /\ NoRepeats(p.records)
  BY DEF PoolInv, ClientTypes, BatchesDistinct
<1>2. ClientTypes'
  BY <1>1 DEF PoolInv, ClientTypes, Prekey
<1>3. BatchesDistinct'
  BY <1>1 DEF PoolInv, BatchesDistinct
<1>4. StoreGood' /\ HalvesGood'
  BY SameStore, HalvesStay DEF PoolInv, ClientTypes
<1>. QED
  BY <1>2, <1>3, <1>4 DEF PoolInv

LEMMA PublishMovesKeeps ==
  ASSUME PoolInv, NEW p \in posts, PublishRefused(p) \/ PublishChecked(p)
  PROVE  PoolInv'
  BY RequestMoves DEF PublishRefused, PublishChecked, ownerUnchanged

LEMMA PublishStoresKeeps ==
  ASSUME PoolInv, NEW p \in posts, PublishStores(p)
  PROVE  PoolInv'
<1>. USE DEF PublishStores, ownerUnchanged
<1>1. p.records \in Seq(Prekey) /\ NoRepeats(p.records)
  BY DEF PoolInv, ClientTypes, BatchesDistinct
<1>2. ClientTypes'
  BY DEF PoolInv, ClientTypes, Prekey
<1>3. BatchesDistinct'
  BY DEF PoolInv, BatchesDistinct
<1>4. StoreGood'
  BY <1>1, PublishKeeps
<1>5. HalvesGood'
  BY HalvesStay DEF PoolInv, ClientTypes
<1>. QED
  BY <1>2, <1>3, <1>4, <1>5 DEF PoolInv

-----------------------------------------------------------------------------
(* The sender. *)

LEMMA ClaimWaits ==
  ASSUME PoolInv, NEW s \in Sender, AskClaim(s) \/ ClaimRevoked(s) \/ ClaimAnswered(s)
  PROVE  PoolInv'
<1>. USE DEF AskClaim, ClaimRevoked, ClaimAnswered, senderUnchanged
<1>1. PICK at \in {"idle", "asked", "verify", "key"} : Claiming(s, at)
  OBVIOUS
<1>2. ClientTypes'
  BY <1>1, ClaimMoves DEF PoolInv, ClientTypes, Prekey
<1>3. BatchesDistinct' /\ StoreGood'
  BY SameBatches, SameStore
<1>4. HalvesGood'
  BY <1>1, ClaimMoves, HalvesStay DEF PoolInv, ClientTypes
<1>. QED
  BY <1>2, <1>3, <1>4 DEF PoolInv

LEMMA ClaimEmptyKeeps ==
  ASSUME PoolInv, NEW s \in Sender, ClaimEmpty(s)
  PROVE  PoolInv'
<1>. USE DEF ClaimEmpty, senderUnchanged
<1>1. PICK at \in {"idle", "asked", "verify", "key"} : Claiming(s, at)
  OBVIOUS
<1>2. ClientTypes'
  BY <1>1, ClaimMoves DEF PoolInv, ClientTypes, Prekey
<1>3. BatchesDistinct' /\ StoreGood'
  BY SameBatches, SameStore, PruneKeeps
<1>4. HalvesGood'
  BY <1>1, ClaimMoves, HalvesStay DEF PoolInv, ClientTypes
<1>. QED
  BY <1>2, <1>3, <1>4 DEF PoolInv

LEMMA ClaimTakesKeeps ==
  ASSUME PoolInv, NEW s \in Sender, ClaimTakes(s)
  PROVE  PoolInv'
<1>1. PICK k : k = Head(Fresh(pool))
  OBVIOUS
<1>2. /\ Fresh(pool) # << >> /\ ClaimFromPool(k) /\ handed' = Append(handed, k)
      /\ claim' = [claim EXCEPT ![s] = [at |-> "verify", key |-> k]]
      /\ opened' = opened /\ kind' = kind /\ generated' = generated /\ expiry' = expiry
      /\ standing' = standing /\ turn' = turn /\ posts' = posts /\ poolTrouble' = poolTrouble
  BY <1>1 DEF ClaimTakes, senderUnchanged
<1>3. /\ StoreGood' /\ k \in Elems(pool) /\ k \in Prekey /\ k \notin Elems(handed)
      /\ Elems(handed)' = Elems(handed) \cup {k}
  BY <1>1, <1>2, ClaimKeeps
<1>4. claim'[s].key = k /\ \A t \in Sender \ {s} : claim'[t] = claim[t]
  BY <1>2 DEF PoolInv, ClientTypes
<1>5. ClientTypes'
  BY <1>2, <1>3 DEF PoolInv, ClientTypes, Prekey
<1>6. BatchesDistinct'
  BY <1>2, SameBatches
<1>7. HalvesGood'
  <2>. SUFFICES ASSUME Remembers' PROVE HalvesGood'
    BY DEF HalvesGood
  <2>1. Remembers /\ Prekey' = Prekey
    BY <1>2 DEF Remembers, Prekey
  <2>2. /\ \A t \in Sender : claim[t].key # 0 => claim[t].key \in Elems(handed)
        /\ \A t, u \in Sender : claim[t].key # 0 /\ claim[t].key = claim[u].key => t = u
        /\ \A x \in Prekey \ opened : x \in Elems(handed) /\ \A t \in Sender : claim[t].key # x
    BY <2>1 DEF PoolInv, HalvesGood
  <2>3. k # 0
    BY <1>3, StoreTypes
  <2>4. \A t \in Sender \ {s} : claim'[t].key # k
    BY <1>3, <1>4, <2>2, <2>3
  <2>. QED
    BY <1>2, <1>3, <1>4, <2>1, <2>2, <2>3, <2>4 DEF HalvesGood
<1>. QED
  BY <1>3, <1>5, <1>6, <1>7 DEF PoolInv

LEMMA MessageStoredKeeps ==
  ASSUME PoolInv, NEW s \in Sender, MessageStored(s)
  PROVE  PoolInv'
<1>1. /\ opened' = opened \ {claim[s].key} /\ claim' = [claim EXCEPT ![s] = IdleClaim]
      /\ pool' = pool /\ consumed' = consumed /\ handed' = handed /\ claim[s].key \in opened
      /\ kind' = kind /\ generated' = generated /\ expiry' = expiry
      /\ standing' = standing /\ turn' = turn /\ posts' = posts /\ poolTrouble' = poolTrouble
  BY DEF MessageStored, senderUnchanged
<1>2. claim'[s].key = 0 /\ \A t \in Sender \ {s} : claim'[t] = claim[t]
  BY <1>1, IdleTypes DEF PoolInv, ClientTypes
<1>3. ClientTypes'
  BY <1>1, IdleTypes DEF PoolInv, ClientTypes, Prekey
<1>4. BatchesDistinct' /\ StoreGood'
  BY <1>1, SameBatches, SameStore
<1>5. HalvesGood'
  <2>. SUFFICES ASSUME Remembers' PROVE HalvesGood'
    BY DEF HalvesGood
  <2>1. Remembers /\ Prekey' = Prekey /\ Elems(handed)' = Elems(handed)
    BY <1>1 DEF Remembers, Prekey, Elems
  <2>2. /\ \A t \in Sender : claim[t].key # 0 => claim[t].key \in Elems(handed)
        /\ \A t, u \in Sender : claim[t].key # 0 /\ claim[t].key = claim[u].key => t = u
        /\ \A x \in Prekey \ opened : x \in Elems(handed) /\ \A t \in Sender : claim[t].key # x
    BY <2>1 DEF PoolInv, HalvesGood
  <2>3. \A x \in Prekey : x # 0
    BY StoreTypes
  <2>4. claim[s].key \in Prekey
    BY <1>1 DEF PoolInv, ClientTypes
  <2>5. \A t \in Sender : claim'[t].key # claim[s].key
    BY <1>2, <2>2, <2>3, <2>4
  <2>6. \A x \in Prekey \ opened' : x \in Elems(handed) /\ \A t \in Sender : claim'[t].key # x
    BY <1>1, <1>2, <2>2, <2>3, <2>4, <2>5
  <2>. QED
    BY <1>1, <1>2, <2>1, <2>2, <2>6 DEF HalvesGood
<1>. QED
  BY <1>3, <1>4, <1>5 DEF PoolInv

-----------------------------------------------------------------------------
(* Time and trouble. *)

LEMMA ManifestMovesKeeps ==
  ASSUME PoolInv, ManifestMoves
  PROVE  PoolInv'
<1>. USE DEF ManifestMoves
<1>1. ClientTypes'
  BY DEF PoolInv, ClientTypes, Prekey
<1>2. BatchesDistinct' /\ StoreGood' /\ HalvesGood'
  BY SameBatches, SameStore, HalvesStay DEF PoolInv, ClientTypes
<1>. QED
  BY <1>1, <1>2 DEF PoolInv

LEMMA KeyExpiresKeeps ==
  ASSUME PoolInv, KeyExpires
  PROVE  PoolInv'
<1>1. /\ expiry < generated /\ expiry' = expiry + 1
      /\ pool' = pool /\ consumed' = consumed /\ handed' = handed /\ claim' = claim
      /\ kind' = kind /\ generated' = generated /\ opened' = opened
      /\ standing' = standing /\ turn' = turn /\ posts' = posts /\ poolTrouble' = poolTrouble
  BY DEF KeyExpires
<1>2. ClientTypes'
  BY <1>1 DEF PoolInv, ClientTypes, Prekey
<1>3. BatchesDistinct' /\ HalvesGood'
  BY <1>1, SameBatches, HalvesStay DEF PoolInv, ClientTypes
<1>4. HandedAreSpent'
  <2>1. \A k \in Elems(handed) : (k <= expiry \/ k \in consumed) /\ k \in Nat /\ expiry \in Nat
    BY StoreTypes DEF PoolInv, StoreGood, HandedAreSpent
  <2>. QED
    BY <1>1, <2>1 DEF HandedAreSpent, Elems
<1>5. StoreGood'
  BY <1>1, <1>4 DEF PoolInv, StoreGood, PoolIsUnused, HandedOutOnce, PoolBounded, NoRepeats, Elems, Prekey
<1>. QED
  BY <1>2, <1>3, <1>5 DEF PoolInv

LEMMA TroubleCounts ==
  ASSUME PoolInv, PoolTrouble
  PROVE  poolTrouble' \in Nat \ {0} /\ poolTrouble' >= poolTrouble
  BY DEF PoolTrouble, PoolInv, ClientTypes

LEMMA ClaimAnswerLostKeeps ==
  ASSUME PoolInv, NEW s \in Sender, ClaimAnswerLost(s)
  PROVE  PoolInv'
<1>. USE DEF ClaimAnswerLost
<1>1. poolTrouble' \in Nat /\ poolTrouble' >= poolTrouble
  BY TroubleCounts
<1>2. \A t \in Sender : claim'[t].key \in {claim[t].key, 0}
  BY IdleTypes DEF PoolInv, ClientTypes
<1>3. ClientTypes'
  BY <1>1, IdleTypes DEF PoolInv, ClientTypes, Prekey
<1>4. BatchesDistinct' /\ StoreGood' /\ HalvesGood'
  BY <1>1, <1>2, SameBatches, SameStore, HalvesStay
<1>. QED
  BY <1>3, <1>4 DEF PoolInv

LEMMA PostRepeatedKeeps ==
  ASSUME PoolInv, NEW w \in Owner, PostRepeated(w)
  PROVE  PoolInv'
<1>. USE DEF PostRepeated
<1>1. poolTrouble' \in Nat /\ poolTrouble' >= poolTrouble
  BY TroubleCounts
<1>2. turn[w].records \in Seq(Prekey) /\ NoRepeats(turn[w].records)
  BY DEF PoolInv, ClientTypes, BatchesDistinct
<1>3. CASE turn' = turn
  <2>1. ClientTypes'
    <3>1. [records |-> turn[w].records, checked |-> FALSE] \in [records : Seq(Prekey), checked : BOOLEAN]
      BY <1>2
    <3>2. posts' \subseteq [records : Seq(Prekey), checked : BOOLEAN]
      BY <1>3, <3>1 DEF PoolInv, ClientTypes
    <3>. QED
      BY <1>1, <1>3, <3>2 DEF PoolInv, ClientTypes, Prekey
  <2>2. BatchesDistinct'
    BY <1>2, <1>3 DEF PoolInv, BatchesDistinct
  <2>3. StoreGood' /\ HalvesGood'
    BY <1>1, SameStore, HalvesStay
  <2>. QED
    BY <2>1, <2>2, <2>3 DEF PoolInv
<1>4. CASE turn' = [turn EXCEPT ![w] = IdleTurn] /\ posts' = posts
  <2>1. EndsTurn(w)
    BY <1>4 DEF EndsTurn
  <2>. QED
    BY <1>1, <2>1, TurnEnds
<1>. QED
  BY <1>3, <1>4

LEMMA WebRestartsKeeps ==
  ASSUME PoolInv, WebRestarts
  PROVE  PoolInv'
<1>1. /\ kind = "web" /\ kind' = kind /\ pool' = << >> /\ consumed' = {} /\ standing' = "none"
      /\ handed' = << >> /\ posts' \subseteq posts
      /\ claim' = [s \in Sender |-> IF claim[s].at \in {"asked", "verify"} THEN IdleClaim ELSE claim[s]]
      /\ generated' = generated /\ expiry' = expiry /\ opened' = opened /\ turn' = turn
      /\ poolTrouble' \in Nat \ {0}
  BY TroubleCounts DEF WebRestarts
<1>2. ClientTypes'
  BY <1>1, IdleTypes DEF PoolInv, ClientTypes, Prekey
<1>3. BatchesDistinct'
  BY <1>1 DEF PoolInv, BatchesDistinct
<1>4. StoreGood'
  <2>1. Elems(handed)' = {} /\ Elems(pool)' = {} /\ Len(<< >>) = 0
    BY <1>1, EmptyDistinct DEF Elems
  <2>2. HandedOutOnce' /\ PoolBounded'
    BY <1>1, <2>1, EmptyDistinct, StoreTypes DEF HandedOutOnce, PoolBounded, NoRepeats
  <2>. QED
    BY <1>1, <2>1, <2>2, EmptyDistinct DEF StoreGood, HandedAreSpent, PoolIsUnused
<1>5. HalvesGood'
  BY <1>1 DEF HalvesGood, Remembers
<1>. QED
  BY <1>2, <1>3, <1>4, <1>5 DEF PoolInv

LEMMA StandaloneRestartsKeeps ==
  ASSUME PoolInv, StandaloneRestarts
  PROVE  PoolInv'
<1>. USE DEF StandaloneRestarts
<1>1. poolTrouble' \in Nat /\ poolTrouble' >= poolTrouble
  BY TroubleCounts
<1>2. ClientTypes'
  BY <1>1, IdleTypes DEF PoolInv, ClientTypes, Prekey
<1>3. BatchesDistinct' /\ StoreGood'
  BY SameBatches, PruneKeeps
<1>4. HalvesGood'
  <2>1. \A s \in Sender : claim'[s].key \in {claim[s].key, 0}
    BY IdleTypes
  <2>. QED
    BY <1>1, <2>1, HalvesStay
<1>. QED
  BY <1>2, <1>3, <1>4 DEF PoolInv

-----------------------------------------------------------------------------
(* Theorems. *)

LEMMA PoolInitGood ==
  PoolInit => PoolInv
<1>. SUFFICES ASSUME PoolInit PROVE PoolInv
  OBVIOUS
<1>1. ClientTypes /\ BatchesDistinct
  BY IdleTypes DEF PoolInit, ClientTypes, BatchesDistinct, Prekey
<1>2. Elems(handed) = {} /\ Elems(pool) = {} /\ Len(pool) = 0 /\ NoRepeats(handed) /\ NoRepeats(pool)
      /\ pool \in Seq(Prekey) /\ handed \in Seq(Prekey)
  BY EmptyDistinct DEF PoolInit
<1>3. StoreGood
  BY <1>2, PoolAssumption DEF StoreGood, HandedAreSpent, PoolIsUnused, HandedOutOnce, PoolBounded, PoolInit
<1>4. HalvesGood
  BY IdleTypes DEF HalvesGood, PoolInit, Prekey
<1>. QED
  BY <1>1, <1>3, <1>4 DEF PoolInv

LEMMA PoolNextKeeps ==
  ASSUME PoolInv, [PoolNext]_poolVars
  PROVE  PoolInv'
<1>1. CASE UNCHANGED poolVars
  <2>1. ClientTypes'
    BY <1>1 DEF poolVars, PoolInv, ClientTypes, Prekey
  <2>2. BatchesDistinct' /\ StoreGood' /\ HalvesGood'
    BY <1>1, SameBatches, SameStore, HalvesStay DEF poolVars, PoolInv, ClientTypes
  <2>. QED
    BY <2>1, <2>2 DEF PoolInv
<1>2. ASSUME NEW w \in Owner,
             AskStatus(w) \/ PoolIsFull(w) \/ GenerateAndPost(w) \/ PostAnswered(w) \/ PostRepeated(w)
      PROVE  PoolInv'
  BY <1>2, AskStatusKeeps, PoolIsFullKeeps, GenerateAndPostKeeps, PostAnsweredKeeps, PostRepeatedKeeps
<1>3. ASSUME NEW p \in posts, PublishRefused(p) \/ PublishChecked(p) \/ PublishStores(p)
      PROVE  PoolInv'
  BY <1>3, PublishMovesKeeps, PublishStoresKeeps
<1>4. ASSUME NEW s \in Sender,
             AskClaim(s) \/ ClaimRevoked(s) \/ ClaimEmpty(s) \/ ClaimTakes(s)
               \/ ClaimAnswered(s) \/ MessageStored(s) \/ ClaimAnswerLost(s)
      PROVE  PoolInv'
  BY <1>4, ClaimWaits, ClaimEmptyKeeps, ClaimTakesKeeps, MessageStoredKeeps, ClaimAnswerLostKeeps
<1>5. ASSUME ManifestMoves \/ KeyExpires \/ WebRestarts \/ StandaloneRestarts PROVE PoolInv'
  BY <1>5, ManifestMovesKeeps, KeyExpiresKeeps, WebRestartsKeeps, StandaloneRestartsKeeps
<1>. QED
  BY <1>1, <1>2, <1>3, <1>4, <1>5 DEF PoolNext

(* The inductive invariant: what left the pool is spent and never returns,  *)
(* and only spent prekeys are without their private half (prekey-pool.mjs). *)
THEOREM PoolInvariant == PoolSpec => []PoolInv
<1>1. PoolInv /\ [PoolNext]_poolVars => PoolInv'
  BY PoolNextKeeps
<1>. QED
  BY <1>1, PoolInitGood, PTL DEF PoolSpec

(* Types: the type invariant of PrekeyPool.                                 *)
THEOREM PoolTypes == PoolSpec => []PoolTypeOK
<1>1. PoolInv => PoolTypeOK
  BY DEF PoolInv, ClientTypes, StoreGood, PoolTypeOK
<1>. QED
  BY <1>1, PoolInvariant, PTL

(* A prekey is handed out once (claimFromPreKeyPool, publishToPreKeyPool).  *)
THEOREM ClaimedOnce == PoolSpec => []HandedOutOnce
<1>1. PoolInv => HandedOutOnce
  BY DEF PoolInv, StoreGood
<1>. QED
  BY <1>1, PoolInvariant, PTL

(* The pool keeps its limit and holds no prekey twice                       *)
(* (publishToPreKeyPool).                                                   *)
THEOREM PoolKeepsItsLimit == PoolSpec => []PoolBounded
<1>1. PoolInv => PoolBounded
  BY DEF PoolInv, StoreGood
<1>. QED
  BY <1>1, PoolInvariant, PTL

(* The device opens whatever is encrypted to a prekey it offered            *)
(* (ensurePreKeyPool saves the private halves before it publishes).         *)
THEOREM EveryClaimOpens == PoolSpec => []ClaimedKeyOpens
<1>1. PoolInv => ClaimedKeyOpens
  <2>. SUFFICES ASSUME PoolInv, Remembers PROVE ClaimedKeyOpens
    BY DEF ClaimedKeyOpens, Remembers
  <2>1. \A k \in Prekey \ opened : k \in Elems(handed) /\ \A s \in Sender : claim[s].key # k
    BY DEF PoolInv, HalvesGood
  <2>2. Elems(pool) \cap Elems(handed) = {} /\ Elems(pool) \subseteq Prekey
    BY StoreTypes DEF PoolInv, StoreGood, PoolIsUnused
  <2>3. \A s \in Sender : claim[s].key # 0 => claim[s].key \in Prekey
    BY DEF PoolInv, ClientTypes
  <2>. QED
    BY <2>1, <2>2, <2>3 DEF ClaimedKeyOpens
<1>. QED
  BY <1>1, PoolInvariant, PTL
=============================================================================
