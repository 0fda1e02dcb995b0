-------------------------- MODULE MessageDelivery --------------------------
(***************************************************************************)
(* End-to-end delivery of encrypted messages between two browsers through  *)
(* one relay: the sender's IndexedDB outbox, the relay's queue and receipt *)
(* mailboxes, the recipient's IndexedDB messages and one-time prekeys.     *)
(*                                                                         *)
(*   - relay: lib/quantic/relay.ts, whose operations run one at a time;    *)
(*   - client: sendMessage/queueDelivery and the sync loop of              *)
(*     components/quantic-network-v11-app.tsx, one sync at a time per tab, *)
(*     several tabs sharing the device's IndexedDB.                        *)
(*                                                                         *)
(* An HTTP call is a client step that leaves a request in flight and a     *)
(* relay step that handles it and hands over the answer.  A call that      *)
(* fails (lost request, lost or late answer, tab closed) leaves the        *)
(* request behind as an orphan, which the relay may still handle, later,   *)
(* or never.  Failures, reloads, relay restarts and TTL expiries together  *)
(* are bounded by MaxFaults: every behaviour is eventually free of them.   *)
(*                                                                         *)
(* Abstracted: envelope contents and keys (a delivery is a model value),   *)
(* clock values (an entry is older than MESSAGE_TTL_MS or not; an outbox   *)
(* item was tried in the last 30 seconds or not), the manifest and prekey- *)
(* pool steps of the sync loop.  A 429 refusal is a lost request.          *)
(***************************************************************************)
EXTENDS Mailboxes, FiniteSets

CONSTANTS
  Device,        \* <canonical address, device id> pairs that own a mailbox
  Tab, Home,     \* browser tabs running the client, and the device of each
  Delivery,      \* outbox item ids = clientMessageIds, one per target device
  From, To,      \* the sending and the receiving device of each delivery
  KeyMode,       \* the key modes a sender may get: "static-fallback", "one-time-prekey"
  EnvelopeId,    \* randomUUID() values
  MAX_QUEUE, MAX_RECEIPTS, PULL_BATCH,
  MaxFaults      \* TLC bound: failed calls + reloads + restarts + expiries

ASSUME DeliveryAssumption ==
  /\ Home \in [Tab -> Device]
  /\ From \in [Delivery -> Device] /\ To \in [Delivery -> Device]
  /\ KeyMode \subseteq {"static-fallback", "one-time-prekey"}
  /\ MAX_QUEUE \in Nat \ {0} /\ MAX_RECEIPTS \in Nat \ {0} /\ PULL_BATCH \in Nat \ {0}
  /\ MaxFaults \in Nat

VARIABLES
  registered,    \* devices the relay can authenticate and route to
  queue,         \* relay: device -> sequence of envelopes
  receipts,      \* relay: device -> sequence of delivery receipts
  outbox,        \* IndexedDB of the senders: deliveries kept for retry
  recent,        \* outbox items whose lastAttemptAt is less than 30 s old
  inbox,         \* IndexedDB of the recipients: deliveries stored as messages
  oneTime,       \* deliveries encrypted for a one-time prekey
  prekeys,       \* deliveries whose private one-time prekey the recipient still has
  compose,       \* delivery -> where its queueDelivery call is
  tab,           \* tab -> the state of its sync loop
  orphans,       \* requests in flight whose caller no longer waits
  faults         \* how many faults happened

relayVars == <<registered, queue, receipts>>
dbVars == <<outbox, recent, inbox, oneTime, prekeys>>
vars == <<relayVars, dbVars, compose, tab, orphans, faults>>

Envelope == [id : EnvelopeId, msg : Delivery, old : BOOLEAN]

\* A receipt's own UUID is represented by the id of the one envelope whose
\* acknowledgement created it.
Receipt == Envelope

Request ==
  [kind : {"register"}, dev : Device]
    \cup [kind : {"send"}, msg : Delivery]
    \cup [kind : {"ack", "confirm"}, dev : Device, ids : SUBSET EnvelopeId]

Phase == {"idle", "register", "flush", "send", "mark", "pull", "process",
          "consume", "ack", "receipts", "clear", "confirm"}

TabState ==
  [pc : Phase,
   todo : SUBSET Delivery,        \* outbox items left to push
   item : SUBSET Delivery,        \* the one being pushed
   batch : SUBSET Envelope,       \* pulled envelopes left to process
   acked : SUBSET EnvelopeId,     \* ids to acknowledge
   rcpts : SUBSET Receipt,        \* pulled receipts left to apply
   cleared : SUBSET EnvelopeId]   \* receipt ids to acknowledge

Idle == [pc |-> "idle", todo |-> {}, item |-> {}, batch |-> {}, acked |-> {},
         rcpts |-> {}, cleared |-> {}]

\* Types of every variable.
TypeOK ==
  /\ registered \subseteq Device
  /\ queue \in [Device -> Seq(Envelope)]
  /\ receipts \in [Device -> Seq(Receipt)]
  /\ outbox \subseteq Delivery /\ recent \subseteq Delivery /\ inbox \subseteq Delivery
  /\ oneTime \subseteq Delivery /\ prekeys \subseteq Delivery
  /\ compose \in [Delivery -> {"new", "send", "mark", "done"}]
  /\ tab \in [Tab -> TabState]
  /\ orphans \subseteq Request
  /\ faults \in 0..MaxFaults

Init ==
  /\ registered = {}
  /\ queue = [v \in Device |-> << >>] /\ receipts = [v \in Device |-> << >>]
  /\ outbox = {} /\ recent = {} /\ inbox = {} /\ oneTime = {} /\ prekeys = {}
  /\ compose = [d \in Delivery |-> "new"]
  /\ tab = [t \in Tab |-> Idle]
  /\ orphans = {}
  /\ faults = 0
-----------------------------------------------------------------------------
(***************************************************************************)
(* The relay's operations.                                                 *)
(***************************************************************************)
Old(box) == {e \in Elems(box) : e.old}
Msgs(box) == {e.msg : e \in Elems(box)}
WithId(box, ids) == {e \in Elems(box) : e.id \in ids}

\* pruneQueue, pruneReceipts: drop what is older than MESSAGE_TTL_MS.
Prune(box) == Keep(box, Old(box))

\* Every UUID something still refers to; randomUUID() returns another one.
UsedIds ==
  (UNION {{e.id : e \in Elems(queue[v]) \cup Elems(receipts[v])} : v \in Device})
    \cup (UNION {{e.id : e \in tab[t].batch \cup tab[t].rcpts}
                   \cup tab[t].acked \cup tab[t].cleared : t \in Tab})
    \cup (UNION {r.ids : r \in {q \in orphans : q.kind \in {"ack", "confirm"}}})

FreshId == CHOOSE i \in EnvelopeId : i \notin UsedIds

\* Mutant: the envelope id is never assigned.
NewEnvelopeWithoutId(d) == [id |-> 0, msg |-> d, old |-> FALSE]

NewEnvelope(d) == [id |-> FreshId, msg |-> d, old |-> FALSE]

\* authenticateDevice of the sender and findPublicDevice of the recipient.
Routable(d) == {From[d], To[d]} \subseteq registered

\* registerIdentity: the mailbox owner becomes known to the relay.
RelayRegister(v) ==
  /\ registered' = registered \cup {v}
  /\ UNCHANGED <<queue, receipts>>

\* Mutant: the search for an envelope with the same clientMessageId is dropped.
RelaySendAcceptedTwice(d) ==
  /\ Routable(d)
  /\ LET box == Prune(queue[To[d]]) IN
       /\ Len(box) < MAX_QUEUE /\ EnvelopeId \ UsedIds # {}
       /\ queue' = [queue EXCEPT ![To[d]] = Append(box, NewEnvelope(d))]
  /\ UNCHANGED <<registered, receipts>>

\* enqueueEnvelope that answers 202: queued, or already in the queue.
RelaySendAccepted(d) ==
  /\ Routable(d)
  /\ LET box == Prune(queue[To[d]]) IN
       \/ /\ d \in Msgs(box)
          /\ queue' = [queue EXCEPT ![To[d]] = box]
       \/ /\ d \notin Msgs(box) /\ Len(box) < MAX_QUEUE
          /\ EnvelopeId \ UsedIds # {}
          /\ queue' = [queue EXCEPT ![To[d]] = Append(box, NewEnvelope(d))]
  /\ UNCHANGED <<registered, receipts>>

\* enqueueEnvelope that throws: unknown sender or recipient, or queue full.
RelaySendRefused(d) ==
  /\ \/ /\ ~Routable(d)
        /\ UNCHANGED queue
     \/ /\ Routable(d)
        /\ LET box == Prune(queue[To[d]]) IN
             /\ d \notin Msgs(box) /\ Len(box) >= MAX_QUEUE
             /\ queue' = [queue EXCEPT ![To[d]] = box]
  /\ UNCHANGED <<registered, receipts>>

\* The receipts the sender device v gets when the envelopes of `acknowledged`
\* are: one per message it has no receipt for yet, as far as MAX_RECEIPTS allows.
AddReceipts(v, acknowledged) ==
  LET mine == Keep(acknowledged, {e \in Elems(acknowledged) : From[e.msg] # v})
      kept == IF mine = << >> THEN receipts[v] ELSE Prune(receipts[v])
      new  == Keep(mine, {e \in Elems(mine) : e.msg \in Msgs(kept)})
      made == [i \in DOMAIN new |-> [new[i] EXCEPT !.old = FALSE]]
  IN  kept \o FirstOf(made, MAX_RECEIPTS - Len(kept))

\* acknowledgeEnvelopes: the envelopes leave the queue, receipts are created.
RelayAck(v, ids) ==
  /\ v \in registered
  /\ LET box == queue[v]
         hit == WithId(box, ids)
         acknowledged == Keep(box, Elems(box) \ hit)
     IN  /\ queue' = [queue EXCEPT ![v] = Keep(box, hit)]
         /\ receipts' = [u \in Device |-> AddReceipts(u, acknowledged)]
  /\ UNCHANGED registered

\* acknowledgeReceipts
RelayConfirm(v, ids) ==
  /\ v \in registered
  /\ receipts' = [receipts EXCEPT ![v] = Keep(@, WithId(@, ids))]
  /\ UNCHANGED <<registered, queue>>

\* An orphaned request reaches the relay; nobody reads the answer.
HandleOrphan(r) ==
  /\ r \in orphans
  /\ orphans' = orphans \ {r}
  /\ \/ r.kind = "register" /\ RelayRegister(r.dev)
     \/ r.kind = "send" /\ (RelaySendAccepted(r.msg) \/ RelaySendRefused(r.msg))
     \/ r.kind = "ack" /\ RelayAck(r.dev, r.ids)
     \/ r.kind = "confirm" /\ RelayConfirm(r.dev, r.ids)
     \/ /\ r.kind \in {"ack", "confirm"} /\ r.dev \notin registered
        /\ UNCHANGED relayVars
  /\ UNCHANGED <<dbVars, compose, tab, faults>>

\* An orphaned request never reaches the relay.
DropOrphan(r) ==
  /\ r \in orphans
  /\ orphans' = orphans \ {r}
  /\ UNCHANGED <<relayVars, dbVars, compose, tab, faults>>
-----------------------------------------------------------------------------
(***************************************************************************)
(* queueDelivery: encrypt for a device, save in the outbox, push once.     *)
(***************************************************************************)
Submit(d, mode) ==
  /\ compose[d] = "new"
  /\ outbox' = outbox \cup {d}
  /\ IF mode = "one-time-prekey"
     THEN oneTime' = oneTime \cup {d} /\ prekeys' = prekeys \cup {d}
     ELSE UNCHANGED <<oneTime, prekeys>>
  /\ compose' = [compose EXCEPT ![d] = "send"]
  /\ UNCHANGED <<relayVars, recent, inbox, tab, orphans, faults>>

ComposeAnswered(d) ==
  /\ compose[d] = "send"
  /\ \/ RelaySendAccepted(d) /\ compose' = [compose EXCEPT ![d] = "mark"]
     \/ RelaySendRefused(d) /\ compose' = [compose EXCEPT ![d] = "done"]
  /\ UNCHANGED <<dbVars, tab, orphans, faults>>

\* saveOutboxItem({...item, lastAttemptAt}) puts the item back if it is gone.
ComposeMark(d) ==
  /\ compose[d] = "mark"
  /\ outbox' = outbox \cup {d}
  /\ recent' = recent \cup {d}
  /\ compose' = [compose EXCEPT ![d] = "done"]
  /\ UNCHANGED <<relayVars, inbox, oneTime, prekeys, tab, orphans, faults>>

ComposeFails(d) ==
  /\ compose[d] = "send" /\ faults < MaxFaults
  /\ compose' = [compose EXCEPT ![d] = "done"]
  /\ orphans' = orphans \cup {[kind |-> "send", msg |-> d]}
  /\ faults' = faults + 1
  /\ UNCHANGED <<relayVars, dbVars, tab>>

\* Mutant: an item leaves the outbox when its retry delay runs out.
CooldownForgets(d) ==
  /\ d \in recent
  /\ recent' = recent \ {d} /\ outbox' = outbox \ {d}
  /\ UNCHANGED <<relayVars, inbox, oneTime, prekeys, compose, tab, orphans, faults>>

\* Thirty seconds pass after the last attempt.
Cooldown(d) ==
  /\ d \in recent
  /\ recent' = recent \ {d}
  /\ UNCHANGED <<relayVars, outbox, inbox, oneTime, prekeys, compose, tab, orphans, faults>>
-----------------------------------------------------------------------------
(***************************************************************************)
(* sync: register, flush the outbox, pull, acknowledge, pull receipts,     *)
(* acknowledge them.                                                       *)
(***************************************************************************)
Goto(t, fields) == tab' = [tab EXCEPT ![t] = fields]
At(t, phase) == tab[t].pc = phase

StartSync(t) ==
  /\ At(t, "idle")
  /\ Goto(t, [Idle EXCEPT !.pc = "register"])
  /\ UNCHANGED <<relayVars, dbVars, compose, orphans, faults>>

\* Mutant: the outbox is never flushed.
RegisteredNoRetry(t) ==
  /\ At(t, "register")
  /\ RelayRegister(Home[t])
  /\ Goto(t, [Idle EXCEPT !.pc = "flush"])
  /\ UNCHANGED <<dbVars, compose, orphans, faults>>

\* publishIdentity answered; flushOutbox lists the items due for a retry.
Registered(t) ==
  /\ At(t, "register")
  /\ RelayRegister(Home[t])
  /\ Goto(t, [Idle EXCEPT !.pc = "flush",
                          !.todo = {d \in outbox \ recent : From[d] = Home[t]}])
  /\ UNCHANGED <<dbVars, compose, orphans, faults>>

FlushNext(t, d) ==
  /\ At(t, "flush") /\ d \in tab[t].todo
  /\ Goto(t, [tab[t] EXCEPT !.pc = "send", !.todo = @ \ {d}, !.item = {d}])
  /\ UNCHANGED <<relayVars, dbVars, compose, orphans, faults>>

FlushAnswered(t) ==
  /\ At(t, "send")
  /\ \E d \in tab[t].item :
       \/ RelaySendAccepted(d) /\ Goto(t, [tab[t] EXCEPT !.pc = "mark"])
       \/ RelaySendRefused(d) /\ Goto(t, [tab[t] EXCEPT !.pc = "flush", !.item = {}])
  /\ UNCHANGED <<dbVars, compose, orphans, faults>>

\* Mutant: the item is deleted as soon as the relay accepted it.
FlushMarkDeletes(t) ==
  /\ At(t, "mark")
  /\ outbox' = outbox \ tab[t].item
  /\ recent' = recent \cup tab[t].item
  /\ Goto(t, [tab[t] EXCEPT !.pc = "flush", !.item = {}])
  /\ UNCHANGED <<relayVars, inbox, oneTime, prekeys, compose, orphans, faults>>

FlushMark(t) ==
  /\ At(t, "mark")
  /\ outbox' = outbox \cup tab[t].item
  /\ recent' = recent \cup tab[t].item
  /\ Goto(t, [tab[t] EXCEPT !.pc = "flush", !.item = {}])
  /\ UNCHANGED <<relayVars, inbox, oneTime, prekeys, compose, orphans, faults>>

FlushDone(t) ==
  /\ At(t, "flush") /\ tab[t].todo = {}
  /\ Goto(t, [tab[t] EXCEPT !.pc = "pull"])
  /\ UNCHANGED <<relayVars, dbVars, compose, orphans, faults>>

\* Mutant: envelopes are acknowledged when they are pulled, before they are stored.
PulledAndAcked(t) ==
  /\ At(t, "pull") /\ Home[t] \in registered
  /\ LET box == Prune(queue[Home[t]]) IN
       /\ queue' = [queue EXCEPT ![Home[t]] = box]
       /\ Goto(t, [tab[t] EXCEPT !.pc = "ack", !.acked = {e.id : e \in Elems(box)}])
  /\ UNCHANGED <<registered, receipts, dbVars, compose, orphans, faults>>

\* pullEnvelopes: prune, then the first PULL_BATCH envelopes.
Pulled(t) ==
  /\ At(t, "pull") /\ Home[t] \in registered
  /\ LET box == Prune(queue[Home[t]]) IN
       /\ queue' = [queue EXCEPT ![Home[t]] = box]
       /\ Goto(t, [tab[t] EXCEPT !.pc = "process", !.batch = Elems(FirstOf(box, PULL_BATCH))])
  /\ UNCHANGED <<registered, receipts, dbVars, compose, orphans, faults>>

\* selectEnvelopePrivateKey finds a private key for the envelope.
Decryptable(d) == d \in oneTime => d \in prekeys

\* Mutant: the prekey is deleted before the message is saved.
StoreAfterConsume(t, e) ==
  /\ At(t, "process") /\ e \in tab[t].batch /\ Decryptable(e.msg)
  /\ prekeys' = prekeys \ {e.msg}
  /\ Goto(t, [tab[t] EXCEPT !.pc = "consume", !.item = {e.msg}])
  /\ UNCHANGED <<relayVars, outbox, recent, inbox, oneTime, compose, orphans, faults>>

\* Decrypt and saveLocalMessage.
Store(t, e) ==
  /\ At(t, "process") /\ e \in tab[t].batch /\ Decryptable(e.msg)
  /\ inbox' = inbox \cup {e.msg}
  /\ Goto(t, [tab[t] EXCEPT !.pc = "consume", !.item = {e.msg}])
  /\ UNCHANGED <<relayVars, outbox, recent, oneTime, prekeys, compose, orphans, faults>>

\* deleteLocalPreKey, then acknowledged.push.
Consume(t) ==
  /\ At(t, "consume")
  /\ prekeys' = prekeys \ tab[t].item
  /\ LET done == {e \in tab[t].batch : e.msg \in tab[t].item} IN
       Goto(t, [tab[t] EXCEPT !.pc = "process", !.item = {}, !.batch = @ \ done,
                              !.acked = @ \cup {e.id : e \in done}])
  /\ UNCHANGED <<relayVars, outbox, recent, inbox, oneTime, compose, orphans, faults>>

\* An envelope whose one-time prekey is gone stays on the relay.
Skip(t, e) ==
  /\ At(t, "process") /\ e \in tab[t].batch /\ ~Decryptable(e.msg)
  /\ Goto(t, [tab[t] EXCEPT !.batch = @ \ {e}])
  /\ UNCHANGED <<relayVars, dbVars, compose, orphans, faults>>

BatchDone(t) ==
  /\ At(t, "process") /\ tab[t].batch = {}
  /\ Goto(t, [tab[t] EXCEPT !.pc = IF tab[t].acked = {} THEN "receipts" ELSE "ack"])
  /\ UNCHANGED <<relayVars, dbVars, compose, orphans, faults>>

Acked(t) ==
  /\ At(t, "ack") /\ RelayAck(Home[t], tab[t].acked)
  /\ Goto(t, [tab[t] EXCEPT !.pc = "receipts", !.acked = {}])
  /\ UNCHANGED <<dbVars, compose, orphans, faults>>

\* pullReceipts: prune, then the first PULL_BATCH receipts.
ReceiptsPulled(t) ==
  /\ At(t, "receipts") /\ Home[t] \in registered
  /\ LET box == Prune(receipts[Home[t]]) IN
       /\ receipts' = [receipts EXCEPT ![Home[t]] = box]
       /\ Goto(t, [tab[t] EXCEPT !.pc = "clear", !.rcpts = Elems(FirstOf(box, PULL_BATCH))])
  /\ UNCHANGED <<registered, queue, dbVars, compose, orphans, faults>>

\* Mutant: the receipt is acknowledged but the outbox item is kept.
ClearItemKeeps(t, r) ==
  /\ At(t, "clear") /\ r \in tab[t].rcpts
  /\ Goto(t, [tab[t] EXCEPT !.rcpts = @ \ {r}, !.cleared = @ \cup {r.id}])
  /\ UNCHANGED <<relayVars, dbVars, compose, orphans, faults>>

\* deleteOutboxItem(receipt.clientMessageId)
ClearItem(t, r) ==
  /\ At(t, "clear") /\ r \in tab[t].rcpts
  /\ outbox' = outbox \ {r.msg}
  /\ recent' = recent \ {r.msg}
  /\ Goto(t, [tab[t] EXCEPT !.rcpts = @ \ {r}, !.cleared = @ \cup {r.id}])
  /\ UNCHANGED <<relayVars, inbox, oneTime, prekeys, compose, orphans, faults>>

ClearDone(t) ==
  /\ At(t, "clear") /\ tab[t].rcpts = {}
  /\ Goto(t, IF tab[t].cleared = {} THEN Idle ELSE [tab[t] EXCEPT !.pc = "confirm"])
  /\ UNCHANGED <<relayVars, dbVars, compose, orphans, faults>>

Confirmed(t) ==
  /\ At(t, "confirm") /\ RelayConfirm(Home[t], tab[t].cleared)
  /\ Goto(t, Idle)
  /\ UNCHANGED <<dbVars, compose, orphans, faults>>

\* A relay that restarted empty does not know the caller: 401, the sync ends.
Unauthorized(t) ==
  /\ tab[t].pc \in {"pull", "ack", "receipts", "confirm"} /\ Home[t] \notin registered
  /\ Goto(t, Idle)
  /\ UNCHANGED <<relayVars, dbVars, compose, orphans, faults>>

\* The request the tab waits for, if any.
Waiting(t) ==
  CASE At(t, "register") -> {[kind |-> "register", dev |-> Home[t]]}
    [] At(t, "send")     -> {[kind |-> "send", msg |-> d] : d \in tab[t].item}
    [] At(t, "ack")      -> {[kind |-> "ack", dev |-> Home[t], ids |-> tab[t].acked]}
    [] At(t, "confirm")  -> {[kind |-> "confirm", dev |-> Home[t], ids |-> tab[t].cleared]}
    [] OTHER             -> {}

\* A call fails: a push goes on with the next item, anything else ends the sync.
CallFails(t) ==
  /\ tab[t].pc \in {"register", "send", "pull", "ack", "receipts", "confirm"}
  /\ faults < MaxFaults
  /\ orphans' = orphans \cup Waiting(t)
  /\ Goto(t, IF At(t, "send") THEN [tab[t] EXCEPT !.pc = "flush", !.item = {}] ELSE Idle)
  /\ faults' = faults + 1
  /\ UNCHANGED <<relayVars, dbVars, compose>>
-----------------------------------------------------------------------------
\* The requests in flight of a device's browser.
Abandoned(v) ==
  (UNION {Waiting(t) : t \in {u \in Tab : Home[u] = v}})
    \cup {[kind |-> "send", msg |-> d] :
            d \in {c \in Delivery : From[c] = v /\ compose[c] = "send"}}

\* The browser of a device is closed or reloaded: only IndexedDB survives.
Reload(v) ==
  /\ faults < MaxFaults
  /\ \E t \in Tab : Home[t] = v
  /\ tab' = [t \in Tab |-> IF Home[t] = v THEN Idle ELSE tab[t]]
  /\ compose' = [d \in Delivery |->
                   IF From[d] = v /\ compose[d] \in {"send", "mark"} THEN "done" ELSE compose[d]]
  /\ orphans' = orphans \cup Abandoned(v)
  /\ faults' = faults + 1
  /\ UNCHANGED <<relayVars, dbVars>>

\* The relay of the web deployment restarts: its maps are in memory only.
RelayRestart ==
  /\ faults < MaxFaults
  /\ registered' = {}
  /\ queue' = [v \in Device |-> << >>] /\ receipts' = [v \in Device |-> << >>]
  /\ faults' = faults + 1
  /\ UNCHANGED <<dbVars, compose, tab, orphans>>

\* Thirty days pass: everything the relay holds is due to be pruned.
TTLPasses ==
  /\ faults < MaxFaults
  /\ queue' = [v \in Device |-> [i \in DOMAIN queue[v] |-> [queue[v][i] EXCEPT !.old = TRUE]]]
  /\ receipts' =
       [v \in Device |-> [i \in DOMAIN receipts[v] |-> [receipts[v][i] EXCEPT !.old = TRUE]]]
  /\ faults' = faults + 1
  /\ UNCHANGED <<registered, dbVars, compose, tab, orphans>>

ComposeStep(d) == ComposeAnswered(d) \/ ComposeMark(d)

TabStep(t) ==
  \/ StartSync(t) \/ Registered(t)
  \/ \E d \in Delivery : FlushNext(t, d)
  \/ FlushAnswered(t) \/ FlushMark(t) \/ FlushDone(t)
  \/ Pulled(t)
  \/ \E e \in tab[t].batch : Store(t, e) \/ Skip(t, e)
  \/ Consume(t) \/ BatchDone(t) \/ Acked(t)
  \/ ReceiptsPulled(t)
  \/ \E r \in tab[t].rcpts : ClearItem(t, r)
  \/ ClearDone(t) \/ Confirmed(t) \/ Unauthorized(t)

Next ==
  \/ \E d \in Delivery :
       \/ \E mode \in KeyMode : Submit(d, mode)
       \/ ComposeStep(d) \/ ComposeFails(d) \/ Cooldown(d)
  \/ \E t \in Tab : TabStep(t) \/ CallFails(t)
  \/ \E r \in orphans : HandleOrphan(r) \/ DropOrphan(r)
  \/ \E v \in Device : Reload(v)
  \/ RelayRestart \/ TTLPasses

Spec == Init /\ [][Next]_vars

\* The 12 s timer, the event loop and the relay keep running; the user need not
\* send, and failures need not happen.
FairSpec ==
  /\ Spec
  /\ \A d \in Delivery : WF_vars(ComposeStep(d)) /\ WF_vars(Cooldown(d))
  /\ \A t \in Tab : WF_vars(TabStep(t))
-----------------------------------------------------------------------------
(***************************************************************************)
(* Properties.                                                             *)
(***************************************************************************)

\* A message the user sent leaves the sender's outbox only once the recipient
\* has it in its own database, whatever calls fail, tabs reload, relays restart
\* or entries expire (docs/V0.6: the outbox is the copy of last resort).
OutboxReleasedOnlyWhenStored ==
  \A d \in Delivery : compose[d] # "new" /\ d \notin outbox => d \in inbox

\* A delivery receipt, at the relay or read by the sender, is never issued for a
\* message the recipient has not stored.
ReceiptMeansStored ==
  /\ \A v \in Device : Msgs(receipts[v]) \subseteq inbox
  /\ \A t \in Tab : \A r \in tab[t].rcpts : r.msg \in inbox

\* A private one-time prekey is destroyed only after the message it decrypts is
\* stored: an envelope that nobody can open any more is never the only copy.
SpentPrekeyMeansStored == oneTime \ prekeys \subseteq inbox

\* A mailbox never holds two envelopes of one delivery, however often it is
\* pushed again, and neither mailbox outgrows its cap, even when one
\* acknowledgement creates several receipts.
MailboxesBoundedAndUnique ==
  \A v \in Device :
    /\ Len(queue[v]) <= MAX_QUEUE /\ Len(receipts[v]) <= MAX_RECEIPTS
    /\ \A i, j \in DOMAIN queue[v] : queue[v][i].msg = queue[v][j].msg => i = j
    /\ \A i, j \in DOMAIN receipts[v] : receipts[v][i].msg = receipts[v][j].msg => i = j

\* The ids some acknowledgement of device v carries, now or when it is sent.
AckIds(v) ==
  (UNION {tab[t].acked : t \in {u \in Tab : Home[u] = v}})
    \cup (UNION {r.ids : r \in {q \in orphans : q.kind = "ack" /\ q.dev = v}})

\* An envelope id names one message, in the mailbox and in what was pulled from it.
IdNamesOneMessage ==
  \A v \in Device : \A e \in Elems(queue[v]) :
    /\ \A f \in Elems(queue[v]) : e.id = f.id => e.msg = f.msg
    /\ \A t \in Tab : Home[t] = v => \A b \in tab[t].batch : e.id = b.id => e.msg = b.msg

\* However late it arrives, an acknowledgement names no envelope of a message that
\* is not stored: not even one that was queued after the acknowledgement was sent.
AcksNameStored ==
  \A v \in Device : \A e \in Elems(queue[v]) : e.id \in AckIds(v) => e.msg \in inbox

\* A prekey about to be deleted belongs to a stored message; one item at a time.
ItemInHand ==
  \A t \in Tab :
    /\ tab[t].item = {} \/ \E d \in Delivery : tab[t].item = {d}
    /\ At(t, "consume") => tab[t].item \subseteq inbox

Submitted == {d \in Delivery : compose[d] # "new"}

\* What travels was submitted by its sender.
TravelsSubmitted ==
  /\ outbox \subseteq Submitted
  /\ \A v \in Device : Msgs(queue[v]) \subseteq Submitted
  /\ \A t \in Tab : {e.msg : e \in tab[t].batch} \cup tab[t].todo \cup tab[t].item \subseteq Submitted
  /\ \A r \in orphans : r.kind = "send" => r.msg \in Submitted

\* Together they are kept by every step: the invariant the proofs rest on.
\* An acknowledgement, however late, removes only envelopes of stored messages,
\* because no id in use is given out again.
DeliveryInv ==
  /\ TypeOK /\ OutboxReleasedOnlyWhenStored /\ ReceiptMeansStored /\ SpentPrekeyMeansStored
  /\ IdNamesOneMessage /\ AcksNameStored /\ ItemInHand /\ TravelsSubmitted

\* What docs/V0.6-DURABLE-DELIVERY.md says of repeated submissions: while the
\* relay process is alive they are deduplicated.  So a delivery the relay holds a
\* receipt for is not queued for its recipient again.
DeliveredNotRequeued ==
  \A v \in Device : \A d \in Msgs(queue[v]) : d \notin Msgs(receipts[From[d]])

\* Once failures stop, the outbox empties for good: every delivery under a static
\* key is confirmed, in spite of acknowledgements and receipts lost on the way.
OutboxSettles == <>[](outbox \subseteq oneTime)

\* What the system promises: see ReliableDelivery.
Promise == INSTANCE ReliableDelivery
             WITH submitted <- Submitted,
                  held <- outbox, stored <- inbox

\* Every step keeps the promise (safety).
KeepsPromise == Promise!Spec

\* Every message that is sent is eventually stored by its recipient.
DeliversEventually == Promise!FairSpec
=============================================================================
