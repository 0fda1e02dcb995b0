----------------------- MODULE MessageDeliveryProofs -----------------------
(***************************************************************************)
(* Module MessageDelivery, for any devices, tabs, deliveries, caps and     *)
(* number of faults: its types and what each operation of the relay does   *)
(* to the mailboxes; its safety, from the inductive invariant DeliveryInv; *)
(* that it implements ReliableDelivery; and the caps of the mailboxes.     *)
(***************************************************************************)
EXTENDS MessageDelivery, MailboxesProofs

-----------------------------------------------------------------------------
(* What the relay's operations do to the contents of the mailboxes. *)

\* Pruning a mailbox only takes envelopes out.
LEMMA PruneShrinks ==
  ASSUME NEW box \in Seq(Envelope)
  PROVE  /\ Prune(box) \in Seq(Envelope)
         /\ Elems(Prune(box)) \subseteq Elems(box)
  BY KeepProperties DEF Prune

\* Appending adds one element.
LEMMA AppendAdds ==
  ASSUME NEW S, NEW box \in Seq(S), NEW e \in S
  PROVE  /\ Append(box, e) \in Seq(S)
         /\ Elems(Append(box, e)) = Elems(box) \cup {e}
  BY AppendProperties DEF Elems

\* Joining two mailboxes.
LEMMA ConcatAdds ==
  ASSUME NEW S, NEW a \in Seq(S), NEW b \in Seq(S)
  PROVE  /\ a \o b \in Seq(S)
         /\ Elems(a \o b) \subseteq Elems(a) \cup Elems(b)
<1>1. /\ a \o b \in Seq(S) /\ Len(a \o b) = Len(a) + Len(b)
      /\ \A i \in 1..(Len(a) + Len(b)) :
           (a \o b)[i] = IF i <= Len(a) THEN a[i] ELSE b[i - Len(a)]
  BY ConcatProperties
<1>2. ASSUME NEW i \in DOMAIN (a \o b)
      PROVE  (a \o b)[i] \in Elems(a) \cup Elems(b)
  <2>1. CASE i <= Len(a)
    BY <1>1, <2>1 DEF Elems
  <2>2. CASE ~ (i <= Len(a))
    <3>1. i - Len(a) \in DOMAIN b /\ (a \o b)[i] = b[i - Len(a)]
      BY <1>1, <2>2
    <3>. QED
      BY <3>1 DEF Elems
  <2>. QED
    BY <2>1, <2>2
<1>. QED
  BY <1>1, <1>2 DEF Elems
\* Marking, dropping or keeping envelopes by other fields keeps their type.
LEMMA MadeReceipts ==
  ASSUME NEW box \in Seq(Envelope)
  PROVE  LET made == [i \in DOMAIN box |-> [box[i] EXCEPT !.old = FALSE]] IN
           /\ made \in Seq(Receipt)
           /\ Len(made) = Len(box)
           /\ \A i \in DOMAIN box : made[i].msg = box[i].msg
           /\ Msgs(made) = Msgs(box)
<1>. DEFINE made == [i \in DOMAIN box |-> [box[i] EXCEPT !.old = FALSE]]
<1>1. Len(box) \in Nat /\ DOMAIN box = 1..Len(box) /\ \A i \in 1..Len(box) : box[i] \in Envelope
  OBVIOUS
<1>2. \A i \in 1..Len(box) : made[i] \in Receipt /\ made[i].msg = box[i].msg
  BY <1>1 DEF Receipt, Envelope
<1>3. made \in Seq(Receipt) /\ Len(made) = Len(box) /\ DOMAIN made = 1..Len(box)
  BY <1>1, <1>2
<1>. HIDE DEF made
<1>4. Msgs(made) = Msgs(box)
  BY <1>1, <1>2, <1>3 DEF Msgs, Elems
<1>. QED
  BY <1>1, <1>2, <1>3, <1>4 DEF made

\* enqueueEnvelope takes expired envelopes out and adds at most one, with an id
\* that nothing refers to.
LEMMA SendEffect ==
  ASSUME DeliveryAssumption, TypeOK, NEW d \in Delivery,
         RelaySendAccepted(d) \/ RelaySendRefused(d)
  PROVE  /\ registered' = registered /\ receipts' = receipts
         /\ queue' \in [Device -> Seq(Envelope)]
         /\ \A v \in Device : \A e \in Elems(queue'[v]) :
              e \in Elems(queue[v]) \/ (e.msg = d /\ e.id \notin UsedIds)
<1>. DEFINE box == Prune(queue[To[d]])
<1>1. /\ To[d] \in Device /\ queue \in [Device -> Seq(Envelope)]
      /\ box \in Seq(Envelope) /\ Elems(box) \subseteq Elems(queue[To[d]])
  BY PruneShrinks DEF DeliveryAssumption, TypeOK
<1>2. CASE EnvelopeId \ UsedIds # {} /\ queue' = [queue EXCEPT ![To[d]] = Append(box, NewEnvelope(d))]
  <2>1. /\ NewEnvelope(d) \in Envelope /\ NewEnvelope(d).msg = d
        /\ NewEnvelope(d).id \notin UsedIds
    BY <1>2 DEF NewEnvelope, Envelope, FreshId
  <2>2. /\ Append(box, NewEnvelope(d)) \in Seq(Envelope)
        /\ Elems(Append(box, NewEnvelope(d))) = Elems(box) \cup {NewEnvelope(d)}
    BY <1>1, <2>1, AppendAdds
  <2>. HIDE DEF box
  <2>. QED
    BY <1>1, <1>2, <2>1, <2>2 DEF RelaySendAccepted, RelaySendRefused
<1>3. CASE queue' = [queue EXCEPT ![To[d]] = box]
  <2>. HIDE DEF box
  <2>. QED
    BY <1>1, <1>3 DEF RelaySendAccepted, RelaySendRefused
<1>4. CASE queue' = queue
  BY <1>1, <1>4 DEF RelaySendAccepted, RelaySendRefused
<1>. QED
  BY <1>2, <1>3, <1>4 DEF RelaySendAccepted, RelaySendRefused

\* The receipts one acknowledgement adds are for messages it acknowledges.
LEMMA AddReceiptsEffect ==
  ASSUME DeliveryAssumption, TypeOK, NEW u \in Device, NEW acknowledged \in Seq(Envelope)
  PROVE  /\ AddReceipts(u, acknowledged) \in Seq(Receipt)
         /\ Msgs(AddReceipts(u, acknowledged)) \subseteq Msgs(receipts[u]) \cup Msgs(acknowledged)
<1>. DEFINE mine == Keep(acknowledged, {e \in Elems(acknowledged) : From[e.msg] # u})
            kept == IF mine = << >> THEN receipts[u] ELSE Prune(receipts[u])
            new  == Keep(mine, {e \in Elems(mine) : e.msg \in Msgs(kept)})
            made == [i \in DOMAIN new |-> [new[i] EXCEPT !.old = FALSE]]
            first == FirstOf(made, MAX_RECEIPTS - Len(kept))
<1>1. mine \in Seq(Envelope) /\ Elems(mine) \subseteq Elems(acknowledged)
  BY KeepProperties
<1>2. kept \in Seq(Receipt) /\ Elems(kept) \subseteq Elems(receipts[u])
  <2>1. receipts[u] \in Seq(Envelope)
    BY DEF TypeOK, Receipt
  <2>. HIDE DEF mine
  <2>. QED
    BY <2>1, PruneShrinks DEF Receipt
<1>. HIDE DEF kept
<1>3. new \in Seq(Envelope) /\ Elems(new) \subseteq Elems(mine)
  <2>. HIDE DEF mine
  <2>. QED
    BY <1>1, KeepProperties
<1>. HIDE DEF new, mine
<1>4. made \in Seq(Receipt) /\ Msgs(made) = Msgs(new)
  BY <1>3, MadeReceipts
<1>. HIDE DEF made
<1>5. first \in Seq(Receipt) /\ Elems(first) \subseteq Elems(made)
  <2>1. MAX_RECEIPTS - Len(kept) \in Int
    BY <1>2 DEF DeliveryAssumption
  <2>. QED
    BY <1>4, <2>1, FirstOfProperties
<1>. HIDE DEF first
<1>6. kept \o first \in Seq(Receipt) /\ Elems(kept \o first) \subseteq Elems(kept) \cup Elems(first)
  BY <1>2, <1>5, ConcatAdds
<1>7. Msgs(kept \o first) \subseteq Msgs(receipts[u]) \cup Msgs(acknowledged)
  BY <1>1, <1>2, <1>3, <1>4, <1>5, <1>6 DEF Msgs
<1>8. AddReceipts(u, acknowledged) = kept \o first
  BY DEF AddReceipts, kept, first, made, new, mine
<1>. QED
  BY <1>6, <1>7, <1>8

\* acknowledgeEnvelopes takes envelopes out and adds receipts for those it names.
LEMMA AckEffect ==
  ASSUME DeliveryAssumption, TypeOK, NEW v \in Device, NEW ids, RelayAck(v, ids)
  PROVE  /\ registered' = registered
         /\ queue' \in [Device -> Seq(Envelope)]
         /\ \A u \in Device : Elems(queue'[u]) \subseteq Elems(queue[u])
         /\ receipts' \in [Device -> Seq(Receipt)]
         /\ \A u \in Device : \A m \in Msgs(receipts'[u]) :
              m \in Msgs(receipts[u]) \/ \E e \in Elems(queue[v]) : e.id \in ids /\ e.msg = m
<1>. DEFINE hit == WithId(queue[v], ids)
            acknowledged == Keep(queue[v], Elems(queue[v]) \ hit)
<1>1. queue[v] \in Seq(Envelope) /\ queue \in [Device -> Seq(Envelope)]
  BY DEF TypeOK
<1>2. acknowledged \in Seq(Envelope) /\ Elems(acknowledged) = Elems(queue[v]) \ (Elems(queue[v]) \ hit)
  BY <1>1, KeepProperties
<1>3. Keep(queue[v], hit) \in Seq(Envelope) /\ Elems(Keep(queue[v], hit)) \subseteq Elems(queue[v])
  BY <1>1, KeepProperties
<1>4. /\ queue' = [queue EXCEPT ![v] = Keep(queue[v], hit)]
      /\ receipts' = [u \in Device |-> AddReceipts(u, acknowledged)]
      /\ registered' = registered
  BY DEF RelayAck
<1>5. \A m \in Msgs(acknowledged) : \E e \in Elems(queue[v]) : e.id \in ids /\ e.msg = m
  BY <1>2 DEF Msgs, WithId
<1>. HIDE DEF hit, acknowledged
<1>6. \A u \in Device : /\ receipts'[u] \in Seq(Receipt)
                        /\ Msgs(receipts'[u]) \subseteq Msgs(receipts[u]) \cup Msgs(acknowledged)
  BY <1>2, <1>4, AddReceiptsEffect
<1>7. receipts' \in [Device -> Seq(Receipt)]
  BY <1>4, <1>6
<1>8. queue' \in [Device -> Seq(Envelope)] /\ \A u \in Device : Elems(queue'[u]) \subseteq Elems(queue[u])
  BY <1>1, <1>3, <1>4
<1>. QED
  BY <1>4, <1>5, <1>6, <1>7, <1>8

\* acknowledgeReceipts takes receipts out.
LEMMA ConfirmEffect ==
  ASSUME TypeOK, NEW v \in Device, NEW ids, RelayConfirm(v, ids)
  PROVE  /\ registered' = registered /\ queue' = queue
         /\ receipts' \in [Device -> Seq(Receipt)]
         /\ \A u \in Device : Elems(receipts'[u]) \subseteq Elems(receipts[u])
<1>1. receipts[v] \in Seq(Receipt) /\ receipts \in [Device -> Seq(Receipt)]
  BY DEF TypeOK
<1>. DEFINE box == Keep(receipts[v], WithId(receipts[v], ids))
<1>2. box \in Seq(Receipt) /\ Elems(box) \subseteq Elems(receipts[v])
  BY <1>1, KeepProperties
<1>3. receipts' = [receipts EXCEPT ![v] = box] /\ registered' = registered /\ queue' = queue
  BY DEF RelayConfirm
<1>. HIDE DEF box
<1>. QED
  BY <1>1, <1>2, <1>3
-----------------------------------------------------------------------------
(* Types. *)

\* The relay part and the client part of TypeOK change independently.
RelayTypeOK ==
  /\ registered \subseteq Device
  /\ queue \in [Device -> Seq(Envelope)]
  /\ receipts \in [Device -> Seq(Receipt)]

LEMMA RelayTypeStep ==
  ASSUME DeliveryAssumption, TypeOK,
         \/ UNCHANGED relayVars
         \/ \E v \in Device : RelayRegister(v)
         \/ \E d \in Delivery : RelaySendAccepted(d) \/ RelaySendRefused(d)
         \/ \E v \in Device : \E ids \in SUBSET EnvelopeId : RelayAck(v, ids) \/ RelayConfirm(v, ids)
  PROVE  RelayTypeOK'
<1>1. CASE UNCHANGED relayVars
  BY <1>1 DEF relayVars, RelayTypeOK, TypeOK
<1>2. CASE \E v \in Device : RelayRegister(v)
  BY <1>2 DEF RelayRegister, RelayTypeOK, TypeOK
<1>3. CASE \E d \in Delivery : RelaySendAccepted(d) \/ RelaySendRefused(d)
  BY <1>3, SendEffect DEF RelayTypeOK, TypeOK
<1>4. CASE \E v \in Device : \E ids \in SUBSET EnvelopeId : RelayAck(v, ids) \/ RelayConfirm(v, ids)
  BY <1>4, AckEffect, ConfirmEffect DEF RelayTypeOK, TypeOK
<1>. QED
  BY <1>1, <1>2, <1>3, <1>4

\* A tab's fields have the types of TabState.
LEMMA TabFields ==
  ASSUME TypeOK, NEW t \in Tab
  PROVE  /\ tab \in [Tab -> TabState] /\ tab[t] \in TabState
         /\ tab[t].pc \in Phase
         /\ tab[t].todo \subseteq Delivery /\ tab[t].item \subseteq Delivery
         /\ tab[t].batch \subseteq Envelope /\ tab[t].rcpts \subseteq Receipt
         /\ tab[t].acked \subseteq EnvelopeId /\ tab[t].cleared \subseteq EnvelopeId
<1>1. tab \in [Tab -> TabState] /\ tab[t] \in TabState
  BY DEF TypeOK
<1>. QED
  BY <1>1 DEF TabState

LEMMA IdleTyped == Idle \in TabState
  BY DEF Idle, TabState, Phase

LEMMA GotoTyped ==
  ASSUME TypeOK, NEW t \in Tab, NEW fields \in TabState, Goto(t, fields)
  PROVE  tab' \in [Tab -> TabState]
  BY DEF TypeOK, Goto

\* Every step of a sync loop leaves the tab with fields of the right types.
LEMMA TabStepTyped ==
  ASSUME DeliveryAssumption, TypeOK, NEW t \in Tab, TabStep(t) \/ CallFails(t)
  PROVE  tab' \in [Tab -> TabState]
<1>. USE TabFields, GotoTyped, IdleTyped
<1>1. CASE StartSync(t)
  BY <1>1 DEF StartSync, Idle, TabState, Phase
<1>2. CASE Registered(t)
  BY <1>2 DEF Registered, Idle, TabState, Phase, TypeOK
<1>3. CASE \E d \in Delivery : FlushNext(t, d)
  BY <1>3 DEF FlushNext, TabState, Phase
<1>4. CASE FlushAnswered(t)
  BY <1>4 DEF FlushAnswered, TabState, Phase
<1>5. CASE FlushMark(t) \/ FlushDone(t)
  BY <1>5 DEF FlushMark, FlushDone, TabState, Phase
<1>6. CASE Pulled(t)
  <2>. DEFINE box == Prune(queue[Home[t]])
  <2>1. box \in Seq(Envelope)
    BY PruneShrinks DEF TypeOK, DeliveryAssumption
  <2>2. Goto(t, [tab[t] EXCEPT !.pc = "process", !.batch = Elems(FirstOf(box, PULL_BATCH))])
    BY <1>6 DEF Pulled
  <2>. HIDE DEF box
  <2>3. Elems(FirstOf(box, PULL_BATCH)) \subseteq Envelope
    BY <2>1, FirstOfProperties DEF Elems, DeliveryAssumption
  <2>. QED
    BY <2>2, <2>3 DEF TabState, Phase
<1>7. CASE \E e \in tab[t].batch : Store(t, e) \/ Skip(t, e)
  <2>1. PICK e \in tab[t].batch : Store(t, e) \/ Skip(t, e)
    BY <1>7
  <2>2. e \in Envelope /\ e.msg \in Delivery
    BY <2>1 DEF Envelope
  <2>3. CASE Store(t, e)
    BY <2>2, <2>3 DEF Store, TabState, Phase
  <2>4. CASE Skip(t, e)
    BY <2>4 DEF Skip, TabState, Phase
  <2>. QED
    BY <2>1, <2>3, <2>4
<1>8. CASE Consume(t)
  <2>. DEFINE done == {e \in tab[t].batch : e.msg \in tab[t].item}
              ids == {e.id : e \in done}
  <2>1. done \subseteq Envelope /\ ids \subseteq EnvelopeId
    BY DEF Envelope
  <2>2. Goto(t, [tab[t] EXCEPT !.pc = "process", !.item = {}, !.batch = @ \ done,
                               !.acked = @ \cup ids])
    BY <1>8 DEF Consume
  <2>. HIDE DEF done, ids
  <2>. QED
    BY <2>1, <2>2 DEF TabState, Phase
<1>9. CASE BatchDone(t) \/ Acked(t)
  BY <1>9 DEF BatchDone, Acked, TabState, Phase
<1>10. CASE ReceiptsPulled(t)
  <2>. DEFINE box == Prune(receipts[Home[t]])
  <2>1. box \in Seq(Envelope)
    BY PruneShrinks DEF TypeOK, DeliveryAssumption, Receipt
  <2>2. Goto(t, [tab[t] EXCEPT !.pc = "clear", !.rcpts = Elems(FirstOf(box, PULL_BATCH))])
    BY <1>10 DEF ReceiptsPulled
  <2>. HIDE DEF box
  <2>3. Elems(FirstOf(box, PULL_BATCH)) \subseteq Receipt
    BY <2>1, FirstOfProperties DEF Elems, DeliveryAssumption, Receipt
  <2>. QED
    BY <2>2, <2>3 DEF TabState, Phase
<1>11. CASE \E r \in tab[t].rcpts : ClearItem(t, r)
  <2>1. PICK r \in tab[t].rcpts : ClearItem(t, r)
    BY <1>11
  <2>2. r.id \in EnvelopeId
    BY <2>1 DEF Receipt, Envelope
  <2>. QED
    BY <2>1, <2>2 DEF ClearItem, TabState, Phase
<1>12. CASE ClearDone(t) \/ Confirmed(t) \/ Unauthorized(t)
  BY <1>12 DEF ClearDone, Confirmed, Unauthorized, TabState, Phase
<1>13. CASE CallFails(t)
  BY <1>13 DEF CallFails, TabState, Phase
<1>. QED
  BY <1>1, <1>2, <1>3, <1>4, <1>5, <1>6, <1>7, <1>8, <1>9, <1>10, <1>11, <1>12, <1>13 DEF TabStep

\* The request a tab waits for is a request.
LEMMA WaitingTyped ==
  ASSUME DeliveryAssumption, TypeOK, NEW t \in Tab
  PROVE  Waiting(t) \subseteq Request
<1>. USE TabFields
<1>1. CASE At(t, "register")
  BY <1>1 DEF Waiting, Request, At, DeliveryAssumption
<1>2. CASE At(t, "send")
  BY <1>2 DEF Waiting, Request, At
<1>3. CASE At(t, "ack")
  BY <1>3 DEF Waiting, Request, At, DeliveryAssumption
<1>4. CASE At(t, "confirm")
  BY <1>4 DEF Waiting, Request, At, DeliveryAssumption
<1>5. CASE ~ (At(t, "register") \/ At(t, "send") \/ At(t, "ack") \/ At(t, "confirm"))
  BY <1>5 DEF Waiting
<1>. QED
  BY <1>1, <1>2, <1>3, <1>4, <1>5

LEMMA AbandonedTyped ==
  ASSUME DeliveryAssumption, TypeOK, NEW v \in Device
  PROVE  Abandoned(v) \subseteq Request
<1>. DEFINE sends == {[kind |-> "send", msg |-> d] :
                        d \in {c \in Delivery : From[c] = v /\ compose[c] = "send"}}
            waits == UNION {Waiting(t) : t \in {u \in Tab : Home[u] = v}}
<1>1. sends \subseteq Request
  BY DEF Request
<1>2. waits \subseteq Request
  BY WaitingTyped
<1>3. Abandoned(v) = waits \cup sends
  BY DEF Abandoned
<1>. HIDE DEF sends, waits
<1>. QED
  BY <1>1, <1>2, <1>3

\* The arguments of a request, by its kind.
LEMMA RequestFields ==
  ASSUME NEW r \in Request
  PROVE  /\ r.kind = "send" => r.msg \in Delivery
         /\ r.kind \in {"register", "ack", "confirm"} => r.dev \in Device
         /\ r.kind \in {"ack", "confirm"} => r.ids \in SUBSET EnvelopeId
  BY DEF Request

\* A relay restart or a TTL expiry keeps the mailboxes' types and messages.
LEMMA ExpiryEffect ==
  ASSUME TypeOK, RelayRestart \/ TTLPasses
  PROVE  /\ RelayTypeOK'
         /\ \A v \in Device : \A e \in Elems(queue'[v]) :
              \E f \in Elems(queue[v]) : f.id = e.id /\ f.msg = e.msg
         /\ \A v \in Device : Msgs(receipts'[v]) \subseteq Msgs(receipts[v])
<1>1. queue \in [Device -> Seq(Envelope)] /\ receipts \in [Device -> Seq(Envelope)]
  BY DEF TypeOK, Receipt
<1>2. CASE RelayRestart
  BY <1>2 DEF RelayRestart, RelayTypeOK, Elems, Msgs
<1>3. CASE TTLPasses
  <2>1. ASSUME NEW box \in Seq(Envelope)
        PROVE  LET aged == [i \in DOMAIN box |-> [box[i] EXCEPT !.old = TRUE]] IN
                 /\ aged \in Seq(Envelope)
                 /\ \A e \in Elems(aged) : \E f \in Elems(box) : f.id = e.id /\ f.msg = e.msg
    <3>. DEFINE aged == [i \in DOMAIN box |-> [box[i] EXCEPT !.old = TRUE]]
    <3>1. DOMAIN box = 1..Len(box) /\ Len(box) \in Nat /\ \A i \in 1..Len(box) : box[i] \in Envelope
      OBVIOUS
    <3>2. \A i \in DOMAIN box : /\ aged[i] \in Envelope
                                /\ aged[i].id = box[i].id /\ aged[i].msg = box[i].msg
      BY <3>1 DEF Envelope
    <3>3. aged \in Seq(Envelope) /\ DOMAIN aged = DOMAIN box
      BY <3>1, <3>2
    <3>. HIDE DEF aged
    <3>4. \A e \in Elems(aged) : \E f \in Elems(box) : f.id = e.id /\ f.msg = e.msg
      BY <3>2, <3>3 DEF Elems
    <3>. QED
      BY <3>3, <3>4 DEF aged
  <2>2. ASSUME NEW v \in Device
        PROVE  /\ queue'[v] \in Seq(Envelope) /\ receipts'[v] \in Seq(Receipt)
               /\ \A e \in Elems(queue'[v]) : \E f \in Elems(queue[v]) : f.id = e.id /\ f.msg = e.msg
               /\ \A e \in Elems(receipts'[v]) : \E f \in Elems(receipts[v]) : f.msg = e.msg
    <3>1. queue'[v] = [i \in DOMAIN queue[v] |-> [queue[v][i] EXCEPT !.old = TRUE]]
      BY <1>3 DEF TTLPasses
    <3>2. receipts'[v] = [i \in DOMAIN receipts[v] |-> [receipts[v][i] EXCEPT !.old = TRUE]]
      BY <1>3 DEF TTLPasses
    <3>3. queue[v] \in Seq(Envelope) /\ receipts[v] \in Seq(Envelope)
      BY <1>1
    <3>4. queue'[v] \in Seq(Envelope) /\ receipts'[v] \in Seq(Receipt)
      BY <2>1, <3>1, <3>2, <3>3 DEF Receipt
    <3>5. \A e \in Elems(queue'[v]) : \E f \in Elems(queue[v]) : f.id = e.id /\ f.msg = e.msg
      BY <2>1, <3>1, <3>3
    <3>6. \A e \in Elems(receipts'[v]) : \E f \in Elems(receipts[v]) : f.msg = e.msg
      BY <2>1, <3>2, <3>3
    <3>. QED
      BY <3>4, <3>5, <3>6
  <2>3. queue' \in [Device -> Seq(Envelope)] /\ receipts' \in [Device -> Seq(Receipt)]
    BY <1>3, <2>2 DEF TTLPasses
  <2>4. registered' \subseteq Device
    BY <1>3 DEF TTLPasses, TypeOK
  <2>. QED
    BY <2>2, <2>3, <2>4 DEF RelayTypeOK, Msgs
<1>. QED
  BY <1>2, <1>3

\* The relay's mailboxes keep their types in every step.
LEMMA RelayTypeNext ==
  ASSUME DeliveryAssumption, TypeOK, [Next]_vars
  PROVE  RelayTypeOK'
<1>. USE RelayTypeStep
<1>1. CASE UNCHANGED vars
  BY <1>1 DEF vars
<1>2. ASSUME NEW d \in Delivery, NEW mode \in KeyMode, Submit(d, mode)
      PROVE  RelayTypeOK'
  BY <1>2 DEF Submit
<1>3. ASSUME NEW d \in Delivery, ComposeStep(d) \/ ComposeFails(d) \/ Cooldown(d)
      PROVE  RelayTypeOK'
  BY <1>3 DEF ComposeStep, ComposeAnswered, ComposeMark, ComposeFails, Cooldown
<1>4. ASSUME NEW t \in Tab, TabStep(t) \/ CallFails(t)
      PROVE  RelayTypeOK'
  <2>1. Home[t] \in Device /\ tab[t].acked \in SUBSET EnvelopeId /\ tab[t].cleared \in SUBSET EnvelopeId
        /\ tab[t].item \subseteq Delivery
    BY TabFields DEF DeliveryAssumption
  <2>2. CASE Registered(t) \/ Acked(t) \/ Confirmed(t) \/ FlushAnswered(t)
    BY <2>1, <2>2 DEF Registered, Acked, Confirmed, FlushAnswered
  <2>3. CASE Pulled(t)
    <3>. DEFINE box == Prune(queue[Home[t]])
    <3>1. box \in Seq(Envelope)
      BY <2>1, PruneShrinks DEF TypeOK
    <3>2. queue' = [queue EXCEPT ![Home[t]] = box] /\ UNCHANGED <<registered, receipts>>
      BY <2>3 DEF Pulled
    <3>. HIDE DEF box
    <3>. QED
      BY <3>1, <3>2 DEF TypeOK, RelayTypeOK
  <2>4. CASE ReceiptsPulled(t)
    <3>. DEFINE box == Prune(receipts[Home[t]])
    <3>1. box \in Seq(Receipt)
      BY <2>1, PruneShrinks DEF TypeOK, Receipt
    <3>2. receipts' = [receipts EXCEPT ![Home[t]] = box] /\ UNCHANGED <<registered, queue>>
      BY <2>4 DEF ReceiptsPulled
    <3>. HIDE DEF box
    <3>. QED
      BY <3>1, <3>2 DEF TypeOK, RelayTypeOK
  <2>5. CASE UNCHANGED relayVars
    BY <2>5
  <2>. QED
    BY <1>4, <2>2, <2>3, <2>4, <2>5
    DEF TabStep, StartSync, FlushNext, FlushMark, FlushDone, Store, Skip, Consume, BatchDone,
        ClearItem, ClearDone, Unauthorized, CallFails
<1>5. ASSUME NEW r \in orphans, HandleOrphan(r) \/ DropOrphan(r)
      PROVE  RelayTypeOK'
  <2>1. r \in Request
    BY DEF TypeOK
  <2>. QED
    BY <1>5, <2>1, RequestFields DEF HandleOrphan, DropOrphan
<1>6. CASE \E v \in Device : Reload(v)
  BY <1>6 DEF Reload
<1>7. CASE RelayRestart \/ TTLPasses
  BY <1>7, ExpiryEffect
<1>. QED
  BY <1>1, <1>2, <1>3, <1>4, <1>5, <1>6, <1>7 DEF Next

\* Everything the clients keep, but for the tabs, keeps its type.
ClientTypeOK ==
  /\ outbox \subseteq Delivery /\ recent \subseteq Delivery /\ inbox \subseteq Delivery
  /\ oneTime \subseteq Delivery /\ prekeys \subseteq Delivery
  /\ compose \in [Delivery -> {"new", "send", "mark", "done"}]
  /\ tab \in [Tab -> TabState]
  /\ orphans \subseteq Request
  /\ faults \in 0..MaxFaults

LEMMA ClientTypeNext ==
  ASSUME DeliveryAssumption, TypeOK, [Next]_vars
  PROVE  ClientTypeOK'
<1>. USE DEF dbVars, ClientTypeOK
<1>1. ClientTypeOK
  BY DEF TypeOK
<1>2. CASE UNCHANGED vars
  BY <1>1, <1>2 DEF vars
<1>3. ASSUME NEW d \in Delivery, NEW mode \in KeyMode, Submit(d, mode)
      PROVE  ClientTypeOK'
  BY <1>1, <1>3 DEF Submit
<1>4. ASSUME NEW d \in Delivery, ComposeStep(d) \/ Cooldown(d)
      PROVE  ClientTypeOK'
  BY <1>1, <1>4 DEF ComposeStep, ComposeAnswered, ComposeMark, Cooldown
<1>5. ASSUME NEW d \in Delivery, ComposeFails(d)
      PROVE  ClientTypeOK'
  BY <1>1, <1>5 DEF ComposeFails, Request, DeliveryAssumption
<1>6. ASSUME NEW t \in Tab, TabStep(t) \/ CallFails(t)
      PROVE  ClientTypeOK'
  <2>1. tab' \in [Tab -> TabState]
    BY <1>6, TabStepTyped
  <2>2. CASE CallFails(t)
    BY <1>1, <2>1, <2>2, WaitingTyped DEF CallFails, DeliveryAssumption
  <2>3. CASE TabStep(t)
    <3>1. tab[t].item \subseteq Delivery /\ tab[t].batch \subseteq Envelope /\ tab[t].rcpts \subseteq Receipt
      BY TabFields
    <3>2. UNCHANGED <<compose, orphans, faults>>
      BY <2>3 DEF TabStep, StartSync, Registered, FlushNext, FlushAnswered, FlushMark, FlushDone,
           Pulled, Store, Skip, Consume, BatchDone, Acked, ReceiptsPulled, ClearItem, ClearDone,
           Confirmed, Unauthorized
    <3>3. /\ outbox' \subseteq Delivery /\ recent' \subseteq Delivery /\ inbox' \subseteq Delivery
          /\ oneTime' \subseteq Delivery /\ prekeys' \subseteq Delivery
      BY <1>1, <2>3, <3>1
      DEF TabStep, StartSync, Registered, FlushNext, FlushAnswered, FlushMark, FlushDone,
          Pulled, Store, Skip, Consume, BatchDone, Acked, ReceiptsPulled, ClearItem, ClearDone,
          Confirmed, Unauthorized, Envelope, Receipt
    <3>. QED
      BY <1>1, <2>1, <3>2, <3>3
  <2>. QED
    BY <1>6, <2>2, <2>3
<1>7. ASSUME NEW r \in orphans, HandleOrphan(r) \/ DropOrphan(r)
      PROVE  ClientTypeOK'
  BY <1>1, <1>7 DEF HandleOrphan, DropOrphan
<1>8. ASSUME NEW v \in Device, Reload(v)
      PROVE  ClientTypeOK'
  <2>1. tab' \in [Tab -> TabState]
    BY <1>1, <1>8, IdleTyped DEF Reload
  <2>2. orphans' \subseteq Request
    BY <1>1, <1>8, AbandonedTyped DEF Reload
  <2>3. compose' \in [Delivery -> {"new", "send", "mark", "done"}]
    BY <1>1, <1>8 DEF Reload
  <2>4. faults' \in 0..MaxFaults /\ UNCHANGED dbVars
    BY <1>1, <1>8 DEF Reload, DeliveryAssumption
  <2>. QED
    BY <1>1, <2>1, <2>2, <2>3, <2>4
<1>9. CASE RelayRestart \/ TTLPasses
  BY <1>1, <1>9 DEF RelayRestart, TTLPasses, DeliveryAssumption
<1>. QED
  BY <1>2, <1>3, <1>4, <1>5, <1>6, <1>7, <1>8, <1>9 DEF Next

LEMMA TypeNext ==
  ASSUME DeliveryAssumption, TypeOK, [Next]_vars
  PROVE  TypeOK'
  BY RelayTypeNext, ClientTypeNext DEF TypeOK, RelayTypeOK, ClientTypeOK

LEMMA InitTyped ==
  ASSUME DeliveryAssumption, Init
  PROVE  TypeOK
<1>1. tab \in [Tab -> TabState]
  BY IdleTyped DEF Init
<1>2. [v \in Device |-> << >>] \in [Device -> Seq(Envelope)]
  OBVIOUS
<1>. QED
  BY <1>1, <1>2 DEF Init, TypeOK, DeliveryAssumption, Receipt

\* The variables always have their types.
THEOREM TypeCorrect == Spec => []TypeOK
<1>. USE DeliveryAssumption
<1>1. Init => TypeOK
  BY InitTyped
<1>2. TypeOK /\ [Next]_vars => TypeOK'
  BY TypeNext
<1>. QED
  BY <1>1, <1>2, PTL DEF Spec

-----------------------------------------------------------------------------
(* Envelope ids. *)

\* Every id a mailbox, a pulled batch or an acknowledgement holds is in use.
LEMMA UsedCovers ==
  ASSUME NEW v \in Device
  PROVE  /\ \A e \in Elems(queue[v]) : e.id \in UsedIds
         /\ \A t \in Tab : \A b \in tab[t].batch : b.id \in UsedIds
         /\ \A t \in Tab : tab[t].acked \subseteq UsedIds
         /\ AckIds(v) \subseteq UsedIds
<1>1. \A e \in Elems(queue[v]) : e.id \in UsedIds
  BY DEF UsedIds
<1>2. \A t \in Tab : \A b \in tab[t].batch : b.id \in UsedIds
  BY DEF UsedIds
<1>3. \A t \in Tab : tab[t].acked \subseteq UsedIds
  BY DEF UsedIds
<1>4. \A r \in orphans : r.kind = "ack" => r.ids \subseteq UsedIds
  BY DEF UsedIds
<1>5. AckIds(v) \subseteq UsedIds
  BY <1>3, <1>4 DEF AckIds
<1>. QED
  BY <1>1, <1>2, <1>3, <1>5

\* Where the ids of a step may come from: queued envelopes were queued before or
\* have an unused id, batches are pulled from the device's own mailbox, and an
\* acknowledgement either existed or names stored messages only.
QueuedFrom(d) ==
  \A v \in Device : \A e \in Elems(queue'[v]) :
    \/ \E f \in Elems(queue[v]) : f.id = e.id /\ f.msg = e.msg
    \/ e.id \notin UsedIds /\ e.msg = d

BatchesFrom ==
  \A t \in Tab : tab'[t].batch \subseteq tab[t].batch \cup Elems(queue[Home[t]])

AcksFrom ==
  \A v \in Device : \A i \in AckIds(v)' :
    \/ i \in AckIds(v)
    \/ i \in UsedIds /\ \A e \in Elems(queue[v]) : e.id = i => e.msg \in inbox

\* A step with such sources keeps the meaning of ids.
LEMMA IdsKept ==
  ASSUME DeliveryAssumption, IdNamesOneMessage, AcksNameStored, inbox \subseteq inbox',
         NEW d, QueuedFrom(d), BatchesFrom, AcksFrom
  PROVE  IdNamesOneMessage' /\ AcksNameStored'
<1>1. ASSUME NEW v \in Device, NEW e \in Elems(queue'[v]), NEW f \in Elems(queue'[v]), e.id = f.id
      PROVE  e.msg = f.msg
  BY <1>1, UsedCovers DEF QueuedFrom, IdNamesOneMessage
<1>2. ASSUME NEW v \in Device, NEW e \in Elems(queue'[v]), NEW t \in Tab, Home[t] = v,
             NEW b \in tab'[t].batch, e.id = b.id
      PROVE  e.msg = b.msg
  <2>1. b.id \in UsedIds
    BY <1>2, UsedCovers DEF BatchesFrom
  <2>2. PICK f \in Elems(queue[v]) : f.id = e.id /\ f.msg = e.msg
    BY <1>2, <2>1 DEF QueuedFrom
  <2>. QED
    BY <1>2, <2>2 DEF BatchesFrom, IdNamesOneMessage
<1>3. ASSUME NEW v \in Device, NEW e \in Elems(queue'[v]), e.id \in AckIds(v)'
      PROVE  e.msg \in inbox'
  <2>1. e.id \in UsedIds
    BY <1>3, UsedCovers DEF AcksFrom
  <2>2. PICK f \in Elems(queue[v]) : f.id = e.id /\ f.msg = e.msg
    BY <1>3, <2>1 DEF QueuedFrom
  <2>. QED
    BY <1>3, <2>2 DEF AcksFrom, AcksNameStored
<1>4. IdNamesOneMessage'
  BY <1>1, <1>2 DEF IdNamesOneMessage
<1>5. AcksNameStored'
  BY <1>3 DEF AcksNameStored
<1>. QED
  BY <1>4, <1>5
-----------------------------------------------------------------------------
(* Steps of the sync loop. *)

\* What a step may put into a tab's fields.
FieldsFrom(t, fields) ==
  /\ fields.batch \subseteq tab[t].batch \cup Elems(queue[Home[t]])
  /\ \A i \in fields.acked :
       i \in tab[t].acked \/ \E b \in tab[t].batch : b.id = i /\ b.msg \in inbox
  /\ \A r \in fields.rcpts : r.msg \in inbox
  /\ fields.item = {} \/ \E d \in Delivery : fields.item = {d}
  /\ fields.pc = "consume" => fields.item \subseteq inbox'
  /\ fields.todo \cup fields.item \subseteq Submitted

\* What it may do to the mailboxes.
MailboxesFrom ==
  /\ \E d : QueuedFrom(d)
  /\ \A v \in Device : Msgs(queue'[v]) \subseteq Submitted
  /\ \A v \in Device : Msgs(receipts'[v]) \subseteq inbox

\* What it may do to the databases.
DatabasesFrom ==
  /\ inbox \subseteq inbox' /\ oneTime' = oneTime
  /\ outbox' \subseteq Submitted /\ outbox \ outbox' \subseteq inbox
  /\ oneTime \ prekeys' \subseteq inbox

\* Such a step of a tab keeps the invariant.
LEMMA TabMoves ==
  ASSUME DeliveryAssumption, DeliveryInv, TypeOK', NEW t \in Tab, NEW fields,
         Goto(t, fields), UNCHANGED <<compose, orphans>>,
         FieldsFrom(t, fields), MailboxesFrom, DatabasesFrom
  PROVE  DeliveryInv'
<1>1. /\ tab'[t] = fields
      /\ \A u \in Tab \ {t} : tab'[u] = tab[u]
  BY DEF Goto, DeliveryInv, TypeOK
<1>2. Submitted' = Submitted
  BY DEF Submitted
<1>3. IdNamesOneMessage' /\ AcksNameStored'
  <2>1. PICK d : QueuedFrom(d)
    BY DEF MailboxesFrom
  <2>2. BatchesFrom
    BY <1>1 DEF BatchesFrom, FieldsFrom
  <2>3. AcksFrom
    <3>1. ASSUME NEW v \in Device, NEW i \in AckIds(v)', i \notin AckIds(v)
          PROVE  Home[t] = v /\ i \in tab'[t].acked /\ i \notin tab[t].acked
      BY <1>1, <3>1 DEF AckIds
    <3>2. ASSUME NEW v \in Device, NEW i \in AckIds(v)', i \notin AckIds(v)
          PROVE  i \in UsedIds /\ \A e \in Elems(queue[v]) : e.id = i => e.msg \in inbox
      <4>1. PICK b \in tab[t].batch : b.id = i /\ b.msg \in inbox
        BY <1>1, <3>1, <3>2 DEF FieldsFrom
      <4>. QED
        BY <3>1, <3>2, <4>1, UsedCovers DEF DeliveryInv, IdNamesOneMessage
    <3>. QED
      BY <3>2 DEF AcksFrom
  <2>. QED
    BY <2>1, <2>2, <2>3, IdsKept DEF DeliveryInv, DatabasesFrom
<1>4. OutboxReleasedOnlyWhenStored'
  BY DEF OutboxReleasedOnlyWhenStored, DeliveryInv, DatabasesFrom
<1>5. ReceiptMeansStored'
  BY <1>1 DEF ReceiptMeansStored, DeliveryInv, DatabasesFrom, MailboxesFrom, FieldsFrom
<1>6. SpentPrekeyMeansStored'
  BY DEF SpentPrekeyMeansStored, DatabasesFrom
<1>7. ItemInHand'
  BY <1>1 DEF ItemInHand, At, DeliveryInv, DatabasesFrom, FieldsFrom
<1>8. TravelsSubmitted'
  <2>1. \A b \in tab'[t].batch : b.msg \in Submitted
    BY <1>1 DEF FieldsFrom, DeliveryInv, TravelsSubmitted, Msgs, DeliveryAssumption
  <2>2. tab'[t].todo \cup tab'[t].item \subseteq Submitted
    BY <1>1 DEF FieldsFrom
  <2>3. \A u \in Tab \ {t} :
          {e.msg : e \in tab'[u].batch} \cup tab'[u].todo \cup tab'[u].item \subseteq Submitted
    BY <1>1 DEF DeliveryInv, TravelsSubmitted
  <2>. QED
    BY <1>2, <2>1, <2>2, <2>3 DEF DeliveryInv, TravelsSubmitted, MailboxesFrom, DatabasesFrom
<1>. QED
  BY <1>3, <1>4, <1>5, <1>6, <1>7, <1>8 DEF DeliveryInv

\* The fields a tab has are fields it may keep.
LEMMA OwnFields ==
  ASSUME DeliveryInv, NEW t \in Tab
  PROVE  /\ \A r \in tab[t].rcpts : r.msg \in inbox
         /\ tab[t].item = {} \/ \E d \in Delivery : tab[t].item = {d}
         /\ tab[t].todo \cup tab[t].item \subseteq Submitted
         /\ \A b \in tab[t].batch : b.msg \in Submitted
         /\ tab[t].pc = "consume" => tab[t].item \subseteq inbox
         /\ tab[t] \in TabState
  BY TabFields DEF DeliveryInv, ReceiptMeansStored, ItemInHand, TravelsSubmitted, At

\* A step that takes things out of the mailboxes, or none.
LEMMA MailboxesShrink ==
  ASSUME DeliveryInv,
         \A v \in Device : \A e \in Elems(queue'[v]) :
           \E f \in Elems(queue[v]) : f.id = e.id /\ f.msg = e.msg,
         \A v \in Device : Msgs(receipts'[v]) \subseteq Msgs(receipts[v]) \cup inbox
  PROVE  MailboxesFrom
<1>1. QueuedFrom(0)
  BY DEF QueuedFrom
<1>2. \A v \in Device : Msgs(queue'[v]) \subseteq Submitted
  BY DEF DeliveryInv, TravelsSubmitted, Msgs
<1>3. \A v \in Device : Msgs(receipts'[v]) \subseteq inbox
  BY DEF DeliveryInv, ReceiptMeansStored
<1>. QED
  BY <1>1, <1>2, <1>3 DEF MailboxesFrom

LEMMA MailboxesSame ==
  ASSUME DeliveryInv, queue' = queue, receipts' = receipts
  PROVE  MailboxesFrom
<1>1. \A v \in Device : \A e \in Elems(queue'[v]) :
        \E f \in Elems(queue[v]) : f.id = e.id /\ f.msg = e.msg
  OBVIOUS
<1>2. \A v \in Device : Msgs(receipts'[v]) \subseteq Msgs(receipts[v]) \cup inbox
  OBVIOUS
<1>. QED
  BY <1>1, <1>2, MailboxesShrink

LEMMA DatabasesSame ==
  ASSUME DeliveryInv, UNCHANGED dbVars
  PROVE  DatabasesFrom
  BY DEF DatabasesFrom, dbVars, DeliveryInv, TravelsSubmitted, SpentPrekeyMeansStored

\* Sending a submitted message.
LEMMA SendMailboxes ==
  ASSUME DeliveryAssumption, DeliveryInv, NEW d \in Submitted,
         RelaySendAccepted(d) \/ RelaySendRefused(d)
  PROVE  MailboxesFrom
<1>1. d \in Delivery /\ TypeOK
  BY DEF Submitted, DeliveryInv
<1>2. QueuedFrom(d) /\ receipts' = receipts
  BY <1>1, SendEffect DEF QueuedFrom
<1>3. \A v \in Device : Msgs(queue'[v]) \subseteq Submitted
  BY <1>2 DEF QueuedFrom, DeliveryInv, TravelsSubmitted, Msgs
<1>. QED
  BY <1>2, <1>3 DEF MailboxesFrom, DeliveryInv, ReceiptMeansStored

\* Acknowledging envelopes of stored messages.
LEMMA AckMailboxes ==
  ASSUME DeliveryAssumption, DeliveryInv, NEW v \in Device, NEW ids, ids \subseteq AckIds(v),
         RelayAck(v, ids)
  PROVE  MailboxesFrom
<1>1. TypeOK
  BY DEF DeliveryInv
<1>2. \A u \in Device : \A m \in Msgs(receipts'[u]) :
        m \in Msgs(receipts[u]) \/ \E e \in Elems(queue[v]) : e.id \in ids /\ e.msg = m
  BY <1>1, AckEffect
<1>3. \A e \in Elems(queue[v]) : e.id \in ids => e.msg \in inbox
  BY DEF DeliveryInv, AcksNameStored
<1>4. \A u \in Device : Elems(queue'[u]) \subseteq Elems(queue[u])
  BY <1>1, AckEffect
<1>. QED
  BY <1>2, <1>3, <1>4, MailboxesShrink

\* Acknowledging receipts.
LEMMA ConfirmMailboxes ==
  ASSUME DeliveryInv, NEW v \in Device, NEW ids, RelayConfirm(v, ids)
  PROVE  MailboxesFrom
<1>1. TypeOK
  BY DEF DeliveryInv
<1>. QED
  BY <1>1, ConfirmEffect, MailboxesShrink DEF Msgs

\* Every step of a sync loop that keeps the databases.
LEMMA QuietStep ==
  ASSUME DeliveryAssumption, DeliveryInv, TypeOK', NEW t \in Tab,
         \/ StartSync(t) \/ Registered(t) \/ \E d \in Delivery : FlushNext(t, d)
         \/ FlushAnswered(t) \/ FlushDone(t) \/ \E e \in tab[t].batch : Skip(t, e)
         \/ BatchDone(t) \/ ClearDone(t) \/ Confirmed(t) \/ Acked(t) \/ Unauthorized(t)
  PROVE  DeliveryInv'
<1>. USE OwnFields, MailboxesSame, DatabasesSame, TabMoves
<1>1. CASE StartSync(t)
  BY <1>1 DEF StartSync, Idle, FieldsFrom, relayVars
<1>2. CASE Registered(t)
  <2>1. {d \in outbox \ recent : From[d] = Home[t]} \subseteq Submitted
    BY DEF DeliveryInv, TravelsSubmitted
  <2>. QED
    BY <1>2, <2>1 DEF Registered, RelayRegister, Idle, FieldsFrom
<1>3. CASE \E d \in Delivery : FlushNext(t, d)
  <2>1. PICK d \in Delivery : FlushNext(t, d)
    BY <1>3
  <2>. QED
    BY <2>1 DEF FlushNext, FieldsFrom, relayVars, TabState
<1>4. CASE FlushAnswered(t)
  <2>1. PICK d \in tab[t].item :
          \/ RelaySendAccepted(d) /\ Goto(t, [tab[t] EXCEPT !.pc = "mark"])
          \/ RelaySendRefused(d) /\ Goto(t, [tab[t] EXCEPT !.pc = "flush", !.item = {}])
    BY <1>4 DEF FlushAnswered
  <2>2. MailboxesFrom /\ DatabasesFrom /\ UNCHANGED <<compose, orphans>>
    BY <1>4, <2>1, SendMailboxes DEF FlushAnswered
  <2>3. CASE Goto(t, [tab[t] EXCEPT !.pc = "mark"])
    BY <2>2, <2>3 DEF FieldsFrom, TabState
  <2>4. CASE Goto(t, [tab[t] EXCEPT !.pc = "flush", !.item = {}])
    BY <2>2, <2>4 DEF FieldsFrom, TabState
  <2>. QED
    BY <2>1, <2>3, <2>4
<1>5. CASE FlushDone(t)
  BY <1>5 DEF FlushDone, FieldsFrom, relayVars, TabState
<1>6. CASE \E e \in tab[t].batch : Skip(t, e)
  <2>1. PICK e \in tab[t].batch : Skip(t, e)
    BY <1>6
  <2>2. FieldsFrom(t, [tab[t] EXCEPT !.batch = @ \ {e}])
    BY <2>1 DEF Skip, At, FieldsFrom, TabState
  <2>. QED
    BY <2>1, <2>2 DEF Skip, relayVars
<1>7. CASE BatchDone(t)
  <2>. DEFINE p == IF tab[t].acked = {} THEN "receipts" ELSE "ack"
  <2>1. Goto(t, [tab[t] EXCEPT !.pc = p]) /\ UNCHANGED <<relayVars, dbVars, compose, orphans>>
    BY <1>7 DEF BatchDone
  <2>2. p # "consume"
    OBVIOUS
  <2>. HIDE DEF p
  <2>3. FieldsFrom(t, [tab[t] EXCEPT !.pc = p])
    BY <2>2 DEF FieldsFrom, TabState
  <2>. QED
    BY <2>1, <2>3 DEF relayVars
<1>8. CASE ClearDone(t)
  <2>1. CASE Goto(t, Idle)
    BY <1>8, <2>1 DEF ClearDone, FieldsFrom, Idle, relayVars
  <2>2. CASE Goto(t, [tab[t] EXCEPT !.pc = "confirm"])
    BY <1>8, <2>2 DEF ClearDone, FieldsFrom, relayVars, TabState
  <2>. QED
    BY <1>8, <2>1, <2>2 DEF ClearDone
<1>9. CASE Confirmed(t)
  <2>1. Home[t] \in Device
    BY DEF DeliveryAssumption
  <2>2. MailboxesFrom
    BY <1>9, <2>1, ConfirmMailboxes DEF Confirmed
  <2>. QED
    BY <1>9, <2>2 DEF Confirmed, FieldsFrom, Idle
<1>10. CASE Acked(t)
  <2>1. Home[t] \in Device /\ tab[t].acked \subseteq AckIds(Home[t])
    BY DEF DeliveryAssumption, AckIds
  <2>2. MailboxesFrom
    BY <1>10, <2>1, AckMailboxes DEF Acked
  <2>. QED
    BY <1>10, <2>2 DEF Acked, FieldsFrom, TabState
<1>11. CASE Unauthorized(t)
  BY <1>11 DEF Unauthorized, Idle, FieldsFrom, relayVars
<1>. QED
  BY <1>1, <1>2, <1>3, <1>4, <1>5, <1>6, <1>7, <1>8, <1>9, <1>10, <1>11

\* The steps that pull.
LEMMA PullStep ==
  ASSUME DeliveryAssumption, DeliveryInv, TypeOK', NEW t \in Tab, Pulled(t) \/ ReceiptsPulled(t)
  PROVE  DeliveryInv'
<1>. USE OwnFields, DatabasesSame, TabMoves
<1>0. Home[t] \in Device /\ PULL_BATCH \in Int /\ TypeOK
  BY DEF DeliveryAssumption, DeliveryInv
<1>1. CASE Pulled(t)
  <2>. DEFINE box == Prune(queue[Home[t]])
              pulled == Elems(FirstOf(box, PULL_BATCH))
  <2>1. box \in Seq(Envelope) /\ Elems(box) \subseteq Elems(queue[Home[t]])
    BY <1>0, PruneShrinks DEF TypeOK
  <2>2. /\ queue' = [queue EXCEPT ![Home[t]] = box] /\ receipts' = receipts
        /\ Goto(t, [tab[t] EXCEPT !.pc = "process", !.batch = pulled])
        /\ UNCHANGED <<dbVars, compose, orphans>>
    BY <1>1 DEF Pulled
  <2>. HIDE DEF box
  <2>3. pulled \subseteq Elems(box)
    BY <1>0, <2>1, FirstOfProperties
  <2>. HIDE DEF pulled
  <2>4. \A v \in Device : Elems(queue'[v]) \subseteq Elems(queue[v])
    BY <1>0, <2>1, <2>2 DEF TypeOK
  <2>5. MailboxesFrom
    BY <2>2, <2>4, MailboxesShrink
  <2>6. FieldsFrom(t, [tab[t] EXCEPT !.pc = "process", !.batch = pulled])
    BY <2>1, <2>3 DEF FieldsFrom, TabState
  <2>. QED
    BY <2>2, <2>5, <2>6
<1>2. CASE ReceiptsPulled(t)
  <2>. DEFINE box == Prune(receipts[Home[t]])
              pulled == Elems(FirstOf(box, PULL_BATCH))
  <2>1. box \in Seq(Envelope) /\ Elems(box) \subseteq Elems(receipts[Home[t]])
    BY <1>0, PruneShrinks DEF TypeOK, Receipt
  <2>2. /\ receipts' = [receipts EXCEPT ![Home[t]] = box] /\ queue' = queue
        /\ Goto(t, [tab[t] EXCEPT !.pc = "clear", !.rcpts = pulled])
        /\ UNCHANGED <<dbVars, compose, orphans>>
    BY <1>2 DEF ReceiptsPulled
  <2>. HIDE DEF box
  <2>3. pulled \subseteq Elems(box)
    BY <1>0, <2>1, FirstOfProperties
  <2>. HIDE DEF pulled
  <2>4. \A v \in Device : Elems(receipts'[v]) \subseteq Elems(receipts[v])
    BY <1>0, <2>1, <2>2 DEF TypeOK
  <2>5. \A v \in Device : Msgs(receipts'[v]) \subseteq Msgs(receipts[v]) \cup inbox
    BY <2>4 DEF Msgs
  <2>6. \A v \in Device : \A e \in Elems(queue'[v]) :
          \E f \in Elems(queue[v]) : f.id = e.id /\ f.msg = e.msg
    BY <2>2
  <2>7. MailboxesFrom
    BY <2>5, <2>6, MailboxesShrink
  <2>8. \A r \in pulled : r.msg \in inbox
    BY <1>0, <2>1, <2>3 DEF DeliveryInv, ReceiptMeansStored, Msgs
  <2>9. FieldsFrom(t, [tab[t] EXCEPT !.pc = "clear", !.rcpts = pulled])
    BY <2>8 DEF FieldsFrom, TabState
  <2>. QED
    BY <2>2, <2>7, <2>9
<1>. QED
  BY <1>1, <1>2

\* The steps that change a database.
LEMMA DatabaseStep ==
  ASSUME DeliveryAssumption, DeliveryInv, TypeOK', NEW t \in Tab,
         \/ FlushMark(t) \/ Consume(t) \/ \E e \in tab[t].batch : Store(t, e)
         \/ \E r \in tab[t].rcpts : ClearItem(t, r)
  PROVE  DeliveryInv'
<1>. USE OwnFields, MailboxesSame, TabMoves
<1>1. CASE FlushMark(t)
  <2>1. DatabasesFrom
    BY <1>1 DEF FlushMark, DatabasesFrom, DeliveryInv, TravelsSubmitted, SpentPrekeyMeansStored
  <2>. QED
    BY <1>1, <2>1 DEF FlushMark, FieldsFrom, TabState, relayVars
<1>2. CASE Consume(t)
  <2>1. tab[t].item \subseteq inbox
    BY <1>2 DEF Consume, At
  <2>2. DatabasesFrom
    BY <1>2, <2>1 DEF Consume, DatabasesFrom, DeliveryInv, TravelsSubmitted, SpentPrekeyMeansStored
  <2>. DEFINE done == {e \in tab[t].batch : e.msg \in tab[t].item}
              ids == {e.id : e \in done}
  <2>3. \A i \in ids : \E b \in tab[t].batch : b.id = i /\ b.msg \in inbox
    BY <2>1
  <2>4. Goto(t, [tab[t] EXCEPT !.pc = "process", !.item = {}, !.batch = @ \ done,
                               !.acked = @ \cup ids])
    BY <1>2 DEF Consume
  <2>. HIDE DEF done, ids
  <2>5. FieldsFrom(t, [tab[t] EXCEPT !.pc = "process", !.item = {}, !.batch = @ \ done,
                                     !.acked = @ \cup ids])
    BY <2>3 DEF FieldsFrom, TabState
  <2>. QED
    BY <1>2, <2>2, <2>4, <2>5 DEF Consume, relayVars
<1>3. CASE \E e \in tab[t].batch : Store(t, e)
  <2>1. PICK e \in tab[t].batch : Store(t, e)
    BY <1>3
  <2>2. e.msg \in Submitted /\ e.msg \in Delivery
    BY DEF Submitted
  <2>3. DatabasesFrom
    BY <2>1 DEF Store, DatabasesFrom, DeliveryInv, TravelsSubmitted, SpentPrekeyMeansStored
  <2>4. FieldsFrom(t, [tab[t] EXCEPT !.pc = "consume", !.item = {e.msg}])
    BY <2>1, <2>2 DEF Store, FieldsFrom, TabState
  <2>. QED
    BY <2>1, <2>3, <2>4 DEF Store, relayVars
<1>4. CASE \E r \in tab[t].rcpts : ClearItem(t, r)
  <2>1. PICK r \in tab[t].rcpts : ClearItem(t, r)
    BY <1>4
  <2>2. DatabasesFrom
    <3>1. r.msg \in inbox
      OBVIOUS
    <3>2. outbox' = outbox \ {r.msg} /\ UNCHANGED <<inbox, oneTime, prekeys>>
      BY <2>1 DEF ClearItem
    <3>3. outbox \subseteq Submitted /\ oneTime \ prekeys \subseteq inbox
      BY DEF DeliveryInv, TravelsSubmitted, SpentPrekeyMeansStored
    <3>. QED
      BY ONLY <3>1, <3>2, <3>3 DEF DatabasesFrom
  <2>3. FieldsFrom(t, [tab[t] EXCEPT !.rcpts = @ \ {r}, !.cleared = @ \cup {r.id}])
    BY <2>1 DEF ClearItem, At, FieldsFrom, TabState
  <2>. QED
    BY <2>1, <2>2, <2>3 DEF ClearItem, relayVars
<1>. QED
  BY <1>1, <1>2, <1>3, <1>4

LEMMA TabKeeps ==
  ASSUME DeliveryAssumption, DeliveryInv, TypeOK', NEW t \in Tab, TabStep(t)
  PROVE  DeliveryInv'
  BY QuietStep, PullStep, DatabaseStep DEF TabStep
-----------------------------------------------------------------------------
(* Steps that move requests: composing, failures, reloads, late arrivals. *)

\* What a step may leave in flight: old requests, sends of submitted messages, and
\* acknowledgements of what the device's tabs were acknowledging.
OrphansFrom ==
  \A r \in orphans' :
    \/ r \in orphans
    \/ r.kind = "send" /\ r.msg \in Submitted
    \/ r.kind = "ack" /\ \E t \in Tab : Home[t] = r.dev /\ r.ids = tab[t].acked
    \/ r.kind \in {"register", "confirm"}

\* What may become of the tabs: each keeps its fields, starts afresh, or gives up a push.
TabsFrom ==
  \A t \in Tab : tab'[t] \in {tab[t], Idle, [tab[t] EXCEPT !.pc = "flush", !.item = {}]}

\* Such a step keeps the invariant.
LEMMA RequestsMove ==
  ASSUME DeliveryAssumption, DeliveryInv, TypeOK', OrphansFrom, TabsFrom, MailboxesFrom,
         Submitted' = Submitted, inbox' = inbox, oneTime' = oneTime, prekeys' = prekeys,
         outbox \subseteq outbox', outbox' \subseteq Submitted
  PROVE  DeliveryInv'
<1>1. ASSUME NEW t \in Tab
      PROVE  /\ tab'[t].batch \subseteq tab[t].batch
             /\ tab'[t].acked \subseteq tab[t].acked
             /\ tab'[t].rcpts \subseteq tab[t].rcpts
             /\ tab'[t].todo \subseteq tab[t].todo
             /\ tab'[t].item \in {{}, tab[t].item}
             /\ tab'[t].pc = "consume" => tab[t].pc = "consume"
  <2>1. tab[t] \in TabState
    BY TabFields DEF DeliveryInv
  <2>2. CASE tab'[t] = tab[t]
    BY <2>2
  <2>3. CASE tab'[t] = Idle
    BY <2>3 DEF Idle
  <2>4. CASE tab'[t] = [tab[t] EXCEPT !.pc = "flush", !.item = {}]
    BY <2>1, <2>4 DEF TabState
  <2>. QED
    BY <2>2, <2>3, <2>4 DEF TabsFrom
<1>2. IdNamesOneMessage' /\ AcksNameStored'
  <2>1. PICK d : QueuedFrom(d)
    BY DEF MailboxesFrom
  <2>2. BatchesFrom
    BY <1>1 DEF BatchesFrom
  <2>3. AcksFrom
    BY <1>1 DEF AcksFrom, AckIds, OrphansFrom
  <2>. QED
    BY <2>1, <2>2, <2>3, IdsKept DEF DeliveryInv
<1>3. OutboxReleasedOnlyWhenStored'
  BY DEF OutboxReleasedOnlyWhenStored, DeliveryInv, Submitted
<1>4. ReceiptMeansStored'
  BY <1>1 DEF ReceiptMeansStored, DeliveryInv, MailboxesFrom
<1>5. SpentPrekeyMeansStored'
  BY DEF SpentPrekeyMeansStored, DeliveryInv
<1>6. ItemInHand'
  BY <1>1 DEF ItemInHand, At, DeliveryInv
<1>7. TravelsSubmitted'
  <2>1. \A t \in Tab :
          {e.msg : e \in tab'[t].batch} \cup tab'[t].todo \cup tab'[t].item \subseteq Submitted
    BY <1>1 DEF DeliveryInv, TravelsSubmitted
  <2>2. \A r \in orphans' : r.kind = "send" => r.msg \in Submitted
    BY DEF DeliveryInv, TravelsSubmitted, OrphansFrom
  <2>. QED
    BY <2>1, <2>2 DEF TravelsSubmitted, MailboxesFrom
<1>. QED
  BY <1>2, <1>3, <1>4, <1>5, <1>6, <1>7 DEF DeliveryInv

\* The request a tab gives up.
LEMMA WaitingFrom ==
  ASSUME DeliveryInv, NEW t \in Tab, NEW r \in Waiting(t)
  PROVE  \/ r.kind = "send" /\ r.msg \in Submitted
         \/ r.kind = "ack" /\ r.dev = Home[t] /\ r.ids = tab[t].acked
         \/ r.kind \in {"register", "confirm"}
<1>. USE OwnFields
<1>1. CASE At(t, "register")
  BY <1>1 DEF Waiting, At
<1>2. CASE At(t, "send")
  BY <1>2 DEF Waiting, At
<1>3. CASE At(t, "ack")
  BY <1>3 DEF Waiting, At
<1>4. CASE At(t, "confirm")
  BY <1>4 DEF Waiting, At
<1>5. CASE ~ (At(t, "register") \/ At(t, "send") \/ At(t, "ack") \/ At(t, "confirm"))
  BY <1>5 DEF Waiting
<1>. QED
  BY <1>1, <1>2, <1>3, <1>4, <1>5

LEMMA AbandonedFrom ==
  ASSUME DeliveryInv, NEW v \in Device, NEW r \in Abandoned(v)
  PROVE  \/ r.kind = "send" /\ r.msg \in Submitted
         \/ r.kind = "ack" /\ \E t \in Tab : Home[t] = r.dev /\ r.ids = tab[t].acked
         \/ r.kind \in {"register", "confirm"}
<1>1. CASE \E t \in Tab : r \in Waiting(t)
  BY <1>1, WaitingFrom
<1>2. CASE \E d \in Delivery : compose[d] = "send" /\ r = [kind |-> "send", msg |-> d]
  BY <1>2 DEF Submitted
<1>. QED
  BY <1>1, <1>2 DEF Abandoned

LEMMA FailureKeeps ==
  ASSUME DeliveryAssumption, DeliveryInv, TypeOK',
         \/ \E t \in Tab : CallFails(t)
         \/ \E d \in Delivery : ComposeFails(d)
         \/ \E v \in Device : Reload(v)
         \/ RelayRestart \/ TTLPasses
  PROVE  DeliveryInv'
<1>0. TypeOK /\ outbox \subseteq Submitted
  BY DEF DeliveryInv, TravelsSubmitted
<1>1. ASSUME NEW t \in Tab, CallFails(t) PROVE DeliveryInv'
  <2>1. OrphansFrom
    BY <1>1, WaitingFrom DEF CallFails, OrphansFrom
  <2>2. TabsFrom
    BY <1>0, <1>1, TabFields DEF CallFails, Goto, TabsFrom
  <2>3. MailboxesFrom
    BY <1>1, MailboxesSame DEF CallFails, relayVars
  <2>. QED
    BY <1>0, <1>1, <2>1, <2>2, <2>3, RequestsMove DEF CallFails, dbVars, Submitted
<1>2. ASSUME NEW d \in Delivery, ComposeFails(d) PROVE DeliveryInv'
  <2>1. Submitted' = Submitted /\ d \in Submitted
    BY <1>0, <1>2 DEF ComposeFails, Submitted, TypeOK
  <2>2. OrphansFrom
    BY <1>2, <2>1 DEF ComposeFails, OrphansFrom
  <2>3. TabsFrom
    BY <1>2 DEF ComposeFails, TabsFrom
  <2>4. MailboxesFrom
    BY <1>2, MailboxesSame DEF ComposeFails, relayVars
  <2>. QED
    BY <1>0, <1>2, <2>1, <2>2, <2>3, <2>4, RequestsMove DEF ComposeFails, dbVars
<1>3. ASSUME NEW v \in Device, Reload(v) PROVE DeliveryInv'
  <2>1. Submitted' = Submitted
    BY <1>0, <1>3 DEF Reload, Submitted, TypeOK
  <2>2. OrphansFrom
    BY <1>3, AbandonedFrom DEF Reload, OrphansFrom
  <2>3. TabsFrom
    BY <1>3 DEF Reload, TabsFrom
  <2>4. MailboxesFrom
    BY <1>3, MailboxesSame DEF Reload, relayVars
  <2>. QED
    BY <1>0, <1>3, <2>1, <2>2, <2>3, <2>4, RequestsMove DEF Reload, dbVars
<1>4. CASE RelayRestart \/ TTLPasses
  <2>1. MailboxesFrom
    BY <1>0, <1>4, ExpiryEffect, MailboxesShrink
  <2>2. OrphansFrom /\ TabsFrom /\ Submitted' = Submitted /\ UNCHANGED dbVars
    BY <1>4 DEF RelayRestart, TTLPasses, OrphansFrom, TabsFrom, Submitted
  <2>. QED
    BY <1>0, <2>1, <2>2, RequestsMove DEF dbVars
<1>. QED
  BY <1>1, <1>2, <1>3, <1>4

LEMMA ComposeKeeps ==
  ASSUME DeliveryAssumption, DeliveryInv, TypeOK', NEW d \in Delivery,
         ComposeStep(d) \/ Cooldown(d)
  PROVE  DeliveryInv'
<1>0. TypeOK /\ outbox \subseteq Submitted
  BY DEF DeliveryInv, TravelsSubmitted
<1>1. Submitted' = Submitted /\ (ComposeStep(d) => d \in Submitted)
  BY <1>0 DEF ComposeStep, ComposeAnswered, ComposeMark, Cooldown, Submitted, TypeOK
<1>2. OrphansFrom /\ TabsFrom
  BY DEF ComposeStep, ComposeAnswered, ComposeMark, Cooldown, OrphansFrom, TabsFrom
<1>3. MailboxesFrom
  BY <1>1, MailboxesSame, SendMailboxes
  DEF ComposeStep, ComposeAnswered, ComposeMark, Cooldown, relayVars
<1>4. /\ inbox' = inbox /\ oneTime' = oneTime /\ prekeys' = prekeys
      /\ outbox \subseteq outbox' /\ outbox' \subseteq Submitted
  BY <1>0, <1>1 DEF ComposeStep, ComposeAnswered, ComposeMark, Cooldown, dbVars
<1>. QED
  BY <1>1, <1>2, <1>3, <1>4, RequestsMove

LEMMA OrphanKeeps ==
  ASSUME DeliveryAssumption, DeliveryInv, TypeOK', NEW r \in orphans,
         HandleOrphan(r) \/ DropOrphan(r)
  PROVE  DeliveryInv'
<1>0. TypeOK /\ outbox \subseteq Submitted /\ r \in Request
  BY DEF DeliveryInv, TravelsSubmitted, TypeOK
<1>1. OrphansFrom /\ TabsFrom /\ Submitted' = Submitted /\ UNCHANGED dbVars
  BY DEF HandleOrphan, DropOrphan, OrphansFrom, TabsFrom, Submitted
<1>2. MailboxesFrom
  <2>1. CASE UNCHANGED relayVars
    BY <2>1, MailboxesSame DEF relayVars
  <2>2. CASE r.kind = "register" /\ RelayRegister(r.dev)
    BY <2>2, MailboxesSame DEF RelayRegister
  <2>3. CASE r.kind = "send" /\ (RelaySendAccepted(r.msg) \/ RelaySendRefused(r.msg))
    BY <2>3, SendMailboxes DEF DeliveryInv, TravelsSubmitted
  <2>4. CASE r.kind = "ack" /\ RelayAck(r.dev, r.ids)
    <3>1. r.ids \subseteq AckIds(r.dev) /\ r.dev \in Device
      BY <1>0, <2>4, RequestFields DEF AckIds
    <3>. QED
      BY <2>4, <3>1, AckMailboxes
  <2>5. CASE r.kind = "confirm" /\ RelayConfirm(r.dev, r.ids)
    BY <1>0, <2>5, RequestFields, ConfirmMailboxes
  <2>. QED
    BY <2>1, <2>2, <2>3, <2>4, <2>5 DEF HandleOrphan, DropOrphan
<1>. QED
  BY <1>0, <1>1, <1>2, RequestsMove DEF dbVars

\* The user sends a message.
LEMMA SubmitKeeps ==
  ASSUME DeliveryAssumption, DeliveryInv, TypeOK', NEW d \in Delivery, NEW mode \in KeyMode,
         Submit(d, mode)
  PROVE  DeliveryInv'
<1>0. TypeOK /\ outbox \subseteq Submitted
  BY DEF DeliveryInv, TravelsSubmitted
<1>1. /\ Submitted' = Submitted \cup {d}
      /\ outbox' = outbox \cup {d} /\ inbox' = inbox
      /\ oneTime' \ prekeys' \subseteq oneTime \ prekeys
      /\ UNCHANGED <<relayVars, tab, orphans>>
  BY <1>0 DEF Submit, Submitted, TypeOK
<1>2. IdNamesOneMessage' /\ AcksNameStored' /\ ReceiptMeansStored' /\ ItemInHand'
  BY <1>1 DEF relayVars, DeliveryInv, IdNamesOneMessage, AcksNameStored, AckIds,
       ReceiptMeansStored, ItemInHand, At
<1>3. OutboxReleasedOnlyWhenStored' /\ SpentPrekeyMeansStored'
  BY <1>1 DEF DeliveryInv, OutboxReleasedOnlyWhenStored, SpentPrekeyMeansStored, Submitted
<1>4. TravelsSubmitted'
  BY <1>1 DEF relayVars, DeliveryInv, TravelsSubmitted
<1>. QED
  BY <1>2, <1>3, <1>4 DEF DeliveryInv
-----------------------------------------------------------------------------
(* The invariant and what follows from it. *)

LEMMA DeliveryInvInit ==
  ASSUME DeliveryAssumption, Init
  PROVE  DeliveryInv
<1>1. TypeOK
  BY InitTyped
<1>2. Submitted = {} /\ \A v \in Device : Elems(queue[v]) = {} /\ Elems(receipts[v]) = {}
  BY DEF Init, Submitted, Elems
<1>3. OutboxReleasedOnlyWhenStored /\ SpentPrekeyMeansStored
  BY DEF Init, OutboxReleasedOnlyWhenStored, SpentPrekeyMeansStored
<1>4. ReceiptMeansStored /\ IdNamesOneMessage /\ AcksNameStored /\ ItemInHand /\ TravelsSubmitted
  BY <1>2 DEF Init, Idle, Msgs, ReceiptMeansStored, IdNamesOneMessage, AcksNameStored, ItemInHand,
     At, TravelsSubmitted
<1>. QED
  BY <1>1, <1>3, <1>4 DEF DeliveryInv

LEMMA DeliveryInvNext ==
  ASSUME DeliveryAssumption, DeliveryInv, [Next]_vars
  PROVE  DeliveryInv'
<1>1. TypeOK'
  BY TypeNext DEF DeliveryInv
<1>2. CASE UNCHANGED vars
  <2>1. OrphansFrom /\ TabsFrom /\ Submitted' = Submitted /\ UNCHANGED dbVars
    BY <1>2 DEF vars, OrphansFrom, TabsFrom, Submitted
  <2>2. MailboxesFrom
    BY <1>2, MailboxesSame DEF vars, relayVars
  <2>3. outbox \subseteq Submitted
    BY DEF DeliveryInv, TravelsSubmitted
  <2>. QED
    BY <1>1, <2>1, <2>2, <2>3, RequestsMove DEF dbVars
<1>3. CASE Next
  BY <1>1, <1>3, TabKeeps, FailureKeeps, ComposeKeeps, OrphanKeeps, SubmitKeeps DEF Next
<1>. QED
  BY <1>2, <1>3

\* The inductive invariant holds in every behaviour of the relay and its clients.
THEOREM DeliveryInvariant == Spec => []DeliveryInv
<1>. USE DeliveryAssumption
<1>1. Init => DeliveryInv
  BY DeliveryInvInit
<1>2. DeliveryInv /\ [Next]_vars => DeliveryInv'
  BY DeliveryInvNext
<1>. QED
  BY <1>1, <1>2, PTL DEF Spec

\* The outbox is released only when the recipient stored the message, whatever
\* fails in sendMessage, flushOutbox, the sync loop or the relay.
THEOREM OutboxSafe == Spec => []OutboxReleasedOnlyWhenStored
<1>1. DeliveryInv => OutboxReleasedOnlyWhenStored
  BY DEF DeliveryInv
<1>. QED
  BY <1>1, DeliveryInvariant, PTL

\* acknowledgeEnvelopes issues receipts for stored messages only.
THEOREM ReceiptSafe == Spec => []ReceiptMeansStored
<1>1. DeliveryInv => ReceiptMeansStored
  BY DEF DeliveryInv
<1>. QED
  BY <1>1, DeliveryInvariant, PTL

\* deleteLocalPreKey only destroys keys of stored messages.
THEOREM PrekeySafe == Spec => []SpentPrekeyMeansStored
<1>1. DeliveryInv => SpentPrekeyMeansStored
  BY DEF DeliveryInv
<1>. QED
  BY <1>1, DeliveryInvariant, PTL
-----------------------------------------------------------------------------
(* Module MessageDelivery implements module ReliableDelivery. *)

\* Putting a submitted item back into the outbox is HoldAgain, or nothing.
LEMMA PutBack ==
  ASSUME DeliveryInv, NEW d \in Submitted, outbox' = outbox \cup {d},
         inbox' = inbox, Submitted' = Submitted
  PROVE  [Promise!Next]_(Promise!vars)
<1>1. d \in Delivery /\ (d \in outbox \/ d \in inbox)
  BY DEF DeliveryInv, OutboxReleasedOnlyWhenStored, Submitted
<1>2. CASE d \in outbox
  BY <1>2 DEF Promise!vars
<1>3. CASE d \in inbox
  BY <1>1, <1>3 DEF Promise!HoldAgain, Promise!Next
<1>. QED
  BY <1>1, <1>2, <1>3

LEMMA TabImplements ==
  ASSUME DeliveryInv, NEW t \in Tab, TabStep(t)
  PROVE  [Promise!Next]_(Promise!vars)
<1>1. Submitted' = Submitted
  BY DEF TabStep, StartSync, Registered, FlushNext, FlushAnswered, FlushMark, FlushDone,
     Pulled, Store, Skip, Consume, BatchDone, Acked, ReceiptsPulled, ClearItem, ClearDone,
     Confirmed, Unauthorized, Submitted
<1>2. CASE FlushMark(t)
  <2>1. outbox' = outbox \cup tab[t].item /\ inbox' = inbox
    BY <1>2 DEF FlushMark
  <2>2. CASE tab[t].item = {}
    BY <1>1, <2>1, <2>2 DEF Promise!vars
  <2>3. CASE \E d \in Delivery : tab[t].item = {d}
    BY <1>1, <2>1, <2>3, PutBack, OwnFields
  <2>. QED
    BY <2>2, <2>3, OwnFields
<1>3. ASSUME NEW e \in tab[t].batch, Store(t, e)
      PROVE  [Promise!Next]_(Promise!vars)
  <2>1. e.msg \in Submitted /\ e.msg \in Delivery
    BY OwnFields DEF Submitted
  <2>. QED
    BY <1>1, <1>3, <2>1 DEF Store, Promise!Store, Promise!Next
<1>4. ASSUME NEW r \in tab[t].rcpts, ClearItem(t, r)
      PROVE  [Promise!Next]_(Promise!vars)
  <2>1. r.msg \in inbox /\ r.msg \in Delivery
    BY OwnFields DEF DeliveryInv, TypeOK
  <2>. QED
    BY <1>1, <1>4, <2>1 DEF ClearItem, Promise!Release, Promise!Next
<1>5. CASE UNCHANGED <<outbox, inbox>>
  BY <1>1, <1>5 DEF Promise!vars
<1>. QED
  BY <1>2, <1>3, <1>4, <1>5
  DEF TabStep, StartSync, Registered, FlushNext, FlushAnswered, FlushDone, Pulled, Skip, Consume,
      BatchDone, Acked, ReceiptsPulled, ClearDone, Confirmed, Unauthorized, dbVars

LEMMA StepImplements ==
  ASSUME DeliveryInv, [Next]_vars
  PROVE  [Promise!Next]_(Promise!vars)
<1>0. TypeOK
  BY DEF DeliveryInv
<1>1. ASSUME NEW d \in Delivery, NEW mode \in KeyMode, Submit(d, mode)
      PROVE  [Promise!Next]_(Promise!vars)
  <2>1. Submitted' = Submitted \cup {d} /\ d \notin Submitted
    BY <1>0, <1>1 DEF Submit, Submitted, TypeOK
  <2>. QED
    BY <1>1, <2>1 DEF Submit, Promise!Submit, Promise!Next
<1>2. ASSUME NEW d \in Delivery, ComposeMark(d)
      PROVE  [Promise!Next]_(Promise!vars)
  <2>1. Submitted' = Submitted /\ d \in Submitted
    BY <1>0, <1>2 DEF ComposeMark, Submitted, TypeOK
  <2>. QED
    BY <1>2, <2>1, PutBack DEF ComposeMark
<1>3. ASSUME NEW d \in Delivery, ComposeAnswered(d) \/ ComposeFails(d) \/ Cooldown(d)
      PROVE  [Promise!Next]_(Promise!vars)
  <2>1. Submitted' = Submitted
    BY <1>0, <1>3 DEF ComposeAnswered, ComposeFails, Cooldown, Submitted, TypeOK
  <2>. QED
    BY <1>3, <2>1 DEF ComposeAnswered, ComposeFails, Cooldown, dbVars, Promise!vars
<1>4. ASSUME NEW t \in Tab, TabStep(t)
      PROVE  [Promise!Next]_(Promise!vars)
  BY <1>4, TabImplements
<1>5. ASSUME NEW v \in Device, Reload(v)
      PROVE  [Promise!Next]_(Promise!vars)
  <2>1. Submitted' = Submitted
    BY <1>0, <1>5 DEF Reload, Submitted, TypeOK
  <2>. QED
    BY <1>5, <2>1 DEF Reload, dbVars, Promise!vars
<1>6. CASE UNCHANGED <<dbVars, compose>>
  BY <1>6 DEF dbVars, Submitted, Promise!vars
<1>. QED
  BY <1>1, <1>2, <1>3, <1>4, <1>5, <1>6
  DEF Next, ComposeStep, CallFails, HandleOrphan, DropOrphan, RelayRestart, TTLPasses, vars

\* Every behaviour of the relay and its clients is one the abstract promise allows:
\* no message is let go by its sender before it is stored, none is stored unsent.
THEOREM Implements == Spec => KeepsPromise
<1>1. Init => Promise!Init
  BY DEF Init, Promise!Init, Submitted
<1>2. DeliveryInv /\ [Next]_vars => [Promise!Next]_(Promise!vars)
  BY StepImplements
<1>. QED
  BY <1>1, <1>2, DeliveryInvariant, PTL DEF Spec, KeepsPromise, Promise!Spec

-----------------------------------------------------------------------------
(* The caps of the mailboxes and the uniqueness of what they hold. *)

\* No two places of a mailbox hold the same message.
UniqueMsgs(box) == \A i, j \in DOMAIN box : box[i].msg = box[j].msg => i = j

\* Taking things out of a mailbox, or changing their other fields, keeps messages
\* unique.
LEMMA KeepUnique ==
  ASSUME NEW box \in Seq(Envelope), UniqueMsgs(box), NEW drop
  PROVE  UniqueMsgs(Keep(box, drop)) /\ Len(Keep(box, drop)) <= Len(box)
<1>. DEFINE r == Keep(box, drop)
<1>1. r \in Seq(Envelope) /\ Len(r) <= Len(box) /\ InOrder(r, box, Len(box))
  BY KeepProperties
<1>. HIDE DEF r
<1>2. PICK f \in [1..Len(r) -> 1..Len(box)] :
        /\ \A k \in 1..Len(r) : r[k] = box[f[k]]
        /\ \A k, l \in 1..Len(r) : k < l => f[k] < f[l]
  BY <1>1 DEF InOrder
<1>3. DOMAIN r = 1..Len(r) /\ DOMAIN box = 1..Len(box)
  BY <1>1
<1>4. ASSUME NEW i \in 1..Len(r), NEW j \in 1..Len(r), r[i].msg = r[j].msg
      PROVE  i = j
  <2>1. f[i] = f[j]
    BY <1>2, <1>3, <1>4 DEF UniqueMsgs
  <2>2. ~ (i < j) /\ ~ (j < i)
    BY <1>2, <2>1
  <2>. QED
    BY <2>2
<1>5. UniqueMsgs(r)
  BY <1>3, <1>4 DEF UniqueMsgs
<1>. QED
  BY <1>1, <1>5 DEF r

LEMMA FirstOfUnique ==
  ASSUME NEW box \in Seq(Envelope), UniqueMsgs(box), NEW n \in Int
  PROVE  UniqueMsgs(FirstOf(box, n))
<1>1. \A i \in DOMAIN FirstOf(box, n) : i \in DOMAIN box /\ FirstOf(box, n)[i] = box[i]
  BY FirstOfProperties
<1>. QED
  BY <1>1 DEF UniqueMsgs

LEMMA AppendUnique ==
  ASSUME NEW box \in Seq(Envelope), UniqueMsgs(box), NEW e \in Envelope, e.msg \notin Msgs(box)
  PROVE  UniqueMsgs(Append(box, e)) /\ Len(Append(box, e)) = Len(box) + 1
<1>1. /\ DOMAIN box = 1..Len(box) /\ DOMAIN Append(box, e) = 1..(Len(box) + 1) /\ Len(box) \in Nat
      /\ Len(Append(box, e)) = Len(box) + 1
      /\ \A i \in 1..Len(box) : Append(box, e)[i] = box[i]
      /\ Append(box, e)[Len(box) + 1] = e
  BY AppendProperties
<1>2. \A i \in 1..Len(box) : box[i].msg # e.msg
  BY <1>1 DEF Msgs, Elems
<1>. DEFINE r == Append(box, e)
<1>. HIDE DEF r
<1>3. UniqueMsgs(r)
  BY <1>1, <1>2 DEF UniqueMsgs, r
<1>. QED
  BY <1>1, <1>3 DEF r

LEMMA ConcatUnique ==
  ASSUME NEW a \in Seq(Envelope), NEW b \in Seq(Envelope), UniqueMsgs(a), UniqueMsgs(b),
         \A m \in Msgs(b) : m \notin Msgs(a)
  PROVE  UniqueMsgs(a \o b) /\ Len(a \o b) = Len(a) + Len(b)
<1>. DEFINE r == a \o b
<1>1. /\ r \in Seq(Envelope) /\ Len(r) = Len(a) + Len(b) /\ DOMAIN r = 1..(Len(a) + Len(b))
      /\ Len(a) \in Nat /\ Len(b) \in Nat /\ DOMAIN a = 1..Len(a) /\ DOMAIN b = 1..Len(b)
      /\ \A i \in 1..(Len(a) + Len(b)) : r[i] = IF i <= Len(a) THEN a[i] ELSE b[i - Len(a)]
  BY ConcatProperties
<1>. HIDE DEF r
<1>2. ASSUME NEW i \in DOMAIN r, NEW j \in DOMAIN r, r[i].msg = r[j].msg
      PROVE  i = j
  <2>1. CASE i <= Len(a) /\ j <= Len(a)
    BY <1>1, <1>2, <2>1 DEF UniqueMsgs
  <2>2. CASE i > Len(a) /\ j > Len(a)
    <3>1. /\ i - Len(a) \in DOMAIN b /\ j - Len(a) \in DOMAIN b
          /\ r[i] = b[i - Len(a)] /\ r[j] = b[j - Len(a)]
      BY <1>1, <2>2
    <3>2. i - Len(a) = j - Len(a)
      BY <1>2, <3>1 DEF UniqueMsgs
    <3>. QED
      BY <1>1, <3>2
  <2>3. ASSUME NEW k \in DOMAIN r, NEW l \in DOMAIN r, k <= Len(a), l > Len(a)
        PROVE  r[k].msg # r[l].msg
    <3>1. k \in DOMAIN a /\ r[k] = a[k] /\ l - Len(a) \in DOMAIN b /\ r[l] = b[l - Len(a)]
      BY <1>1, <2>3
    <3>. QED
      BY <3>1 DEF Msgs, Elems
  <2>4. i \in Int /\ j \in Int /\ Len(a) \in Int
    BY <1>1
  <2>5. (i <= Len(a) \/ i > Len(a)) /\ (j <= Len(a) \/ j > Len(a))
    BY <2>4
  <2>. QED
    BY <1>2, <2>1, <2>2, <2>3, <2>5
<1>3. UniqueMsgs(r)
  BY <1>2 DEF UniqueMsgs
<1>. QED
  BY <1>1, <1>3 DEF r

\* What a mailbox must satisfy.
Limited(box, max) == Len(box) <= max /\ UniqueMsgs(box)

LEMMA LimitsAre ==
  MailboxesBoundedAndUnique
    <=> \A v \in Device : Limited(queue[v], MAX_QUEUE) /\ Limited(receipts[v], MAX_RECEIPTS)
  BY DEF MailboxesBoundedAndUnique, Limited, UniqueMsgs

LEMMA KeepLimited ==
  ASSUME NEW box \in Seq(Envelope), NEW max \in Nat, Limited(box, max), NEW drop
  PROVE  Keep(box, drop) \in Seq(Envelope) /\ Limited(Keep(box, drop), max)
<1>1. Len(box) \in Nat /\ Keep(box, drop) \in Seq(Envelope) /\ Len(Keep(box, drop)) \in Nat
  BY KeepProperties
<1>. QED
  BY <1>1, KeepUnique DEF Limited

\* A queue that is not full may take a message it does not hold.
LEMMA SendLimited ==
  ASSUME DeliveryAssumption, TypeOK, MailboxesBoundedAndUnique, NEW d \in Delivery,
         RelaySendAccepted(d) \/ RelaySendRefused(d)
  PROVE  MailboxesBoundedAndUnique'
<1>. DEFINE box == Prune(queue[To[d]])
<1>1. /\ To[d] \in Device /\ queue \in [Device -> Seq(Envelope)] /\ MAX_QUEUE \in Nat
      /\ \A v \in Device : Limited(queue[v], MAX_QUEUE) /\ Limited(receipts[v], MAX_RECEIPTS)
  BY LimitsAre DEF DeliveryAssumption, TypeOK
<1>2. box \in Seq(Envelope) /\ Limited(box, MAX_QUEUE)
  BY <1>1, KeepLimited DEF Prune
<1>3. receipts' = receipts
  BY DEF RelaySendAccepted, RelaySendRefused
<1>4. CASE /\ EnvelopeId \ UsedIds # {} /\ d \notin Msgs(box) /\ Len(box) < MAX_QUEUE
           /\ queue' = [queue EXCEPT ![To[d]] = Append(box, NewEnvelope(d))]
  <2>1. NewEnvelope(d) \in Envelope /\ NewEnvelope(d).msg = d
    BY <1>4 DEF NewEnvelope, Envelope, FreshId
  <2>2. Limited(Append(box, NewEnvelope(d)), MAX_QUEUE)
    <3>1. Len(box) \in Nat /\ Len(box) < MAX_QUEUE
      BY <1>2, <1>4
    <3>2. UniqueMsgs(Append(box, NewEnvelope(d))) /\ Len(Append(box, NewEnvelope(d))) = Len(box) + 1
      BY <1>2, <1>4, <2>1, AppendUnique DEF Limited
    <3>. QED
      BY <1>1, <3>1, <3>2 DEF Limited
  <2>. HIDE DEF box
  <2>. QED
    BY <1>1, <1>3, <1>4, <2>2, LimitsAre DEF MailboxesBoundedAndUnique, Limited, UniqueMsgs
<1>5. CASE queue' = [queue EXCEPT ![To[d]] = box]
  <2>. HIDE DEF box
  <2>. QED
    BY <1>1, <1>2, <1>3, <1>5 DEF MailboxesBoundedAndUnique, Limited, UniqueMsgs
<1>6. CASE queue' = queue
  BY <1>3, <1>6 DEF MailboxesBoundedAndUnique
<1>. QED
  BY <1>4, <1>5, <1>6 DEF RelaySendAccepted, RelaySendRefused

\* However many receipts one acknowledgement creates.
LEMMA AddReceiptsLimited ==
  ASSUME DeliveryAssumption, TypeOK, NEW u \in Device, Limited(receipts[u], MAX_RECEIPTS),
         NEW acknowledged \in Seq(Envelope), UniqueMsgs(acknowledged)
  PROVE  Limited(AddReceipts(u, acknowledged), MAX_RECEIPTS)
<1>. DEFINE mine == Keep(acknowledged, {e \in Elems(acknowledged) : From[e.msg] # u})
            kept == IF mine = << >> THEN receipts[u] ELSE Prune(receipts[u])
            new  == Keep(mine, {e \in Elems(mine) : e.msg \in Msgs(kept)})
            made == [i \in DOMAIN new |-> [new[i] EXCEPT !.old = FALSE]]
            first == FirstOf(made, MAX_RECEIPTS - Len(kept))
<1>0. receipts[u] \in Seq(Envelope) /\ MAX_RECEIPTS \in Nat
  BY DEF TypeOK, Receipt, DeliveryAssumption
<1>1. mine \in Seq(Envelope) /\ UniqueMsgs(mine)
  BY KeepProperties, KeepUnique
<1>2. kept \in Seq(Envelope) /\ Limited(kept, MAX_RECEIPTS)
  <2>. HIDE DEF mine
  <2>1. CASE mine = << >>
    BY <1>0, <2>1
  <2>2. CASE mine # << >>
    BY <1>0, <2>2, KeepLimited DEF Prune
  <2>. QED
    BY <2>1, <2>2
<1>. HIDE DEF kept
<1>3. /\ new \in Seq(Envelope) /\ UniqueMsgs(new)
      /\ \A m \in Msgs(new) : m \notin Msgs(kept)
  <2>. HIDE DEF mine
  <2>1. new \in Seq(Envelope) /\ Elems(new) = Elems(mine) \ {e \in Elems(mine) : e.msg \in Msgs(kept)}
    BY <1>1, KeepProperties
  <2>2. UniqueMsgs(new)
    BY <1>1, KeepUnique
  <2>. HIDE DEF new
  <2>3. \A m \in Msgs(new) : m \notin Msgs(kept)
    BY <2>1 DEF Msgs
  <2>. QED
    BY <2>1, <2>2, <2>3
<1>. HIDE DEF new, mine
<1>4. /\ made \in Seq(Envelope) /\ Msgs(made) = Msgs(new)
      /\ Len(made) = Len(new) /\ \A i \in DOMAIN new : made[i].msg = new[i].msg
  BY <1>3, MadeReceipts DEF Receipt
<1>. HIDE DEF made
<1>5. UniqueMsgs(made)
  <2>1. DOMAIN made = DOMAIN new
    BY <1>3, <1>4
  <2>. QED
    BY <1>3, <1>4, <2>1 DEF UniqueMsgs
<1>6. /\ first \in Seq(Envelope) /\ UniqueMsgs(first) /\ Elems(first) \subseteq Elems(made)
      /\ Len(first) <= MAX_RECEIPTS - Len(kept)
  <2>1. MAX_RECEIPTS - Len(kept) \in Int /\ MAX_RECEIPTS - Len(kept) >= 0
    BY <1>0, <1>2 DEF Limited
  <2>. QED
    BY <1>4, <1>5, <2>1, FirstOfProperties, FirstOfUnique
<1>. HIDE DEF first
<1>7. \A m \in Msgs(first) : m \notin Msgs(kept)
  BY <1>3, <1>4, <1>6 DEF Msgs
<1>8. UniqueMsgs(kept \o first) /\ Len(kept \o first) = Len(kept) + Len(first)
  BY <1>2, <1>6, <1>7, ConcatUnique DEF Limited
<1>9. Len(kept) \in Nat /\ Len(first) \in Nat
  BY <1>2, <1>6
<1>10. AddReceipts(u, acknowledged) = kept \o first
  BY DEF AddReceipts, kept, first, made, new, mine
<1>. QED
  BY <1>0, <1>6, <1>8, <1>9, <1>10 DEF Limited

LEMMA AckLimited ==
  ASSUME DeliveryAssumption, TypeOK, MailboxesBoundedAndUnique, NEW v \in Device, NEW ids,
         RelayAck(v, ids)
  PROVE  MailboxesBoundedAndUnique'
<1>. DEFINE hit == WithId(queue[v], ids)
            acknowledged == Keep(queue[v], Elems(queue[v]) \ hit)
            rest == Keep(queue[v], hit)
<1>1. /\ queue \in [Device -> Seq(Envelope)] /\ MAX_QUEUE \in Nat
      /\ \A u \in Device : Limited(queue[u], MAX_QUEUE) /\ Limited(receipts[u], MAX_RECEIPTS)
  BY LimitsAre DEF DeliveryAssumption, TypeOK
<1>2. queue[v] \in Seq(Envelope) /\ UniqueMsgs(queue[v])
  BY <1>1 DEF Limited
<1>3. acknowledged \in Seq(Envelope) /\ UniqueMsgs(acknowledged)
  BY <1>2, KeepProperties, KeepUnique
<1>4. rest \in Seq(Envelope) /\ Limited(rest, MAX_QUEUE)
  BY <1>1, <1>2, KeepLimited
<1>5. queue' = [queue EXCEPT ![v] = rest] /\ receipts' = [u \in Device |-> AddReceipts(u, acknowledged)]
  BY DEF RelayAck
<1>. HIDE DEF rest, acknowledged, hit
<1>6. \A u \in Device : Limited(receipts'[u], MAX_RECEIPTS)
  BY <1>1, <1>3, <1>5, AddReceiptsLimited
<1>7. \A u \in Device : Limited(queue'[u], MAX_QUEUE)
  BY <1>1, <1>4, <1>5
<1>. QED
  BY <1>6, <1>7 DEF MailboxesBoundedAndUnique, Limited, UniqueMsgs

\* Filtering one mailbox of either kind.
LEMMA FilterLimited ==
  ASSUME DeliveryAssumption, TypeOK, MailboxesBoundedAndUnique, NEW v \in Device, NEW drop,
         \/ queue' = [queue EXCEPT ![v] = Keep(queue[v], drop)] /\ receipts' = receipts
         \/ receipts' = [receipts EXCEPT ![v] = Keep(receipts[v], drop)] /\ queue' = queue
  PROVE  MailboxesBoundedAndUnique'
<1>1. /\ queue \in [Device -> Seq(Envelope)] /\ receipts \in [Device -> Seq(Envelope)]
      /\ MAX_QUEUE \in Nat /\ MAX_RECEIPTS \in Nat
      /\ \A u \in Device : Limited(queue[u], MAX_QUEUE) /\ Limited(receipts[u], MAX_RECEIPTS)
  BY LimitsAre DEF DeliveryAssumption, TypeOK, Receipt
<1>2. /\ Limited(Keep(queue[v], drop), MAX_QUEUE)
      /\ Limited(Keep(receipts[v], drop), MAX_RECEIPTS)
  BY <1>1, KeepLimited
<1>3. \A u \in Device : Limited(queue'[u], MAX_QUEUE) /\ Limited(receipts'[u], MAX_RECEIPTS)
  BY <1>1, <1>2
<1>. QED
  BY <1>3 DEF MailboxesBoundedAndUnique, Limited, UniqueMsgs

\* Changing fields other than the message.
LEMMA AgedLimited ==
  ASSUME NEW box \in Seq(Envelope), NEW max, Limited(box, max)
  PROVE  Limited([i \in DOMAIN box |-> [box[i] EXCEPT !.old = TRUE]], max)
<1>. DEFINE aged == [i \in DOMAIN box |-> [box[i] EXCEPT !.old = TRUE]]
<1>1. DOMAIN box = 1..Len(box) /\ Len(box) \in Nat /\ \A i \in 1..Len(box) : box[i] \in Envelope
  OBVIOUS
<1>2. \A i \in DOMAIN box : aged[i] \in Envelope /\ aged[i].msg = box[i].msg
  BY <1>1 DEF Envelope
<1>3. aged \in Seq(Envelope) /\ DOMAIN aged = DOMAIN box /\ Len(aged) = Len(box)
  BY <1>1, <1>2
<1>. HIDE DEF aged
<1>4. Limited(aged, max)
  BY <1>2, <1>3 DEF Limited, UniqueMsgs
<1>. QED
  BY <1>4 DEF aged

LEMMA ExpiryLimited ==
  ASSUME DeliveryAssumption, TypeOK, MailboxesBoundedAndUnique, RelayRestart \/ TTLPasses
  PROVE  MailboxesBoundedAndUnique'
<1>1. /\ queue \in [Device -> Seq(Envelope)] /\ receipts \in [Device -> Seq(Envelope)]
      /\ MAX_QUEUE \in Nat /\ MAX_RECEIPTS \in Nat
      /\ \A u \in Device : Limited(queue[u], MAX_QUEUE) /\ Limited(receipts[u], MAX_RECEIPTS)
  BY LimitsAre DEF DeliveryAssumption, TypeOK, Receipt
<1>2. CASE RelayRestart
  BY <1>1, <1>2 DEF RelayRestart, MailboxesBoundedAndUnique
<1>3. CASE TTLPasses
  <2>1. ASSUME NEW u \in Device
        PROVE  Limited(queue'[u], MAX_QUEUE) /\ Limited(receipts'[u], MAX_RECEIPTS)
    <3>1. queue'[u] = [i \in DOMAIN queue[u] |-> [queue[u][i] EXCEPT !.old = TRUE]]
      BY <1>3 DEF TTLPasses
    <3>2. receipts'[u] = [i \in DOMAIN receipts[u] |-> [receipts[u][i] EXCEPT !.old = TRUE]]
      BY <1>3 DEF TTLPasses
    <3>. QED
      BY <1>1, <3>1, <3>2, AgedLimited
  <2>. QED
    BY <2>1 DEF MailboxesBoundedAndUnique, Limited, UniqueMsgs
<1>. QED
  BY <1>2, <1>3

LEMMA LimitsNext ==
  ASSUME DeliveryAssumption, TypeOK, MailboxesBoundedAndUnique, [Next]_vars
  PROVE  MailboxesBoundedAndUnique'
<1>1. CASE UNCHANGED <<queue, receipts>>
  BY <1>1 DEF MailboxesBoundedAndUnique
<1>2. CASE \E d \in Delivery : RelaySendAccepted(d) \/ RelaySendRefused(d)
  BY <1>2, SendLimited
<1>3. CASE \E v \in Device, ids \in SUBSET EnvelopeId : RelayAck(v, ids)
  BY <1>3, AckLimited
<1>4. CASE \E v \in Device, ids \in SUBSET EnvelopeId : RelayConfirm(v, ids)
  BY <1>4, FilterLimited DEF RelayConfirm
<1>5. ASSUME NEW t \in Tab, TabStep(t)
      PROVE  MailboxesBoundedAndUnique'
  <2>1. Home[t] \in Device /\ tab[t].acked \in SUBSET EnvelopeId /\ tab[t].cleared \in SUBSET EnvelopeId
        /\ tab[t].item \subseteq Delivery
    BY TabFields DEF DeliveryAssumption
  <2>2. CASE Acked(t) \/ Confirmed(t) \/ FlushAnswered(t)
    BY <1>2, <1>3, <1>4, <2>1, <2>2 DEF Acked, Confirmed, FlushAnswered
  <2>3. CASE Pulled(t)
    BY <2>1, <2>3, FilterLimited DEF Pulled, Prune
  <2>4. CASE ReceiptsPulled(t)
    BY <2>1, <2>4, FilterLimited DEF ReceiptsPulled, Prune
  <2>. QED
    BY <1>1, <1>5, <2>2, <2>3, <2>4
    DEF TabStep, StartSync, Registered, RelayRegister, FlushNext, FlushMark, FlushDone, Store, Skip,
        Consume, BatchDone, ClearItem, ClearDone, Unauthorized, relayVars
<1>6. ASSUME NEW d \in Delivery, ComposeStep(d)
      PROVE  MailboxesBoundedAndUnique'
  BY <1>1, <1>2, <1>6 DEF ComposeStep, ComposeAnswered, ComposeMark, relayVars
<1>7. ASSUME NEW r \in orphans, HandleOrphan(r) \/ DropOrphan(r)
      PROVE  MailboxesBoundedAndUnique'
  <2>1. r \in Request
    BY DEF TypeOK
  <2>. QED
    BY <1>1, <1>2, <1>3, <1>4, <1>7, <2>1, RequestFields
    DEF HandleOrphan, DropOrphan, RelayRegister, relayVars
<1>8. CASE RelayRestart \/ TTLPasses
  BY <1>8, ExpiryLimited
<1>. QED
  BY <1>1, <1>5, <1>6, <1>7, <1>8
  DEF Next, Submit, ComposeFails, Cooldown, CallFails, Reload, relayVars, vars

\* No mailbox outgrows MAX_QUEUE or MAX_RECEIPTS or holds a message twice, whatever
\* is sent, acknowledged together, pushed again or lost.
THEOREM LimitsHold == Spec => []MailboxesBoundedAndUnique
<1>. USE DeliveryAssumption
<1>1. Init => MailboxesBoundedAndUnique
  BY DEF Init, MailboxesBoundedAndUnique
<1>2. TypeOK /\ MailboxesBoundedAndUnique /\ [Next]_vars => MailboxesBoundedAndUnique'
  BY LimitsNext
<1>. QED
  BY <1>1, <1>2, TypeCorrect, PTL DEF Spec
=============================================================================
