----------------------------- MODULE Federation -----------------------------
(***************************************************************************)
(* Federated delivery: the sender's relay (origin) forwards an envelope to *)
(* a relay of the recipient (destination), which queues it; when the       *)
(* recipient acknowledges it, the destination signs a receipt and posts it *)
(* to the origin until it is accepted.  standalone-relay/http.ts with      *)
(* federation-{state,client,retry}.ts and lib/quantic/federation-delivery. *)
(*                                                                         *)
(* Every runtime.mutate is one step and durable at once (RelayDurability). *)
(* A handler is a program counter in memory: a crash forgets it.  A call   *)
(* between relays is one step if it is answered; if its answer is lost the *)
(* request stays in flight and may be handled late, or never.              *)
(*                                                                         *)
(* A transfer is a federationId, which determines the envelope.  Keys and  *)
(* signatures are ideal.  Not modelled: the 30-day life of envelopes and   *)
(* the 7-day life of receipts, within which everything here happens.       *)
(***************************************************************************)
EXTENDS Integers, Sequences, FiniteSets

CONSTANTS
  Transfer,    \* federation ids
  Earlier,     \* messages under way since before: in a queue, or their receipt in the mailbox
  Dest,        \* relays that host the recipient's device
  Candidates,  \* Dest in the order of their priority in the route
  Sender,      \* /federation/send handlers of the origin at one time
  Timer, Flusher,   \* the retry task of a destination; its flushes after an acknowledgement
  MAX_QUEUE, MAX_RECEIPTS,
  MaxRoute,    \* TLC bound: route manifests the recipient publishes
  MaxFaults,   \* TLC bound: lost answers, crashes
  MaxExpiries  \* TLC bound: expiries of replay entries

ASSUME FederationAssumption ==
  /\ Candidates \in Seq(Dest) /\ "origin" \notin Dest
  /\ Transfer \cap Earlier = {}
  /\ Timer \notin Flusher
  /\ MAX_QUEUE \in Nat \ {0} /\ MAX_RECEIPTS \in Nat \ {0}
  /\ MaxRoute \in Nat \ {0} /\ MaxFaults \in Nat /\ MaxExpiries \in Nat

VARIABLES
  published,   \* newest route sequence the recipient has signed
  pinned,      \* relay -> newest route sequence it has accepted, 0 for none
  outbound,    \* origin: transfer -> what it remembers of it
  box,         \* origin: delivery receipts waiting for the sender's device
  send,        \* origin: send handlers
  queue,       \* destination -> envelopes in the recipient's queue
  seenIds,     \* destination -> transfers in the replay memory
  inbound,     \* destination -> transfers (with route sequence) to sign a receipt for
  pending,     \* destination -> receipts to post
  retry,       \* destination -> retrier -> its progress
  packets,     \* forwards and receipts in flight whose caller no longer waits
  faults, expiries,
  ackedBy,     \* history: messages some destination was told are stored
  signed,      \* history: transfers some destination signed a receipt for
  confirmed,   \* history: transfers the origin issued a delivery receipt for
  copies       \* history: destination -> transfer -> envelopes made since the last expiry

originVars == <<outbound, box, confirmed>>
destVars == <<queue, seenIds, inbound, pending, ackedBy, signed, copies>>
vars == <<published, pinned, originVars, send, destVars, retry, packets, faults, expiries>>

Origin == "origin"
Message == Transfer \cup Earlier
Route == 1..MaxRoute
Record == [dest : Dest, seq : Route, result : {"accepted", "delivered"}]
Packet == [kind : {"forward", "receipt"}, msg : Transfer, dest : Dest, seq : Route]
Entry == [msg : Transfer, seq : Route, due : BOOLEAN]       \* a pending receipt

Free == [pc |-> "idle"]
Handler ==
  {Free} \cup [pc : {"check"}, msg : Transfer, seq : Route]
    \cup [pc : {"forward"}, msg : Transfer, seq : Route, next : Nat \ {0}]
    \cup [pc : {"remember"}, msg : Transfer, seq : Route, dest : Dest]

Rest == [pc |-> "idle", todo |-> {}, item |-> {}]
Retrier == {Timer} \cup Flusher
Progress == [pc : {"idle", "list", "run", "remove", "requeue"},
             todo : SUBSET Entry, item : SUBSET Entry]

\* Types of every variable.
TypeOK ==
  /\ published \in Route
  /\ pinned \in [{Origin} \cup Dest -> 0..MaxRoute]
  /\ outbound \in [Transfer -> Record \cup {Free}]
  /\ box \subseteq Message /\ confirmed \subseteq Transfer
  /\ send \in [Sender -> Handler]
  /\ queue \in [Dest -> SUBSET Message] /\ seenIds \in [Dest -> SUBSET Transfer]
  /\ inbound \in [Dest -> SUBSET [msg : Transfer, seq : Route]]
  /\ pending \in [Dest -> SUBSET Entry]
  /\ retry \in [Dest -> [Retrier -> Progress]]
  /\ packets \subseteq Packet
  /\ faults \in 0..MaxFaults /\ expiries \in 0..MaxExpiries
  /\ ackedBy \subseteq Message /\ signed \subseteq Transfer
  /\ copies \in [Dest -> [Transfer -> Nat]]

Init ==
  /\ published = 1
  /\ pinned = [x \in {Origin} \cup Dest |-> 0]
  /\ outbound = [t \in Transfer |-> Free] /\ confirmed = {}
  /\ box \in SUBSET Earlier /\ Cardinality(box) <= MAX_RECEIPTS
  /\ send = [s \in Sender |-> Free]
  /\ queue \in [Dest -> {q \in SUBSET Earlier : Cardinality(q) <= MAX_QUEUE}]
  /\ seenIds = [b \in Dest |-> {}]
  /\ inbound = [b \in Dest |-> {}] /\ pending = [b \in Dest |-> {}]
  /\ retry = [b \in Dest |-> [r \in Retrier |-> Rest]]
  /\ packets = {} /\ faults = 0 /\ expiries = 0 /\ ackedBy = {} /\ signed = {}
  /\ copies = [b \in Dest |-> [t \in Transfer |-> 0]]
-----------------------------------------------------------------------------
(***************************************************************************)
(* What a destination does with a packet.                                  *)
(***************************************************************************)

\* acceptRouteManifest: an older route than the pinned one is refused.
AcceptsRoute(x, seq) == seq >= pinned[x]
\* Mutant: one sequence too far is pinned.
PinNext(x, seq) == pinned' = [pinned EXCEPT ![x] = seq + 1]
Pin(x, seq) == pinned' = [pinned EXCEPT ![x] = seq]

\* enqueueFederatedEnvelope makes a new envelope.
Enqueues(b, t) == t \notin queue[b] /\ Cardinality(queue[b]) < MAX_QUEUE

\* queuePendingFederationReceipt: one per federation id.
SetPending(b, e) ==
  pending' = [pending EXCEPT ![b] = {x \in @ : x.msg # e.msg} \cup {e}]

\* Mutant: the receipt is signed when the envelope is queued.
IngestSigns(b, t, seq) ==
  /\ AcceptsRoute(b, seq) /\ Pin(b, seq)
  /\ \/ /\ t \in seenIds[b] \/ t \in queue[b]
        /\ UNCHANGED <<queue, seenIds, inbound, copies, pending>>
     \/ /\ t \notin seenIds[b] /\ Enqueues(b, t)
        /\ queue' = [queue EXCEPT ![b] = @ \cup {t}]
        /\ copies' = [copies EXCEPT ![b][t] = @ + 1]
        /\ seenIds' = [seenIds EXCEPT ![b] = @ \cup {t}]
        /\ SetPending(b, [msg |-> t, seq |-> seq, due |-> TRUE])
        /\ UNCHANGED inbound
  /\ UNCHANGED <<ackedBy, signed>>

\* Mutant: the federation id is not recorded.
IngestForgets(b, t, seq) ==
  /\ AcceptsRoute(b, seq) /\ Pin(b, seq)
  /\ \/ /\ t \in seenIds[b] \/ t \in queue[b]
        /\ UNCHANGED <<queue, seenIds, inbound, copies>>
     \/ /\ t \notin seenIds[b] /\ Enqueues(b, t)
        /\ queue' = [queue EXCEPT ![b] = @ \cup {t}]
        /\ copies' = [copies EXCEPT ![b][t] = @ + 1]
        /\ inbound' = [inbound EXCEPT ![b] = @ \cup {[msg |-> t, seq |-> seq]}]
        /\ UNCHANGED seenIds
  /\ UNCHANGED <<pending, ackedBy, signed>>

\* /federation/forward, answered 202: a repetition, or a new envelope in the queue.
\* An inbound record is kept only for a new envelope.
Ingest(b, t, seq) ==
  /\ AcceptsRoute(b, seq) /\ Pin(b, seq)
  /\ \/ /\ t \in seenIds[b]
        /\ UNCHANGED <<queue, seenIds, inbound, copies>>
     \/ /\ t \notin seenIds[b] /\ t \in queue[b]
        /\ seenIds' = [seenIds EXCEPT ![b] = @ \cup {t}]
        /\ UNCHANGED <<queue, inbound, copies>>
     \/ /\ t \notin seenIds[b] /\ Enqueues(b, t)
        /\ queue' = [queue EXCEPT ![b] = @ \cup {t}]
        /\ copies' = [copies EXCEPT ![b][t] = @ + 1]
        /\ seenIds' = [seenIds EXCEPT ![b] = @ \cup {t}]
        /\ inbound' = [inbound EXCEPT ![b] = @ \cup {[msg |-> t, seq |-> seq]}]
  /\ UNCHANGED <<pending, ackedBy, signed>>

\* /federation/forward, refused: an older route, or a full queue (507), which
\* leaves the route pinned.
Refuse(b, t, seq) ==
  /\ \/ ~AcceptsRoute(b, seq) /\ UNCHANGED pinned
     \/ /\ AcceptsRoute(b, seq) /\ Pin(b, seq)
        /\ t \notin seenIds[b] /\ t \notin queue[b] /\ ~Enqueues(b, t)
  /\ UNCHANGED destVars
-----------------------------------------------------------------------------
(***************************************************************************)
(* /federation/send at the origin.                                         *)
(***************************************************************************)
SendAt(s, pc) == send[s].pc = pc
SetSend(s, h) == send' = [send EXCEPT ![s] = h]

\* The sender's device asks with a route manifest it knows, which is pinned.
SendStart(s, t, seq) ==
  /\ SendAt(s, "idle") /\ seq <= published
  /\ AcceptsRoute(Origin, seq) /\ Pin(Origin, seq)
  /\ SetSend(s, [pc |-> "check", msg |-> t, seq |-> seq])
  /\ UNCHANGED <<published, originVars, destVars, retry, packets, faults, expiries>>

\* getOutboundFederation: what is accepted or delivered is answered from memory.
SendCheck(s) ==
  /\ SendAt(s, "check")
  /\ SetSend(s, IF outbound[send[s].msg] # Free THEN Free
                ELSE [pc |-> "forward", msg |-> send[s].msg, seq |-> send[s].seq, next |-> 1])
  /\ UNCHANGED <<published, pinned, originVars, destVars, retry, packets, faults, expiries>>

\* The handler goes on with the next relay of the route.
NextCandidate(s) == SetSend(s, [send[s] EXCEPT !.next = @ + 1])
Candidate(s) == Candidates[send[s].next]
MoreCandidates(s) == SendAt(s, "forward") /\ send[s].next <= Len(Candidates)

SendForward(s) ==
  /\ MoreCandidates(s)
  /\ \/ /\ Ingest(Candidate(s), send[s].msg, send[s].seq)
        /\ SetSend(s, [pc |-> "remember", msg |-> send[s].msg, seq |-> send[s].seq,
                       dest |-> Candidate(s)])
     \/ Refuse(Candidate(s), send[s].msg, send[s].seq) /\ NextCandidate(s)
  /\ UNCHANGED <<published, originVars, retry, packets, faults, expiries>>

InFlight(kind, t, b, seq) == [kind |-> kind, msg |-> t, dest |-> b, seq |-> seq]

\* The answer does not come; the packet may still arrive.
ForwardLost(s) ==
  /\ MoreCandidates(s) /\ faults < MaxFaults
  /\ packets' = packets \cup {InFlight("forward", send[s].msg, Candidate(s), send[s].seq)}
  /\ NextCandidate(s)
  /\ faults' = faults + 1
  /\ UNCHANGED <<published, pinned, originVars, destVars, retry, expiries>>

\* 502: no candidate accepted the transfer, and nothing is remembered of it.
SendGivesUp(s) ==
  /\ SendAt(s, "forward") /\ send[s].next > Len(Candidates)
  /\ SetSend(s, Free)
  /\ UNCHANGED <<published, pinned, originVars, destVars, retry, packets, faults, expiries>>

\* rememberOutboundFederation, whatever was remembered before.
SendRemember(s) ==
  /\ SendAt(s, "remember")
  /\ outbound' = [outbound EXCEPT ![send[s].msg] =
                    [dest |-> send[s].dest, seq |-> send[s].seq, result |-> "accepted"]]
  /\ SetSend(s, Free)
  /\ UNCHANGED <<published, pinned, box, confirmed, destVars, retry, packets, faults, expiries>>
-----------------------------------------------------------------------------
(***************************************************************************)
(* Receipts.                                                               *)
(***************************************************************************)

\* The receipt corresponds to the recorded transfer.
Matches(t, b, seq) == outbound[t] # Free /\ outbound[t].dest = b /\ outbound[t].seq = seq

\* Mutant: a transfer that is already delivered is not found any more.
ReceivableOnce(t, b, seq) ==
  /\ Matches(t, b, seq) /\ outbound[t].result = "accepted"
  /\ t \in box \/ Cardinality(box) < MAX_RECEIPTS

\* enqueueDeliveryReceipt has the receipt already or has room for it.
Receivable(t, b, seq) ==
  /\ Matches(t, b, seq)
  /\ t \in box \/ Cardinality(box) < MAX_RECEIPTS

\* /federation/receipt, accepted.
AcceptReceipt(t, b, seq) ==
  /\ Receivable(t, b, seq)
  /\ box' = box \cup {t} /\ confirmed' = confirmed \cup {t}
  /\ outbound' = [outbound EXCEPT ![t].result = "delivered"]

\* The sender's device reads the receipt and acknowledges it.
ReadReceipt(t) ==
  /\ t \in box
  /\ box' = box \ {t}
  /\ UNCHANGED <<published, pinned, outbound, confirmed, send, destVars, retry, packets, faults, expiries>>

RetryAt(b, r, pc) == retry[b][r].pc = pc
SetRetry(b, r, v) == retry' = [retry EXCEPT ![b][r] = v]
IdleFlushers(b) == {f \in Flusher : RetryAt(b, f, "idle")}

\* /ack of the recipient (of one id; of several, the same for each): the envelope
\* leaves the queue, its inbound record turns into a pending receipt, and the
\* handler goes on to flush what is pending.
Ack(b, t) ==
  /\ t \in queue[b]
  /\ queue' = [queue EXCEPT ![b] = @ \ {t}]
  /\ ackedBy' = ackedBy \cup {t}
  /\ LET mine == {i \in inbound[b] : i.msg = t} IN
       \/ /\ mine = {}
          /\ UNCHANGED <<pending, inbound, signed, retry>>
       \/ \E i \in mine :
            /\ SetPending(b, [msg |-> t, seq |-> i.seq, due |-> TRUE])
            /\ inbound' = [inbound EXCEPT ![b] = @ \ mine]
            /\ signed' = signed \cup {t}
            /\ IF IdleFlushers(b) = {} THEN UNCHANGED retry
               ELSE \E f \in IdleFlushers(b) : SetRetry(b, f, [Rest EXCEPT !.pc = "list"])
  /\ UNCHANGED <<published, pinned, originVars, send, seenIds, packets, faults, expiries, copies>>

\* The one-second timer starts a retry unless one is under way.
TimerFires(b) ==
  /\ RetryAt(b, Timer, "idle") /\ pending[b] # {}
  /\ SetRetry(b, Timer, [Rest EXCEPT !.pc = "list"])
  /\ UNCHANGED <<published, pinned, originVars, send, destVars, packets, faults, expiries>>

\* pendingFederationReceipts: a copy of the list, of which the due ones are tried,
\* and those that fall due before the loop reaches them.
RetryList(b, r) ==
  /\ RetryAt(b, r, "list")
  /\ \E soon \in SUBSET pending[b] :
       SetRetry(b, r, [Rest EXCEPT !.pc = "run", !.todo = {e \in pending[b] : e.due} \cup soon])
  /\ UNCHANGED <<published, pinned, originVars, send, destVars, packets, faults, expiries>>

\* postFederationReceipt, answered.
RetryPost(b, r, e) ==
  /\ RetryAt(b, r, "run") /\ e \in retry[b][r].todo
  /\ \/ /\ AcceptReceipt(e.msg, b, e.seq)
        /\ SetRetry(b, r, [pc |-> "remove", todo |-> retry[b][r].todo \ {e}, item |-> {e}])
     \/ /\ ~Receivable(e.msg, b, e.seq)
        /\ SetRetry(b, r, [pc |-> "requeue", todo |-> retry[b][r].todo \ {e}, item |-> {e}])
        /\ UNCHANGED originVars
  /\ UNCHANGED <<published, pinned, send, destVars, packets, faults, expiries>>

\* postFederationReceipt without an answer; the receipt may still arrive.
RetryPostLost(b, r, e) ==
  /\ RetryAt(b, r, "run") /\ e \in retry[b][r].todo /\ faults < MaxFaults
  /\ packets' = packets \cup {InFlight("receipt", e.msg, b, e.seq)}
  /\ SetRetry(b, r, [pc |-> "requeue", todo |-> retry[b][r].todo \ {e}, item |-> {e}])
  /\ faults' = faults + 1
  /\ UNCHANGED <<published, pinned, originVars, send, destVars, expiries>>

\* removePendingFederationReceipt, by federation id.
RetryRemove(b, r) ==
  /\ RetryAt(b, r, "remove")
  /\ \E e \in retry[b][r].item : pending' = [pending EXCEPT ![b] = {x \in @ : x.msg # e.msg}]
  /\ SetRetry(b, r, [retry[b][r] EXCEPT !.pc = "run", !.item = {}])
  /\ UNCHANGED <<published, pinned, originVars, send, queue, seenIds, inbound, signed, ackedBy,
                 copies, packets, faults, expiries>>

\* Mutant: a receipt that is refused once is given up.
RetryRequeueGivesUp(b, r) ==
  /\ RetryAt(b, r, "requeue")
  /\ \E e \in retry[b][r].item : pending' = [pending EXCEPT ![b] = {x \in @ : x.msg # e.msg}]
  /\ SetRetry(b, r, [retry[b][r] EXCEPT !.pc = "run", !.item = {}])
  /\ UNCHANGED <<published, pinned, originVars, send, queue, seenIds, inbound, signed, ackedBy,
                 copies, packets, faults, expiries>>

\* queuePendingFederationReceipt: the copy replaces whatever is stored for the
\* federation id by now, or comes back if nothing is.
RetryRequeue(b, r) ==
  /\ RetryAt(b, r, "requeue")
  /\ \E e \in retry[b][r].item : SetPending(b, [e EXCEPT !.due = FALSE])
  /\ SetRetry(b, r, [retry[b][r] EXCEPT !.pc = "run", !.item = {}])
  /\ UNCHANGED <<published, pinned, originVars, send, queue, seenIds, inbound, signed, ackedBy,
                 copies, packets, faults, expiries>>

RetryDone(b, r) ==
  /\ RetryAt(b, r, "run") /\ retry[b][r].todo = {}
  /\ SetRetry(b, r, Rest)
  /\ UNCHANGED <<published, pinned, originVars, send, destVars, packets, faults, expiries>>

\* nextAttemptAt of a pending receipt is reached.
BackoffEnds(b, e) ==
  /\ e \in pending[b] /\ ~e.due
  /\ SetPending(b, [e EXCEPT !.due = TRUE])
  /\ UNCHANGED <<published, pinned, originVars, send, queue, seenIds, inbound, signed, ackedBy,
                 copies, retry, packets, faults, expiries>>
-----------------------------------------------------------------------------
(***************************************************************************)
(* The recipient, the network, crashes and time.                           *)
(***************************************************************************)

\* The recipient signs a route manifest with a higher sequence.
Publish ==
  /\ published < MaxRoute
  /\ published' = published + 1
  /\ UNCHANGED <<pinned, originVars, send, destVars, retry, packets, faults, expiries>>

\* A request whose caller has gone is handled.
PacketArrives(q) ==
  /\ q \in packets
  /\ packets' = packets \ {q}
  /\ \/ /\ q.kind = "forward"
        /\ Ingest(q.dest, q.msg, q.seq) \/ Refuse(q.dest, q.msg, q.seq)
        /\ UNCHANGED originVars
     \/ /\ q.kind = "receipt"
        /\ \/ AcceptReceipt(q.msg, q.dest, q.seq)
           \/ ~Receivable(q.msg, q.dest, q.seq) /\ UNCHANGED originVars
        /\ UNCHANGED <<pinned, destVars>>
  /\ UNCHANGED <<published, send, retry, faults, expiries>>

PacketLost(q) ==
  /\ q \in packets
  /\ packets' = packets \ {q}
  /\ UNCHANGED <<published, pinned, originVars, send, destVars, retry, faults, expiries>>

\* The origin restarts: its handlers are gone, a forward may be on its way.
OriginCrashes ==
  /\ faults < MaxFaults
  /\ \E sent \in SUBSET {s \in Sender : MoreCandidates(s)} :
       packets' = packets \cup
         {InFlight("forward", send[s].msg, Candidate(s), send[s].seq) : s \in sent}
  /\ send' = [s \in Sender |-> Free]
  /\ faults' = faults + 1
  /\ UNCHANGED <<published, pinned, originVars, destVars, retry, expiries>>

\* A destination restarts: its retries are gone.
DestCrashes(b) ==
  /\ faults < MaxFaults
  /\ retry' = [retry EXCEPT ![b] = [r \in Retrier |-> Rest]]
  /\ faults' = faults + 1
  /\ UNCHANGED <<published, pinned, originVars, send, destVars, packets, expiries>>

\* At most 24 hours after its packet was made, the replay entry and the inbound
\* record of a transfer are pruned.  The envelope stays for 30 days.
Expires(b, t) ==
  /\ expiries < MaxExpiries /\ t \in seenIds[b]
  /\ seenIds' = [seenIds EXCEPT ![b] = @ \ {t}]
  /\ inbound' = [inbound EXCEPT ![b] = {i \in @ : i.msg # t}]
  /\ copies' = [copies EXCEPT ![b][t] = 0]
  /\ expiries' = expiries + 1
  /\ UNCHANGED <<published, pinned, originVars, send, queue, signed, pending, ackedBy, retry,
                 packets, faults>>

SendStep(s) ==
  SendCheck(s) \/ SendForward(s) \/ SendGivesUp(s) \/ SendRemember(s)

RetryStep(b, r) ==
  \/ r = Timer /\ TimerFires(b)
  \/ RetryList(b, r) \/ RetryRemove(b, r) \/ RetryRequeue(b, r) \/ RetryDone(b, r)
  \/ \E e \in retry[b][r].todo : RetryPost(b, r, e)

Handling(s) ==
  \/ \E t \in Transfer, seq \in Route : SendStart(s, t, seq)
  \/ SendStep(s) \/ ForwardLost(s)

Retrying(b, r) == RetryStep(b, r) \/ \E e \in retry[b][r].todo : RetryPostLost(b, r, e)

Environment ==
  \/ \E b \in Dest : \/ \E t \in Transfer : Expires(b, t)
                    \/ \E e \in pending[b] : BackoffEnds(b, e)
                    \/ DestCrashes(b)
  \/ \E t \in Message : ReadReceipt(t)
  \/ \E q \in packets : PacketArrives(q) \/ PacketLost(q)
  \/ Publish \/ OriginCrashes

Next ==
  \/ \E s \in Sender : Handling(s)
  \/ \E b \in Dest, r \in Retrier : Retrying(b, r)
  \/ \E b \in Dest, t \in Message : Ack(b, t)
  \/ Environment

Spec == Init /\ [][Next]_vars

\* The relays keep running, timers fire, the sender's device reads its receipts.
\* Nobody need send or acknowledge.
FairSpec ==
  /\ Spec
  /\ \A s \in Sender : WF_vars(SendStep(s))
  /\ \A b \in Dest : \A r \in Retrier : WF_vars(RetryStep(b, r))
  /\ \A b \in Dest : \A e \in Entry : WF_vars(BackoffEnds(b, e))
  /\ \A t \in Message : WF_vars(ReadReceipt(t))
-----------------------------------------------------------------------------
(***************************************************************************)
(* Properties.                                                             *)
(***************************************************************************)

\* The sender is told of a delivery only if the recipient acknowledged that
\* transfer at some destination (docs/quantic-relay-v1.md: a federated receipt is
\* made only after the recipient's acknowledgement), through any crashes, late
\* packets, stale retries and changes of route.
ReceiptMeansAcked ==
  /\ box \subseteq ackedBy \cup Earlier /\ confirmed \subseteq ackedBy
  /\ \A t \in Transfer : outbound[t] # Free /\ outbound[t].result = "delivered" => t \in ackedBy

\* While a destination remembers a transfer it makes one envelope of it, however
\* often it is forwarded and whether or not it has been acknowledged meanwhile.
OneEnvelopePerTransfer == \A b \in Dest : \A t \in Transfer : copies[b][t] <= 1

\* "destination ACK creates exactly one federation receipt" (docs/superpowers/specs/
\* 2026-09-16-quantic-network-federation-discovery-pqc-design.md): every acknowledged
\* transfer has had a receipt signed.
AckSignsReceipt == ackedBy \cap Transfer \subseteq signed

\* A receipt that fits what the origin remembers is not forgotten before the
\* origin has it, in spite of refusals (before the transfer is remembered, or with
\* a full mailbox), lost answers and restarts.
ReceiptArrives ==
  \A b \in Dest : \A t \in Transfer : \A seq \in Route :
    (\E e \in pending[b] : e.msg = t /\ e.seq = seq) /\ Matches(t, b, seq)
      ~> t \in confirmed \/ ~Matches(t, b, seq)

\* Retrying comes to an end: from some time on nothing is pending that the origin
\* would accept, although concurrent retries may put back what another removed.
PendingSettles == <>[](\A b \in Dest : \A e \in pending[b] : ~Matches(e.msg, b, e.seq))
=============================================================================
