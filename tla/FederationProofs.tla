-------------------------- MODULE FederationProofs --------------------------
(***************************************************************************)
(* Type correctness of module Federation and two of its safety properties, *)
(* for any relays, transfers, handlers, caps, routes and number of faults. *)
(*                                                                         *)
(* ReceiptMeansAcked is not inductive: a receipt is on its way for a long  *)
(* time.  ReceiptsAcked follows it through the pending list, the copies a  *)
(* retry works on and the packets nobody waits for.  For                   *)
(* OneEnvelopePerTransfer, no envelope was made of a transfer that is not  *)
(* in the replay memory.                                                   *)
(***************************************************************************)
EXTENDS Federation, TLAPS

\* Every receipt on its way to the origin is of an acknowledged transfer.
ReceiptsAcked ==
  /\ \A b \in Dest : \A e \in pending[b] : e.msg \in ackedBy
  /\ \A b \in Dest : \A r \in Retrier : \A e \in retry[b][r].todo \cup retry[b][r].item :
       e.msg \in ackedBy
  /\ \A q \in packets : q.kind = "receipt" => q.msg \in ackedBy

ReceiptInv == ReceiptMeansAcked /\ ReceiptsAcked

ReplayInv ==
  \A b \in Dest : \A t \in Transfer :
    copies[b][t] <= 1 /\ (t \notin seenIds[b] => copies[b][t] = 0)

DestTypes ==
  /\ pinned \in [{Origin} \cup Dest -> 0..MaxRoute]
  /\ queue \in [Dest -> SUBSET Message] /\ seenIds \in [Dest -> SUBSET Transfer]
  /\ inbound \in [Dest -> SUBSET [msg : Transfer, seq : Route]]
  /\ pending \in [Dest -> SUBSET Entry]
  /\ ackedBy \subseteq Message /\ signed \subseteq Transfer
  /\ copies \in [Dest -> [Transfer -> Nat]]

OriginTypes ==
  /\ outbound \in [Transfer -> Record \cup {Free}]
  /\ box \subseteq Message /\ confirmed \subseteq Transfer

OtherTypes ==
  /\ published \in Route
  /\ send \in [Sender -> Handler]
  /\ retry \in [Dest -> [Retrier -> Progress]]
  /\ packets \subseteq Packet
  /\ faults \in 0..MaxFaults /\ expiries \in 0..MaxExpiries

LEMMA TypeParts == TypeOK <=> DestTypes /\ OriginTypes /\ OtherTypes
  BY DEF TypeOK, DestTypes, OriginTypes, OtherTypes

\* A handler that is not idle carries what its stage needs.
LEMMA HandlerStages ==
  ASSUME NEW h \in Handler
  PROVE  /\ h.pc = "check" => h.msg \in Transfer /\ h.seq \in Route
         /\ h.pc = "forward" => h.msg \in Transfer /\ h.seq \in Route /\ h.next \in Nat \ {0}
         /\ h.pc = "remember" => h.msg \in Transfer /\ h.seq \in Route /\ h.dest \in Dest
  BY DEF Handler, Free

\* The relay a handler tries is one of the destinations.
LEMMA CandidateIsDest ==
  ASSUME TypeOK, NEW s \in Sender, MoreCandidates(s)
  PROVE  /\ Candidate(s) \in Dest
         /\ send[s].msg \in Transfer /\ send[s].seq \in Route /\ send[s].next \in Nat \ {0}
<1>1. send[s] \in Handler
  BY DEF TypeOK
<1>2. /\ send[s].msg \in Transfer /\ send[s].seq \in Route /\ send[s].next \in Nat \ {0}
      /\ send[s].next <= Len(Candidates)
  BY <1>1, HandlerStages DEF MoreCandidates, SendAt
<1>. QED
  BY <1>2, FederationAssumption DEF Candidate

-----------------------------------------------------------------------------
(* Types. *)

\* A member added to one of the sets of a family.
LEMMA AddTypes ==
  ASSUME NEW D, NEW S, NEW f \in [D -> SUBSET S], NEW d, NEW x \in S
  PROVE  [f EXCEPT ![d] = @ \cup {x}] \in [D -> SUBSET S]
  OBVIOUS

LEMMA PinTypes ==
  ASSUME TypeOK, NEW x, NEW seq \in Route, Pin(x, seq)
  PROVE  pinned' \in [{Origin} \cup Dest -> 0..MaxRoute]
<1>1. seq \in 0..MaxRoute
  BY FederationAssumption DEF Route
<1>2. pinned \in [{Origin} \cup Dest -> 0..MaxRoute] /\ pinned' = [pinned EXCEPT ![x] = seq]
  BY DEF TypeOK, Pin
<1>. QED
  BY <1>1, <1>2

LEMMA SetPendingTypes ==
  ASSUME TypeOK, NEW b \in Dest, NEW e \in Entry, SetPending(b, e)
  PROVE  pending' \in [Dest -> SUBSET Entry]
  BY DEF TypeOK, SetPending

LEMMA IngestTypes ==
  ASSUME TypeOK, NEW b \in Dest, NEW t \in Transfer, NEW seq \in Route, Ingest(b, t, seq)
  PROVE  DestTypes'
<1>1. pinned' \in [{Origin} \cup Dest -> 0..MaxRoute]
  BY PinTypes DEF Ingest
<1>2. queue' \in [Dest -> SUBSET Message]
  <2>1. queue' = queue \/ queue' = [queue EXCEPT ![b] = @ \cup {t}]
    BY DEF Ingest
  <2>2. queue \in [Dest -> SUBSET Message] /\ t \in Message
    BY DEF TypeOK, Message
  <2>. QED
    BY <2>1, <2>2, AddTypes
<1>3. seenIds' \in [Dest -> SUBSET Transfer]
  <2>1. seenIds' = seenIds \/ seenIds' = [seenIds EXCEPT ![b] = @ \cup {t}]
    BY DEF Ingest
  <2>2. seenIds \in [Dest -> SUBSET Transfer]
    BY DEF TypeOK
  <2>. QED
    BY <2>1, <2>2, AddTypes
<1>5. inbound' \in [Dest -> SUBSET [msg : Transfer, seq : Route]]
  <2>. DEFINE new == [msg |-> t, seq |-> seq]
              Inbound == [msg : Transfer, seq : Route]
  <2>1. inbound' = inbound \/ inbound' = [inbound EXCEPT ![b] = @ \cup {new}]
    BY DEF Ingest
  <2>2. inbound \in [Dest -> SUBSET Inbound] /\ new \in Inbound
    BY DEF TypeOK
  <2>. HIDE DEF new, Inbound
  <2>3. inbound' \in [Dest -> SUBSET Inbound]
    BY <2>1, <2>2, AddTypes
  <2>. QED
    BY <2>3 DEF Inbound
<1>6. copies' \in [Dest -> [Transfer -> Nat]]
  <2>1. copies' = copies \/ copies' = [copies EXCEPT ![b][t] = @ + 1]
    BY DEF Ingest
  <2>2. copies \in [Dest -> [Transfer -> Nat]]
    BY DEF TypeOK
  <2>. QED
    BY <2>1, <2>2
<1>4. pending' \in [Dest -> SUBSET Entry] /\ ackedBy' \subseteq Message /\ signed' \subseteq Transfer
  BY DEF Ingest, TypeOK
<1>. QED
  BY <1>1, <1>2, <1>3, <1>4, <1>5, <1>6 DEF DestTypes

LEMMA RefuseTypes ==
  ASSUME TypeOK, NEW b \in Dest, NEW t \in Transfer, NEW seq \in Route, Refuse(b, t, seq)
  PROVE  DestTypes'
<1>1. pinned' \in [{Origin} \cup Dest -> 0..MaxRoute]
  BY PinTypes DEF Refuse, TypeOK
<1>. QED
  BY <1>1 DEF Refuse, destVars, DestTypes, TypeOK

LEMMA AcceptReceiptTypes ==
  ASSUME TypeOK, NEW t \in Transfer, NEW b \in Dest, NEW seq \in Route, AcceptReceipt(t, b, seq)
  PROVE  OriginTypes'
<1>1. outbound[t] \in Record
  BY DEF AcceptReceipt, Receivable, Matches, TypeOK
<1>2. [outbound[t] EXCEPT !.result = "delivered"] \in Record
  BY <1>1 DEF Record
<1>. QED
  BY <1>2 DEF AcceptReceipt, OriginTypes, TypeOK, Message

LEMMA SetRetryTypes ==
  ASSUME TypeOK, NEW b \in Dest, NEW r \in Retrier, NEW v \in Progress, SetRetry(b, r, v)
  PROVE  retry' \in [Dest -> [Retrier -> Progress]]
  BY DEF TypeOK, SetRetry

LEMMA SetSendTypes ==
  ASSUME TypeOK, NEW s \in Sender, NEW h \in Handler, SetSend(s, h)
  PROVE  send' \in [Sender -> Handler]
  BY DEF TypeOK, SetSend
LEMMA RetryTypes ==
  ASSUME TypeOK, NEW b \in Dest, NEW r \in Retrier
  PROVE  /\ retry[b][r] \in Progress /\ Rest \in Progress
         /\ [Rest EXCEPT !.pc = "list"] \in Progress
         /\ \A e \in retry[b][r].todo \cup retry[b][r].item :
              e \in Entry /\ e.msg \in Transfer /\ e.seq \in Route
         /\ [retry[b][r] EXCEPT !.pc = "run", !.item = {}] \in Progress
<1>1. retry[b][r] \in Progress
  BY DEF TypeOK
<1>2. Rest \in Progress /\ [Rest EXCEPT !.pc = "list"] \in Progress
  BY DEF Progress, Rest
<1>3. [retry[b][r] EXCEPT !.pc = "run", !.item = {}] \in Progress
  BY <1>1 DEF Progress
<1>4. retry[b][r].todo \subseteq Entry /\ retry[b][r].item \subseteq Entry
  BY <1>1 DEF Progress
<1>5. \A e \in Entry : e.msg \in Transfer /\ e.seq \in Route
  BY DEF Entry
<1>. QED
  BY <1>1, <1>2, <1>3, <1>4, <1>5

LEMMA InitTypes == Init => TypeOK
<1>. SUFFICES ASSUME Init PROVE TypeOK
  OBVIOUS
<1>1. DestTypes
  <2>1. pinned \in [{Origin} \cup Dest -> 0..MaxRoute]
    <3>1. 0 \in 0..MaxRoute
      BY FederationAssumption
    <3>. QED
      BY <3>1 DEF Init
  <2>2. copies \in [Dest -> [Transfer -> Nat]]
    BY DEF Init
  <2>3. queue \in [Dest -> SUBSET Message]
    <3>1. queue \in [Dest -> SUBSET Earlier]
      BY DEF Init
    <3>. QED
      BY <3>1 DEF Message
  <2>. QED
    BY <2>1, <2>2, <2>3 DEF Init, DestTypes
<1>2. OriginTypes
  BY DEF Init, OriginTypes, Message
<1>3. send \in [Sender -> Handler] /\ packets \subseteq Packet
  BY DEF Init, Handler
<1>4. retry \in [Dest -> [Retrier -> Progress]]
  BY DEF Init, Progress, Rest
<1>5. published \in Route /\ faults \in 0..MaxFaults /\ expiries \in 0..MaxExpiries
  BY FederationAssumption DEF Init, Route
<1>. QED
  BY <1>1, <1>2, <1>3, <1>4, <1>5, TypeParts DEF OtherTypes

\* The steps of a send handler.
LEMMA SendTypes ==
  ASSUME TypeOK, NEW s \in Sender, Handling(s)
  PROVE  TypeOK'
<1>0. send[s] \in Handler /\ Free \in Handler
  BY DEF TypeOK, Handler
<1>1. ASSUME NEW t \in Transfer, NEW seq \in Route, SendStart(s, t, seq)  PROVE TypeOK'
  <2>1. pinned' \in [{Origin} \cup Dest -> 0..MaxRoute]
    BY <1>1, PinTypes DEF SendStart
  <2>2. [pc |-> "check", msg |-> t, seq |-> seq] \in Handler
    BY DEF Handler
  <2>3. send' \in [Sender -> Handler]
    BY <1>1, <2>2, SetSendTypes DEF SendStart
  <2>. QED
    BY <1>1, <2>1, <2>3 DEF SendStart, TypeOK, originVars, destVars
<1>2. ASSUME SendCheck(s)  PROVE TypeOK'
  <2>1. send[s].msg \in Transfer /\ send[s].seq \in Route
    BY <1>0, <1>2, HandlerStages DEF SendCheck, SendAt
  <2>2. [pc |-> "forward", msg |-> send[s].msg, seq |-> send[s].seq, next |-> 1] \in Handler
    BY <2>1 DEF Handler
  <2>3. send' \in [Sender -> Handler]
    BY <1>0, <1>2, <2>2, SetSendTypes DEF SendCheck
  <2>. QED
    BY <1>2, <2>3 DEF SendCheck, TypeOK, originVars, destVars
<1>3. ASSUME MoreCandidates(s)
      PROVE  [send[s] EXCEPT !.next = @ + 1] \in Handler
  <2>1. send[s] \in [pc : {"forward"}, msg : Transfer, seq : Route, next : Nat \ {0}]
    BY <1>0, <1>3 DEF Handler, Free, MoreCandidates, SendAt
  <2>2. [send[s] EXCEPT !.next = @ + 1]
          \in [pc : {"forward"}, msg : Transfer, seq : Route, next : Nat \ {0}]
    BY <2>1
  <2>. QED
    BY <2>2 DEF Handler
<1>4. ASSUME SendForward(s)  PROVE TypeOK'
  <2>1. MoreCandidates(s) /\ Candidate(s) \in Dest
        /\ send[s].msg \in Transfer /\ send[s].seq \in Route
    BY <1>4, CandidateIsDest DEF SendForward
  <2>2. DestTypes'
    BY <1>4, <2>1, IngestTypes, RefuseTypes DEF SendForward
  <2>3. [pc |-> "remember", msg |-> send[s].msg, seq |-> send[s].seq, dest |-> Candidate(s)]
          \in Handler
    BY <2>1 DEF Handler
  <2>4. send' \in [Sender -> Handler]
    BY <1>3, <1>4, <2>1, <2>3, SetSendTypes DEF SendForward, NextCandidate
  <2>5. OriginTypes' /\ OtherTypes'
    BY <1>4, <2>4 DEF SendForward, TypeOK, OriginTypes, OtherTypes, originVars
  <2>. QED
    BY <2>2, <2>5 DEF TypeOK, DestTypes, OriginTypes, OtherTypes
<1>5. ASSUME ForwardLost(s)  PROVE TypeOK'
  <2>1. MoreCandidates(s) /\ Candidate(s) \in Dest
        /\ send[s].msg \in Transfer /\ send[s].seq \in Route
    BY <1>5, CandidateIsDest DEF ForwardLost
  <2>2. InFlight("forward", send[s].msg, Candidate(s), send[s].seq) \in Packet
    BY <2>1 DEF InFlight, Packet
  <2>3. send' \in [Sender -> Handler]
    BY <1>3, <1>5, <2>1, SetSendTypes DEF ForwardLost, NextCandidate
  <2>4. packets' \subseteq Packet /\ faults' \in 0..MaxFaults
    BY <1>5, <2>2, FederationAssumption DEF ForwardLost, TypeOK
  <2>. QED
    BY <1>5, <2>3, <2>4 DEF ForwardLost, TypeOK, originVars, destVars
<1>6. ASSUME SendGivesUp(s)  PROVE TypeOK'
  <2>1. send' \in [Sender -> Handler]
    BY <1>0, <1>6, SetSendTypes DEF SendGivesUp
  <2>. QED
    BY <1>6, <2>1 DEF SendGivesUp, TypeOK, originVars, destVars
<1>7. ASSUME SendRemember(s)  PROVE TypeOK'
  <2>1. send[s].msg \in Transfer /\ send[s].seq \in Route /\ send[s].dest \in Dest
    BY <1>0, <1>7, HandlerStages DEF SendRemember, SendAt
  <2>2. [dest |-> send[s].dest, seq |-> send[s].seq, result |-> "accepted"] \in Record
    BY <2>1 DEF Record
  <2>3. send' \in [Sender -> Handler]
    BY <1>0, <1>7, SetSendTypes DEF SendRemember
  <2>4. outbound' \in [Transfer -> Record \cup {Free}]
    BY <1>7, <2>2 DEF SendRemember, TypeOK
  <2>. QED
    BY <1>7, <2>3, <2>4 DEF SendRemember, TypeOK, destVars
<1>. QED
  BY <1>1, <1>2, <1>4, <1>5, <1>6, <1>7 DEF Handling, SendStep
\* The steps of a retrier.
LEMMA RetrierTypes ==
  ASSUME TypeOK, NEW b \in Dest, NEW r \in Retrier, Retrying(b, r)
  PROVE  TypeOK'
<1>0. /\ pending \in [Dest -> SUBSET Entry]
      /\ \A e \in Entry : [e EXCEPT !.due = FALSE] \in Entry
  BY DEF TypeOK, Entry
<1>1. ASSUME TimerFires(b), r = Timer  PROVE TypeOK'
  <2>1. retry' \in [Dest -> [Retrier -> Progress]]
    BY <1>1, RetryTypes, SetRetryTypes DEF TimerFires
  <2>. QED
    BY <1>1, <2>1 DEF TimerFires, TypeOK, originVars, destVars
<1>2. ASSUME RetryList(b, r)  PROVE TypeOK'
  <2>1. PICK soon \in SUBSET pending[b] :
          SetRetry(b, r, [Rest EXCEPT !.pc = "run", !.todo = {e \in pending[b] : e.due} \cup soon])
    BY <1>2 DEF RetryList
  <2>2. [Rest EXCEPT !.pc = "run", !.todo = {e \in pending[b] : e.due} \cup soon] \in Progress
    BY <1>0 DEF Rest, Progress
  <2>3. retry' \in [Dest -> [Retrier -> Progress]]
    BY <2>1, <2>2, SetRetryTypes
  <2>. QED
    BY <1>2, <2>3 DEF RetryList, TypeOK, originVars, destVars
<1>3. ASSUME NEW pc \in {"remove", "requeue"}, NEW e \in retry[b][r].todo
      PROVE  [pc |-> pc, todo |-> retry[b][r].todo \ {e}, item |-> {e}] \in Progress
  BY RetryTypes DEF Progress
<1>4. ASSUME NEW e \in retry[b][r].todo, RetryPost(b, r, e)  PROVE TypeOK'
  <2>1. e.msg \in Transfer /\ e.seq \in Route
    BY RetryTypes
  <2>2. OriginTypes'
    BY <1>4, <2>1, AcceptReceiptTypes DEF RetryPost, originVars, OriginTypes, TypeOK
  <2>3. retry' \in [Dest -> [Retrier -> Progress]]
    BY <1>3, <1>4, SetRetryTypes DEF RetryPost
  <2>4. DestTypes' /\ OtherTypes'
    BY <1>4, <2>3 DEF RetryPost, destVars, DestTypes, OtherTypes, TypeOK
  <2>. QED
    BY <2>2, <2>4 DEF TypeOK, DestTypes, OriginTypes, OtherTypes
<1>5. ASSUME NEW e \in retry[b][r].todo, RetryPostLost(b, r, e)  PROVE TypeOK'
  <2>1. e.msg \in Transfer /\ e.seq \in Route
    BY RetryTypes
  <2>2. InFlight("receipt", e.msg, b, e.seq) \in Packet
    BY <2>1 DEF InFlight, Packet
  <2>3. retry' \in [Dest -> [Retrier -> Progress]]
    BY <1>3, <1>5, SetRetryTypes DEF RetryPostLost
  <2>4. packets' \subseteq Packet /\ faults' \in 0..MaxFaults
    BY <1>5, <2>2, FederationAssumption DEF RetryPostLost, TypeOK
  <2>. QED
    BY <1>5, <2>3, <2>4 DEF RetryPostLost, TypeOK, originVars, destVars
<1>6. ASSUME RetryRemove(b, r)  PROVE TypeOK'
  <2>1. pending' \in [Dest -> SUBSET Entry]
    BY <1>0, <1>6 DEF RetryRemove
  <2>2. retry' \in [Dest -> [Retrier -> Progress]]
    BY <1>6, RetryTypes, SetRetryTypes DEF RetryRemove
  <2>. QED
    BY <1>6, <2>1, <2>2 DEF RetryRemove, TypeOK, originVars
<1>7. ASSUME RetryRequeue(b, r)  PROVE TypeOK'
  <2>1. PICK e \in retry[b][r].item : SetPending(b, [e EXCEPT !.due = FALSE])
    BY <1>7 DEF RetryRequeue
  <2>2. [e EXCEPT !.due = FALSE] \in Entry
    BY <1>0, RetryTypes
  <2>3. pending' \in [Dest -> SUBSET Entry]
    BY <2>1, <2>2, SetPendingTypes
  <2>4. retry' \in [Dest -> [Retrier -> Progress]]
    BY <1>7, RetryTypes, SetRetryTypes DEF RetryRequeue
  <2>. QED
    BY <1>7, <2>3, <2>4 DEF RetryRequeue, TypeOK, originVars
<1>8. ASSUME RetryDone(b, r)  PROVE TypeOK'
  <2>1. retry' \in [Dest -> [Retrier -> Progress]]
    BY <1>8, RetryTypes, SetRetryTypes DEF RetryDone
  <2>. QED
    BY <1>8, <2>1 DEF RetryDone, TypeOK, originVars, destVars
<1>. QED
  BY <1>1, <1>2, <1>4, <1>5, <1>6, <1>7, <1>8 DEF Retrying, RetryStep

LEMMA AckTypes ==
  ASSUME TypeOK, NEW b \in Dest, NEW t \in Message, Ack(b, t)
  PROVE  TypeOK'
<1>. DEFINE mine == {i \in inbound[b] : i.msg = t}
<1>1. /\ queue' \in [Dest -> SUBSET Message] /\ ackedBy' \subseteq Message
  BY DEF Ack, TypeOK
<1>2. CASE mine = {} /\ UNCHANGED <<pending, inbound, signed, retry>>
  BY <1>1, <1>2 DEF Ack, TypeOK, originVars
<1>3. ASSUME NEW i \in mine,
             SetPending(b, [msg |-> t, seq |-> i.seq, due |-> TRUE]),
             inbound' = [inbound EXCEPT ![b] = @ \ mine],
             signed' = signed \cup {t},
             UNCHANGED retry \/ \E f \in IdleFlushers(b) : SetRetry(b, f, [Rest EXCEPT !.pc = "list"])
      PROVE  TypeOK'
  <2>1. i.seq \in Route /\ t \in Transfer
    BY DEF TypeOK
  <2>2. pending' \in [Dest -> SUBSET Entry]
    BY <1>3, <2>1, SetPendingTypes DEF Entry
  <2>3. inbound' \in [Dest -> SUBSET [msg : Transfer, seq : Route]]
    <3>. HIDE DEF mine
    <3>. QED
      BY <1>3 DEF TypeOK
  <2>4. retry' \in [Dest -> [Retrier -> Progress]]
    <3>1. retry \in [Dest -> [Retrier -> Progress]]
      BY DEF TypeOK
    <3>2. ASSUME NEW f \in IdleFlushers(b), SetRetry(b, f, [Rest EXCEPT !.pc = "list"])
          PROVE  retry' \in [Dest -> [Retrier -> Progress]]
      BY <3>2, RetryTypes, SetRetryTypes DEF IdleFlushers, Retrier
    <3>. QED
      BY <1>3, <3>1, <3>2
  <2>5. signed' \subseteq Transfer
    BY <1>3, <2>1 DEF TypeOK
  <2>. QED
    BY <1>1, <2>2, <2>3, <2>4, <2>5 DEF Ack, TypeOK, originVars
<1>. QED
  BY <1>2, <1>3 DEF Ack
\* Reading, packets, crashes, expiry.
LEMMA EnvironmentTypes ==
  ASSUME TypeOK, Environment
  PROVE  TypeOK'
<1>1. ASSUME NEW b \in Dest, NEW t \in Transfer, Expires(b, t)  PROVE TypeOK'
  <2>1. seenIds' \in [Dest -> SUBSET Transfer]
        /\ inbound' \in [Dest -> SUBSET [msg : Transfer, seq : Route]]
    BY <1>1 DEF Expires, TypeOK
  <2>2. copies' \in [Dest -> [Transfer -> Nat]]
    BY <1>1 DEF Expires, TypeOK
  <2>3. expiries' \in 0..MaxExpiries
    BY <1>1, FederationAssumption DEF Expires, TypeOK
  <2>. QED
    BY <1>1, <2>1, <2>2, <2>3 DEF Expires, TypeOK, originVars
<1>2. ASSUME NEW b \in Dest, NEW e \in pending[b], BackoffEnds(b, e)  PROVE TypeOK'
  <2>0. e \in Entry
    BY DEF TypeOK
  <2>1. [e EXCEPT !.due = TRUE] \in Entry
    BY <2>0 DEF Entry
  <2>2. pending' \in [Dest -> SUBSET Entry]
    BY <1>2, <2>1, SetPendingTypes DEF BackoffEnds
  <2>. QED
    BY <1>2, <2>2 DEF BackoffEnds, TypeOK, originVars
<1>3. ASSUME NEW b \in Dest, DestCrashes(b)  PROVE TypeOK'
  <2>1. retry' \in [Dest -> [Retrier -> Progress]]
    BY <1>3 DEF DestCrashes, TypeOK, Progress, Rest
  <2>2. faults' \in 0..MaxFaults
    BY <1>3, FederationAssumption DEF DestCrashes, TypeOK
  <2>. QED
    BY <1>3, <2>1, <2>2 DEF DestCrashes, TypeOK, originVars, destVars
<1>4. ASSUME NEW t \in Message, ReadReceipt(t)  PROVE TypeOK'
  BY <1>4 DEF ReadReceipt, TypeOK, destVars
<1>5. ASSUME NEW q \in packets, PacketArrives(q)  PROVE TypeOK'
  <2>1. q.msg \in Transfer /\ q.dest \in Dest /\ q.seq \in Route
    BY DEF TypeOK, Packet
  <2>2. CASE /\ Ingest(q.dest, q.msg, q.seq) \/ Refuse(q.dest, q.msg, q.seq)
             /\ UNCHANGED originVars
    <3>1. DestTypes'
      BY <2>1, <2>2, IngestTypes, RefuseTypes
    <3>2. OriginTypes' /\ OtherTypes'
      BY <1>5, <2>2 DEF PacketArrives, originVars, OriginTypes, OtherTypes, TypeOK
    <3>. QED
      BY <3>1, <3>2 DEF TypeOK, DestTypes, OriginTypes, OtherTypes
  <2>3. CASE /\ AcceptReceipt(q.msg, q.dest, q.seq) \/ UNCHANGED originVars
             /\ UNCHANGED <<pinned, destVars>>
    <3>1. OriginTypes'
      BY <2>1, <2>3, AcceptReceiptTypes DEF originVars, OriginTypes, TypeOK
    <3>2. DestTypes' /\ OtherTypes'
      BY <1>5, <2>3 DEF PacketArrives, destVars, DestTypes, OtherTypes, TypeOK
    <3>. QED
      BY <3>1, <3>2 DEF TypeOK, DestTypes, OriginTypes, OtherTypes
  <2>. QED
    BY <1>5, <2>2, <2>3 DEF PacketArrives
<1>6. ASSUME NEW q \in packets, PacketLost(q)  PROVE TypeOK'
  BY <1>6 DEF PacketLost, TypeOK, originVars, destVars
<1>7. ASSUME Publish  PROVE TypeOK'
  BY <1>7, FederationAssumption DEF Publish, TypeOK, Route, originVars, destVars
<1>8. ASSUME OriginCrashes  PROVE TypeOK'
  <2>1. PICK sent \in SUBSET {s \in Sender : MoreCandidates(s)} :
          packets' = packets \cup
            {InFlight("forward", send[s].msg, Candidate(s), send[s].seq) : s \in sent}
    BY <1>8 DEF OriginCrashes
  <2>2. ASSUME NEW s \in sent
        PROVE  InFlight("forward", send[s].msg, Candidate(s), send[s].seq) \in Packet
    BY CandidateIsDest DEF InFlight, Packet
  <2>3. packets' \subseteq Packet
    BY <2>1, <2>2 DEF TypeOK
  <2>4. send' \in [Sender -> Handler] /\ faults' \in 0..MaxFaults
    BY <1>8, FederationAssumption DEF OriginCrashes, TypeOK, Handler
  <2>. QED
    BY <1>8, <2>3, <2>4 DEF OriginCrashes, TypeOK, originVars, destVars
<1>. QED
  BY <1>1, <1>2, <1>3, <1>4, <1>5, <1>6, <1>7, <1>8 DEF Environment

LEMMA NextTypes == TypeOK /\ [Next]_vars => TypeOK'
<1>1. ASSUME TypeOK, UNCHANGED vars  PROVE TypeOK'
  BY <1>1 DEF vars, originVars, destVars, TypeOK
<1>. QED
  BY <1>1, SendTypes, RetrierTypes, AckTypes, EnvironmentTypes, Zenon DEF Next

\* Every variable of the federation keeps its type: among others a handler only
\* ever tries relays of the route, and a full or stale retry never leaves anything
\* but receipts of known transfers in the pending list.
THEOREM FederationTypes == Spec => []TypeOK
<1>. QED
  BY InitTypes, NextTypes, PTL DEF Spec
-----------------------------------------------------------------------------
(* Receipts. *)

LEMMA InitReceipts == Init => ReceiptInv
  BY DEF Init, ReceiptInv, ReceiptMeansAcked, ReceiptsAcked, Rest

\* The origin accepts a receipt of an acknowledged transfer.
LEMMA AcceptKeepsReceipts ==
  ASSUME TypeOK, ReceiptMeansAcked, NEW t \in Transfer, t \in ackedBy, NEW b \in Dest, NEW seq \in Route,
         AcceptReceipt(t, b, seq), UNCHANGED ackedBy
  PROVE  ReceiptMeansAcked'
<1>1. box' \subseteq ackedBy' \cup Earlier /\ confirmed' \subseteq ackedBy'
  BY DEF AcceptReceipt, ReceiptMeansAcked
<1>2. ASSUME NEW u \in Transfer, outbound'[u] # Free, outbound'[u].result = "delivered"
      PROVE  u \in ackedBy'
  <2>1. CASE u = t
    BY <2>1
  <2>2. CASE u # t
    BY <1>2, <2>2 DEF AcceptReceipt, ReceiptMeansAcked, TypeOK
  <2>. QED
    BY <2>1, <2>2
<1>. QED
  BY <1>1, <1>2 DEF ReceiptMeansAcked

\* A step that leaves the receipts alone, except that packets without one may come
\* and any packet may go.
LEMMA KeepsReceipts ==
  ASSUME ReceiptInv, UNCHANGED <<pending, retry, ackedBy, originVars>>,
         \A q \in packets' : q \in packets \/ q.kind # "receipt"
  PROVE  ReceiptInv'
  BY DEF ReceiptInv, ReceiptMeansAcked, ReceiptsAcked, originVars

LEMMA HandlingReceipts ==
  ASSUME TypeOK, ReceiptInv, NEW s \in Sender, Handling(s)
  PROVE  ReceiptInv'
<1>1. ASSUME SendForward(s)  PROVE ReceiptInv'
  <2>1. UNCHANGED <<pending, ackedBy>>
    BY <1>1 DEF SendForward, Ingest, Refuse, destVars
  <2>. QED
    BY <1>1, <2>1, KeepsReceipts DEF SendForward, originVars
<1>2. ASSUME ForwardLost(s)  PROVE ReceiptInv'
  <2>1. \A q \in packets' : q \in packets \/ q.kind # "receipt"
    BY <1>2 DEF ForwardLost, InFlight
  <2>. QED
    BY <1>2, <2>1, KeepsReceipts DEF ForwardLost, destVars
<1>3. ASSUME SendRemember(s)  PROVE ReceiptInv'
  <2>1. UNCHANGED <<pending, retry, packets, ackedBy, box, confirmed>>
    BY <1>3 DEF SendRemember, destVars
  <2>2. ASSUME NEW t \in Transfer, outbound'[t] # Free, outbound'[t].result = "delivered"
        PROVE  outbound[t] # Free /\ outbound[t].result = "delivered"
    BY <1>3, <2>2 DEF SendRemember, TypeOK
  <2>. QED
    BY <2>1, <2>2 DEF ReceiptInv, ReceiptMeansAcked, ReceiptsAcked
<1>4. ASSUME NEW t \in Transfer, NEW seq \in Route, SendStart(s, t, seq)  PROVE ReceiptInv'
  BY <1>4, KeepsReceipts DEF SendStart, destVars
<1>5. ASSUME SendCheck(s) \/ SendGivesUp(s)  PROVE ReceiptInv'
  BY <1>5, KeepsReceipts DEF SendCheck, SendGivesUp, destVars
<1>. QED
  BY <1>1, <1>2, <1>3, <1>4, <1>5 DEF Handling, SendStep

\* A retrier takes receipts from the pending list and puts them back or hands them
\* to the origin.
LEMMA SetRetryReceipts ==
  ASSUME TypeOK, ReceiptsAcked, NEW b \in Dest, NEW r \in Retrier, NEW v \in Progress,
         \A e \in v.todo \cup v.item : e.msg \in ackedBy,
         SetRetry(b, r, v)
  PROVE  \A c \in Dest : \A p \in Retrier : \A e \in retry'[c][p].todo \cup retry'[c][p].item :
           e.msg \in ackedBy
<1>1. ASSUME NEW c \in Dest, NEW p \in Retrier
      PROVE  retry'[c][p] = retry[c][p] \/ retry'[c][p] = v
  BY DEF SetRetry, TypeOK
<1>. QED
  BY <1>1 DEF ReceiptsAcked

LEMMA RetryingReceipts ==
  ASSUME TypeOK, ReceiptInv, NEW b \in Dest, NEW r \in Retrier, Retrying(b, r)
  PROVE  ReceiptInv'
<1>0. /\ \A e \in retry[b][r].todo \cup retry[b][r].item : e.msg \in ackedBy
      /\ \A e \in pending[b] : e.msg \in ackedBy
      /\ ReceiptsAcked /\ ReceiptMeansAcked
  BY DEF ReceiptInv, ReceiptsAcked
<1>1. ASSUME NEW v \in Progress, SetRetry(b, r, v), UNCHANGED <<pending, ackedBy>>,
             \A e \in v.todo \cup v.item : e.msg \in ackedBy,
             \A q \in packets' : q \in packets \/ q.msg \in ackedBy
      PROVE  ReceiptsAcked'
  <2>1. \A c \in Dest : \A p \in Retrier : \A e \in retry'[c][p].todo \cup retry'[c][p].item :
          e.msg \in ackedBy
    BY <1>0, <1>1, SetRetryReceipts
  <2>. QED
    BY <1>0, <1>1, <2>1 DEF ReceiptsAcked
<1>2. ASSUME TimerFires(b), r = Timer  PROVE ReceiptInv'
  <2>1. [Rest EXCEPT !.pc = "list"] \in Progress
        /\ \A e \in [Rest EXCEPT !.pc = "list"].todo \cup [Rest EXCEPT !.pc = "list"].item : FALSE
    BY RetryTypes DEF Rest
  <2>2. ReceiptsAcked'
    BY <1>1, <1>2, <2>1 DEF TimerFires, destVars
  <2>. QED
    BY <1>0, <1>2, <2>2 DEF TimerFires, ReceiptInv, ReceiptMeansAcked, originVars, destVars
<1>3. ASSUME RetryList(b, r)  PROVE ReceiptInv'
  <2>1. PICK soon \in SUBSET pending[b] :
          SetRetry(b, r, [Rest EXCEPT !.pc = "run", !.todo = {e \in pending[b] : e.due} \cup soon])
    BY <1>3 DEF RetryList
  <2>. DEFINE v == [Rest EXCEPT !.pc = "run", !.todo = {e \in pending[b] : e.due} \cup soon]
  <2>2. v \in Progress /\ v.todo \subseteq pending[b] /\ v.item = {}
    BY DEF Rest, Progress, TypeOK
  <2>3. ReceiptsAcked'
    <3>1. SetRetry(b, r, v) /\ UNCHANGED <<pending, ackedBy, packets>>
      BY <1>3, <2>1 DEF RetryList, destVars
    <3>. HIDE DEF v
    <3>. QED
      BY <1>0, <1>1, <2>2, <3>1
  <2>. QED
    BY <1>0, <1>3, <2>3 DEF RetryList, ReceiptInv, ReceiptMeansAcked, originVars, destVars
<1>4. ASSUME NEW pc \in {"remove", "requeue"}, NEW e \in retry[b][r].todo
      PROVE  LET v == [pc |-> pc, todo |-> retry[b][r].todo \ {e}, item |-> {e}] IN
               v \in Progress /\ \A x \in v.todo \cup v.item : x.msg \in ackedBy
  BY <1>0, RetryTypes DEF Progress
<1>5. ASSUME NEW e \in retry[b][r].todo, RetryPost(b, r, e)  PROVE ReceiptInv'
  <2>1. e.msg \in Transfer /\ e.msg \in ackedBy /\ e.seq \in Route
    BY <1>0, RetryTypes
  <2>2. PICK pc \in {"remove", "requeue"} :
          SetRetry(b, r, [pc |-> pc, todo |-> retry[b][r].todo \ {e}, item |-> {e}])
    BY <1>5 DEF RetryPost
  <2>3. ReceiptsAcked'
    <3>1. UNCHANGED <<pending, ackedBy, packets>>
      BY <1>5 DEF RetryPost, destVars
    <3>. QED
      BY <1>1, <1>4, <2>2, <3>1
  <2>4. ReceiptMeansAcked'
    <3>1. UNCHANGED ackedBy
      BY <1>5 DEF RetryPost, destVars
    <3>2. CASE UNCHANGED originVars
      BY <1>0, <3>1, <3>2 DEF originVars, ReceiptMeansAcked
    <3>3. CASE AcceptReceipt(e.msg, b, e.seq)
      BY <1>0, <2>1, <3>1, <3>3, AcceptKeepsReceipts
    <3>. QED
      BY <1>5, <3>2, <3>3 DEF RetryPost
  <2>. QED
    BY <2>3, <2>4 DEF ReceiptInv
<1>6. ASSUME NEW e \in retry[b][r].todo, RetryPostLost(b, r, e)  PROVE ReceiptInv'
  <2>1. \A q \in packets' : q \in packets \/ q.msg \in ackedBy
    BY <1>0, <1>6 DEF RetryPostLost, InFlight
  <2>2. ReceiptsAcked'
    BY <1>1, <1>4, <1>6, <2>1 DEF RetryPostLost, destVars
  <2>. QED
    BY <1>0, <1>6, <2>2 DEF RetryPostLost, ReceiptInv, ReceiptMeansAcked, originVars, destVars
<1>. DEFINE back == [retry[b][r] EXCEPT !.pc = "run", !.item = {}]
<1>7. back \in Progress /\ \A e \in back.todo \cup back.item : e.msg \in ackedBy
  BY <1>0, RetryTypes DEF Progress
<1>8. ASSUME SetRetry(b, r, back), UNCHANGED <<ackedBy, packets, originVars>>,
             \A c \in Dest : \A e \in pending'[c] : e.msg \in ackedBy
      PROVE  ReceiptInv'
  <2>1. \A c \in Dest : \A p \in Retrier : \A e \in retry'[c][p].todo \cup retry'[c][p].item :
          e.msg \in ackedBy
    <3>. HIDE DEF back
    <3>. QED
      BY <1>0, <1>7, <1>8, SetRetryReceipts
  <2>. QED
    BY <1>0, <1>8, <2>1 DEF ReceiptInv, ReceiptMeansAcked, ReceiptsAcked, originVars
<1>9. ASSUME RetryRemove(b, r)  PROVE ReceiptInv'
  <2>1. ASSUME NEW c \in Dest, NEW e \in pending'[c]  PROVE e \in pending[c]
    BY <1>9 DEF RetryRemove, TypeOK
  <2>2. \A c \in Dest : \A e \in pending'[c] : e.msg \in ackedBy
    BY <1>0, <2>1 DEF ReceiptsAcked
  <2>. QED
    BY <1>8, <1>9, <2>2 DEF RetryRemove
<1>10. ASSUME RetryRequeue(b, r)  PROVE ReceiptInv'
  <2>1. PICK e \in retry[b][r].item : SetPending(b, [e EXCEPT !.due = FALSE])
    BY <1>10 DEF RetryRequeue
  <2>2. e \in Entry /\ e.msg \in ackedBy
    BY <1>0, RetryTypes
  <2>3. [e EXCEPT !.due = FALSE].msg \in ackedBy
    BY <2>2 DEF Entry
  <2>4. ASSUME NEW c \in Dest, NEW x \in pending'[c]
        PROVE  x \in pending[c] \/ x = [e EXCEPT !.due = FALSE]
    BY <2>1 DEF SetPending, TypeOK
  <2>5. \A c \in Dest : \A x \in pending'[c] : x.msg \in ackedBy
    BY <1>0, <2>3, <2>4 DEF ReceiptsAcked
  <2>. QED
    BY <1>8, <1>10, <2>5 DEF RetryRequeue
<1>11. ASSUME RetryDone(b, r)  PROVE ReceiptInv'
  <2>1. Rest \in Progress /\ \A e \in Rest.todo \cup Rest.item : e.msg \in ackedBy
    BY RetryTypes DEF Rest
  <2>2. ReceiptsAcked'
    BY <1>1, <1>11, <2>1 DEF RetryDone, destVars
  <2>. QED
    BY <1>0, <1>11, <2>2 DEF RetryDone, ReceiptInv, ReceiptMeansAcked, originVars, destVars
<1>. QED
  BY <1>2, <1>3, <1>5, <1>6, <1>9, <1>10, <1>11 DEF Retrying, RetryStep
LEMMA AckReceipts ==
  ASSUME TypeOK, ReceiptInv, NEW b \in Dest, NEW t \in Message, Ack(b, t)
  PROVE  ReceiptInv'
<1>1. ackedBy' = ackedBy \cup {t} /\ UNCHANGED <<packets, originVars>>
  BY DEF Ack
<1>2. \/ UNCHANGED <<pending, retry>>
      \/ \E i \in inbound[b] : SetPending(b, [msg |-> t, seq |-> i.seq, due |-> TRUE])
  BY DEF Ack
<1>3. ASSUME NEW c \in Dest, NEW e \in pending'[c]  PROVE e.msg \in ackedBy'
  <2>1. ASSUME NEW i \in inbound[b], SetPending(b, [msg |-> t, seq |-> i.seq, due |-> TRUE])
        PROVE  e \in pending[c] \/ e.msg = t
    <3>1. pending'[c] \subseteq pending[c] \cup {[msg |-> t, seq |-> i.seq, due |-> TRUE]}
      BY <2>1 DEF SetPending, TypeOK
    <3>. QED
      BY <3>1
  <2>2. e \in pending[c] \/ e.msg = t
    BY <1>2, <2>1
  <2>. QED
    BY <1>1, <2>2 DEF ReceiptInv, ReceiptsAcked
<1>4. \/ UNCHANGED retry
      \/ \E f \in Retrier : SetRetry(b, f, [Rest EXCEPT !.pc = "list"])
  BY DEF Ack, IdleFlushers, Retrier
<1>5. \A c \in Dest : \A p \in Retrier : \A e \in retry'[c][p].todo \cup retry'[c][p].item :
        e.msg \in ackedBy
  <2>1. \A e \in [Rest EXCEPT !.pc = "list"].todo \cup [Rest EXCEPT !.pc = "list"].item : FALSE
    BY DEF Rest
  <2>2. ASSUME NEW f \in Retrier, SetRetry(b, f, [Rest EXCEPT !.pc = "list"])
        PROVE  \A c \in Dest : \A p \in Retrier :
                 \A e \in retry'[c][p].todo \cup retry'[c][p].item : e.msg \in ackedBy
    <3>. DEFINE v == [Rest EXCEPT !.pc = "list"]
    <3>1. v \in Progress /\ \A e \in v.todo \cup v.item : e.msg \in ackedBy
      BY <2>1, RetryTypes
    <3>2. SetRetry(b, f, v) /\ ReceiptsAcked
      BY <2>2 DEF ReceiptInv
    <3>. HIDE DEF v
    <3>. QED
      BY <3>1, <3>2, SetRetryReceipts
  <2>. QED
    BY <1>4, <2>2 DEF ReceiptInv, ReceiptsAcked
<1>. QED
  BY <1>1, <1>3, <1>5 DEF ReceiptInv, ReceiptMeansAcked, ReceiptsAcked, originVars

LEMMA EnvironmentReceipts ==
  ASSUME TypeOK, ReceiptInv, Environment
  PROVE  ReceiptInv'
<1>1. ASSUME NEW b \in Dest, NEW t \in Transfer, Expires(b, t)  PROVE ReceiptInv'
  BY <1>1, KeepsReceipts DEF Expires
<1>2. ASSUME NEW b \in Dest, NEW e \in pending[b], BackoffEnds(b, e)  PROVE ReceiptInv'
  <2>1. e.msg \in ackedBy /\ e \in Entry
    BY DEF ReceiptInv, ReceiptsAcked, TypeOK
  <2>2. [e EXCEPT !.due = TRUE].msg \in ackedBy
    BY <2>1 DEF Entry
  <2>3. ASSUME NEW c \in Dest, NEW x \in pending'[c]
        PROVE  x \in pending[c] \/ x = [e EXCEPT !.due = TRUE]
    BY <1>2 DEF BackoffEnds, SetPending, TypeOK
  <2>. QED
    BY <1>2, <2>2, <2>3 DEF BackoffEnds, ReceiptInv, ReceiptMeansAcked, ReceiptsAcked, originVars
<1>3. ASSUME NEW b \in Dest, DestCrashes(b)  PROVE ReceiptInv'
  <2>1. ASSUME NEW c \in Dest, NEW p \in Retrier, NEW e \in retry'[c][p].todo \cup retry'[c][p].item
        PROVE  e \in retry[c][p].todo \cup retry[c][p].item
    BY <1>3 DEF DestCrashes, TypeOK, Rest
  <2>. QED
    BY <1>3, <2>1 DEF DestCrashes, ReceiptInv, ReceiptMeansAcked, ReceiptsAcked, originVars, destVars
<1>4. ASSUME NEW t \in Message, ReadReceipt(t)  PROVE ReceiptInv'
  BY <1>4 DEF ReadReceipt, ReceiptInv, ReceiptMeansAcked, ReceiptsAcked, destVars
<1>5. ASSUME NEW q \in packets, PacketArrives(q)  PROVE ReceiptInv'
  <2>1. packets' = packets \ {q} /\ UNCHANGED retry
    BY <1>5 DEF PacketArrives
  <2>2. CASE /\ Ingest(q.dest, q.msg, q.seq) \/ Refuse(q.dest, q.msg, q.seq)
             /\ UNCHANGED originVars
    <3>1. UNCHANGED <<pending, ackedBy>>
      BY <2>2 DEF Ingest, Refuse, destVars
    <3>. QED
      BY <2>1, <2>2, <3>1, KeepsReceipts
  <2>3. CASE /\ q.kind = "receipt"
             /\ \/ AcceptReceipt(q.msg, q.dest, q.seq)
                \/ UNCHANGED originVars
             /\ UNCHANGED <<pinned, destVars>>
    <3>1. q.msg \in Transfer /\ q.msg \in ackedBy /\ q.dest \in Dest /\ q.seq \in Route
      BY <2>3 DEF ReceiptInv, ReceiptsAcked, TypeOK, Packet
    <3>2. UNCHANGED <<pending, ackedBy>>
      BY <2>3 DEF destVars
    <3>3. ReceiptMeansAcked'
      BY <2>3, <3>1, <3>2, AcceptKeepsReceipts DEF ReceiptInv, ReceiptMeansAcked, originVars
    <3>. QED
      BY <2>1, <3>2, <3>3 DEF ReceiptInv, ReceiptsAcked
  <2>. QED
    BY <1>5, <2>2, <2>3 DEF PacketArrives
<1>6. ASSUME NEW q \in packets, PacketLost(q)  PROVE ReceiptInv'
  BY <1>6, KeepsReceipts DEF PacketLost, destVars
<1>7. ASSUME Publish  PROVE ReceiptInv'
  BY <1>7, KeepsReceipts DEF Publish, destVars
<1>8. ASSUME OriginCrashes  PROVE ReceiptInv'
  <2>1. \A q \in packets' : q \in packets \/ q.kind # "receipt"
    BY <1>8 DEF OriginCrashes, InFlight
  <2>. QED
    BY <1>8, <2>1, KeepsReceipts DEF OriginCrashes, destVars
<1>. QED
  BY <1>1, <1>2, <1>3, <1>4, <1>5, <1>6, <1>7, <1>8 DEF Environment

LEMMA NextReceipts == TypeOK /\ ReceiptInv /\ [Next]_vars => ReceiptInv'
<1>1. ASSUME ReceiptInv, UNCHANGED vars  PROVE ReceiptInv'
  BY <1>1, KeepsReceipts DEF vars, destVars
<1>. QED
  BY <1>1, HandlingReceipts, RetryingReceipts, AckReceipts, EnvironmentReceipts, Zenon DEF Next

\* The sender is told of a delivery only if the recipient acknowledged it: whatever
\* is lost, late, retried from a stale copy or interrupted by a crash, and however
\* many relays and routes the recipient has.
THEOREM ReceiptsAreEarned == Spec => []ReceiptMeansAcked
<1>1. Spec => []ReceiptInv
  BY InitTypes, NextTypes, InitReceipts, NextReceipts, PTL DEF Spec
<1>2. ReceiptInv => ReceiptMeansAcked
  BY DEF ReceiptInv
<1>. QED
  BY <1>1, <1>2, PTL

-----------------------------------------------------------------------------
(* Repeated forwards. *)

LEMMA IngestOnce ==
  ASSUME TypeOK, ReplayInv, NEW b \in Dest, NEW t \in Transfer, NEW seq \in Route,
         Ingest(b, t, seq) \/ Refuse(b, t, seq)
  PROVE  ReplayInv'
<1>1. CASE UNCHANGED copies /\ UNCHANGED seenIds
  BY <1>1 DEF ReplayInv
<1>2. CASE /\ seenIds' = [seenIds EXCEPT ![b] = @ \cup {t}]
           /\ \/ UNCHANGED copies
              \/ /\ t \notin seenIds[b]
                 /\ copies' = [copies EXCEPT ![b][t] = @ + 1]
  <2>1. ASSUME NEW c \in Dest, NEW u \in Transfer
        PROVE  copies'[c][u] <= 1 /\ (u \notin seenIds'[c] => copies'[c][u] = 0)
    <3>1. copies[c][u] \in Nat /\ copies[c][u] <= 1 /\ (u \notin seenIds[c] => copies[c][u] = 0)
      BY DEF ReplayInv, TypeOK
    <3>2. u \in seenIds'[c] <=> u \in seenIds[c] \/ (c = b /\ u = t)
      BY <1>2 DEF TypeOK
    <3>3. CASE UNCHANGED copies
      BY <3>1, <3>2, <3>3
    <3>4. CASE t \notin seenIds[b] /\ copies' = [copies EXCEPT ![b][t] = @ + 1]
      <4>1. copies'[c][u] = IF c = b /\ u = t THEN copies[c][u] + 1 ELSE copies[c][u]
        BY <3>4 DEF TypeOK
      <4>. QED
        BY <3>1, <3>2, <3>4, <4>1
    <3>. QED
      BY <1>2, <3>3, <3>4
  <2>. QED
    BY <2>1 DEF ReplayInv
<1>. QED
  BY <1>1, <1>2 DEF Ingest, Refuse, destVars

LEMMA NextReplay == TypeOK /\ ReplayInv /\ [Next]_vars => ReplayInv'
<1>. SUFFICES ASSUME TypeOK, ReplayInv, [Next]_vars  PROVE ReplayInv'
  OBVIOUS
<1>0. ASSUME UNCHANGED <<seenIds, copies>>  PROVE ReplayInv'
  BY <1>0 DEF ReplayInv
<1>1. ASSUME NEW s \in Sender, SendForward(s)  PROVE ReplayInv'
  BY <1>1, CandidateIsDest, IngestOnce DEF SendForward
<1>2. ASSUME NEW q \in packets, PacketArrives(q)  PROVE ReplayInv'
  <2>1. q.msg \in Transfer /\ q.dest \in Dest /\ q.seq \in Route
    BY DEF TypeOK, Packet
  <2>2. CASE Ingest(q.dest, q.msg, q.seq) \/ Refuse(q.dest, q.msg, q.seq)
    BY <2>1, <2>2, IngestOnce
  <2>3. CASE UNCHANGED <<pinned, destVars>>
    BY <1>0, <2>3 DEF destVars
  <2>. QED
    BY <1>2, <2>2, <2>3 DEF PacketArrives
<1>3. ASSUME NEW b \in Dest, NEW t \in Transfer, Expires(b, t)  PROVE ReplayInv'
  <2>1. ASSUME NEW c \in Dest, NEW u \in Transfer
        PROVE  copies'[c][u] <= 1 /\ (u \notin seenIds'[c] => copies'[c][u] = 0)
    <3>1. copies[c][u] <= 1 /\ (u \notin seenIds[c] => copies[c][u] = 0)
      BY DEF ReplayInv
    <3>2. copies'[c][u] = IF c = b /\ u = t THEN 0 ELSE copies[c][u]
      BY <1>3 DEF Expires, TypeOK
    <3>3. u \notin seenIds'[c] => u \notin seenIds[c] \/ (c = b /\ u = t)
      BY <1>3 DEF Expires, TypeOK
    <3>. QED
      BY <3>1, <3>2, <3>3
  <2>. QED
    BY <2>1 DEF ReplayInv
<1>4. ASSUME NEW s \in Sender, Handling(s)  PROVE ReplayInv'
  <2>1. SendForward(s) \/ UNCHANGED destVars
    BY <1>4 DEF Handling, SendStart, SendStep, SendCheck, SendGivesUp, SendRemember, ForwardLost
  <2>. QED
    BY <1>0, <1>1, <2>1 DEF destVars
<1>5. ASSUME NEW b \in Dest, NEW r \in Retrier, Retrying(b, r)  PROVE ReplayInv'
  BY <1>0, <1>5 DEF Retrying, RetryStep, TimerFires, RetryList, RetryPost, RetryPostLost,
                    RetryRemove, RetryRequeue, RetryDone, destVars
<1>6. ASSUME NEW b \in Dest, NEW t \in Message, Ack(b, t)  PROVE ReplayInv'
  BY <1>0, <1>6 DEF Ack
<1>7. ASSUME Environment  PROVE ReplayInv'
  BY <1>0, <1>2, <1>3, <1>7 DEF Environment, BackoffEnds, DestCrashes, ReadReceipt, PacketLost,
                                Publish, OriginCrashes, destVars
<1>8. CASE UNCHANGED vars
  BY <1>0, <1>8 DEF vars, destVars
<1>. QED
  BY <1>4, <1>5, <1>6, <1>7, <1>8, Zenon DEF Next

\* While a destination remembers a transfer, it puts one envelope of it in the
\* recipient's queue, however often and by whomever it is forwarded.
THEOREM ForwardsAreIdempotent == Spec => []OneEnvelopePerTransfer
<1>1. Init => ReplayInv
  BY DEF Init, ReplayInv
<1>2. ReplayInv => OneEnvelopePerTransfer
  BY DEF ReplayInv, OneEnvelopePerTransfer
<1>. QED
  BY <1>1, <1>2, InitTypes, NextTypes, NextReplay, PTL DEF Spec
=============================================================================
