--------------------------- MODULE DirectTransport ---------------------------
(***************************************************************************)
(* Messages that travel from one browser to another over a WebRTC channel, *)
(* with the relay as rendezvous and as fallback:                           *)
(* lib/quantic-network/direct-transport.ts and direct-store.ts, the relay  *)
(* standalone-relay/direct-signaling.ts, and window.fetch of               *)
(* instrumentation-client.ts, which puts them under the calls of the       *)
(* mailbox page (quantic-network-v11-app.tsx).                             *)
(*                                                                         *)
(* One device sends to one other.  Every attempt is a session of its own,  *)
(* with its own envelope id, so a session number stands for both.  The     *)
(* relay's own mailboxes (MessageDelivery) are sets of letters here: it    *)
(* queues a letter once however often it is sent.  ICE candidates are left *)
(* out: a channel that never opens stands for the ones that are lost.      *)
(***************************************************************************)
EXTENDS Naturals, FiniteSets

CONSTANTS
  Letter,            \* outbox items
  MaxSignals,        \* maxQueue: signals waiting for one device
  MaxSessions,       \* TLC bound: direct attempts
  MaxDirectFaults    \* TLC bound: lost polls, dead channels, failed calls, reloads

ASSUME DirectAssumption ==
  MaxSignals \in Nat \ {0} /\ MaxSessions \in Nat /\ MaxDirectFaults \in Nat

VARIABLES
  sealed,       \* letters encrypted to a one-time prekey, the others to the static key
  waiting,       \* sender, IndexedDB: outbox
  sending,       \* letter -> where its POST /send is
  wire,          \* session -> its letter and the state of both ends
  frames,        \* frames under way on the channels
  signals,       \* relay: device -> signals waiting for it
  polled,        \* device -> signals it has taken and not processed yet
  directBox,     \* recipient, IndexedDB: sessions whose envelope is stored
  relayBox, relayReceipts,     \* relay: letters queued; letters acknowledged
  reader,        \* recipient: its sync turn
  savedMail, opening,  \* recipient, IndexedDB: messages; one-time keys it still has
  directReceipts,      \* sender, IndexedDB
  directTrouble

directVars ==
  <<sealed, waiting, sending, wire, frames, signals, polled, directBox, relayBox, relayReceipts,
    reader, savedMail, opening, directReceipts, directTrouble>>

End == {"sender", "recipient"}
Sessions == DOMAIN wire
Signal == [type : {"offer", "answer"}, session : Sessions] \cup [type : {"receipt"}, letter : Letter]
Frame == [type : {"envelope", "stored"}, session : Sessions]
           \cup [type : {"receipt"}, session : Sessions, letter : Letter]
(* What a pull returns: the copy of session 0 is the relay's.               *)
Copy == [session : {0} \cup Sessions, letter : Letter]
IdleReader == [at |-> "idle", batch |-> {}, acked |-> {}, handled |-> {}]

DirectTypeOK ==
  /\ sealed \subseteq Letter /\ waiting \subseteq Letter /\ sending \in [Letter -> {"idle", "direct", "relay"}]
  /\ Sessions = 1 .. Cardinality(Sessions)
  /\ \A s \in Sessions : wire[s] \in
       [letter : Letter, near : {"offer", "wait", "answered", "frame", "open", "closed"},
        far : {"none", "answered", "open", "closed"}]
  /\ frames \subseteq Frame
  /\ signals \in [End -> SUBSET Signal] /\ (\A e \in End : Cardinality(signals[e]) <= MaxSignals)
  /\ polled \in [End -> SUBSET Signal]
  /\ directBox \subseteq Sessions /\ relayBox \subseteq Letter /\ relayReceipts \subseteq Letter
  /\ reader \in [at : {"idle", "process", "receipts", "ack"}, batch : SUBSET Copy,
                 acked : SUBSET Copy, handled : SUBSET Sessions]
  /\ savedMail \subseteq Letter /\ opening \subseteq sealed /\ directReceipts \subseteq Letter
  /\ directTrouble \in Nat

DirectInit ==
  /\ sealed \in SUBSET Letter /\ waiting = {} /\ sending = [d \in Letter |-> "idle"]
  /\ wire = [s \in {} |-> 0] /\ frames = {}
  /\ signals = [e \in End |-> {}] /\ polled = [e \in End |-> {}]
  /\ directBox = {} /\ relayBox = {} /\ relayReceipts = {}
  /\ reader = IdleReader /\ savedMail = {} /\ opening = sealed
  /\ directReceipts = {} /\ directTrouble = 0

Letters == waiting \cup savedMail

recipientKeeps == UNCHANGED <<sealed, directBox, relayReceipts, reader, savedMail, opening, directReceipts, directTrouble>>

---------------------------------------------------------------------------
(* Signaling.  send refuses (429) when the queue of the target is full; a   *)
(* poll empties it.                                                         *)
HasRoom(e) == Cardinality(signals[e]) < MaxSignals
Queue(e, x) == signals' = [signals EXCEPT ![e] = @ \cup {x}]

PollSignals(e) ==
  /\ signals[e] # {} /\ polled[e] = {}
  /\ polled' = [polled EXCEPT ![e] = signals[e]]
  /\ signals' = [signals EXCEPT ![e] = {}]
  /\ UNCHANGED <<waiting, sending, wire, frames, relayBox>> /\ recipientKeeps

(* processSignal: an answer to a session that was given up is ignored, and  *)
(* an offer is answered if the sender's queue has room.                     *)
ProcessOffer(x) ==
  /\ x \in polled["recipient"] /\ x.type = "offer"
  /\ wire' = [wire EXCEPT ![x.session].far = "answered"]
  /\ polled' = [polled EXCEPT !["recipient"] = @ \ {x}]
  /\ IF HasRoom("sender") THEN Queue("sender", [type |-> "answer", session |-> x.session])
                          ELSE UNCHANGED signals
  /\ UNCHANGED <<waiting, sending, frames, relayBox>> /\ recipientKeeps

ProcessAnswer(x) ==
  /\ x \in polled["sender"] /\ x.type = "answer"
  /\ wire' = IF wire[x.session].near = "wait" THEN [wire EXCEPT ![x.session].near = "answered"] ELSE wire
  /\ polled' = [polled EXCEPT !["sender"] = @ \ {x}]
  /\ UNCHANGED <<waiting, sending, frames, signals, relayBox>> /\ recipientKeeps

ProcessReceipt(x) ==
  /\ x \in polled["sender"] /\ x.type = "receipt"
  /\ directReceipts' = directReceipts \cup {x.letter}
  /\ polled' = [polled EXCEPT !["sender"] = @ \ {x}]
  /\ UNCHANGED <<sealed, waiting, sending, wire, frames, signals, directBox, relayBox, relayReceipts,
                 reader, savedMail, opening, directTrouble>>

---------------------------------------------------------------------------
(* The sender: window.fetch of POST /send.                                  *)

(* The outbox item is saved before the first attempt to send it.            *)
Write(d) ==
  /\ d \notin Letters
  /\ waiting' = waiting \cup {d}
  /\ UNCHANGED <<sending, wire, frames, signals, polled, relayBox>> /\ recipientKeeps

(* trySend begins a session, or falls back at once (no WebRTC, no identity, *)
(* a recipient that does not resolve).                                      *)
TrySend(d) ==
  /\ d \in waiting /\ sending[d] = "idle"
  /\ \/ /\ Cardinality(Sessions) < MaxSessions
        /\ wire' = [s \in Sessions \cup {Cardinality(Sessions) + 1} |->
                      IF s \in Sessions THEN wire[s]
                      ELSE [letter |-> d, near |-> "offer", far |-> "none"]]
        /\ sending' = [sending EXCEPT ![d] = "direct"]
     \/ sending' = [sending EXCEPT ![d] = "relay"] /\ UNCHANGED wire
  /\ UNCHANGED <<waiting, frames, signals, polled, relayBox>> /\ recipientKeeps

SendOffer(s) ==
  /\ wire[s].near = "offer" /\ HasRoom("recipient")
  /\ Queue("recipient", [type |-> "offer", session |-> s])
  /\ wire' = [wire EXCEPT ![s].near = "wait"]
  /\ UNCHANGED <<waiting, sending, frames, polled, relayBox>> /\ recipientKeeps

(* The channel opens at both ends and the sender sends its frame.           *)
SendFrame(s) ==
  /\ wire[s].near = "answered" /\ wire[s].far = "answered"
  /\ wire' = [wire EXCEPT ![s] = [@ EXCEPT !.near = "frame", !.far = "open"]]
  /\ frames' = frames \cup {[type |-> "envelope", session |-> s]}
  /\ UNCHANGED <<waiting, sending, signals, polled, relayBox>> /\ recipientKeeps

(* delivered-direct: the control frame that says the envelope is stored.    *)
\* Mutant: the stored envelope releases the outbox item.
StoredReleases(s) ==
  LET f == [type |-> "stored", session |-> s] IN
  /\ f \in frames
  /\ frames' = frames \ {f}
  /\ IF wire[s].near = "frame"
     THEN /\ wire' = [wire EXCEPT ![s].near = "open"]
          /\ sending' = [sending EXCEPT ![wire[s].letter] = "idle"]
          /\ waiting' = waiting \ {wire[s].letter}
     ELSE UNCHANGED <<wire, sending, waiting>>
  /\ UNCHANGED <<signals, polled, relayBox>> /\ recipientKeeps
StoredArrives(s) ==
  LET f == [type |-> "stored", session |-> s] IN
  /\ f \in frames
  /\ frames' = frames \ {f}
  /\ IF wire[s].near = "frame"
     THEN /\ wire' = [wire EXCEPT ![s].near = "open"]
          /\ sending' = [sending EXCEPT ![wire[s].letter] = "idle"]
     ELSE UNCHANGED <<wire, sending>>
  /\ UNCHANGED <<waiting, signals, polled, relayBox>> /\ recipientKeeps

(* A timeout or a refusal: the session is closed and the same body goes to  *)
(* the relay.  What is already under way towards the recipient may arrive.  *)
\* Mutant: the call waits on when its session was given up.
FallbackHangs(s) ==
  /\ wire[s].near \in {"offer", "wait", "answered", "frame"}
  /\ wire' = [wire EXCEPT ![s].near = "closed"]
  /\ frames' = {f \in frames : f.session # s \/ f.type = "envelope"}
  /\ UNCHANGED <<waiting, sending, signals, polled, relayBox>> /\ recipientKeeps
Fallback(s) ==
  /\ wire[s].near \in {"offer", "wait", "answered", "frame"}
  /\ wire' = [wire EXCEPT ![s].near = "closed"]
  /\ frames' = {f \in frames : f.session # s \/ f.type = "envelope"}
  /\ sending' = [sending EXCEPT ![wire[s].letter] = "relay"]
  /\ UNCHANGED <<waiting, signals, polled, relayBox>> /\ recipientKeeps

RelayQueues(d) ==
  /\ sending[d] = "relay"
  /\ relayBox' = relayBox \cup {d}
  /\ sending' = [sending EXCEPT ![d] = "idle"]
  /\ UNCHANGED <<waiting, wire, frames, signals, polled>> /\ recipientKeeps

(* A receipt on the channel; what the page does with all of its receipts:   *)
(* the outbox item goes first, the receipts are deleted after it.           *)
senderKeeps == UNCHANGED <<sealed, sending, wire, signals, polled, directBox, relayBox, reader, savedMail, opening, directTrouble>>

ReceiptOnChannel(f) ==
  /\ f \in frames /\ f.type = "receipt" /\ wire[f.session].near = "open"
  /\ frames' = frames \ {f} /\ directReceipts' = directReceipts \cup {f.letter}
  /\ UNCHANGED <<waiting, relayReceipts>> /\ senderKeeps

ApplyReceipt(d) ==
  /\ d \in waiting \cap (relayReceipts \cup directReceipts)
  /\ waiting' = waiting \ {d}
  /\ UNCHANGED <<frames, relayReceipts, directReceipts>> /\ senderKeeps

\* Mutant: receipts are deleted before the outbox has used them.
ClearReceiptsFirst ==
  /\ relayReceipts \cup directReceipts # {}
  /\ relayReceipts' = {} /\ directReceipts' = {}
  /\ UNCHANGED <<waiting, frames>> /\ senderKeeps
ClearReceipts ==
  LET seen == (relayReceipts \cup directReceipts) \ waiting IN
  /\ seen # {}
  /\ relayReceipts' = relayReceipts \ seen /\ directReceipts' = directReceipts \ seen
  /\ UNCHANGED <<waiting, frames>> /\ senderKeeps

---------------------------------------------------------------------------
(* The recipient.                                                           *)
readerKeeps == UNCHANGED <<sealed, waiting, sending, wire, polled, directReceipts, directTrouble>>

(* bindChannel: the envelope is in IndexedDB before "stored" is answered;   *)
(* the answer is lost if the sender has closed the channel.                 *)
\* Mutant: "stored" is answered before the envelope is.
StoreLater(s) == UNCHANGED directBox
StoreDirect(s) == directBox' = directBox \cup {s}

EnvelopeArrives(s) ==
  LET f == [type |-> "envelope", session |-> s] IN
  /\ f \in frames /\ wire[s].far = "open"
  /\ StoreDirect(s)
  /\ frames' = (frames \ {f}) \cup
       (IF wire[s].near = "frame" THEN {[type |-> "stored", session |-> s]} ELSE {})
  /\ UNCHANGED <<signals, relayBox, relayReceipts, reader, savedMail, opening>> /\ readerKeeps

(* mergeDirectPull: the relay's envelopes and the direct ones.              *)
DirectCopies == {[session |-> s, letter |-> wire[s].letter] : s \in directBox}
RelayCopies == {[session |-> 0, letter |-> d] : d \in relayBox}

PullBoth ==
  /\ reader.at = "idle" /\ directBox \cup relayBox # {}
  /\ reader' = [IdleReader EXCEPT !.at = "process", !.batch = DirectCopies \cup RelayCopies]
  /\ UNCHANGED <<frames, signals, directBox, relayBox, relayReceipts, savedMail, opening>> /\ readerKeeps

(* A copy whose one-time key is gone cannot be opened and is left where it  *)
(* is; else the message is saved and then the key deleted.                  *)
Opens(d) == d \in sealed => d \in opening
SpendKey(d) == opening' = opening \ {d}
ReadMessage(x) == savedMail' = savedMail \cup {x.letter} /\ SpendKey(x.letter)

ReadCopy(x) ==
  /\ reader.at = "process" /\ x \in reader.batch
  /\ IF Opens(x.letter)
     THEN ReadMessage(x) /\ reader' = [reader EXCEPT !.batch = @ \ {x}, !.acked = @ \cup {x}]
     ELSE UNCHANGED <<savedMail, opening>> /\ reader' = [reader EXCEPT !.batch = @ \ {x}]
  /\ UNCHANGED <<frames, signals, directBox, relayBox, relayReceipts>> /\ readerKeeps

AckBegins ==
  /\ reader.at = "process" /\ reader.batch = {}
  /\ reader' = IF reader.acked = {} THEN IdleReader ELSE [reader EXCEPT !.at = "receipts"]
  /\ UNCHANGED <<frames, signals, directBox, relayBox, relayReceipts, savedMail, opening>> /\ readerKeeps

(* acknowledgeEnvelopes: the receipt goes over a channel that looks open,   *)
(* else as a signal; when that fails too the envelope is handled all the    *)
(* same.                                                                    *)
OpenChannels == {s \in Sessions : wire[s].far = "open"}

SendReceipt(x) ==
  /\ reader.at = "receipts" /\ x \in reader.acked /\ x.session # 0
  /\ reader' = [reader EXCEPT !.acked = @ \ {x}, !.handled = @ \cup {x.session}]
  /\ IF OpenChannels # {}
     THEN /\ \E s \in OpenChannels :
               frames' = frames \cup {[type |-> "receipt", session |-> s, letter |-> x.letter]}
          /\ UNCHANGED signals
     ELSE /\ IF HasRoom("sender") THEN Queue("sender", [type |-> "receipt", letter |-> x.letter])
                                  ELSE UNCHANGED signals
          /\ UNCHANGED frames
  /\ UNCHANGED <<directBox, relayBox, relayReceipts, savedMail, opening>> /\ readerKeeps

DeleteHandled ==
  /\ reader.at = "receipts" /\ \A x \in reader.acked : x.session = 0
  /\ directBox' = directBox \ reader.handled
  /\ reader' = IF reader.acked = {} THEN IdleReader ELSE [reader EXCEPT !.at = "ack", !.handled = {}]
  /\ UNCHANGED <<frames, signals, relayBox, relayReceipts, savedMail, opening>> /\ readerKeeps

RelayAcknowledges ==
  LET letters == {x.letter : x \in reader.acked} IN
  /\ reader.at = "ack"
  /\ relayReceipts' = relayReceipts \cup (relayBox \cap letters)
  /\ relayBox' = relayBox \ letters
  /\ reader' = IdleReader
  /\ UNCHANGED <<frames, signals, directBox, savedMail, opening>> /\ readerKeeps

---------------------------------------------------------------------------
(* Faults.                                                                  *)
DirectTrouble == directTrouble < MaxDirectFaults /\ directTrouble' = directTrouble + 1

(* Signals that expire, a restart of the relay, the lost answer of a poll,  *)
(* or a poll by another tab of the device, which does not have the session. *)
SignalsLost(e) ==
  /\ DirectTrouble /\ (signals[e] \cup polled[e]) # {}
  /\ signals' = [signals EXCEPT ![e] = {}] /\ polled' = [polled EXCEPT ![e] = {}]
  /\ UNCHANGED <<sealed, waiting, sending, wire, frames, directBox, relayBox, relayReceipts, reader,
                 savedMail, opening, directReceipts>>

(* A channel dies with its frames; its ends notice later, or never.         *)
ChannelDies(s) ==
  /\ DirectTrouble /\ \E f \in frames : f.session = s
  /\ frames' = {f \in frames : f.session # s}
  /\ \E far \in {wire[s].far, "closed"} : wire' = [wire EXCEPT ![s].far = far]
  /\ UNCHANGED <<sealed, waiting, sending, signals, polled, directBox, relayBox, relayReceipts, reader,
                 savedMail, opening, directReceipts>>

SendFails(d) ==
  /\ DirectTrouble /\ sending[d] = "relay"
  /\ sending' = [sending EXCEPT ![d] = "idle"]
  /\ UNCHANGED <<sealed, waiting, wire, frames, signals, polled, directBox, relayBox, relayReceipts, reader,
                 savedMail, opening, directReceipts>>

(* The recipient's page is reloaded, or a call of its turn fails.           *)
ReaderStops ==
  /\ DirectTrouble /\ reader.at # "idle"
  /\ reader' = IdleReader
  /\ UNCHANGED <<sealed, waiting, sending, wire, frames, signals, polled, directBox, relayBox, relayReceipts,
                 savedMail, opening, directReceipts>>

(* The sender's page is reloaded: its sessions are gone, the recipient's    *)
(* ends still look open.                                                    *)
SenderReloads ==
  /\ DirectTrouble
  /\ sending' = [d \in Letter |-> "idle"]
  /\ wire' = [s \in Sessions |-> [wire[s] EXCEPT !.near = "closed"]]
  /\ frames' = {f \in frames : f.type = "envelope"}
  /\ polled' = [polled EXCEPT !["sender"] = {}]
  /\ UNCHANGED <<sealed, waiting, signals, directBox, relayBox, relayReceipts, reader, savedMail, opening,
                 directReceipts>>

---------------------------------------------------------------------------
SessionStep(s) == SendOffer(s) \/ SendFrame(s) \/ StoredArrives(s) \/ Fallback(s) \/ EnvelopeArrives(s)
SignalStep(x) == ProcessOffer(x) \/ ProcessAnswer(x) \/ ProcessReceipt(x)
ReaderStep ==
  \/ PullBoth \/ (\E x \in Copy : ReadCopy(x) \/ SendReceipt(x))
  \/ AckBegins \/ DeleteHandled \/ RelayAcknowledges
DirectFault ==
  \/ \E e \in End : SignalsLost(e)
  \/ \E s \in Sessions : ChannelDies(s)
  \/ \E d \in Letter : SendFails(d)
  \/ ReaderStops \/ SenderReloads

DirectNext ==
  \/ \E d \in Letter : Write(d) \/ TrySend(d) \/ RelayQueues(d) \/ ApplyReceipt(d)
  \/ \E s \in Sessions : SessionStep(s)
  \/ \E e \in End : PollSignals(e) \/ \E x \in polled[e] : SignalStep(x)
  \/ \E f \in frames : ReceiptOnChannel(f)
  \/ ClearReceipts \/ ReaderStep \/ DirectFault

DirectSpec == DirectInit /\ [][DirectNext]_directVars

(* Pages sync on a timer, waits are bounded, the relay answers.             *)
DirectFairness ==
  /\ WF_directVars(ReaderStep)
  /\ \A d \in Letter : WF_directVars(TrySend(d) \/ RelayQueues(d)) /\ WF_directVars(ApplyReceipt(d))
  /\ WF_directVars(\E s \in Sessions : Fallback(s))

---------------------------------------------------------------------------
(* What the system promises (see ReliableDelivery): a letter leaves the     *)
(* outbox only when the recipient has saved it, whichever way it or its     *)
(* receipts travelled, and it is saved in the end.                          *)
DirectPromise == INSTANCE ReliableDelivery
             WITH Delivery <- Letter, submitted <- Letters, held <- waiting, stored <- savedMail

DirectKeepsPromise == DirectPromise!Spec
DirectDelivers == DirectPromise!FairSpec

(* "delivered-direct" is only reported for an envelope that is stored; it   *)
(* stays there until its message is saved.                                  *)
DeliveredDirectIsKept ==
  \A s \in Sessions : wire[s].near = "open" => s \in directBox \/ wire[s].letter \in savedMail

(* What the relay has queued settles the outbox item of a letter under the  *)
(* static key, also one whose direct copies were read before and whose      *)
(* receipts were lost on channels that only look open.  (Nothing makes the  *)
(* sender go to the relay: while the direct channel delivers, each retry of *)
(* a letter may be delivered there again and its receipt lost again.)       *)
RelayCopySettles == \A d \in Letter : (d \in relayBox /\ d \notin sealed) ~> (d \notin waiting)
=============================================================================
