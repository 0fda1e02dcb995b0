----------------------- MODULE RelayDurabilityProofs -----------------------
(***************************************************************************)
(* Types and three safety properties of module RelayDurability, for any    *)
(* number of processes, operations, faults and boots.                      *)
(*                                                                         *)
(* On a row every save is conditional on the revision, so a process that   *)
(* still expects the current revision has all of the row in memory, and a  *)
(* save that can commit takes nothing back.  A file has no revision: there *)
(* the argument needs that no save overlaps another, which holds unless a  *)
(* handler outlives its client (OrderedSaves).                             *)
(***************************************************************************)
EXTENDS RelayDurability, TLAPS

OrderedSaves == Backing = "sql" \/ Detached = {}

Elements(q) == {q[i] : i \in DOMAIN q}
Injective(q) == \A i, j \in DOMAIN q : q[i] = q[j] => i = j

\* An operation waits for one turn of one process, and has one.
ChainGood(p) ==
  /\ Injective(chain[p])
  /\ FLUSH \in Queued(p) => mode[p] = "flushing"
  /\ \A o \in Queued(p) \ {FLUSH} :
       /\ answer[o] = "called"
       /\ \A q \in Proc : o \notin running[q] /\ (o \in Queued(q) => q = p)
  /\ \A o \in running[p] :
       answer[o] = "called" /\ \A q \in Proc : o \in running[q] => q = p

\* Its effect is nowhere before.
Untouched(o) ==
  /\ o \notin durable
  /\ \A p \in Proc : o \notin mem[p]
  /\ \A s \in saves : o \notin s.image

Waiting(o) == answer[o] = "none" \/ \E p \in Proc : o \in Queued(p)

WaitingUntouched == \A o \in Op : Waiting(o) => Untouched(o)

\* A process that expects the current revision knows all of the snapshot, and
\* nothing but the open transaction is not in the snapshot.
ProcGood(p) ==
  /\ rev[p] <= revision
  /\ running[p] = {} \/ \E o \in Op : running[p] = {o}
  /\ mode[p] = "down" => chain[p] = << >> /\ running[p] = {}
  /\ mode[p] # "down" =>
       /\ running[p] \subseteq mem[p]
       /\ mem[p] \ running[p] \subseteq durable
       /\ rev[p] = revision => durable \subseteq mem[p]

\* A save that can commit takes nothing back, one that has is in the snapshot.
SaveGood(s) ==
  /\ s.rev <= revision
  /\ s.state = "sent" /\ s.rev = revision => durable \subseteq s.image
  /\ s.state = "done" => s.image \subseteq durable
  /\ s.state = "done" /\ s.rev = revision => durable \subseteq s.image

\* What its process is doing meanwhile.
OwnerGood(s) ==
  /\ s.by # "ghost" => mode[s.proc] # "down" /\ s.image \subseteq mem[s.proc]
  /\ s.by = "mutate" =>
       /\ running[s.proc] # {} /\ s.image = mem[s.proc]
       /\ (Backing = "sql" \/ s.state # "done") /\ rev[s.proc] = revision =>
            durable \cap running[s.proc] = {}
  /\ s.by = "flush" =>
       /\ mode[s.proc] = "flushing" /\ FLUSH \notin Queued(s.proc)
       /\ s.image \cap running[s.proc] = {}

\* One save of each kind per process.
SavesUnique ==
  \A s, t \in saves : s.by # "ghost" /\ s.by = t.by /\ s.proc = t.proc => s = t

\* On a file one save at a time.
FileAlone ==
  Backing = "file" =>
    /\ revision = 0
    /\ \A s, t \in saves : s.by # "ghost" /\ s = t
    /\ \A p \in Proc : mode[p] \in {"flushing", "stopping", "lingering"} =>
         Queued(p) \subseteq {FLUSH} /\ running[p] = {}

ChainsGood == \A p \in Proc : ChainGood(p)
ProcsGood == \A p \in Proc : ProcGood(p)
SavesGood == \A s \in saves : SaveGood(s) /\ OwnerGood(s)

DurabilityInv ==
  /\ TypeOK
  /\ ChainsGood /\ ProcsGood /\ WaitingUntouched
  /\ SavesGood /\ SavesUnique /\ FileAlone
  /\ ReportedSurvives

-----------------------------------------------------------------------------
(* The chain of a process. *)

LEMMA AppendKeeps ==
  ASSUME NEW S, NEW q \in Seq(S), NEW x \in S, x \notin Elements(q), Injective(q)
  PROVE  /\ Append(q, x) \in Seq(S) /\ Elements(Append(q, x)) = Elements(q) \cup {x}
         /\ Injective(Append(q, x))
<1>. DEFINE r == Append(q, x)
<1>1. /\ r \in Seq(S) /\ Len(q) \in Nat /\ DOMAIN q = 1..Len(q) /\ DOMAIN r = 1..(Len(q) + 1)
      /\ r[Len(q) + 1] = x /\ \A i \in DOMAIN q : r[i] = q[i]
  OBVIOUS
<1>. HIDE DEF r
<1>2. DOMAIN r = DOMAIN q \cup {Len(q) + 1}
  BY <1>1
<1>3. \A i \in DOMAIN q : q[i] # x
  BY DEF Elements
<1>4. Elements(r) = Elements(q) \cup {x}
  BY <1>1, <1>2 DEF Elements
<1>5. Injective(r)
  BY <1>1, <1>2, <1>3 DEF Injective
<1>. QED
  BY <1>1, <1>4, <1>5 DEF r

LEMMA TailKeeps ==
  ASSUME NEW S, NEW q \in Seq(S), q # << >>, Injective(q)
  PROVE  /\ Tail(q) \in Seq(S) /\ Head(q) \in S /\ Head(q) \in Elements(q)
         /\ Elements(Tail(q)) = Elements(q) \ {Head(q)}
         /\ Injective(Tail(q))
<1>1. /\ Len(q) \in Nat \ {0} /\ Tail(q) \in Seq(S) /\ Head(q) = q[1]
      /\ Len(Tail(q)) = Len(q) - 1 /\ \A i \in DOMAIN Tail(q) : Tail(q)[i] = q[i + 1]
  OBVIOUS
<1>2. DOMAIN q = 1..Len(q) /\ DOMAIN Tail(q) = 1..(Len(q) - 1)
  BY <1>1
<1>3. Head(q) \in S /\ Head(q) \in Elements(q)
  BY <1>1, <1>2 DEF Elements
<1>4. Elements(Tail(q)) = Elements(q) \ {Head(q)}
  <2>1. ASSUME NEW i \in DOMAIN Tail(q) PROVE Tail(q)[i] \in Elements(q) \ {Head(q)}
    <3>1. i + 1 \in DOMAIN q /\ i + 1 # 1 /\ 1 \in DOMAIN q
      BY <1>2, <1>1
    <3>. QED
      BY <3>1, <1>1 DEF Elements, Injective
  <2>2. ASSUME NEW j \in DOMAIN q, q[j] # Head(q) PROVE q[j] \in Elements(Tail(q))
    <3>1. j - 1 \in DOMAIN Tail(q) /\ (j - 1) + 1 = j
      BY <2>2, <1>2, <1>1
    <3>. QED
      BY <3>1, <1>1 DEF Elements
  <2>. QED
    BY <2>1, <2>2 DEF Elements
<1>5. Injective(Tail(q))
  <2>1. ASSUME NEW i \in DOMAIN Tail(q), NEW j \in DOMAIN Tail(q), Tail(q)[i] = Tail(q)[j] PROVE i = j
    <3>1. i + 1 \in DOMAIN q /\ j + 1 \in DOMAIN q
      BY <1>2, <1>1
    <3>2. q[i + 1] = q[j + 1]
      BY <1>1, <2>1
    <3>3. i + 1 = j + 1
      BY <3>1, <3>2 DEF Injective
    <3>. QED
      BY <3>3, <1>2
  <2>. QED
    BY <2>1 DEF Injective
<1>. QED
  BY <1>1, <1>3, <1>4, <1>5

LEMMA EmptyChain ==
  Elements(<< >>) = {} /\ Injective(<< >>)
  BY DEF Elements, Injective

LEMMA QueuedIsElements ==
  ASSUME NEW p \in Proc
  PROVE  Queued(p) = Elements(chain[p])
  BY DEF Queued, Elements

-----------------------------------------------------------------------------
(* The start, and the parts of the invariant that a step leaves alone. *)

LEMMA InitGood ==
  Init => DurabilityInv
<1>. SUFFICES ASSUME Init PROVE DurabilityInv
  OBVIOUS
<1>1. TypeOK
  BY DurabilityAssumption DEF Init, TypeOK
<1>2. \A p \in Proc : Queued(p) = {} /\ Injective(chain[p])
  BY EmptyChain, QueuedIsElements DEF Init
<1>3. ChainsGood
  BY <1>2 DEF ChainsGood, ChainGood, Init
<1>4. ProcsGood
  BY DEF ProcsGood, ProcGood, Init
<1>5. WaitingUntouched
  BY DEF WaitingUntouched, Untouched, Init
<1>6. SavesGood /\ SavesUnique /\ FileAlone
  BY DEF SavesGood, SavesUnique, FileAlone, Init
<1>7. ReportedSurvives
  BY DEF ReportedSurvives, Reported, Init
<1>. QED
  BY <1>1, <1>3, <1>4, <1>5, <1>6, <1>7 DEF DurabilityInv

\* Nobody's place in a chain changes.
LEMMA SameQueues ==
  ASSUME chain' = chain
  PROVE  \A q \in Proc : Queued(q)' = Queued(q) /\ chain'[q] = chain[q]
  BY DEF Queued

LEMMA ChainsStay ==
  ASSUME DurabilityInv, chain' = chain, running' = running, answer' = answer,
         \A q \in Proc : FLUSH \in Queued(q) => mode'[q] = mode[q]
  PROVE  ChainsGood'
  BY SameQueues DEF DurabilityInv, ChainsGood, ChainGood

LEMMA WaitingStays ==
  ASSUME DurabilityInv, durable' = durable, chain' = chain, answer' = answer,
         \A q \in Proc : mem'[q] \subseteq mem[q] \cup durable,
         \A s \in saves' : \E t \in saves : s.image = t.image
  PROVE  WaitingUntouched'
  BY SameQueues DEF DurabilityInv, WaitingUntouched, Waiting, Untouched

LEMMA ReportedStays ==
  ASSUME DurabilityInv, durable' = durable, seen' = seen,
         \A o \in Op : answer'[o] \in {"ok", "error"} => answer[o] \in {"ok", "error"}
  PROVE  ReportedSurvives'
  BY DEF DurabilityInv, ReportedSurvives, Reported

LEMMA Types ==
  ASSUME DurabilityInv
  PROVE  /\ revision \in Nat /\ durable \in SUBSET Op /\ DOMAIN mem = Proc
         /\ \A p \in Proc : /\ rev[p] \in Nat /\ mem[p] \in SUBSET Op /\ running[p] \in SUBSET Op
                            /\ chain[p] \in Seq(Op \cup {FLUSH})
         /\ \A s \in saves : /\ s \in Save /\ s.proc \in Proc /\ s.rev \in Nat /\ s.image \in SUBSET Op
                             /\ s.by \in {"mutate", "flush", "ghost"}
                             /\ s.state \in {"sent", "done", "failed"}
         /\ FLUSH \notin Op /\ Backing \in {"sql", "file"}
  BY DurabilityAssumption DEF DurabilityInv, TypeOK, Save

\* A save stays good as long as nothing its process has changes.
LEMMA OwnerStays ==
  ASSUME NEW t, OwnerGood(t), durable' = durable, revision' = revision,
         mode'[t.proc] = mode[t.proc], mem'[t.proc] = mem[t.proc], rev'[t.proc] = rev[t.proc],
         running'[t.proc] = running[t.proc], Queued(t.proc)' = Queued(t.proc)
  PROVE  OwnerGood(t)'
  BY DEF OwnerGood

LEMMA BootKeeps ==
  ASSUME DurabilityInv, NEW p \in Proc, Boot(p)
  PROVE  DurabilityInv'
<1>1. /\ durable' = durable /\ revision' = revision /\ chain' = chain /\ running' = running
      /\ saves' = saves /\ answer' = answer /\ seen' = seen /\ mode[p] = "down"
  BY DEF Boot, storeVars
<1>2. /\ mode'[p] = "up" /\ mem'[p] = durable /\ rev'[p] = revision
      /\ \A q \in Proc \ {p} : mode'[q] = mode[q] /\ mem'[q] = mem[q] /\ rev'[q] = rev[q]
  BY DEF Boot, DurabilityInv, TypeOK
<1>3. Queued(p) = {} /\ running[p] = {}
  BY <1>1, EmptyChain, QueuedIsElements DEF DurabilityInv, ProcsGood, ProcGood
<1>4. TypeOK'
  BY DurabilityAssumption DEF DurabilityInv, TypeOK, Boot, storeVars
<1>5. ChainsGood'
  BY <1>1, <1>2, <1>3, ChainsStay
<1>6. ProcsGood'
  BY <1>1, <1>2, <1>3, Types DEF DurabilityInv, ProcsGood, ProcGood
<1>7. WaitingUntouched'
  BY <1>1, <1>2, WaitingStays
<1>8. SavesGood'
  BY <1>1, <1>2, SameQueues, Types DEF DurabilityInv, SavesGood, SaveGood, OwnerGood
<1>9. SavesUnique'
  BY <1>1 DEF DurabilityInv, SavesUnique
<1>10. FileAlone'
  BY <1>1, <1>2, SameQueues DEF DurabilityInv, FileAlone
<1>11. ReportedSurvives'
  BY <1>1, ReportedStays
<1>. QED
  BY <1>4, <1>5, <1>6, <1>7, <1>8, <1>9, <1>10, <1>11 DEF DurabilityInv

LEMMA CallKeeps ==
  ASSUME DurabilityInv, OrderedSaves, NEW p \in Proc, NEW o \in Op, Call(p, o)
  PROVE  DurabilityInv'
<1>1. /\ durable' = durable /\ revision' = revision /\ running' = running /\ mode' = mode
      /\ saves' = saves /\ mem' = mem /\ rev' = rev /\ seen' = seen /\ mode[p] # "down"
      /\ answer[o] = "none"
      /\ mode[p] \in {"up", "closing"} \/ o \in Detached
  BY DEF Call, storeVars
<1>2. /\ o # FLUSH /\ \A q \in Proc : o \notin Queued(q) /\ o \notin running[q]
  BY <1>1, Types DEF DurabilityInv, ChainsGood, ChainGood
<1>3. /\ Append(chain[p], o) \in Seq(Op \cup {FLUSH}) /\ Injective(Append(chain[p], o))
      /\ Elements(Append(chain[p], o)) = Elements(chain[p]) \cup {o}
  BY <1>2, Types, QueuedIsElements, AppendKeeps DEF DurabilityInv, ChainsGood, ChainGood
<1>4. /\ chain'[p] = Append(chain[p], o) /\ answer'[o] = "called"
      /\ \A q \in Proc \ {p} : chain'[q] = chain[q]
      /\ \A x \in Op \ {o} : answer'[x] = answer[x]
  BY DEF Call, DurabilityInv, TypeOK
<1>5. /\ Queued(p)' = Queued(p) \cup {o} /\ Injective(chain[p])'
      /\ \A q \in Proc \ {p} : Queued(q)' = Queued(q)
  BY <1>3, <1>4 DEF Queued, Elements
<1>6. TypeOK'
  BY <1>1, <1>3 DEF DurabilityInv, TypeOK, Call
<1>7. ChainsGood'
  <2>0. \A q \in Proc : Queued(q) \subseteq Op \cup {FLUSH}
    BY Types DEF Queued
  <2>1. ASSUME NEW q \in Proc, q # p PROVE ChainGood(q)'
    <3>1. ChainGood(q) /\ Queued(q)' = Queued(q) /\ chain'[q] = chain[q]
      BY <1>4, <1>5, <2>1 DEF DurabilityInv, ChainsGood
    <3>2. \A x \in Queued(q) \ {FLUSH} : x # o /\ x \in Op /\ answer'[x] = answer[x]
      BY <1>2, <1>4, <2>0
    <3>3. \A x \in running[q] : x # o /\ x \in Op /\ answer'[x] = answer[x]
      BY <1>2, <1>4, Types
    <3>4. \A x, y : x # o /\ y \in Proc /\ x \in Queued(y)' => x \in Queued(y)
      BY <1>5
    <3>. QED
      BY <1>1, <3>1, <3>2, <3>3, <3>4 DEF ChainGood
  <2>2. /\ Injective(chain[p])'
        /\ (FLUSH \in Queued(p) => mode[p] = "flushing")'
    BY <1>1, <1>2, <1>5 DEF DurabilityInv, ChainsGood, ChainGood
  <2>3. ASSUME NEW x \in Queued(p) \cup {o}, x # FLUSH
        PROVE  answer'[x] = "called" /\ \A q \in Proc : x \notin running[q] /\ (x \in Queued(q)' => q = p)
    <3>1. CASE x = o
      BY <1>2, <1>4, <1>5, <3>1
    <3>2. CASE x # o
      <4>1. /\ x \in Queued(p) /\ x \in Op /\ answer'[x] = answer[x]
            /\ \A y \in Proc : x \in Queued(y)' => x \in Queued(y)
        BY <1>4, <1>5, <2>0, <2>3, <3>2
      <4>. QED
        BY <2>3, <4>1 DEF DurabilityInv, ChainsGood, ChainGood
    <3>. QED
      BY <3>1, <3>2
  <2>4. ASSUME NEW x \in running[p]
        PROVE  answer'[x] = "called" /\ \A q \in Proc : x \in running[q] => q = p
    BY <1>2, <1>4, <2>4, Types DEF DurabilityInv, ChainsGood, ChainGood
  <2>5. ChainGood(p)'
    BY <1>1, <1>5, <2>2, <2>3, <2>4 DEF ChainGood
  <2>. QED
    BY <2>1, <2>5 DEF ChainsGood
<1>8. ProcsGood'
  BY <1>1, <1>4 DEF DurabilityInv, ProcsGood, ProcGood
<1>9. WaitingUntouched'
  BY <1>1, <1>4, <1>5 DEF DurabilityInv, WaitingUntouched, Waiting, Untouched
<1>10. SavesGood'
  BY <1>1, <1>2, <1>5, Types DEF DurabilityInv, SavesGood, SaveGood, OwnerGood
<1>11. SavesUnique'
  BY <1>1 DEF DurabilityInv, SavesUnique
<1>12. FileAlone'
  BY <1>1, <1>5 DEF DurabilityInv, FileAlone, OrderedSaves
<1>13. ReportedSurvives'
  BY <1>1, <1>4, ReportedStays
<1>. QED
  BY <1>6, <1>7, <1>8, <1>9, <1>10, <1>11, <1>12, <1>13 DEF DurabilityInv

-----------------------------------------------------------------------------
(* The store settles a save. *)

\* n is s with its outcome.
Outcome(s, n, state, r) ==
  /\ n \in Save /\ n.proc = s.proc /\ n.by = s.by /\ n.image = s.image
  /\ n.state = state /\ n.rev = r

LEMMA Settled ==
  ASSUME DurabilityInv, NEW s \in saves, NEW state \in {"sent", "done", "failed"}, NEW r \in Nat,
         Settle(s, state, r)
  PROVE  \E n : /\ Outcome(s, n, state, r)
                /\ \A t \in saves' : (t \in saves /\ t # s) \/ (t = n /\ s.by # "ghost")
<1>. DEFINE n == [s EXCEPT !.state = state, !.rev = r]
<1>1. Outcome(s, n, state, r)
  BY Types DEF Outcome, Save
<1>2. \A t \in saves' : (t \in saves /\ t # s) \/ (t = n /\ s.by # "ghost")
  BY DEF Settle
<1>. QED
  BY <1>1, <1>2

LEMMA SettleUnique ==
  ASSUME DurabilityInv, NEW s \in saves, NEW n, n.by = s.by, n.proc = s.proc,
         \A t \in saves' : (t \in saves /\ t # s) \/ (t = n /\ s.by # "ghost")
  PROVE  SavesUnique'
  BY DEF DurabilityInv, SavesUnique

LEMMA SaveCommitsKeeps ==
  ASSUME DurabilityInv, NEW s \in saves, SaveCommits(s)
  PROVE  DurabilityInv' /\ durable \subseteq durable'
<1>1. /\ s.state = "sent" /\ durable' = s.image /\ mode' = mode /\ mem' = mem /\ rev' = rev
      /\ chain' = chain /\ running' = running /\ answer' = answer /\ seen' = seen
      /\ faults' = faults /\ boots' = boots
      /\ Backing = "sql" => s.rev = revision /\ revision' = revision + 1
      /\ Backing = "file" => revision' = 0
      /\ Settle(s, "done", revision')
  BY DEF SaveCommits, procVars
<1>2. PICK r \in Nat : r = revision'
  BY <1>1, Types
<1>3. PICK n : /\ Outcome(s, n, "done", r)
               /\ \A t \in saves' : (t \in saves /\ t # s) \/ (t = n /\ s.by # "ghost")
  BY <1>1, <1>2, Settled
<1>4. SaveGood(s) /\ OwnerGood(s)
  BY DEF DurabilityInv, SavesGood
<1>5. Backing = "file" => revision = 0 /\ s.by # "ghost" /\ (\A t \in saves : t = s)
                          /\ \A q \in Proc : q = s.proc
  BY DurabilityAssumption, Types DEF DurabilityInv, FileAlone
<1>6. durable \subseteq durable'
  BY <1>1, <1>4, <1>5, Types DEF SaveGood
<1>7. TypeOK'
  <2>1. saves' \subseteq Save
    BY <1>3, Types DEF Outcome
  <2>. QED
    BY <1>1, <1>2, <2>1, Types DEF DurabilityInv, TypeOK
<1>8. ChainsGood'
  BY <1>1, ChainsStay
<1>9. \A q \in Proc : rev[q] <= revision' /\ (Backing = "sql" => rev[q] # revision')
  BY <1>1, <1>5, Types DEF DurabilityInv, ProcsGood, ProcGood
<1>10. ProcsGood'
  BY <1>1, <1>4, <1>5, <1>6, <1>9, Types DEF DurabilityInv, ProcsGood, ProcGood, OwnerGood
<1>11. WaitingUntouched'
  <2>1. \A t \in saves' : \E u \in saves : t.image = u.image
    BY <1>3 DEF Outcome
  <2>. QED
    BY <1>1, <2>1, SameQueues DEF DurabilityInv, WaitingUntouched, Waiting, Untouched
<1>12. SavesGood'
  <2>1. ASSUME NEW t \in saves, t # s PROVE SaveGood(t)' /\ OwnerGood(t)'
    <3>1. Backing = "sql"
      BY <1>5, <2>1, Types
    <3>2. SaveGood(t) /\ OwnerGood(t) /\ t.rev \in Nat /\ t.proc \in Proc
      BY Types DEF DurabilityInv, SavesGood
    <3>3. t.rev <= revision' /\ t.rev # revision'
      BY <1>1, <3>1, <3>2, Types DEF SaveGood
    <3>4. SaveGood(t)'
      BY <1>6, <3>2, <3>3 DEF SaveGood
    <3>5. rev[t.proc]' # revision'
      BY <1>1, <1>9, <3>1, <3>2
    <3>6. OwnerGood(t)'
      BY <1>1, <3>2, <3>5, SameQueues DEF OwnerGood
    <3>. QED
      BY <3>4, <3>6
  <2>2. s.by # "ghost" => SaveGood(n)' /\ OwnerGood(n)'
    <3>1. SaveGood(n)'
      BY <1>1, <1>2, <1>3, Types DEF SaveGood, Outcome
    <3>2. s.proc \in Proc /\ rev'[s.proc] = rev[s.proc]
      BY <1>1, Types
    <3>3. n.proc = s.proc /\ n.by = s.by /\ n.image = s.image /\ n.state = "done"
      BY <1>3 DEF Outcome
    <3>4. OwnerGood(n)'
      BY <1>1, <1>4, <1>9, <3>2, <3>3, SameQueues DEF OwnerGood
    <3>. QED
      BY <3>1, <3>4
  <2>. QED
    BY <1>3, <2>1, <2>2 DEF SavesGood
<1>13. SavesUnique'
  BY <1>3, SettleUnique DEF Outcome
<1>14. FileAlone'
  <2>1. Backing = "file" => \A t \in saves' : t = n /\ n.by # "ghost"
    BY <1>3, <1>5 DEF Outcome
  <2>. QED
    BY <1>1, <1>5, <2>1, SameQueues DEF DurabilityInv, FileAlone
<1>15. ReportedSurvives'
  BY <1>1, <1>6 DEF DurabilityInv, ReportedSurvives, Reported
<1>. QED
  BY <1>6, <1>7, <1>8, <1>10, <1>11, <1>12, <1>13, <1>14, <1>15 DEF DurabilityInv

\* A save that fails, or conflicts.
LEMMA FailedKeeps ==
  ASSUME DurabilityInv, NEW s \in saves, Settle(s, "failed", s.rev),
         UNCHANGED <<storeVars, procVars, answer, seen, boots>>, faults' \in 0..MaxFaults,
         s.state = "done" => Backing = "sql"
  PROVE  DurabilityInv'
<1>1. /\ durable' = durable /\ revision' = revision /\ mode' = mode /\ mem' = mem /\ rev' = rev
      /\ chain' = chain /\ running' = running /\ answer' = answer /\ seen' = seen
      /\ boots' = boots
  BY DEF storeVars, procVars
<1>3. PICK n : /\ Outcome(s, n, "failed", s.rev)
               /\ \A t \in saves' : (t \in saves /\ t # s) \/ (t = n /\ s.by # "ghost")
  BY Types, Settled
<1>4. SaveGood(s) /\ OwnerGood(s)
  BY DEF DurabilityInv, SavesGood
<1>5. TypeOK'
  <2>1. saves' \subseteq Save
    BY <1>3, Types DEF Outcome
  <2>. QED
    BY <1>1, <2>1 DEF DurabilityInv, TypeOK
<1>6. ChainsGood'
  BY <1>1, ChainsStay
<1>7. ProcsGood'
  BY <1>1 DEF DurabilityInv, ProcsGood, ProcGood
<1>8. WaitingUntouched'
  <2>1. \A t \in saves' : \E u \in saves : t.image = u.image
    BY <1>3 DEF Outcome
  <2>. QED
    BY <1>1, <2>1, WaitingStays
<1>9. SavesGood'
  <2>1. ASSUME NEW t \in saves PROVE SaveGood(t)' /\ OwnerGood(t)'
    BY <1>1, SameQueues, Types DEF DurabilityInv, SavesGood, SaveGood, OwnerGood
  <2>2. SaveGood(n)' /\ OwnerGood(n)'
    BY <1>1, <1>3, <1>4, SameQueues, Types DEF Outcome, SaveGood, OwnerGood
  <2>. QED
    BY <1>3, <2>1, <2>2 DEF SavesGood
<1>10. SavesUnique'
  BY <1>3, SettleUnique DEF Outcome
<1>11. FileAlone'
  BY <1>1, <1>3, SameQueues DEF DurabilityInv, FileAlone, Outcome
<1>12. ReportedSurvives'
  BY <1>1, ReportedStays
<1>. QED
  BY <1>5, <1>6, <1>7, <1>8, <1>9, <1>10, <1>11, <1>12 DEF DurabilityInv

LEMMA SaveConflictsKeeps ==
  ASSUME DurabilityInv, NEW s \in saves, SaveConflicts(s)
  PROVE  DurabilityInv'
<1>1. faults' \in 0..MaxFaults
  BY DEF SaveConflicts, DurabilityInv, TypeOK
<1>. QED
  BY <1>1, FailedKeeps DEF SaveConflicts

LEMMA SaveFailsKeeps ==
  ASSUME DurabilityInv, NEW s \in saves, SaveFails(s)
  PROVE  DurabilityInv'
<1>1. faults' \in 0..MaxFaults
  BY DurabilityAssumption DEF SaveFails, DurabilityInv, TypeOK
<1>. QED
  BY <1>1, FailedKeeps DEF SaveFails

-----------------------------------------------------------------------------
(* The transactions. *)

\* The open transaction of p and its save, once settled.
LEMMA OpenTransaction ==
  ASSUME DurabilityInv, NEW p \in Proc, NEW s \in SavesOf(p, "mutate"), NEW o \in running[p]
  PROVE  /\ s \in saves /\ s.proc = p /\ s.by = "mutate" /\ SaveGood(s) /\ OwnerGood(s)
         /\ running[p] = {o} /\ mode[p] # "down" /\ s.image = mem[p] /\ o \in Op
         /\ \A q \in Proc : o \notin Queued(q) /\ (q # p => o \notin running[q])
         /\ \A t \in saves : t # s /\ t.proc = p => t.by # "mutate"
<1>1. s \in saves /\ s.proc = p /\ s.by = "mutate" /\ SaveGood(s) /\ OwnerGood(s)
  BY DEF SavesOf, DurabilityInv, SavesGood
<1>2. running[p] = {o} /\ mode[p] # "down" /\ s.image = mem[p] /\ o \in Op
  BY <1>1, Types DEF OwnerGood, DurabilityInv, ProcsGood, ProcGood
<1>3. \A q \in Proc : o \notin Queued(q) /\ (q # p => o \notin running[q])
  BY <1>2, Types DEF DurabilityInv, ChainsGood, ChainGood
<1>4. \A t \in saves : t # s /\ t.proc = p => t.by # "mutate"
  BY <1>1 DEF DurabilityInv, SavesUnique
<1>. QED
  BY <1>1, <1>2, <1>3, <1>4

\* The answer is given and nothing is running any more.
LEMMA AnsweredChains ==
  ASSUME DurabilityInv, NEW p \in Proc, NEW o \in Op, running[p] = {o}, NEW a,
         chain' = chain, mode' = mode,
         running' = [running EXCEPT ![p] = {}], answer' = [answer EXCEPT ![o] = a],
         \A q \in Proc : o \notin Queued(q) /\ (q # p => o \notin running[q])
  PROVE  ChainsGood'
<1>1. /\ running'[p] = {} /\ \A q \in Proc \ {p} : running'[q] = running[q]
      /\ \A x \in Op \ {o} : answer'[x] = answer[x]
  BY DEF DurabilityInv, TypeOK
<1>2. \A q \in Proc : Queued(q) \subseteq Op \cup {FLUSH}
  BY Types DEF Queued
<1>3. ASSUME NEW q \in Proc PROVE ChainGood(q)'
  <2>1. ChainGood(q)
    BY DEF DurabilityInv, ChainsGood
  <2>2. \A x \in running'[q] : x \in running[q] /\ x # o /\ x \in Op
    BY <1>1, Types
  <2>3. \A x \in Queued(q) \ {FLUSH} : x # o /\ x \in Op
    BY <1>2
  <2>4. \A x \in Op, y \in Proc : x \in running'[y] => x \in running[y]
    BY <1>1
  <2>. QED
    BY <1>1, <2>1, <2>2, <2>3, <2>4, SameQueues DEF ChainGood
<1>. QED
  BY <1>3 DEF ChainsGood

LEMMA MutateReturnsKeeps ==
  ASSUME DurabilityInv, NEW p \in Proc, MutateReturns(p)
  PROVE  DurabilityInv'
<1>1. PICK s \in SavesOf(p, "mutate"), o \in running[p] :
        /\ s.state = "done"
        /\ saves' = saves \ {s}
        /\ rev' = [rev EXCEPT ![p] = s.rev]
        /\ running' = [running EXCEPT ![p] = {}]
        /\ answer' = [answer EXCEPT ![o] = IF o \in Throws THEN "error" ELSE "ok"]
        /\ UNCHANGED <<storeVars, mode, mem, chain, seen, faults, boots>>
  BY DEF MutateReturns
<1>2. /\ s \in saves /\ s.proc = p /\ s.by = "mutate" /\ SaveGood(s) /\ OwnerGood(s)
      /\ running[p] = {o} /\ mode[p] # "down" /\ s.image = mem[p] /\ o \in Op
      /\ \A q \in Proc : o \notin Queued(q) /\ (q # p => o \notin running[q])
      /\ \A t \in saves : t # s /\ t.proc = p => t.by # "mutate"
  BY OpenTransaction
<1>3. /\ durable' = durable /\ revision' = revision /\ mode' = mode /\ mem' = mem
      /\ chain' = chain /\ seen' = seen /\ faults' = faults /\ boots' = boots
  BY <1>1 DEF storeVars
<1>4. /\ rev'[p] = s.rev /\ running'[p] = {} /\ answer'[o] \in {"ok", "error"}
      /\ \A q \in Proc \ {p} : rev'[q] = rev[q] /\ running'[q] = running[q]
      /\ \A x \in Op \ {o} : answer'[x] = answer[x]
  BY <1>1, <1>2 DEF DurabilityInv, TypeOK
<1>5. mem[p] \subseteq durable /\ o \in durable
  BY <1>1, <1>2 DEF SaveGood, DurabilityInv, ProcsGood, ProcGood
<1>6. TypeOK'
  BY <1>1, <1>2, <1>3, Types DEF DurabilityInv, TypeOK
<1>7. ChainsGood'
  BY <1>1, <1>2, <1>3, AnsweredChains
<1>8. ProcsGood'
  <2>1. ProcGood(p)'
    BY <1>1, <1>2, <1>3, <1>4, <1>5 DEF SaveGood, ProcGood
  <2>2. \A q \in Proc \ {p} : ProcGood(q)'
    BY <1>3, <1>4 DEF DurabilityInv, ProcsGood, ProcGood
  <2>. QED
    BY <2>1, <2>2 DEF ProcsGood
<1>9. WaitingUntouched'
  BY <1>1, <1>2, <1>3, <1>4, SameQueues DEF DurabilityInv, WaitingUntouched, Waiting, Untouched
<1>10. SavesGood'
  <2>1. ASSUME NEW t \in saves, t # s PROVE SaveGood(t)' /\ OwnerGood(t)'
    BY <1>2, <1>3, <1>4, <2>1, SameQueues, Types DEF DurabilityInv, SavesGood, SaveGood, OwnerGood
  <2>. QED
    BY <1>1, <2>1 DEF SavesGood
<1>11. SavesUnique'
  BY <1>1 DEF DurabilityInv, SavesUnique
<1>12. FileAlone'
  BY <1>1, <1>3, <1>4, SameQueues DEF DurabilityInv, FileAlone
<1>13. ReportedSurvives'
  BY <1>3, <1>4, <1>5 DEF DurabilityInv, ReportedSurvives, Reported
<1>. QED
  BY <1>6, <1>7, <1>8, <1>9, <1>10, <1>11, <1>12, <1>13 DEF DurabilityInv

LEMMA MutateRollsBackKeeps ==
  ASSUME DurabilityInv, NEW p \in Proc, MutateRollsBack(p)
  PROVE  DurabilityInv'
<1>1. PICK s \in SavesOf(p, "mutate"), o \in running[p] :
        /\ s.state = "failed"
        /\ mem' = [mem EXCEPT ![p] = @ \ {o}]
        /\ saves' = saves \ {s}
        /\ running' = [running EXCEPT ![p] = {}]
        /\ answer' = [answer EXCEPT ![o] = "failed"]
        /\ UNCHANGED <<storeVars, mode, rev, chain, seen, faults, boots>>
  BY DEF MutateRollsBack
<1>2. /\ s \in saves /\ s.proc = p /\ s.by = "mutate" /\ SaveGood(s) /\ OwnerGood(s)
      /\ running[p] = {o} /\ mode[p] # "down" /\ s.image = mem[p] /\ o \in Op
      /\ \A q \in Proc : o \notin Queued(q) /\ (q # p => o \notin running[q])
      /\ \A t \in saves : t # s /\ t.proc = p => t.by # "mutate"
  BY OpenTransaction
<1>3. /\ durable' = durable /\ revision' = revision /\ mode' = mode /\ rev' = rev
      /\ chain' = chain /\ seen' = seen /\ faults' = faults /\ boots' = boots
  BY <1>1 DEF storeVars
<1>4. /\ mem'[p] = mem[p] \ {o} /\ running'[p] = {} /\ answer'[o] = "failed"
      /\ \A q \in Proc \ {p} : mem'[q] = mem[q] /\ running'[q] = running[q]
      /\ \A x \in Op \ {o} : answer'[x] = answer[x]
  BY <1>1, <1>2 DEF DurabilityInv, TypeOK
<1>5. rev[p] = revision => o \notin durable
  BY <1>1, <1>2 DEF OwnerGood
<1>6. TypeOK'
  BY <1>1, <1>2, <1>3, Types DEF DurabilityInv, TypeOK
<1>7. ChainsGood'
  BY <1>1, <1>2, <1>3, AnsweredChains
<1>8. ProcsGood'
  <2>1. ProcGood(p)'
    BY <1>2, <1>3, <1>4, <1>5 DEF DurabilityInv, ProcsGood, ProcGood
  <2>2. \A q \in Proc \ {p} : ProcGood(q)'
    BY <1>3, <1>4 DEF DurabilityInv, ProcsGood, ProcGood
  <2>. QED
    BY <2>1, <2>2 DEF ProcsGood
<1>9. WaitingUntouched'
  BY <1>1, <1>2, <1>3, <1>4, SameQueues DEF DurabilityInv, WaitingUntouched, Waiting, Untouched
<1>10. SavesGood'
  <2>1. ASSUME NEW t \in saves, t # s PROVE SaveGood(t)' /\ OwnerGood(t)'
    BY <1>2, <1>3, <1>4, <2>1, SameQueues, Types DEF DurabilityInv, SavesGood, SaveGood, OwnerGood
  <2>. QED
    BY <1>1, <2>1 DEF SavesGood
<1>11. SavesUnique'
  BY <1>1 DEF DurabilityInv, SavesUnique
<1>12. FileAlone'
  BY <1>1, <1>3, <1>4, SameQueues DEF DurabilityInv, FileAlone
<1>13. ReportedSurvives'
  BY <1>3, <1>4, ReportedStays
<1>. QED
  BY <1>6, <1>7, <1>8, <1>9, <1>10, <1>11, <1>12, <1>13 DEF DurabilityInv

\* An operation, or the flush, leaves the head of the chain.
LEMMA HeadLeaves ==
  ASSUME DurabilityInv, NEW p \in Proc, chain[p] # << >>, chain' = [chain EXCEPT ![p] = Tail(@)]
  PROVE  /\ chain' \in [Proc -> Seq(Op \cup {FLUSH})]
         /\ Head(chain[p]) \in Queued(p) /\ Head(chain[p]) \in Op \cup {FLUSH}
         /\ Queued(p)' = Queued(p) \ {Head(chain[p])} /\ Injective(chain[p])'
         /\ \A q \in Proc \ {p} : Queued(q)' = Queued(q) /\ chain'[q] = chain[q]
<1>1. chain[p] \in Seq(Op \cup {FLUSH}) /\ Injective(chain[p])
  BY Types DEF DurabilityInv, ChainsGood, ChainGood
<1>2. /\ chain'[p] = Tail(chain[p]) /\ \A q \in Proc \ {p} : chain'[q] = chain[q]
      /\ chain' = [chain EXCEPT ![p] = Tail(chain[p])]
  BY DEF DurabilityInv, TypeOK
<1>3. /\ Tail(chain[p]) \in Seq(Op \cup {FLUSH}) /\ Head(chain[p]) \in Op \cup {FLUSH}
      /\ Head(chain[p]) \in Elements(chain[p]) /\ Injective(Tail(chain[p]))
      /\ Elements(Tail(chain[p])) = Elements(chain[p]) \ {Head(chain[p])}
  BY <1>1, TailKeeps
<1>4. chain' \in [Proc -> Seq(Op \cup {FLUSH})]
  BY <1>2, <1>3 DEF DurabilityInv, TypeOK
<1>5. Queued(p) = Elements(chain[p]) /\ Queued(p)' = Elements(Tail(chain[p]))
  BY <1>2 DEF Queued, Elements
<1>6. Injective(chain[p])'
  BY <1>2, <1>3 DEF Injective
<1>7. \A q \in Proc \ {p} : Queued(q)' = Queued(q)
  BY <1>2 DEF Queued
<1>. QED
  BY <1>2, <1>3, <1>4, <1>5, <1>6, <1>7

\* One more save of p, which had none of its kind.
LEMMA OneMoreSave ==
  ASSUME DurabilityInv, NEW n, saves' = saves \cup {n}, n.by # "ghost",
         \A t \in saves : ~(t.by = n.by /\ t.proc = n.proc)
  PROVE  SavesUnique'
  BY DEF DurabilityInv, SavesUnique

LEMMA BeginKeeps ==
  ASSUME DurabilityInv, NEW p \in Proc, Begin(p)
  PROVE  DurabilityInv'
<1>0. PICK o, n :
        /\ o = Head(chain[p])
        /\ n = [proc |-> p, by |-> "mutate", image |-> mem[p] \cup {o}, rev |-> rev[p],
                state |-> IF Backing = "sql" /\ mode[p] = "stopping" THEN "failed" ELSE "sent"]
  OBVIOUS
<1>1. /\ durable' = durable /\ revision' = revision /\ mode' = mode /\ rev' = rev
      /\ answer' = answer /\ seen' = seen /\ faults' = faults /\ boots' = boots
      /\ chain[p] # << >> /\ o # FLUSH /\ running[p] = {}
      /\ running' = [running EXCEPT ![p] = {o}]
      /\ chain' = [chain EXCEPT ![p] = Tail(@)]
      /\ mem' = [mem EXCEPT ![p] = @ \cup {o}]
      /\ saves' = saves \cup {n}
  BY <1>0 DEF Begin, storeVars
<1>2. /\ chain' \in [Proc -> Seq(Op \cup {FLUSH})]
      /\ o \in Queued(p) /\ o \in Op
      /\ Queued(p)' = Queued(p) \ {o} /\ Injective(chain[p])'
      /\ \A q \in Proc \ {p} : Queued(q)' = Queued(q) /\ chain'[q] = chain[q]
  BY <1>0, <1>1, HeadLeaves
<1>3. n \in Save /\ n.proc = p /\ n.by = "mutate" /\ n.image = mem[p] \cup {o} /\ n.rev = rev[p]
      /\ n.state \in {"sent", "failed"}
  BY <1>0, <1>2, Types DEF Save
<1>4. /\ mem'[p] = mem[p] \cup {o} /\ running'[p] = {o}
      /\ \A q \in Proc \ {p} : mem'[q] = mem[q] /\ running'[q] = running[q]
  BY <1>1 DEF DurabilityInv, TypeOK
<1>5. /\ answer[o] = "called"
      /\ \A q \in Proc : o \notin running[q] /\ (o \in Queued(q) => q = p)
  BY <1>1, <1>2 DEF DurabilityInv, ChainsGood, ChainGood
<1>6. Untouched(o)
  BY <1>2 DEF DurabilityInv, WaitingUntouched, Waiting
<1>7. mode[p] # "down"
  BY <1>1 DEF DurabilityInv, ProcsGood, ProcGood
<1>8. TypeOK'
  BY <1>1, <1>2, <1>3 DEF DurabilityInv, TypeOK
<1>9. ChainsGood'
  <2>1. ASSUME NEW q \in Proc PROVE ChainGood(q)'
    <3>1. ChainGood(q) /\ Injective(chain[q])'
      BY <1>2 DEF DurabilityInv, ChainsGood, ChainGood, Injective
    <3>2. \A x, y : y \in Proc /\ x \in Queued(y)' => x # o /\ x \in Queued(y)
      BY <1>2, <1>5
    <3>3. \A x, y : y \in Proc /\ x \in running'[y] => x \in running[y] \/ (x = o /\ y = p)
      BY <1>1, <1>4
    <3>. QED
      BY <1>1, <1>5, <3>1, <3>2, <3>3 DEF ChainGood
  <2>. QED
    BY <2>1 DEF ChainsGood
<1>10. ProcsGood'
  <2>1. ProcGood(p)'
    BY <1>1, <1>2, <1>4, <1>7 DEF DurabilityInv, ProcsGood, ProcGood
  <2>2. \A q \in Proc \ {p} : ProcGood(q)'
    BY <1>1, <1>2, <1>4 DEF DurabilityInv, ProcsGood, ProcGood
  <2>. QED
    BY <2>1, <2>2 DEF ProcsGood
<1>11. WaitingUntouched'
  <2>1. ASSUME NEW x \in Op, Waiting(x)' PROVE x # o /\ Waiting(x)
    BY <1>1, <1>2, <1>5, <2>1 DEF Waiting
  <2>2. ASSUME NEW x \in Op, x # o, Untouched(x) PROVE Untouched(x)'
    BY <1>1, <1>3, <1>4, <2>2 DEF Untouched
  <2>. QED
    BY <2>1, <2>2 DEF DurabilityInv, WaitingUntouched
<1>12. SavesGood'
  <2>1. ASSUME NEW t \in saves PROVE SaveGood(t)' /\ OwnerGood(t)'
    <3>1. /\ SaveGood(t) /\ OwnerGood(t) /\ t.proc \in Proc /\ o \notin t.image
      BY <1>6, Types DEF DurabilityInv, SavesGood, Untouched
    <3>2. SaveGood(t)'
      BY <1>1, <3>1 DEF SaveGood
    <3>3. CASE t.proc = p
      <4>1. t.by # "mutate"
        BY <1>1, <3>1, <3>3 DEF OwnerGood
      <4>2. t.by # "ghost" => mode'[p] # "down" /\ t.image \subseteq mem'[p]
        BY <1>1, <1>4, <3>1, <3>3 DEF OwnerGood
      <4>3. t.by = "flush" => /\ mode'[p] = "flushing" /\ FLUSH \notin Queued(p)'
                              /\ t.image \cap running'[p] = {}
        BY <1>1, <1>2, <1>4, <3>1, <3>3 DEF OwnerGood
      <4>. QED
        BY <3>2, <3>3, <4>1, <4>2, <4>3 DEF OwnerGood
    <3>4. CASE t.proc # p
      <4>1. t.proc \in Proc \ {p}
        BY <3>1, <3>4
      <4>2. /\ mode'[t.proc] = mode[t.proc] /\ mem'[t.proc] = mem[t.proc] /\ rev'[t.proc] = rev[t.proc]
            /\ running'[t.proc] = running[t.proc] /\ Queued(t.proc)' = Queued(t.proc)
        BY <1>1, <1>2, <1>4, <4>1
      <4>. QED
        BY <1>1, <3>1, <3>2, <4>2, OwnerStays
    <3>. QED
      BY <3>2, <3>3, <3>4
  <2>2. ProcGood(p)
    BY DEF DurabilityInv, ProcsGood
  <2>3. SaveGood(n)'
    BY <1>1, <1>3, <1>7, <2>2 DEF ProcGood, SaveGood
  <2>4. OwnerGood(n)'
    <3>1. mode'[n.proc] # "down" /\ n.image = mem'[n.proc] /\ running'[n.proc] = {o}
      BY <1>1, <1>3, <1>4, <1>7
    <3>2. durable' \cap {o} = {}
      BY <1>1, <1>6 DEF Untouched
    <3>. QED
      BY <1>3, <3>1, <3>2 DEF OwnerGood
  <2>. QED
    BY <1>1, <2>1, <2>3, <2>4 DEF SavesGood
<1>13. \A t \in saves : ~(t.by = "mutate" /\ t.proc = p)
  BY <1>1 DEF DurabilityInv, SavesGood, OwnerGood
<1>14. SavesUnique'
  BY <1>1, <1>3, <1>13, OneMoreSave
<1>15. FileAlone'
  <2>. SUFFICES ASSUME Backing = "file" PROVE FileAlone'
    BY DEF FileAlone
  <2>1. mode[p] \notin {"flushing", "stopping", "lingering"} /\ \A q \in Proc : q = p
    BY <1>1, <1>2, DurabilityAssumption, Types DEF DurabilityInv, FileAlone
  <2>2. saves = {}
    BY <1>13, <2>1, Types DEF DurabilityInv, FileAlone, SavesGood, OwnerGood
  <2>. QED
    BY <1>1, <1>3, <2>1, <2>2 DEF DurabilityInv, FileAlone
<1>16. ReportedSurvives'
  BY <1>1, ReportedStays
<1>. QED
  BY <1>8, <1>9, <1>10, <1>11, <1>12, <1>14, <1>15, <1>16 DEF DurabilityInv

LEMMA ReadKeeps ==
  ASSUME DurabilityInv, NEW p \in Proc, Read(p)
  PROVE  DurabilityInv'
<1>1. /\ durable' = durable /\ revision' = revision /\ mode' = mode /\ mem' = mem /\ rev' = rev
      /\ chain' = chain /\ running' = running /\ saves' = saves /\ answer' = answer
      /\ faults' = faults /\ boots' = boots /\ seen' = seen \cup mem[p]
  BY DEF Read, storeVars, procVars
<1>2. mem[p] \subseteq durable /\ mem[p] \subseteq Op
  BY Types DEF Read, DurabilityInv, ProcsGood, ProcGood
<1>3. TypeOK'
  BY <1>1, <1>2 DEF DurabilityInv, TypeOK
<1>4. ChainsGood' /\ WaitingUntouched'
  BY <1>1, ChainsStay, WaitingStays
<1>5. ProcsGood' /\ SavesUnique'
  BY <1>1 DEF DurabilityInv, ProcsGood, ProcGood, SavesUnique
<1>6. SavesGood' /\ FileAlone'
  BY <1>1, SameQueues, Types DEF DurabilityInv, SavesGood, SaveGood, OwnerGood, FileAlone
<1>7. ReportedSurvives'
  BY <1>1, <1>2 DEF DurabilityInv, ReportedSurvives, Reported
<1>. QED
  BY <1>3, <1>4, <1>5, <1>6, <1>7 DEF DurabilityInv

-----------------------------------------------------------------------------
(* The shutdown and the crash. *)

BecomesMode(p, m) ==
  /\ mode' = [mode EXCEPT ![p] = m]
  /\ UNCHANGED <<storeVars, mem, rev, chain, running, saves, answer, seen, faults, boots>>

\* Only the mode of p changes, to one that no save of p and no FLUSH forbids.
LEMMA ModeKeeps ==
  ASSUME DurabilityInv, OrderedSaves, NEW p \in Proc,
         NEW m \in {"down", "up", "closing", "flushing", "stopping", "lingering"},
         BecomesMode(p, m), mode[p] # "down", FLUSH \notin Queued(p),
         \A s \in saves : s.proc = p => s.by # "flush" /\ (m = "down" => s.by # "mutate"),
         m = "down" => chain[p] = << >> /\ running[p] = {},
         m \in {"flushing", "stopping", "lingering"} => mode[p] \in {"flushing", "stopping", "lingering"}
  PROVE  DurabilityInv'
<1>1. /\ durable' = durable /\ revision' = revision /\ mem' = mem /\ rev' = rev
      /\ chain' = chain /\ running' = running /\ saves' = saves /\ answer' = answer
      /\ faults' = faults /\ boots' = boots /\ seen' = seen
  BY DEF BecomesMode, storeVars
<1>2. mode'[p] = m /\ \A q \in Proc \ {p} : mode'[q] = mode[q]
  BY DEF BecomesMode, DurabilityInv, TypeOK
<1>3. TypeOK'
  BY <1>1 DEF BecomesMode, DurabilityInv, TypeOK
<1>4. ChainsGood' /\ WaitingUntouched'
  BY <1>1, <1>2, ChainsStay, WaitingStays
<1>5. ProcsGood' /\ SavesUnique'
  BY <1>1, <1>2 DEF DurabilityInv, ProcsGood, ProcGood, SavesUnique
<1>6. SavesGood'
  BY <1>1, <1>2, SameQueues, Types DEF DurabilityInv, SavesGood, SaveGood, OwnerGood
<1>7. FileAlone'
  BY <1>1, <1>2, SameQueues DEF DurabilityInv, FileAlone
<1>8. ReportedSurvives'
  BY <1>1, ReportedStays
<1>. QED
  BY <1>3, <1>4, <1>5, <1>6, <1>7, <1>8 DEF DurabilityInv

LEMMA CloseKeeps ==
  ASSUME DurabilityInv, OrderedSaves, NEW p \in Proc, Close(p)
  PROVE  DurabilityInv'
<1>0. PICK m \in {"down", "up", "closing", "flushing", "stopping", "lingering"} : m = "closing"
  OBVIOUS
<1>1. FLUSH \notin Queued(p) /\ \A s \in saves : s.proc = p => s.by # "flush"
  BY DEF Close, DurabilityInv, ChainsGood, ChainGood, SavesGood, OwnerGood
<1>2. /\ mode[p] = "up" /\ BecomesMode(p, m)
  BY <1>0 DEF Close, BecomesMode
<1>3. /\ mode[p] # "down" /\ m # "down" /\ m \notin {"flushing", "stopping", "lingering"}
  BY <1>0, <1>2
<1>. QED
  BY <1>1, <1>2, <1>3, ModeKeeps

LEMMA ExitKeeps ==
  ASSUME DurabilityInv, OrderedSaves, NEW p \in Proc, Exit(p)
  PROVE  DurabilityInv'
<1>0. PICK m \in {"down", "up", "closing", "flushing", "stopping", "lingering"} : m = "down"
  OBVIOUS
<1>1. FLUSH \notin Queued(p) /\ \A s \in saves : s.proc = p => s.by # "flush" /\ s.by # "mutate"
  BY DEF Exit, DurabilityInv, ChainsGood, ChainGood, SavesGood, OwnerGood
<1>2. /\ mode[p] \in {"stopping", "lingering"} /\ BecomesMode(p, m)
      /\ chain[p] = << >> /\ running[p] = {}
  BY <1>0 DEF Exit, BecomesMode
<1>3. mode[p] # "down" /\ m \notin {"flushing", "stopping", "lingering"}
  BY <1>0, <1>2
<1>. QED
  BY <1>1, <1>2, <1>3, ModeKeeps

LEMMA FlushKeeps ==
  ASSUME DurabilityInv, OrderedSaves, NEW p \in Proc, Flush(p)
  PROVE  DurabilityInv'
<1>1. /\ durable' = durable /\ revision' = revision /\ mem' = mem /\ rev' = rev
      /\ running' = running /\ saves' = saves /\ answer' = answer
      /\ faults' = faults /\ boots' = boots /\ seen' = seen /\ mode[p] = "closing"
      /\ Queued(p) \cup running[p] \subseteq Detached
  BY DEF Flush, storeVars
<1>2. FLUSH \notin Queued(p) /\ \A s \in saves : s.proc = p => s.by # "flush"
  BY <1>1 DEF DurabilityInv, ChainsGood, ChainGood, SavesGood, OwnerGood
<1>3. /\ Append(chain[p], FLUSH) \in Seq(Op \cup {FLUSH}) /\ Injective(Append(chain[p], FLUSH))
      /\ Elements(Append(chain[p], FLUSH)) = Elements(chain[p]) \cup {FLUSH}
  BY <1>2, Types, QueuedIsElements, AppendKeeps DEF DurabilityInv, ChainsGood, ChainGood
<1>4. /\ chain'[p] = Append(chain[p], FLUSH) /\ \A q \in Proc \ {p} : chain'[q] = chain[q]
      /\ mode'[p] = "flushing" /\ \A q \in Proc \ {p} : mode'[q] = mode[q]
  BY DEF Flush, DurabilityInv, TypeOK
<1>5. /\ Queued(p)' = Queued(p) \cup {FLUSH} /\ Injective(chain[p])'
      /\ \A q \in Proc \ {p} : Queued(q)' = Queued(q)
  BY <1>3, <1>4 DEF Queued, Elements
<1>6. TypeOK'
  BY <1>3 DEF DurabilityInv, TypeOK, Flush, storeVars
<1>7. ChainsGood'
  <2>1. ASSUME NEW q \in Proc PROVE ChainGood(q)'
    <3>0. ChainGood(q)
      BY DEF DurabilityInv, ChainsGood
    <3>1. ChainGood(q) /\ Injective(chain[q])'
      <4>1. CASE q = p
        BY <1>5, <3>0, <4>1
      <4>2. CASE q # p
        BY <1>4, <3>0, <4>2 DEF ChainGood, Injective
      <4>. QED
        BY <4>1, <4>2
    <3>2. \A x, y : y \in Proc /\ x # FLUSH /\ x \in Queued(y)' => x \in Queued(y)
      BY <1>5
    <3>3. (FLUSH \in Queued(q))' => mode'[q] = "flushing"
      BY <1>4, <1>5, <3>1 DEF ChainGood
    <3>. QED
      BY <1>1, <3>1, <3>2, <3>3 DEF ChainGood
  <2>. QED
    BY <2>1 DEF ChainsGood
<1>8. ProcsGood'
  BY <1>1, <1>4 DEF DurabilityInv, ProcsGood, ProcGood
<1>9. WaitingUntouched'
  <2>1. ASSUME NEW x \in Op, Waiting(x)' PROVE Waiting(x)
    BY <1>1, <1>5, <2>1, Types DEF Waiting
  <2>. QED
    BY <1>1, <2>1 DEF DurabilityInv, WaitingUntouched, Untouched
<1>10. SavesGood' /\ SavesUnique'
  BY <1>1, <1>2, <1>4, <1>5, Types DEF DurabilityInv, SavesGood, SaveGood, OwnerGood, SavesUnique
<1>11. FileAlone'
  BY <1>1, <1>4, <1>5, DurabilityAssumption, Types DEF DurabilityInv, FileAlone, OrderedSaves
<1>12. ReportedSurvives'
  BY <1>1, ReportedStays
<1>. QED
  BY <1>6, <1>7, <1>8, <1>9, <1>10, <1>11, <1>12 DEF DurabilityInv

LEMMA FlushBeginsKeeps ==
  ASSUME DurabilityInv, NEW p \in Proc, FlushBegins(p)
  PROVE  DurabilityInv'
<1>0. PICK n : n = [proc |-> p, by |-> "flush", image |-> mem[p], rev |-> rev[p], state |-> "sent"]
  OBVIOUS
<1>1. /\ durable' = durable /\ revision' = revision /\ mem' = mem /\ rev' = rev /\ mode' = mode
      /\ running' = running /\ answer' = answer
      /\ faults' = faults /\ boots' = boots /\ seen' = seen
      /\ chain[p] # << >> /\ Head(chain[p]) = FLUSH /\ running[p] = {}
      /\ chain' = [chain EXCEPT ![p] = Tail(@)]
      /\ saves' = saves \cup {n}
  BY <1>0 DEF FlushBegins, storeVars
<1>2. /\ chain' \in [Proc -> Seq(Op \cup {FLUSH})] /\ FLUSH \in Queued(p)
      /\ Queued(p)' = Queued(p) \ {FLUSH} /\ Injective(chain[p])'
      /\ \A q \in Proc \ {p} : Queued(q)' = Queued(q) /\ chain'[q] = chain[q]
  BY <1>1, HeadLeaves
<1>3. /\ n \in Save /\ n.proc = p /\ n.by = "flush" /\ n.image = mem[p] /\ n.rev = rev[p]
      /\ n.state = "sent"
  BY <1>0, Types DEF Save
<1>4. mode[p] = "flushing"
  BY <1>2 DEF DurabilityInv, ChainsGood, ChainGood
<1>5. \A t \in saves : t.proc = p => t.by = "ghost"
  BY <1>1, <1>2, Types DEF DurabilityInv, SavesGood, OwnerGood
<1>6. TypeOK'
  BY <1>1, <1>2, <1>3 DEF DurabilityInv, TypeOK
<1>7. ChainsGood'
  <2>1. ASSUME NEW q \in Proc PROVE ChainGood(q)'
    <3>1. ChainGood(q) /\ Injective(chain[q])'
      BY <1>2 DEF DurabilityInv, ChainsGood, ChainGood, Injective
    <3>2. \A x, y : y \in Proc /\ x \in Queued(y)' => x \in Queued(y)
      BY <1>2
    <3>. QED
      BY <1>1, <3>1, <3>2 DEF ChainGood
  <2>. QED
    BY <2>1 DEF ChainsGood
<1>8. ProcsGood'
  BY <1>1, <1>2, <1>4 DEF DurabilityInv, ProcsGood, ProcGood
<1>9. WaitingUntouched'
  <2>1. ASSUME NEW x \in Op, Waiting(x)' PROVE Waiting(x)
    BY <1>1, <1>2, <2>1 DEF Waiting
  <2>. QED
    BY <1>1, <1>3, <2>1 DEF DurabilityInv, WaitingUntouched, Untouched
<1>10. SavesGood'
  <2>1. ASSUME NEW t \in saves PROVE SaveGood(t)' /\ OwnerGood(t)'
    BY <1>1, <1>2, <1>5, Types DEF DurabilityInv, SavesGood, SaveGood, OwnerGood
  <2>2. ProcGood(p)
    BY DEF DurabilityInv, ProcsGood
  <2>3. SaveGood(n)'
    BY <1>1, <1>3, <1>4, <2>2 DEF ProcGood, SaveGood
  <2>4. OwnerGood(n)'
    <3>1. /\ mode'[n.proc] = "flushing" /\ n.image = mem'[n.proc] /\ running'[n.proc] = {}
          /\ FLUSH \notin Queued(n.proc)'
      BY <1>1, <1>2, <1>3, <1>4
    <3>. QED
      BY <1>3, <3>1 DEF OwnerGood
  <2>. QED
    BY <1>1, <2>1, <2>3, <2>4 DEF SavesGood
<1>11. SavesUnique'
  BY <1>1, <1>3, <1>5, OneMoreSave
<1>12. FileAlone'
  <2>1. Backing = "file" => saves = {} /\ \A q \in Proc : q = p
    BY <1>5, DurabilityAssumption, Types DEF DurabilityInv, FileAlone
  <2>. QED
    BY <1>1, <1>2, <1>3, <2>1 DEF DurabilityInv, FileAlone
<1>13. ReportedSurvives'
  BY <1>1, ReportedStays
<1>. QED
  BY <1>6, <1>7, <1>8, <1>9, <1>10, <1>11, <1>12, <1>13 DEF DurabilityInv

LEMMA FlushReturnsKeeps ==
  ASSUME DurabilityInv, NEW p \in Proc, FlushReturns(p)
  PROVE  DurabilityInv'
<1>1. PICK s \in SavesOf(p, "flush") :
    /\ saves' = saves \ {s}
    /\ \/ /\ s.state = "done"
          /\ rev' = [rev EXCEPT ![p] = s.rev]
          /\ mode' = [mode EXCEPT ![p] = "stopping"]
       \/ /\ s.state = "failed"
          /\ mode' = [mode EXCEPT ![p] = "lingering"]
          /\ UNCHANGED rev
    /\ UNCHANGED <<storeVars, mem, chain, running, answer, seen, faults, boots>>
  BY DEF FlushReturns
<1>2. /\ s \in saves /\ s.proc = p /\ s.by = "flush" /\ SaveGood(s) /\ OwnerGood(s)
  BY DEF SavesOf, DurabilityInv, SavesGood
<1>3. /\ durable' = durable /\ revision' = revision /\ mem' = mem
      /\ running' = running /\ chain' = chain /\ seen' = seen /\ faults' = faults
      /\ boots' = boots /\ answer' = answer
  BY <1>1 DEF storeVars
<1>4. /\ mode'[p] \in {"stopping", "lingering"} /\ mode[p] = "flushing"
      /\ rev'[p] = rev[p] \/ (rev'[p] = s.rev /\ s.state = "done")
      /\ \A q \in Proc \ {p} : rev'[q] = rev[q] /\ mode'[q] = mode[q]
  BY <1>1, <1>2 DEF DurabilityInv, TypeOK, OwnerGood
<1>5. FLUSH \notin Queued(p) /\ \A t \in saves : t # s /\ t.proc = p => t.by # "flush"
  BY <1>2 DEF OwnerGood, DurabilityInv, SavesUnique
<1>6. s.image \cap running[p] = {} /\ s.image \subseteq mem[p]
  BY <1>2 DEF OwnerGood
<1>7. TypeOK'
  BY <1>1, <1>2, <1>3, Types DEF DurabilityInv, TypeOK
<1>8. ChainsGood'
  BY <1>3, <1>4, <1>5, ChainsStay
<1>9. ProcsGood'
  <2>1. ProcGood(p)'
    BY <1>2, <1>3, <1>4, <1>6 DEF DurabilityInv, ProcsGood, ProcGood, SaveGood
  <2>2. \A q \in Proc \ {p} : ProcGood(q)'
    BY <1>3, <1>4 DEF DurabilityInv, ProcsGood, ProcGood
  <2>. QED
    BY <2>1, <2>2 DEF ProcsGood
<1>10. WaitingUntouched'
  BY <1>1, <1>3, WaitingStays
<1>11. SavesGood'
  <2>1. ASSUME NEW t \in saves, t # s PROVE SaveGood(t)' /\ OwnerGood(t)'
    <3>1. SaveGood(t) /\ OwnerGood(t) /\ t.proc \in Proc /\ t.by \in {"mutate", "flush", "ghost"}
      BY Types DEF DurabilityInv, SavesGood
    <3>2. SaveGood(t)'
      BY <1>3, <3>1 DEF SaveGood
    <3>3. CASE t.proc # p
      <4>1. t.proc \in Proc \ {p}
        BY <3>1, <3>3
      <4>2. /\ mode'[t.proc] = mode[t.proc] /\ mem'[t.proc] = mem[t.proc] /\ rev'[t.proc] = rev[t.proc]
            /\ running'[t.proc] = running[t.proc] /\ Queued(t.proc)' = Queued(t.proc)
        BY <1>3, <1>4, <4>1, SameQueues
      <4>. QED
        BY <1>3, <3>1, <3>2, <4>2, OwnerStays
    <3>4. CASE t.proc = p
      <4>1. t.by # "flush"
        BY <1>5, <2>1, <3>4
      <4>2. rev'[p] = revision => rev[p] = revision \/ durable \cap running[p] = {}
        BY <1>2, <1>4, <1>6 DEF SaveGood
      <4>3. /\ mode'[p] # "down" /\ mem'[p] = mem[p] /\ running'[p] = running[p]
            /\ durable' = durable /\ revision' = revision
        BY <1>3, <1>4
      <4>4. /\ t.by # "ghost" => t.image \subseteq mem[p]
            /\ t.by = "mutate" =>
                 /\ running[p] # {} /\ t.image = mem[p]
                 /\ (Backing = "sql" \/ t.state # "done") /\ rev[p] = revision =>
                      durable \cap running[p] = {}
        BY <3>1, <3>4 DEF OwnerGood
      <4>5. t.by = "mutate" =>
              /\ running'[p] # {} /\ t.image = mem'[p]
              /\ (Backing = "sql" \/ t.state # "done") /\ rev'[p] = revision' =>
                   durable' \cap running'[p] = {}
        BY <4>2, <4>3, <4>4
      <4>. QED
        BY <3>2, <3>4, <4>1, <4>3, <4>4, <4>5 DEF OwnerGood
    <3>. QED
      BY <3>2, <3>3, <3>4
  <2>. QED
    BY <1>1, <2>1 DEF SavesGood
<1>12. SavesUnique'
  BY <1>1 DEF DurabilityInv, SavesUnique
<1>13. FileAlone'
  BY <1>1, <1>3, <1>4, SameQueues DEF DurabilityInv, FileAlone
<1>14. ReportedSurvives'
  BY <1>3, ReportedStays
<1>. QED
  BY <1>7, <1>8, <1>9, <1>10, <1>11, <1>12, <1>13, <1>14 DEF DurabilityInv

LEMMA CrashKeeps ==
  ASSUME DurabilityInv, NEW p \in Proc, Crash(p)
  PROVE  DurabilityInv'
<1>1. /\ durable' = durable /\ revision' = revision /\ mem' = mem /\ rev' = rev
      /\ seen' = seen /\ boots' = boots
      /\ mode' = [mode EXCEPT ![p] = "down"]
      /\ chain' = [chain EXCEPT ![p] = << >>] /\ running' = [running EXCEPT ![p] = {}]
      /\ answer' = [o \in Op |-> IF o \in Queued(p) \cup running[p] THEN "lost" ELSE answer[o]]
      /\ faults' = faults + 1 /\ faults < MaxFaults
  BY DEF Crash, storeVars
<1>2. PICK sent \in SUBSET {s \in saves : s.proc = p /\ s.state = "sent" /\ Backing = "sql"} :
       saves' = {s \in saves : s.proc # p \/ s.by = "ghost"}
                  \cup {[s EXCEPT !.by = "ghost"] : s \in sent}
  BY DEF Crash
<1>3. /\ mode'[p] = "down" /\ chain'[p] = << >> /\ running'[p] = {}
      /\ \A q \in Proc \ {p} : mode'[q] = mode[q] /\ chain'[q] = chain[q] /\ running'[q] = running[q]
  BY <1>1 DEF DurabilityInv, TypeOK
<1>4. Queued(p)' = {} /\ \A q \in Proc \ {p} : Queued(q)' = Queued(q)
  BY <1>3 DEF Queued
<1>5. ASSUME NEW t \in saves'
      PROVE  \/ t \in saves /\ (t.proc # p \/ t.by = "ghost")
             \/ \E s \in saves : /\ t \in Save /\ t.by = "ghost" /\ t.image = s.image /\ t.rev = s.rev
                                 /\ t.state = s.state /\ Backing = "sql"
  BY <1>2, <1>5, Types DEF Save
<1>6. TypeOK'
  <2>1. saves' \subseteq Save
    BY <1>5, Types
  <2>2. answer' \in [Op -> {"none", "called", "ok", "error", "failed", "lost"}]
    BY <1>1 DEF DurabilityInv, TypeOK
  <2>3. faults' \in 0..MaxFaults
    BY <1>1, DurabilityAssumption DEF DurabilityInv, TypeOK
  <2>4. chain' \in [Proc -> Seq(Op \cup {FLUSH})] /\ running' \in [Proc -> SUBSET Op]
    BY <1>1 DEF DurabilityInv, TypeOK
  <2>. QED
    BY <1>1, <2>1, <2>2, <2>3, <2>4 DEF DurabilityInv, TypeOK
<1>7. ChainsGood'
  <2>1. ASSUME NEW q \in Proc, q # p PROVE ChainGood(q)'
    <3>1. ChainGood(q) /\ ChainGood(p) /\ Injective(chain[q])'
      BY <1>3, <2>1 DEF DurabilityInv, ChainsGood, ChainGood, Injective
    <3>0. Queued(q) \subseteq Op \cup {FLUSH}
      BY Types DEF Queued
    <3>2. \A x \in Queued(q) \ {FLUSH} : x \in Op /\ x \notin Queued(p) /\ x \notin running[p]
      BY <2>1, <3>0, <3>1 DEF ChainGood
    <3>3. \A x \in running[q] : x \in Op /\ x \notin Queued(p) /\ x \notin running[p] /\ x # FLUSH
      BY <2>1, <3>1, Types DEF ChainGood
    <3>4. \A x, y : y \in Proc /\ x \in Queued(y)' => x \in Queued(y)
      BY <1>4
    <3>5. \A x, y : y \in Proc /\ x \in running'[y] => x \in running[y]
      BY <1>3
    <3>. QED
      BY <1>1, <1>3, <1>4, <2>1, <3>1, <3>2, <3>3, <3>4, <3>5 DEF ChainGood
  <2>2. ChainGood(p)'
    BY <1>3, <1>4, EmptyChain DEF ChainGood, Injective
  <2>. QED
    BY <2>1, <2>2 DEF ChainsGood
<1>8. ProcsGood'
  BY <1>1, <1>3 DEF DurabilityInv, ProcsGood, ProcGood
<1>9. WaitingUntouched'
  <2>1. ASSUME NEW x \in Op, Waiting(x)' PROVE Waiting(x)
    BY <1>1, <1>4, <2>1 DEF Waiting
  <2>2. ASSUME NEW x \in Op, Untouched(x) PROVE Untouched(x)'
    BY <1>1, <1>5, <2>2 DEF Untouched
  <2>. QED
    BY <2>1, <2>2 DEF DurabilityInv, WaitingUntouched
<1>10. SavesGood'
  <2>1. ASSUME NEW t \in saves' PROVE SaveGood(t)' /\ OwnerGood(t)'
    <3>1. CASE t \in saves /\ t.proc # p
      BY <1>1, <1>3, <1>4, <3>1, Types DEF DurabilityInv, SavesGood, SaveGood, OwnerGood
    <3>2. CASE t \in saves /\ t.by = "ghost"
      BY <1>1, <3>2 DEF DurabilityInv, SavesGood, SaveGood, OwnerGood
    <3>3. CASE t \notin saves
      BY <1>1, <1>5, <3>3 DEF DurabilityInv, SavesGood, SaveGood, OwnerGood
    <3>. QED
      BY <1>5, <3>1, <3>2, <3>3
  <2>. QED
    BY <2>1 DEF SavesGood
<1>11. SavesUnique'
  BY <1>5 DEF DurabilityInv, SavesUnique
<1>12. FileAlone'
  BY <1>1, <1>3, <1>4, <1>5, Types DEF DurabilityInv, FileAlone
<1>13. ReportedSurvives'
  BY <1>1, ReportedStays
<1>. QED
  BY <1>6, <1>7, <1>8, <1>9, <1>10, <1>11, <1>12, <1>13 DEF DurabilityInv

LEMMA StutterKeeps ==
  ASSUME DurabilityInv, UNCHANGED vars
  PROVE  DurabilityInv'
<1>1. /\ durable' = durable /\ revision' = revision /\ mode' = mode /\ mem' = mem /\ rev' = rev
      /\ chain' = chain /\ running' = running /\ saves' = saves /\ answer' = answer
      /\ seen' = seen /\ faults' = faults /\ boots' = boots
  BY DEF vars, storeVars, procVars
<1>2. TypeOK'
  BY <1>1 DEF DurabilityInv, TypeOK
<1>3. ChainsGood' /\ WaitingUntouched'
  BY <1>1, ChainsStay, WaitingStays
<1>4. ProcsGood' /\ SavesUnique'
  BY <1>1 DEF DurabilityInv, ProcsGood, ProcGood, SavesUnique
<1>5. SavesGood' /\ FileAlone'
  BY <1>1, SameQueues, Types DEF DurabilityInv, SavesGood, SaveGood, OwnerGood, FileAlone
<1>6. ReportedSurvives'
  BY <1>1, ReportedStays
<1>. QED
  BY <1>2, <1>3, <1>4, <1>5, <1>6 DEF DurabilityInv

LEMMA NextKeeps ==
  ASSUME DurabilityInv, OrderedSaves, [Next]_vars
  PROVE  DurabilityInv'
<1>1. CASE UNCHANGED vars
  BY <1>1, StutterKeeps
<1>2. ASSUME NEW p \in Proc, Boot(p) PROVE DurabilityInv'
  BY <1>2, BootKeeps
<1>3. ASSUME NEW p \in Proc, Close(p) PROVE DurabilityInv'
  BY <1>3, CloseKeeps
<1>4. ASSUME NEW p \in Proc, Crash(p) PROVE DurabilityInv'
  BY <1>4, CrashKeeps
<1>5. ASSUME NEW p \in Proc, Read(p) PROVE DurabilityInv'
  BY <1>5, ReadKeeps
<1>6. ASSUME NEW p \in Proc, ProcStep(p) PROVE DurabilityInv'
  BY <1>6, BeginKeeps, MutateReturnsKeeps, MutateRollsBackKeeps, FlushKeeps, FlushBeginsKeeps,
     FlushReturnsKeeps, ExitKeeps DEF ProcStep
<1>7. ASSUME NEW p \in Proc, NEW o \in Op, Call(p, o) PROVE DurabilityInv'
  BY <1>7, CallKeeps
<1>8. ASSUME StoreStep PROVE DurabilityInv'
  BY <1>8, SaveCommitsKeeps, SaveConflictsKeeps DEF StoreStep
<1>9. ASSUME NEW s \in saves, SaveFails(s) PROVE DurabilityInv'
  BY <1>9, SaveFailsKeeps
<1>. QED
  BY <1>1, <1>2, <1>3, <1>4, <1>5, <1>6, <1>7, <1>8, <1>9 DEF Next

\* Only a commit changes the snapshot.
LEMMA OnlyCommitsChange ==
  ASSUME DurabilityInv, OrderedSaves, [Next]_vars
  PROVE  durable \subseteq durable'
<1>1. CASE \E s \in saves : SaveCommits(s)
  BY <1>1, SaveCommitsKeeps
<1>2. CASE ~ \E s \in saves : SaveCommits(s)
  <2>1. durable' = durable
    BY <1>2 DEF Next, vars, storeVars, Boot, Close, Crash, Read, ProcStep, Begin, MutateReturns,
       MutateRollsBack, Flush, FlushBegins, FlushReturns, Exit, Call, StoreStep, SaveConflicts,
       SaveFails
  <2>. QED
    BY <2>1
<1>. QED
  BY <1>1, <1>2

-----------------------------------------------------------------------------
(* Theorems. *)

(* The inductive invariant of the transaction chain over its store          *)
(* (runtime.ts mutate, the stores' save).                                   *)
THEOREM DurabilityInvariant ==
  ASSUME OrderedSaves
  PROVE  Spec => []DurabilityInv
<1>1. DurabilityInv /\ [Next]_vars => DurabilityInv'
  BY NextKeeps
<1>. QED
  BY <1>1, InitGood, PTL DEF Spec

(* Types: the type invariant of RelayDurability.                            *)
THEOREM DurabilityTypes ==
  ASSUME OrderedSaves
  PROVE  Spec => []TypeOK
<1>1. DurabilityInv => TypeOK
  BY DEF DurabilityInv
<1>. QED
  BY <1>1, DurabilityInvariant, PTL

(* What a caller was told, or a read has shown, is in the stored snapshot   *)
(* (runtime.ts mutate and read).                                            *)
THEOREM ReportedIsDurable ==
  ASSUME OrderedSaves
  PROVE  Spec => []ReportedSurvives
<1>1. DurabilityInv => ReportedSurvives
  BY DEF DurabilityInv
<1>. QED
  BY <1>1, DurabilityInvariant, PTL

(* Between two transactions a process that expects the current revision has *)
(* the stored snapshot in memory, also after a save that failed or whose    *)
(* answer was lost (restoreRelayState in mutate).                           *)
THEOREM MemoryIsSnapshot ==
  ASSUME OrderedSaves
  PROVE  Spec => []SnapshotMatchesMemory
<1>1. DurabilityInv => SnapshotMatchesMemory
  BY DEF DurabilityInv, ProcsGood, ProcGood, SnapshotMatchesMemory
<1>. QED
  BY <1>1, DurabilityInvariant, PTL

(* The stored snapshot never loses an operation, however many processes     *)
(* share it, and whatever statement of a dead one is executed late (the     *)
(* revision check of postgres-storage.ts and mysql-storage.ts).             *)
THEOREM NothingIsTakenBack ==
  ASSUME OrderedSaves
  PROVE  Spec => RowOnlyGrows
<1>1. DurabilityInv /\ [Next]_vars => [durable \subseteq durable']_vars
  BY OnlyCommitsChange
<1>. QED
  BY <1>1, DurabilityInvariant, PTL DEF Spec, RowOnlyGrows
=============================================================================
