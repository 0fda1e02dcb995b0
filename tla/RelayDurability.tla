-------------------------- MODULE RelayDurability --------------------------
(***************************************************************************)
(* How a standalone relay keeps its state durable: the transaction chain   *)
(* of standalone-relay/runtime.ts over the store of storage.ts (one file,  *)
(* replaced by rename) or of postgres-storage.ts / mysql-storage.ts (one   *)
(* row, replaced if its revision is the expected one), with the boot and   *)
(* the shutdown of server.ts.                                              *)
(*                                                                         *)
(* The relay state is the set of operations applied to it.  An operation   *)
(* is one runtime.mutate of an HTTP handler; a detached one is called by a *)
(* handler whose client has disconnected, for which closing the HTTP       *)
(* server does not wait.  Several processes may share a row (a rolling     *)
(* deployment), never a file.                                              *)
(***************************************************************************)
EXTENDS Integers, Sequences, FiniteSets

CONSTANTS
  Proc,        \* relay processes
  Op,          \* runtime.mutate calls, each made once
  Detached,    \* those made by handlers whose client is gone
  Throws,      \* those that throw after changing the state
  FLUSH,       \* the place of runtime.flush in the chain
  Backing,       \* "file" or "sql"
  MaxFaults,   \* TLC bound: crashes, failed saves, lost database answers
  MaxBoots     \* TLC bound: process starts

ASSUME DurabilityAssumption ==
  /\ Detached \subseteq Op /\ Throws \subseteq Op /\ FLUSH \notin Op
  /\ Backing = "sql" \/ (Backing = "file" /\ \E p \in Proc : Proc = {p})
  /\ MaxFaults \in Nat /\ MaxBoots \in Nat

VARIABLES
  durable,    \* operations in the stored snapshot
  revision,   \* revision of the row, 0 while there is none
  mode,       \* process -> "down", "up", "closing", "flushing", "stopping", "lingering"
  mem,        \* process -> operations in its memory
  rev,        \* process -> stateRevision, 0 for null
  chain,      \* process -> operations (and FLUSH) waiting for their turn
  running,    \* process -> the operation whose transaction is open, if any
  saves,      \* store.save calls under way
  answer,     \* operation -> how its mutate promise settled
  seen,       \* operations whose effect a read has shown
  faults, boots

storeVars == <<durable, revision>>
procVars == <<mode, mem, rev, chain, running>>
vars == <<storeVars, procVars, saves, answer, seen, faults, boots>>

Save == [proc : Proc, by : {"mutate", "flush", "ghost"}, image : SUBSET Op, rev : Nat,
         state : {"sent", "done", "failed"}]

\* Types of every variable.
TypeOK ==
  /\ durable \subseteq Op /\ revision \in Nat
  /\ mode \in [Proc -> {"down", "up", "closing", "flushing", "stopping", "lingering"}]
  /\ mem \in [Proc -> SUBSET Op] /\ rev \in [Proc -> Nat]
  /\ chain \in [Proc -> Seq(Op \cup {FLUSH})]
  /\ running \in [Proc -> SUBSET Op]
  /\ saves \subseteq Save
  /\ answer \in [Op -> {"none", "called", "ok", "error", "failed", "lost"}]
  /\ seen \subseteq Op
  /\ faults \in 0..MaxFaults /\ boots \in 0..MaxBoots

Init ==
  /\ durable = {} /\ revision = 0
  /\ mode = [p \in Proc |-> "down"]
  /\ mem = [p \in Proc |-> {}] /\ rev = [p \in Proc |-> 0]
  /\ chain = [p \in Proc |-> << >>] /\ running = [p \in Proc |-> {}]
  /\ saves = {} /\ seen = {}
  /\ answer = [o \in Op |-> "none"]
  /\ faults = 0 /\ boots = 0

Queued(p) == {chain[p][i] : i \in DOMAIN chain[p]}
SavesOf(p, by) == {s \in saves : s.proc = p /\ s.by = by}

\* The outcome of a save reaches its process, if that is still there.
Settle(s, state, r) ==
  saves' = (saves \ {s}) \cup
             (IF s.by = "ghost" THEN {} ELSE {[s EXCEPT !.state = state, !.rev = r]})
-----------------------------------------------------------------------------
\* initialize: the stored snapshot and its revision become the process's own.
Boot(p) ==
  /\ mode[p] = "down" /\ boots < MaxBoots
  /\ mode' = [mode EXCEPT ![p] = "up"]
  /\ mem' = [mem EXCEPT ![p] = durable]
  /\ rev' = [rev EXCEPT ![p] = revision]
  /\ boots' = boots + 1
  /\ UNCHANGED <<storeVars, chain, running, saves, answer, seen, faults>>

\* A handler calls runtime.mutate.  Once the HTTP server is closed only
\* handlers without a client are left.
Call(p, o) ==
  /\ answer[o] = "none"
  /\ mode[p] \in {"up", "closing"} \/ (mode[p] \in {"flushing", "stopping", "lingering"} /\ o \in Detached)
  /\ chain' = [chain EXCEPT ![p] = Append(@, o)]
  /\ answer' = [answer EXCEPT ![o] = "called"]
  /\ UNCHANGED <<storeVars, mode, mem, rev, running, saves, seen, faults, boots>>

\* Mutant: the flush takes its turn like an operation.
BeginFlushToo(p) ==
  /\ chain[p] # << >> /\ running[p] = {}
  /\ LET o == Head(chain[p]) IN
       /\ running' = [running EXCEPT ![p] = {o}]
       /\ chain' = [chain EXCEPT ![p] = Tail(@)]
       /\ mem' = [mem EXCEPT ![p] = @ \cup {o}]
       /\ saves' = saves \cup
            {[proc |-> p, by |-> "mutate", image |-> mem[p] \cup {o}, rev |-> rev[p],
              state |-> "sent"]}
  /\ UNCHANGED <<storeVars, mode, rev, answer, seen, faults, boots>>

\* The head of the chain takes its turn: apply the operation, save the result.
\* After a clean shutdown the connection pool is closed: saves to the row fail.
Begin(p) ==
  /\ chain[p] # << >> /\ Head(chain[p]) # FLUSH /\ running[p] = {}
  /\ LET o == Head(chain[p]) IN
       /\ running' = [running EXCEPT ![p] = {o}]
       /\ chain' = [chain EXCEPT ![p] = Tail(@)]
       /\ mem' = [mem EXCEPT ![p] = @ \cup {o}]
       /\ saves' = saves \cup
            {[proc |-> p, by |-> "mutate", image |-> mem[p] \cup {o}, rev |-> rev[p],
              state |-> IF Backing = "sql" /\ mode[p] = "stopping" THEN "failed" ELSE "sent"]}
  /\ UNCHANGED <<storeVars, mode, rev, answer, seen, faults, boots>>

\* Mutant: the row is replaced whatever its revision.
SaveCommitsBlindly(s) ==
  /\ s \in saves /\ s.state = "sent"
  /\ durable' = s.image
  /\ revision' = IF Backing = "sql" THEN revision + 1 ELSE 0
  /\ Settle(s, "done", revision')
  /\ UNCHANGED <<procVars, answer, seen, faults, boots>>

\* The snapshot replaces the stored one: by rename, or if the row still has the
\* revision the process expects (INSERT ... DO NOTHING while it expects no row).
SaveCommits(s) ==
  /\ s \in saves /\ s.state = "sent"
  /\ Backing = "sql" => s.rev = revision
  /\ durable' = s.image
  /\ revision' = IF Backing = "sql" THEN revision + 1 ELSE 0
  /\ Settle(s, "done", revision')
  /\ UNCHANGED <<procVars, answer, seen, faults, boots>>

\* RelayStateConflictError
SaveConflicts(s) ==
  /\ s \in saves /\ s.state = "sent"
  /\ Backing = "sql" /\ s.rev # revision
  /\ Settle(s, "failed", s.rev)
  /\ UNCHANGED <<storeVars, procVars, answer, seen, faults, boots>>

\* The save fails before its effect or, with a database, the answer is lost after it.
SaveFails(s) ==
  /\ s \in saves /\ faults < MaxFaults
  /\ s.state = "sent" \/ (s.state = "done" /\ Backing = "sql")
  /\ Settle(s, "failed", s.rev)
  /\ faults' = faults + 1
  /\ UNCHANGED <<storeVars, procVars, answer, seen, boots>>

\* The transaction ends well, or rethrows the operation's own error.
MutateReturns(p) ==
  \E s \in SavesOf(p, "mutate") : \E o \in running[p] :
    /\ s.state = "done"
    /\ saves' = saves \ {s}
    /\ rev' = [rev EXCEPT ![p] = s.rev]
    /\ running' = [running EXCEPT ![p] = {}]
    /\ answer' = [answer EXCEPT ![o] = IF o \in Throws THEN "error" ELSE "ok"]
    /\ UNCHANGED <<storeVars, mode, mem, chain, seen, faults, boots>>

\* Mutant: the memory keeps what could not be saved.
MutateKeepsMemory(p) ==
  \E s \in SavesOf(p, "mutate") : \E o \in running[p] :
    /\ s.state = "failed"
    /\ saves' = saves \ {s}
    /\ running' = [running EXCEPT ![p] = {}]
    /\ answer' = [answer EXCEPT ![o] = "failed"]
    /\ UNCHANGED <<storeVars, mode, mem, rev, chain, seen, faults, boots>>

\* Mutant: the process goes on from the newest revision, but not from its content.
MutateAdoptsRevision(p) ==
  \E s \in SavesOf(p, "mutate") : \E o \in running[p] :
    /\ s.state = "failed"
    /\ mem' = [mem EXCEPT ![p] = @ \ {o}]
    /\ rev' = [rev EXCEPT ![p] = revision]
    /\ saves' = saves \ {s}
    /\ running' = [running EXCEPT ![p] = {}]
    /\ answer' = [answer EXCEPT ![o] = "failed"]
    /\ UNCHANGED <<storeVars, mode, chain, seen, faults, boots>>

\* Mutant: a failed transaction is never taken off the chain.
MutateSticks(p) ==
  \E s \in SavesOf(p, "mutate") : \E o \in running[p] :
    /\ s.state = "failed"
    /\ mem' = [mem EXCEPT ![p] = @ \ {o}]
    /\ saves' = saves \ {s}
    /\ answer' = [answer EXCEPT ![o] = "failed"]
    /\ UNCHANGED <<storeVars, mode, rev, chain, running, seen, faults, boots>>

\* The save failed: restoreRelayState(before), the caller gets the storage error.
\* Nobody else changes the memory during a transaction, so what was there before
\* is everything but the operation.
MutateRollsBack(p) ==
  \E s \in SavesOf(p, "mutate") : \E o \in running[p] :
    /\ s.state = "failed"
    /\ mem' = [mem EXCEPT ![p] = @ \ {o}]
    /\ saves' = saves \ {s}
    /\ running' = [running EXCEPT ![p] = {}]
    /\ answer' = [answer EXCEPT ![o] = "failed"]
    /\ UNCHANGED <<storeVars, mode, rev, chain, seen, faults, boots>>

\* Mutant: a read does not wait for the open transaction.
ReadInside(p) ==
  /\ mode[p] # "down"
  /\ seen' = seen \cup mem[p]
  /\ UNCHANGED <<storeVars, procVars, saves, answer, faults, boots>>

\* runtime.read: the answer reflects the memory between two transactions.
Read(p) ==
  /\ mode[p] # "down" /\ running[p] = {}
  /\ seen' = seen \cup mem[p]
  /\ UNCHANGED <<storeVars, procVars, saves, answer, faults, boots>>
-----------------------------------------------------------------------------
\* SIGTERM: close() stops the timer and closes the HTTP server.
Close(p) ==
  /\ mode[p] = "up"
  /\ mode' = [mode EXCEPT ![p] = "closing"]
  /\ UNCHANGED <<storeVars, mem, rev, chain, running, saves, answer, seen, faults, boots>>

\* The last connection is answered; runtime.flush queues up behind the tail.
Flush(p) ==
  /\ mode[p] = "closing" /\ (Queued(p) \cup running[p]) \subseteq Detached
  /\ mode' = [mode EXCEPT ![p] = "flushing"]
  /\ chain' = [chain EXCEPT ![p] = Append(@, FLUSH)]
  /\ UNCHANGED <<storeVars, mem, rev, running, saves, answer, seen, faults, boots>>

\* await this.tail is over.  Later transactions do not wait for this save.
FlushBegins(p) ==
  /\ chain[p] # << >> /\ Head(chain[p]) = FLUSH /\ running[p] = {}
  /\ chain' = [chain EXCEPT ![p] = Tail(@)]
  /\ saves' = saves \cup {[proc |-> p, by |-> "flush", image |-> mem[p], rev |-> rev[p],
                           state |-> "sent"]}
  /\ UNCHANGED <<storeVars, mode, mem, rev, running, answer, seen, faults, boots>>

\* Mutant: a flush that fails leaves the shutdown waiting.
FlushReturnsIfSaved(p) ==
  \E s \in SavesOf(p, "flush") :
    /\ s.state = "done"
    /\ saves' = saves \ {s}
    /\ rev' = [rev EXCEPT ![p] = s.rev]
    /\ mode' = [mode EXCEPT ![p] = "stopping"]
    /\ UNCHANGED <<storeVars, mem, chain, running, answer, seen, faults, boots>>

\* The flush succeeded and the connection pool is closed, or close() rejects
\* before that.
FlushReturns(p) ==
  \E s \in SavesOf(p, "flush") :
    /\ saves' = saves \ {s}
    /\ \/ /\ s.state = "done"
          /\ rev' = [rev EXCEPT ![p] = s.rev]
          /\ mode' = [mode EXCEPT ![p] = "stopping"]
       \/ /\ s.state = "failed"
          /\ mode' = [mode EXCEPT ![p] = "lingering"]
          /\ UNCHANGED rev
    /\ UNCHANGED <<storeVars, mem, chain, running, answer, seen, faults, boots>>

\* Nothing keeps the event loop alive any more.
Exit(p) ==
  /\ mode[p] \in {"stopping", "lingering"} /\ chain[p] = << >> /\ running[p] = {}
  /\ mode' = [mode EXCEPT ![p] = "down"]
  /\ UNCHANGED <<storeVars, mem, rev, chain, running, saves, answer, seen, faults, boots>>

\* The process dies.  A temporary file is lost; a statement already sent to the
\* database may still be executed, or not.
Crash(p) ==
  /\ mode[p] # "down" /\ faults < MaxFaults
  /\ mode' = [mode EXCEPT ![p] = "down"]
  /\ chain' = [chain EXCEPT ![p] = << >>] /\ running' = [running EXCEPT ![p] = {}]
  /\ answer' = [o \in Op |-> IF o \in Queued(p) \cup running[p] THEN "lost" ELSE answer[o]]
  /\ \E sent \in SUBSET {s \in saves : s.proc = p /\ s.state = "sent" /\ Backing = "sql"} :
       saves' = {s \in saves : s.proc # p \/ s.by = "ghost"}
                  \cup {[s EXCEPT !.by = "ghost"] : s \in sent}
  /\ faults' = faults + 1
  /\ UNCHANGED <<storeVars, mem, rev, seen, boots>>

ProcStep(p) ==
  \/ Begin(p) \/ MutateReturns(p) \/ MutateRollsBack(p)
  \/ Flush(p) \/ FlushBegins(p) \/ FlushReturns(p) \/ Exit(p)

StoreStep == \E s \in saves : SaveCommits(s) \/ SaveConflicts(s)

Next ==
  \/ \E p \in Proc :
       \/ Boot(p) \/ Close(p) \/ Crash(p) \/ Read(p) \/ ProcStep(p)
       \/ \E o \in Op : Call(p, o)
  \/ StoreStep
  \/ \E s \in saves : SaveFails(s)

Spec == Init /\ [][Next]_vars

\* The event loop and the store keep running; nobody need call, stop or boot.
DurabilityFairness ==
  /\ \A p \in Proc : WF_vars(ProcStep(p))
  /\ WF_vars(StoreStep)

FairSpec == Spec /\ DurabilityFairness
-----------------------------------------------------------------------------
(***************************************************************************)
(* Properties.                                                             *)
(***************************************************************************)
Reported == {o \in Op : answer[o] \in {"ok", "error"}}

\* What a caller was told has happened, and what a read has shown, is in the
\* stored snapshot and stays there, whatever saves fail and processes crash
\* (docs/quantic-relay-standalone.md: written before it is confirmed).
ReportedSurvives == Reported \cup seen \subseteq durable

\* Between two transactions a process that expects the current revision has
\* exactly the stored snapshot in memory: its next save takes nothing back, and
\* memory and disk do not diverge after a failed write.
SnapshotMatchesMemory ==
  \A p \in Proc :
    /\ mode[p] # "down" /\ running[p] = {}
    /\ {s \in saves : s.proc = p /\ s.by # "ghost"} = {}
    /\ rev[p] = revision
    => mem[p] = durable

\* Two processes that share a row never overwrite each other's newer snapshot,
\* not even with a statement of a crashed process that is executed late.
RowOnlyGrows == [][durable \subseteq durable']_vars

\* Every mutate promise settles, also the ones queued behind a failed save.
CallsAnswered == \A o \in Op : answer[o] = "called" ~> answer[o] # "called"

\* A shutdown ends, even if its flush fails or meets late transactions.
ShutdownEnds == \A p \in Proc : mode[p] = "closing" ~> mode[p] = "down"
=============================================================================
