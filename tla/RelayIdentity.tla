---------------------------- MODULE RelayIdentity ----------------------------
(* How a relay comes by its key pair (standalone-relay/identity.ts and the    *)
(* identity row of the two SQL stores).  The relayId every route manifest,    *)
(* hello and federation packet names is the digest of that pair, so all       *)
(* processes of one relay must hold the same one: the two of a rolling        *)
(* deployment that boot on an empty store together, one that restarts after a *)
(* crash at any step, one that was given the secret that seals the row beside *)
(* one that was not.  A key pair is the number of its generation; a record    *)
(* that does not parse is "torn".  A boot that throws ends the process        *)
(* (main.ts), which an operator may start again.                              *)
EXTENDS Naturals

CONSTANTS Instance,   \* the processes that share one directory or database
          Keyed,      \* those started with QUANTIC_RELAY_IDENTITY_SECRET
          MaxPairs    \* bound: key pairs ever generated

ASSUME IdentityAssumption == Keyed \subseteq Instance /\ MaxPairs \in Nat

VARIABLES medium,   \* "file" (relay-identity.json) or "sql" (a row of the store)
          record,   \* what the medium holds
          at,       \* how far each process has come
          mine,     \* the pair it generated or loaded, 0 for none
          pairs     \* pairs generated so far

identityVars == <<medium, record, at, mine, pairs>>

Pair == 1..MaxPairs
Plain(pair) == [form |-> "plain", pair |-> pair]
Sealed(pair) == [form |-> "sealed", pair |-> pair]
Absent == [form |-> "absent", pair |-> 0]
Torn == [form |-> "torn", pair |-> 0]

IdentityTypeOK ==
  /\ medium \in {"file", "sql"}
  /\ record \in {Absent, Torn} \cup {Plain(p) : p \in Pair} \cup {Sealed(p) : p \in Pair}
  /\ at \in [Instance -> {"off", "read", "create", "fill", "reread", "seal", "up"}]
  /\ mine \in [Instance -> 0..MaxPairs]
  /\ pairs \in 0..MaxPairs

IdentityInit ==
  /\ medium \in {"file", "sql"} /\ record = Absent
  /\ at = [i \in Instance |-> "off"] /\ mine = [i \in Instance |-> 0] /\ pairs = 0

Moves(i, from, to) == at[i] = from /\ at' = [at EXCEPT ![i] = to]

(* A sealed record opens with the secret only; an unsealed one always.        *)
Readable(i) == record.form = "plain" \/ (record.form = "sealed" /\ i \in Keyed)

(* What a process with a secret writes is sealed, whoever generated it.       *)
Encoded(i, pair) == IF i \in Keyed THEN Sealed(pair) ELSE Plain(pair)

StartInstance(i) == Moves(i, "off", "read") /\ UNCHANGED <<medium, record, mine, pairs>>

(* The process ends: it crashes, is stopped, or its boot throws.              *)
StopInstance(i) ==
  /\ at[i] # "off"
  /\ at' = [at EXCEPT ![i] = "off"] /\ mine' = [mine EXCEPT ![i] = 0]
  /\ UNCHANGED <<medium, record, pairs>>

GeneratePair(i) ==
  /\ record = Absent /\ pairs < MaxPairs
  /\ Moves(i, "read", "create")
  /\ pairs' = pairs + 1 /\ mine' = [mine EXCEPT ![i] = pairs + 1]

TakePair(i, from, to) ==
  /\ Readable(i) /\ Moves(i, from, to)
  /\ mine' = [mine EXCEPT ![i] = record.pair] /\ UNCHANGED pairs

(* A record that cannot be read is never replaced: the boot fails.            *)
Refused(i, from) ==
  /\ record # Absent /\ ~Readable(i) /\ Moves(i, from, "off")
  /\ mine' = [mine EXCEPT ![i] = 0] /\ UNCHANGED pairs

ReadFile(i) ==
  /\ medium = "file"
  /\ GeneratePair(i) \/ TakePair(i, "read", "up") \/ Refused(i, "read")
  /\ UNCHANGED <<medium, record>>

(* The row is there unsealed and the process has the secret: it is written    *)
(* again, sealed, before the process goes on.                                 *)
ReadRow(i) ==
  /\ medium = "sql"
  /\ \/ GeneratePair(i)
     \/ TakePair(i, "read", IF i \in Keyed /\ record.form = "plain" THEN "seal" ELSE "up")
     \/ Refused(i, "read")
  /\ UNCHANGED <<medium, record>>

SealRow(i) ==
  /\ Moves(i, "seal", "up")
  /\ record' = Sealed(mine[i])
  /\ UNCHANGED <<medium, mine, pairs>>

(* open(path, "wx") creates an empty file or finds that another process did.  *)
CreateFile(i) ==
  /\ medium = "file"
  /\ \/ record = Absent /\ record' = Torn /\ Moves(i, "create", "fill")
     \/ record # Absent /\ UNCHANGED record /\ Moves(i, "create", "reread")
  /\ UNCHANGED <<medium, mine, pairs>>

(* The text is written and synced; a crash before the sync leaves Torn.       *)
FillFile(i) ==
  /\ Moves(i, "fill", "up")
  /\ record' = Plain(mine[i])
  /\ UNCHANGED <<medium, mine, pairs>>

\* Mutant: the insert overwrites the row (DO UPDATE for DO NOTHING).
InsertOverwrites(i) ==
  /\ medium = "sql" /\ record' = Encoded(i, mine[i]) /\ Moves(i, "create", "up")
  /\ UNCHANGED <<medium, mine, pairs>>

(* INSERT ... ON CONFLICT DO NOTHING (INSERT IGNORE in MySQL).                *)
InsertRow(i) ==
  /\ medium = "sql"
  /\ \/ record = Absent /\ record' = Encoded(i, mine[i]) /\ Moves(i, "create", "up")
     \/ record # Absent /\ UNCHANGED record /\ Moves(i, "create", "reread")
  /\ UNCHANGED <<medium, mine, pairs>>

(* The loser of the race takes the winner's pair; it does not seal the row.   *)
Reread(i) ==
  /\ TakePair(i, "reread", "up") \/ Refused(i, "reread")
  /\ UNCHANGED <<medium, record>>

IdentityNext ==
  \E i \in Instance :
    \/ StartInstance(i) \/ StopInstance(i)
    \/ ReadFile(i) \/ CreateFile(i) \/ FillFile(i)
    \/ ReadRow(i) \/ SealRow(i) \/ InsertRow(i)
    \/ Reread(i)

IdentitySpec == IdentityInit /\ [][IdentityNext]_identityVars

(* Every process that serves holds the pair the next boot will read, so all   *)
(* processes of a relay that run together sign as one relayId, and a restart  *)
(* on the same directory or database keeps it, whichever of them created the  *)
(* record, lost the race to it, crashed over it or sealed it.                 *)
OneIdentity ==
  \A i \in Instance :
    at[i] = "up" => record.form \in {"plain", "sealed"} /\ record.pair = mine[i]
=============================================================================
