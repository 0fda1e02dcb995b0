-------------------------- MODULE ReliableDelivery -------------------------
(***************************************************************************)
(* What message delivery promises, whatever carries the messages: a sender *)
(* holds a copy of everything the user submitted until the recipient has   *)
(* stored it, and the recipient stores it in the end.                      *)
(***************************************************************************)
CONSTANT Delivery

VARIABLES
  submitted,   \* deliveries the user asked for
  held,        \* deliveries the sender keeps a copy of
  stored       \* deliveries the recipient has

vars == <<submitted, held, stored>>

Init == submitted = {} /\ held = {} /\ stored = {}

Submit(d) ==
  /\ d \notin submitted
  /\ submitted' = submitted \cup {d} /\ held' = held \cup {d}
  /\ UNCHANGED stored

Store(d) ==
  /\ d \in submitted
  /\ stored' = stored \cup {d}
  /\ UNCHANGED <<submitted, held>>

\* Only a stored delivery may be let go.
Release(d) ==
  /\ d \in stored
  /\ held' = held \ {d}
  /\ UNCHANGED <<submitted, stored>>

\* A late answer to an old attempt may put a stored delivery back.
HoldAgain(d) ==
  /\ d \in stored
  /\ held' = held \cup {d}
  /\ UNCHANGED <<submitted, stored>>

Next == \E d \in Delivery : Submit(d) \/ Store(d) \/ Release(d) \/ HoldAgain(d)

Spec == Init /\ [][Next]_vars
FairSpec == Spec /\ \A d \in Delivery : WF_vars(Store(d))
=============================================================================
