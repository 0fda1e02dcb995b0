------------------------- MODULE MCMessageDelivery -------------------------
(* Instances of MessageDelivery: Alice sends to Bob.                        *)
EXTENDS MessageDelivery, TLC

CONSTANTS alice, bob, a1, b1, d1, d2

OneTab == [t \in {a1, b1} |-> IF t = a1 THEN alice ELSE bob]
FromAlice == [d \in Delivery |-> alice]
ToBob == [d \in Delivery |-> bob]
\* d1 and d2 have the same sender and recipient: they are interchangeable.
Deliveries == Permutations({d1, d2})
Ids4 == 1..4
Ids6 == 1..6
=============================================================================
