---------------------------- MODULE MCFederation ----------------------------
(* Instances of Federation: one or two relays host the recipient.           *)
EXTENDS Federation

CONSTANTS t1, t2, b1, b2, s1, s2, f1

OneRelay == <<b1>>
TwoRelays == <<b1, b2>>
=============================================================================
