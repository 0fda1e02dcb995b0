------------------------------ MODULE MCSettle ------------------------------
(* Instances of what must happen in the end, component beside component:     *)
(* `focus' names the one that runs, the others stay as they begin, where     *)
(* nothing that is fair is enabled.                                          *)
EXTENDS RelayDurability, Pairing, Registration, DirectTransport

CONSTANTS p1, o1, o2, o3, n1, l1

VARIABLE focus

SettleInit ==
  /\ focus \in {"durability", "pairing", "registration", "direct"}
  /\ Init
  /\ PairingInit
  /\ RegistrationInit /\ (focus # "registration" => host = "web" /\ era = "new")
  /\ DirectInit /\ (focus # "direct" => sealed = {})

SettleNext ==
  /\ UNCHANGED focus
  /\ IF focus = "durability" THEN Next ELSE UNCHANGED vars
  /\ IF focus = "pairing" THEN PairingNext ELSE UNCHANGED pairingVars
  /\ IF focus = "registration" THEN RegistrationNext ELSE UNCHANGED regVars
  /\ IF focus = "direct" THEN DirectNext ELSE UNCHANGED directVars

settleVars == <<focus, vars, pairingVars, regVars, directVars>>

SettleSpec ==
  /\ SettleInit /\ [][SettleNext]_settleVars
  /\ DurabilityFairness /\ ReopeningFairness /\ RegistrationFairness /\ DirectFairness
=============================================================================
