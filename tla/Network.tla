-------------------------------- MODULE Network --------------------------------
(***************************************************************************)
(* The components around the mailboxes, one beside another: manifests and  *)
(* their registry, one-time prekeys, pairing, registration and the direct  *)
(* transport.  `focus' names the one that runs, the others stay as they    *)
(* begin: what a component uses of another is part of its own state.       *)
(***************************************************************************)
EXTENDS ManifestRegistry, PrekeyPool, Pairing, Registration, DirectTransport

VARIABLE focus

NetworkInit ==
  /\ focus \in {"registry", "prekeys", "pairing", "registration", "direct"}
  /\ RegistryInit /\ (focus # "registry" => mode = "memory")
  /\ PoolInit /\ (focus # "prekeys" => kind = "web")
  /\ PairingInit
  /\ RegistrationInit /\ (focus # "registration" => host = "web" /\ era = "new")
  /\ DirectInit /\ (focus # "direct" => sealed = {})

NetworkNext ==
  /\ UNCHANGED focus
  /\ IF focus = "registry" THEN RegistryNext ELSE UNCHANGED registryVars
  /\ IF focus = "prekeys" THEN PoolNext ELSE UNCHANGED poolVars
  /\ IF focus = "pairing" THEN PairingNext ELSE UNCHANGED pairingVars
  /\ IF focus = "registration" THEN RegistrationNext ELSE UNCHANGED regVars
  /\ IF focus = "direct" THEN DirectNext ELSE UNCHANGED directVars

networkVars == <<focus, registryVars, poolVars, pairingVars, regVars, directVars>>
NetworkSpec == NetworkInit /\ [][NetworkNext]_networkVars

(* The type invariants of the five components.                               *)
NetworkTypeOK == RegistryTypeOK /\ PoolTypeOK /\ PairingTypeOK /\ RegistrationTypeOK /\ DirectTypeOK
=============================================================================
