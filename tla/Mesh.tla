--------------------------------- MODULE Mesh ---------------------------------
(***************************************************************************)
(* The parts a relay is made of besides its mailboxes, one beside another: *)
(* its store, the identity it boots with and its mesh.  `focus' names the  *)
(* one that runs, the others stay as they begin.  The relayId of the       *)
(* identity is what the mesh's routes name; what the mesh holds is part of *)
(* the snapshot the store saves.                                           *)
(***************************************************************************)
EXTENDS RelayDurability, RelayIdentity, Discovery

VARIABLE focus

MeshInit ==
  /\ focus \in {"durability", "discovery", "identity"}
  /\ Init /\ DiscoveryInit /\ IdentityInit
  /\ focus # "identity" => medium = "sql"

MeshNext ==
  /\ UNCHANGED focus
  /\ IF focus = "durability" THEN Next ELSE UNCHANGED vars
  /\ IF focus = "discovery" THEN DiscoveryNext ELSE UNCHANGED discoveryVars
  /\ IF focus = "identity" THEN IdentityNext ELSE UNCHANGED identityVars

meshVars == <<focus, vars, discoveryVars, identityVars>>
MeshSpec == MeshInit /\ [][MeshNext]_meshVars

(* The type invariants of the three components.                               *)
MeshTypeOK == TypeOK /\ DiscoveryTypeOK /\ IdentityTypeOK
=============================================================================
