-------------------------- MODULE MCManifestRegistry --------------------------
(* An instance of ManifestRegistry: a root with a mailbox and a devices page,  *)
(* and the mailbox of its phone.                                               *)
EXTENDS ManifestRegistry, TLC

CONSTANTS phone, rootMail, rootAdmin, phoneMail

BrowserOfPage == (rootMail :> Root) @@ (rootAdmin :> Root) @@ (phoneMail :> phone)
=============================================================================
