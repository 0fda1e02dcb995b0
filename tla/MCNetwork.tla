------------------------------ MODULE MCNetwork ------------------------------
(* An instance of the components around the mailboxes: a root with one       *)
(* phone, two senders, two newcomers, one letter.                            *)
EXTENDS Network, TLC

CONSTANTS phone, rootMail, rootAdmin, phoneMail, w1, s1, s2, n1, n2, l1

(* The root's mailbox and devices pages, the mailbox of its phone.           *)
BrowserOfPage == (rootMail :> Root) @@ (rootAdmin :> Root) @@ (phoneMail :> phone)
=============================================================================
