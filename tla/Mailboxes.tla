----------------------------- MODULE Mailboxes -----------------------------
(***************************************************************************)
(* The ordered mailboxes a relay keeps per device (lib/quantic/relay.ts):  *)
(* arrays that are only ever appended to, filtered and sliced.  The filter *)
(* is a recursive function, so that theorems can be proved about it.       *)
(***************************************************************************)
EXTENDS Integers, Sequences

\* The elements of a mailbox.
Elems(box) == {box[i] : i \in DOMAIN box}

\* box.filter((item) => !drop.has(item)): what is kept stays in order.
Keep(box, drop) ==
  LET kept[i \in 0..Len(box)] ==
        IF i = 0 THEN << >>
        ELSE IF box[i] \in drop THEN kept[i - 1] ELSE Append(kept[i - 1], box[i])
  IN  kept[Len(box)]

\* box.slice(0, n)
FirstOf(box, n) == SubSeq(box, 1, IF Len(box) < n THEN Len(box) ELSE n)
=============================================================================
