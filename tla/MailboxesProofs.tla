-------------------------- MODULE MailboxesProofs --------------------------
(***************************************************************************)
(* What the mailbox operators of module Mailboxes return, for mailboxes of *)
(* any length.                                                             *)
(***************************************************************************)
EXTENDS Mailboxes, SequenceTheorems, WellFoundedInduction, TLAPS

\* Induction over the natural numbers, for a set instead of a predicate.
LEMMA NatSetInduction ==
  ASSUME NEW T, 0 \in T, \A n \in Nat : n \in T => n + 1 \in T
  PROVE  Nat \subseteq T
<1>. DEFINE Missing == Nat \ T
<1>1. SUFFICES ASSUME Missing # {} PROVE FALSE
  OBVIOUS
<1>2. PICK x \in Missing : \A y \in Missing : ~ (<<y, x>> \in OpToRel(<, Nat))
  BY <1>1, WFMin, NatLessThanWellFounded
<1>3. \A y \in Missing : ~ (y < x)
  BY <1>2 DEF OpToRel
<1>4. x \in Nat /\ x \notin T
  OBVIOUS
<1>5. x # 0 /\ x - 1 \in Nat
  BY <1>4
<1>6. x - 1 \in T
  BY <1>3, <1>5
<1>. QED
  BY <1>4, <1>5, <1>6

\* The equation of the recursive function in Keep.
KeptStep(box, drop, g, n) ==
  [i \in 0..n |->
     IF i = 0 THEN << >>
     ELSE IF box[i] \in drop THEN g[i - 1] ELSE Append(g[i - 1], box[i])]

\* Keep's function exists up to every length.
LEMMA KeptExists ==
  ASSUME NEW box, NEW drop, NEW n \in Nat
  PROVE  \E g : g = KeptStep(box, drop, g, n)
<1>. DEFINE T == {m \in Nat : \E g : g = KeptStep(box, drop, g, m)}
<1>1. 0 \in T
  <2>. DEFINE g == [i \in 0..0 |-> << >>]
  <2>1. g = KeptStep(box, drop, g, 0)
    BY DEF KeptStep
  <2>. QED
    BY <2>1
<1>2. ASSUME NEW m \in Nat, m \in T PROVE m + 1 \in T
  <2>1. PICK g : g = KeptStep(box, drop, g, m)
    BY <1>2
  <2>. DEFINE h == [i \in 0..(m + 1) |->
                      IF i = m + 1
                      THEN IF box[i] \in drop THEN g[m] ELSE Append(g[m], box[i])
                      ELSE g[i]]
  <2>2. ASSUME NEW i \in 0..(m + 1)
        PROVE  h[i] = KeptStep(box, drop, h, m + 1)[i]
    <3>1. CASE i = m + 1
      <4>1. h[m] = g[m]
        OBVIOUS
      <4>. QED
        BY <3>1, <4>1 DEF KeptStep
    <3>2. CASE i # m + 1
      <4>1. h[i] = g[i] /\ (i # 0 => h[i - 1] = g[i - 1])
        BY <3>2
      <4>2. g[i] = KeptStep(box, drop, g, m)[i]
        BY <2>1
      <4>. QED
        BY <3>2, <4>1, <4>2 DEF KeptStep
    <3>. QED
      BY <3>1, <3>2
  <2>3. h = KeptStep(box, drop, h, m + 1)
    BY <2>2 DEF KeptStep
  <2>. QED
    BY <2>3
<1>3. Nat \subseteq T
  BY <1>1, <1>2, NatSetInduction
<1>. QED
  BY <1>3

\* r holds elements of box in order: its k-th is the f[k]-th of the first n.
InOrder(r, box, n) ==
  \E f \in [1..Len(r) -> 1..n] :
    /\ \A k \in 1..Len(r) : r[k] = box[f[k]]
    /\ \A k, l \in 1..Len(r) : k < l => f[k] < f[l]

\* r is what filtering the first n elements of box gives.
KeptUpTo(S, box, drop, r, n) ==
  /\ r \in Seq(S)
  /\ Len(r) <= n
  /\ Elems(r) = {box[j] : j \in 1..n} \ drop
  /\ InOrder(r, box, n)

LEMMA KeptNothing ==
  ASSUME NEW S, NEW box, NEW drop
  PROVE  KeptUpTo(S, box, drop, << >>, 0)
<1>1. InOrder(<< >>, box, 0)
  <2>. DEFINE f == [k \in 1..Len(<< >>) |-> k]
  <2>1. 1..Len(<< >>) = {}
    OBVIOUS
  <2>2. f \in [1..Len(<< >>) -> 1..0]
    BY <2>1
  <2>3. \A k, l \in 1..Len(<< >>) : k < l => f[k] < f[l]
    BY <2>1
  <2>4. \A k \in 1..Len(<< >>) : << >>[k] = box[f[k]]
    BY <2>1, Zenon
  <2>. HIDE DEF f
  <2>. QED
    BY <2>2, <2>3, <2>4 DEF InOrder
<1>2. << >> \in Seq(S) /\ Len(<< >>) = 0
  OBVIOUS
<1>3. Elems(<< >>) = {} /\ {box[j] : j \in 1..0} = {}
  BY DEF Elems
<1>. QED
  BY <1>1, <1>2, <1>3 DEF KeptUpTo

LEMMA KeptSkips ==
  ASSUME NEW S, NEW box, NEW drop, NEW r, NEW n \in Nat,
         KeptUpTo(S, box, drop, r, n), box[n + 1] \in drop
  PROVE  KeptUpTo(S, box, drop, r, n + 1)
<1>1. InOrder(r, box, n + 1)
  <2>1. PICK f \in [1..Len(r) -> 1..n] :
          /\ \A k \in 1..Len(r) : r[k] = box[f[k]]
          /\ \A k, l \in 1..Len(r) : k < l => f[k] < f[l]
    BY DEF KeptUpTo, InOrder
  <2>2. f \in [1..Len(r) -> 1..(n + 1)]
    OBVIOUS
  <2>. QED
    BY <2>1, <2>2 DEF InOrder
<1>2. {box[j] : j \in 1..(n + 1)} = {box[j] : j \in 1..n} \cup {box[n + 1]}
  OBVIOUS
<1>3. r \in Seq(S) /\ Len(r) <= n + 1
  BY DEF KeptUpTo
<1>4. Elems(r) = {box[j] : j \in 1..(n + 1)} \ drop
  BY <1>2 DEF KeptUpTo
<1>. QED
  BY <1>1, <1>3, <1>4 DEF KeptUpTo

LEMMA KeptAppends ==
  ASSUME NEW S, NEW box, NEW drop, NEW r, NEW n \in Nat,
         KeptUpTo(S, box, drop, r, n), box[n + 1] \in S, box[n + 1] \notin drop
  PROVE  KeptUpTo(S, box, drop, Append(r, box[n + 1]), n + 1)
<1>. DEFINE a == Append(r, box[n + 1])
<1>1. /\ r \in Seq(S) /\ Len(r) \in Nat /\ Len(r) <= n /\ DOMAIN r = 1..Len(r)
      /\ Elems(r) = {box[j] : j \in 1..n} \ drop
  BY DEF KeptUpTo
<1>2. /\ a \in Seq(S) /\ Len(a) = Len(r) + 1 /\ DOMAIN a = 1..(Len(r) + 1)
      /\ \A k \in 1..Len(r) : a[k] = r[k]
      /\ a[Len(r) + 1] = box[n + 1]
  BY <1>1, AppendProperties
<1>3. PICK f \in [1..Len(r) -> 1..n] :
        /\ \A k \in 1..Len(r) : r[k] = box[f[k]]
        /\ \A k, l \in 1..Len(r) : k < l => f[k] < f[l]
  BY DEF KeptUpTo, InOrder
<1>. HIDE DEF a
<1>4. Elems(a) = Elems(r) \cup {box[n + 1]}
  BY <1>1, <1>2 DEF Elems
<1>5. {box[j] : j \in 1..(n + 1)} = {box[j] : j \in 1..n} \cup {box[n + 1]}
  OBVIOUS
<1>6. InOrder(a, box, n + 1)
  <2>. DEFINE h == [k \in 1..Len(a) |-> IF k = Len(r) + 1 THEN n + 1 ELSE f[k]]
  <2>1. h \in [1..Len(a) -> 1..(n + 1)]
    BY <1>1, <1>2
  <2>2. \A k \in 1..Len(a) : a[k] = box[h[k]]
    BY <1>1, <1>2, <1>3
  <2>3. ASSUME NEW k \in 1..Len(a), NEW l \in 1..Len(a), k < l PROVE h[k] < h[l]
    <3>1. k \in 1..Len(r) /\ h[k] = f[k] /\ f[k] \in 1..n
      BY <1>1, <1>2, <2>3
    <3>2. CASE l = Len(r) + 1
      BY <1>2, <3>1, <3>2
    <3>3. CASE l # Len(r) + 1
      <4>1. l \in 1..Len(r) /\ h[l] = f[l]
        BY <1>1, <1>2, <3>3
      <4>. QED
        BY <1>3, <2>3, <3>1, <4>1
    <3>. QED
      BY <3>2, <3>3
  <2>. HIDE DEF h
  <2>. QED
    BY <2>1, <2>2, <2>3 DEF InOrder
<1>7. Len(a) <= n + 1
  BY <1>1, <1>2
<1>8. Elems(a) = {box[j] : j \in 1..(n + 1)} \ drop
  BY <1>1, <1>4, <1>5
<1>9. KeptUpTo(S, box, drop, a, n + 1)
  BY <1>2, <1>6, <1>7, <1>8 DEF KeptUpTo
<1>. QED
  BY <1>9 DEF a

\* Keep returns the elements of a mailbox that are not dropped, in order.
THEOREM KeepProperties ==
  ASSUME NEW S, NEW box \in Seq(S), NEW drop
  PROVE  /\ Keep(box, drop) \in Seq(S)
         /\ Len(Keep(box, drop)) <= Len(box)
         /\ Elems(Keep(box, drop)) = Elems(box) \ drop
         /\ InOrder(Keep(box, drop), box, Len(box))
<1>. DEFINE g == CHOOSE h : h = KeptStep(box, drop, h, Len(box))
            T == {n \in Nat : n <= Len(box) => KeptUpTo(S, box, drop, g[n], n)}
<1>1. Len(box) \in Nat /\ DOMAIN box = 1..Len(box)
  OBVIOUS
<1>2. g = KeptStep(box, drop, g, Len(box))
  BY <1>1, KeptExists
<1>3. Keep(box, drop) = g[Len(box)]
  BY DEF Keep, KeptStep
<1>. HIDE DEF g
<1>4. ASSUME NEW n \in 0..Len(box)
      PROVE  g[n] = IF n = 0 THEN << >>
                    ELSE IF box[n] \in drop THEN g[n - 1] ELSE Append(g[n - 1], box[n])
  <2>1. g[n] = KeptStep(box, drop, g, Len(box))[n]
    BY <1>2
  <2>. QED
    BY <2>1 DEF KeptStep
<1>5. 0 \in T
  <2>1. g[0] = << >>
    BY <1>1, <1>4
  <2>. QED
    BY <2>1, KeptNothing
<1>6. ASSUME NEW n \in Nat, n \in T PROVE n + 1 \in T
  <2>. SUFFICES ASSUME n + 1 <= Len(box) PROVE KeptUpTo(S, box, drop, g[n + 1], n + 1)
    OBVIOUS
  <2>1. KeptUpTo(S, box, drop, g[n], n)
    BY <1>1, <1>6
  <2>2. box[n + 1] \in S
    BY <1>1
  <2>3. g[n + 1] = IF box[n + 1] \in drop THEN g[n] ELSE Append(g[n], box[n + 1])
    BY <1>1, <1>4
  <2>4. CASE box[n + 1] \in drop
    BY <2>1, <2>3, <2>4, KeptSkips
  <2>5. CASE box[n + 1] \notin drop
    BY <2>1, <2>2, <2>3, <2>5, KeptAppends
  <2>. QED
    BY <2>4, <2>5
<1>7. Nat \subseteq T
  BY <1>5, <1>6, NatSetInduction
<1>8. KeptUpTo(S, box, drop, g[Len(box)], Len(box))
  BY <1>1, <1>7
<1>9. Elems(box) = {box[j] : j \in 1..Len(box)}
  BY <1>1 DEF Elems
<1>. QED
  BY <1>3, <1>8, <1>9 DEF KeptUpTo

\* box.slice(0, n) returns elements of the mailbox.
THEOREM FirstOfProperties ==
  ASSUME NEW S, NEW box \in Seq(S), NEW n \in Int
  PROVE  /\ FirstOf(box, n) \in Seq(S)
         /\ Elems(FirstOf(box, n)) \subseteq Elems(box)
         /\ n >= 0 => Len(FirstOf(box, n)) <= n
         /\ \A i \in DOMAIN FirstOf(box, n) : i \in DOMAIN box /\ FirstOf(box, n)[i] = box[i]
<1>. DEFINE m == IF Len(box) < n THEN Len(box) ELSE n
<1>1. m \in Int /\ m <= Len(box) /\ DOMAIN box = 1..Len(box) /\ m <= n /\ Len(box) \in Nat
  OBVIOUS
<1>2. \A i \in 1..m : box[i] \in S
  BY <1>1
<1>. HIDE DEF m
<1>3. /\ SubSeq(box, 1, m) \in Seq(S)
      /\ Len(SubSeq(box, 1, m)) = IF 1 <= m THEN m ELSE 0
      /\ \A i \in 1..m : SubSeq(box, 1, m)[i] = box[i]
  BY <1>1, <1>2, SubSeqProperties
<1>4. FirstOf(box, n) = SubSeq(box, 1, m)
  BY DEF FirstOf, m
<1>. DEFINE r == FirstOf(box, n)
<1>5. r \in Seq(S) /\ DOMAIN r = 1..Len(r) /\ Len(r) = IF 1 <= m THEN m ELSE 0
  BY <1>3, <1>4
<1>6. \A i \in DOMAIN r : i \in DOMAIN box /\ r[i] = box[i]
  BY <1>1, <1>3, <1>4, <1>5
<1>7. n >= 0 => Len(r) <= n
  BY <1>1, <1>5
<1>. HIDE DEF r
<1>8. Elems(r) \subseteq Elems(box)
  BY <1>6 DEF Elems
<1>. QED
  BY <1>5, <1>6, <1>7, <1>8 DEF r
=============================================================================
