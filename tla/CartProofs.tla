----------------------------- MODULE CartProofs -----------------------------
(***************************************************************************)
(* Cart requests are atomic for every set of items, extras, coupons and    *)
(* workers, by the version check alone; and what atomic requests keep, the *)
(* service keeps.                                                          *)
(***************************************************************************)
EXTENDS CartRequests, SequenceTheorems, WellFoundedInduction, TLAPS

-----------------------------------------------------------------------------
(* The subtotal is a sum over the lines *)

(* A set of naturals has a least element: what the proofs about sums use   *)
(* for an induction over the lines.                                        *)
LEMMA LeastOf ==
  ASSUME NEW T, T \subseteq Nat, T # {}
  PROVE  \E k \in T : \A j \in T : k <= j
<1> DEFINE R == OpToRel(<, Nat)
<1>1. IsWellFoundedOn(R, Nat)
  BY NatLessThanWellFounded
<1>2. \A i, j \in Nat : i < j => <<i, j>> \in R
  BY DEF OpToRel
<1> HIDE DEF R
<1>3. PICK k \in T : \A j \in T : ~ (<<j, k>> \in R)
  BY <1>1, WFMin, Zenon
<1>4. ASSUME NEW j \in T PROVE k <= j
  <2>1. k \in Nat /\ j \in Nat /\ ~ (j < k)
    BY <1>2, <1>3
  <2>2. QED
    BY <2>1
<1>5. QED
  BY <1>4

(* The sums of the first lines, as SumOfCosts computes them.               *)
SumsUpTo(s, k, f) ==
  f = [n \in 0 .. k |-> IF n = 0 THEN 0 ELSE f[n - 1] + s[n].cost]

LEMMA SumsAreNatural ==
  ASSUME NEW s, NEW k \in Nat, \A n \in 1 .. k : s[n].cost \in Nat,
         NEW f, SumsUpTo(s, k, f)
  PROVE  \A n \in 0 .. k : f[n] \in Nat
<1> DEFINE T == {n \in 0 .. k : f[n] \notin Nat}
<1> SUFFICES ASSUME T # {} PROVE FALSE
  OBVIOUS
<1>1. PICK n \in T : \A j \in T : n <= j
  <2>1. T \subseteq Nat
    OBVIOUS
  <2> HIDE DEF T
  <2>2. QED
    BY <2>1, LeastOf
<1>2. f[n] = IF n = 0 THEN 0 ELSE f[n - 1] + s[n].cost
  BY DEF SumsUpTo
<1>3. CASE n = 0
  BY <1>2, <1>3
<1>4. CASE n # 0
  <2>1. n \in 1 .. k /\ n - 1 \in 0 .. k /\ ~ (n <= n - 1)
    BY <1>4
  <2>2. f[n - 1] \in Nat /\ s[n].cost \in Nat
    BY <1>1, <2>1
  <2>3. QED
    BY <1>2, <1>4, <2>2
<1>5. QED
  BY <1>3, <1>4

LEMMA SumsExist ==
  ASSUME NEW s, NEW k \in Nat
  PROVE  \E f : SumsUpTo(s, k, f)
<1> DEFINE T == {n \in Nat : ~ \E f : SumsUpTo(s, n, f)}
<1> SUFFICES ASSUME T # {} PROVE FALSE
  OBVIOUS
<1>1. PICK n \in T : \A j \in T : n <= j
  <2>1. T \subseteq Nat
    OBVIOUS
  <2> HIDE DEF T
  <2>2. QED
    BY <2>1, LeastOf
<1>2. CASE n = 0
  <2> DEFINE f == [m \in 0 .. 0 |-> 0]
  <2>1. f = [m \in 0 .. 0 |-> IF m = 0 THEN 0 ELSE f[m - 1] + s[m].cost]
    OBVIOUS
  <2>2. QED
    BY <1>2, <2>1 DEF SumsUpTo
<1>3. CASE n # 0
  <2>1. n - 1 \in Nat /\ ~ (n <= n - 1)
    BY <1>3
  <2>2. PICK f : SumsUpTo(s, n - 1, f)
    BY <1>1, <2>1
  <2> DEFINE g == [m \in 0 .. n |->
                     IF m = n THEN f[n - 1] + s[n].cost ELSE f[m]]
  <2>3. ASSUME NEW m \in 0 .. n
        PROVE  g[m] = IF m = 0 THEN 0 ELSE g[m - 1] + s[m].cost
    <3>1. CASE m = n
      BY <1>3, <3>1
    <3>2. CASE m # n
      <4>1. m \in 0 .. (n - 1) /\ (m # 0 => m - 1 \in 0 .. n /\ m - 1 # n)
        BY <3>2
      <4>2. f[m] = IF m = 0 THEN 0 ELSE f[m - 1] + s[m].cost
        BY <2>2, <4>1 DEF SumsUpTo
      <4>3. QED
        BY <3>2, <4>1, <4>2
    <3>3. QED
      BY <3>1, <3>2
  <2>4. SumsUpTo(s, n, g)
    <3>1. g = [m \in 0 .. n |-> g[m]]
      OBVIOUS
    <3> HIDE DEF g
    <3>2. QED
      BY <2>3, <3>1 DEF SumsUpTo
  <2>5. QED
    BY <2>4
<1>4. QED
  BY <1>2, <1>3

LEMMA SumIsNatural ==
  ASSUME NEW s, Len(s) \in Nat, \A n \in 1 .. Len(s) : s[n].cost \in Nat
  PROVE  SumOfCosts(s) \in Nat
<1> DEFINE sum == CHOOSE f : SumsUpTo(s, Len(s), f)
<1>1. SumsUpTo(s, Len(s), sum)
  BY SumsExist, Zenon
<1>2. SumOfCosts(s) = sum[Len(s)]
  BY Zenon DEF SumOfCosts, SumsUpTo
<1> HIDE DEF sum
<1>3. \A n \in 0 .. Len(s) : sum[n] \in Nat
  BY <1>1, SumsAreNatural
<1>4. QED
  BY <1>2, <1>3

-----------------------------------------------------------------------------
(* What a request leaves behind *)

(* The discount is covered, of any cart. *)
Covered(c) ==
  /\ c.subtotal \in Nat /\ c.discount \in Nat
  /\ c.discount <= c.subtotal
  /\ c.active /\ c.coupon = None => c.discount = 0

(* The limits and the totals of CartMachine, of any cart. *)
Sound(c) ==
  /\ IsRow(c)
  /\ Covered(c)
  /\ Len(c.lines) <= MaxItems
  /\ c.active =>
       c.subtotal \in {SumOfCosts(c.lines), SumOfCosts(Front(c.lines))}

LEMMA NewLineIsLine ==
  ASSUME NEW item \in Items, NEW x \in MaybeExtras, NEW q \in Quantities
  PROVE  /\ NewLine(item, x, q) \in Line
         /\ q * UnitPrice(item, None) \in Nat
<1>1. UnitPrice(item, x) \in Nat /\ UnitPrice(item, None) \in Nat
  BY PricesAssumption DEF UnitPrice, MaybeExtras
<1>2. q \in Nat
  BY CartLimitsAssumption DEF Quantities
<1>3. \A m, n \in Nat : m * n \in Nat
  OBVIOUS
<1>4. q * UnitPrice(item, x) \in Nat /\ q * UnitPrice(item, None) \in Nat
  BY <1>1, <1>2, <1>3
<1>5. QED
  BY <1>4 DEF NewLine, Line

LEMMA FieldsOfLine ==
  ASSUME NEW s \in Seq(Line), NEW i \in DOMAIN s
  PROVE  /\ s[i].item \in Items
         /\ s[i].extras \in MaybeExtras
         /\ s[i].qty \in Quantities
<1>1. s[i] \in Line
  OBVIOUS
<1>2. QED
  BY <1>1 DEF Line

LEMMA RepricedLines ==
  ASSUME NEW s \in Seq(Line)
  PROVE  Repriced(s) \in Seq(Line) /\ Len(Repriced(s)) = Len(s)
<1>1. \A i \in 1 .. Len(s) : NewLine(s[i].item, s[i].extras, s[i].qty) \in Line
  BY FieldsOfLine, NewLineIsLine
<1>2. QED
  BY <1>1 DEF Repriced

LEMMA FrontOfAppend ==
  ASSUME NEW s \in Seq(Line), NEW l \in Line
  PROVE  Front(Append(s, l)) = s
  BY DEF Front

(* The costs of lines add up to a price. *)
LEMMA SubtotalOfLines ==
  ASSUME NEW s \in Seq(Line)
  PROVE  SumOfCosts(s) \in Nat
<1>1. Len(s) \in Nat /\ \A n \in 1 .. Len(s) : s[n] \in Line
  OBVIOUS
<1>2. \A n \in 1 .. Len(s) : s[n].cost \in Nat
  BY <1>1 DEF Line
<1>3. QED
  BY <1>1, <1>2, SumIsNatural

LEMMA DiscountFits ==
  ASSUME NEW k \in Coupons, NEW subtotal \in Nat
  PROVE  Discount(k, subtotal) \in Nat /\ Discount(k, subtotal) <= subtotal
  BY PricesAssumption DEF Discount

LEMMA RecalculatedIsSound ==
  ASSUME NEW c, IsRow(c),
         NEW lines \in Seq(Line), Len(lines) <= MaxItems,
         NEW counted \in Seq(Line),
         counted = lines \/ counted = Front(lines),
         NEW k \in Coupons \cup {None}, NEW ok \in SUBSET Coupons
  PROVE  Sound(Recalculated(c, lines, counted, k, ok))
<1> DEFINE r == Recalculated(c, lines, counted, k, ok)
           subtotal == SumOfCosts(counted)
<1>1. subtotal \in Nat
  BY SubtotalOfLines
<1>2. c.coupon \in Coupons \cup {None} /\ None \notin ok
  BY NoneAssumption DEF IsRow
<1>3. /\ r.subtotal = subtotal
      /\ r.discount = IF k # None /\ c.coupon \in ok
                        THEN Discount(c.coupon, subtotal) ELSE 0
      /\ r.coupon = IF k # None /\ c.coupon # None /\ c.coupon \notin ok
                      THEN None ELSE k
  BY DEF Recalculated
<1>4. Covered(r)
  <2> HIDE DEF r, subtotal
  <2>1. CASE k # None /\ c.coupon \in ok
    <3>1. c.coupon \in Coupons /\ r.coupon # None
      BY <1>2, <1>3, <2>1
    <3>2. QED
      BY <1>1, <1>3, <2>1, <3>1, DiscountFits DEF Covered
  <2>2. CASE ~ (k # None /\ c.coupon \in ok)
    BY <1>1, <1>3, <2>2 DEF Covered
  <2>3. QED
    BY <2>1, <2>2
<1>5. QED
  BY <1>4 DEF Sound, Recalculated, IsRow

(* Every request leaves a sound cart when it found one. *)
LEMMA MutationsAreSound ==
  ASSUME NEW c, Sound(c), NEW d \in Mutations(c)
  PROVE  Sound(d)
<1> DEFINE s == Repriced(c.lines)
<1>1. /\ IsRow(c) /\ c.lines \in Seq(Line) /\ c.coupon \in Coupons \cup {None}
      /\ Len(c.lines) <= MaxItems /\ Len(c.lines) \in Nat
      /\ DOMAIN c.lines = 1 .. Len(c.lines)
  BY DEF Sound, IsRow
<1>2. s \in Seq(Line) /\ Len(s) = Len(c.lines) /\ DOMAIN s = DOMAIN c.lines
  BY <1>1, RepricedLines
<1>3. ASSUME NEW i \in DOMAIN c.lines, NEW q \in Quantities,
             NEW ok \in SUBSET Coupons
      PROVE  Sound(Resized(c, i, q, ok))
  <2> DEFINE l == NewLine(c.lines[i].item, c.lines[i].extras, q)
             r == [c.lines EXCEPT ![i] = l]
  <2>1. l \in Line
    BY <1>1, FieldsOfLine, NewLineIsLine
  <2>2. r \in Seq(Line) /\ Len(r) = Len(c.lines)
    BY <1>1, <2>1
  <2>3. Repriced(r) \in Seq(Line) /\ Len(Repriced(r)) = Len(c.lines)
    BY <2>2, RepricedLines
  <2>4. Resized(c, i, q, ok)
          = Recalculated(c, Repriced(r), Repriced(r), c.coupon, ok)
    BY DEF Resized, ReplaceAt
  <2>5. QED
    BY <1>1, <2>3, <2>4, RecalculatedIsSound
<1>4. ASSUME NEW l \in Line, Len(c.lines) < MaxItems,
             NEW ok \in SUBSET Coupons
      PROVE  Sound(Appended(c, l, ok))
  <2>1. /\ Append(s, l) \in Seq(Line) /\ Len(Append(s, l)) <= MaxItems
        /\ Front(Append(s, l)) = s
    BY <1>1, <1>2, <1>4, FrontOfAppend, CartLimitsAssumption
  <2>2. Appended(c, l, ok) = Recalculated(c, Append(s, l), s, c.coupon, ok)
    BY DEF Appended
  <2> HIDE DEF s
  <2>3. QED
    BY <1>1, <1>2, <2>1, <2>2, RecalculatedIsSound
<1>5. ASSUME NEW i \in DOMAIN c.lines, NEW q \in Quantities,
             NEW x \in MaybeExtras, NEW ok \in SUBSET Coupons
      PROVE  Sound(Reselected(c, i, q, x, ok))
  <2> DEFINE l == [item |-> c.lines[i].item, extras |-> x, qty |-> q,
                   cost |-> q * UnitPrice(c.lines[i].item, None)]
             r == [s EXCEPT ![i] = l]
  <2>1. /\ c.lines[i].item \in Items
        /\ q * UnitPrice(c.lines[i].item, None) \in Nat
    BY <1>1, FieldsOfLine, NewLineIsLine
  <2>2. r \in Seq(Line) /\ Len(r) = Len(c.lines)
    BY <1>1, <1>2, <2>1 DEF Line
  <2>3. Reselected(c, i, q, x, ok) = Recalculated(c, r, r, c.coupon, ok)
    BY DEF Reselected
  <2>4. QED
    BY <1>1, <2>2, <2>3, RecalculatedIsSound
<1>6. ASSUME NEW i \in DOMAIN c.lines, NEW ok \in SUBSET Coupons
      PROVE  LET r == Repriced(RemoveAt(c.lines, i))
             IN  Sound(Recalculated(c, r, r, c.coupon, ok))
  <2> DEFINE t == RemoveAt(c.lines, i)
  <2>1. SubSeq(c.lines, 1, i - 1) \in Seq(Line)
        /\ Len(SubSeq(c.lines, 1, i - 1)) = i - 1
    BY <1>1
  <2>2. SubSeq(c.lines, i + 1, Len(c.lines)) \in Seq(Line)
        /\ Len(SubSeq(c.lines, i + 1, Len(c.lines))) = Len(c.lines) - i
    BY <1>1
  <2>3. t \in Seq(Line) /\ Len(t) <= MaxItems
    BY <1>1, <2>1, <2>2, CartLimitsAssumption DEF RemoveAt
  <2>4. Repriced(t) \in Seq(Line) /\ Len(Repriced(t)) <= MaxItems
    BY <2>3, RepricedLines
  <2>5. QED
    BY <1>1, <2>4, RecalculatedIsSound
<1>7. ASSUME NEW k \in Coupons \cup {None}, NEW ok \in SUBSET Coupons
      PROVE  Sound(Recalculated(c, s, s, k, ok))
  BY <1>1, <1>2, RecalculatedIsSound
<1>8. CASE d \in Merged(c)
  <2>1. PICK i \in DOMAIN c.lines :
          d \in {Resized(c, i, q, ok) : q \in c.lines[i].qty + 1 .. MaxQuantity,
                                       ok \in SUBSET Coupons}
    BY <1>8 DEF Merged
  <2>2. c.lines[i].qty + 1 .. MaxQuantity \subseteq Quantities
    BY <1>1, FieldsOfLine, CartLimitsAssumption DEF Quantities
  <2>3. QED
    BY <1>3, <2>1, <2>2
<1>9. CASE d \in Extended(c)
  <2>1. PICK t \in Addable(c), ok \in SUBSET Coupons :
          d = Appended(c, NewLine(t[1], t[2], t[3]), ok)
    BY <1>9 DEF Extended
  <2>2. /\ Len(c.lines) < MaxItems
        /\ t[1] \in Items /\ t[2] \in MaybeExtras /\ t[3] \in Quantities
    BY <2>1 DEF Addable
  <2>3. NewLine(t[1], t[2], t[3]) \in Line
    BY <2>2, NewLineIsLine
  <2>4. QED
    BY <1>4, <2>1, <2>2, <2>3
<1>10. CASE d \in Updated(c)
  BY <1>3, <1>5, <1>10 DEF Updated
<1>11. CASE d \in Removed(c)
  BY <1>6, <1>11 DEF Removed
<1>12. CASE d \in Cleared(c)
  <2>1. <<>> \in Seq(Line) /\ Len(<<>>) <= MaxItems
    BY CartLimitsAssumption
  <2>2. d = Recalculated(c, <<>>, <<>>, None, {})
    BY <1>12 DEF Cleared
  <2>3. QED
    BY <1>1, <2>1, <2>2, RecalculatedIsSound
<1>13. CASE d \in CouponApplied(c) \cup CouponRemoved(c) \cup Refreshed(c)
  BY <1>1, <1>7, <1>13 DEF CouponApplied, CouponRemoved, Refreshed
<1>14. CASE d \in Ordered(c)
  <2>1. /\ d.id = c.id /\ d.active = FALSE
        /\ d.lines = <<>> /\ d.coupon = None
        /\ d = [id |-> d.id, active |-> d.active, lines |-> d.lines,
                coupon |-> d.coupon, subtotal |-> d.subtotal,
                discount |-> d.discount]
    BY <1>14 DEF Ordered
  <2>2. IsRow(d)
    <3>1. d.active \in BOOLEAN
      BY <2>1, Zenon
    <3>2. /\ d.id \in Nat /\ d.lines \in Seq(Line)
          /\ d.coupon \in Coupons \cup {None}
      BY <1>1, <2>1 DEF IsRow
    <3>3. QED
      BY <2>1, <3>1, <3>2 DEF IsRow
  <2>3. Len(d.lines) <= MaxItems
    BY <2>1, CartLimitsAssumption
  <2>4. Covered(d)
    <3>1. PICK r \in Refreshed(c) :
            d = [id |-> c.id, active |-> FALSE, lines |-> <<>>, coupon |-> None,
                 subtotal |-> r.subtotal, discount |-> r.discount]
      BY <1>14 DEF Ordered
    <3>2. Covered(r)
      BY <1>1, <1>7, <3>1 DEF Refreshed, Sound
    <3>3. QED
      BY <2>1, <3>1, <3>2 DEF Covered
  <2>5. QED
    BY <2>1, <2>2, <2>3, <2>4 DEF Sound
<1>15. QED
  BY <1>8, <1>9, <1>10, <1>11, <1>12, <1>13, <1>14 DEF Mutations, Added

LEMMA NewCartIsSound ==
  ASSUME NEW n \in Nat
  PROVE  Sound(NewCart(n)) /\ NewCart(n) = Columns(NewCart(n))
<1>1. NewCart(n).active \in BOOLEAN
  BY Zenon DEF NewCart
<1>2. SumOfCosts(<<>>) = 0
  <2> DEFINE Sums(f) ==
        f = [m \in 0 .. Len(<<>>) |-> IF m = 0 THEN 0
                                     ELSE f[m - 1] + <<>>[m].cost]
  <2>1. Sums([m \in {0} |-> 0])
    OBVIOUS
  <2>2. Sums(CHOOSE f : Sums(f))
    BY <2>1, Zenon
  <2>3. (CHOOSE f : Sums(f))[0] = 0
    BY <2>2
  <2>4. QED
    BY <2>3 DEF SumOfCosts
<1>3. QED
  BY <1>1, <1>2, CartLimitsAssumption
     DEF Sound, Covered, IsRow, NewCart, Columns

LEMMA LoadedIsRow ==
  ASSUME NEW c, IsRow(c)
  PROVE  /\ IsRow(Columns(c))
         /\ \A s \in Seq(Line) : IsRow(WithLines(c, s))
  BY DEF IsRow, Columns, WithLines

(* The columns of a cart with its lines are the cart. *)
LEMMA ColumnsAndLines ==
  ASSUME NEW c, IsRow(c)
  PROVE  Columns(c).id = c.id /\ WithLines(Columns(c), c.lines) = c
  BY DEF IsRow, Columns, WithLines

-----------------------------------------------------------------------------
(* The inductive invariant, one worker at a time *)

CartInv == CartLocking /\ Sound(cart)

WorkerInv(w) ==
  /\ seenStamp[w] <= stamp
  /\ seenStamp[w] = stamp =>
       /\ pc[w] \in {"created", "found"} =>
            cart.active /\ seen[w] = Columns(cart)
       /\ pc[w] \in {"loaded", "decided", "flushed"} =>
            cart.active /\ seen[w] = cart
  /\ pc[w] \in {"decided", "flushed"} => mine[w] \in Mutations(seen[w])
  /\ pc[w] = "flushed" => rowLock = w /\ seenStamp[w] = stamp

LEMMA WorkerByWorker ==
  CartInv <=> CartTypeOK /\ Sound(cart) /\ \A w \in Workers : WorkerInv(w)
  BY DEF CartInv, CartLocking, LoadedRowsArePast, WritesComeFromReads, WorkerInv

(* A step of one worker that changes no row concerns that worker only. *)
LEMMA OneWorkerMoves ==
  ASSUME CartInv, NEW w \in Workers, UNCHANGED <<cart, stamp>>, CartTypeOK',
         \A v \in Workers \ {w} :
           /\ pc'[v] = pc[v] /\ seen'[v] = seen[v]
           /\ seenStamp'[v] = seenStamp[v] /\ mine'[v] = mine[v]
           /\ rowLock = v => rowLock' = v,
         WorkerInv(w)'
  PROVE  CartInv'
<1>1. \A v \in Workers \ {w} : WorkerInv(v)'
  BY WorkerByWorker DEF WorkerInv
<1>2. Sound(cart)'
  BY DEF CartInv
<1>3. QED
  BY <1>1, <1>2
     DEF CartInv, CartLocking, LoadedRowsArePast, WritesComeFromReads, WorkerInv

(* Where a step ends the request. *)
LEMMA LeaveKeepsCartInv ==
  ASSUME CartInv, NEW w \in Workers, Leave(w), UNCHANGED <<shared, requests>>,
         summary' \in Nat \cup {None}
  PROVE  CartInv'
<1>1. CartTypeOK
  BY DEF CartInv, CartLocking
<1>2. IsRow(NewCart(0))
  BY NewCartIsSound DEF Sound
<1>3. CartTypeOK'
  <2>1. pc' \in [Workers -> Positions] /\ job' \in [Workers -> Jobs]
    BY <1>1 DEF CartTypeOK, Leave, Goto, Positions, Jobs
  <2>2. /\ DOMAIN seen' = Workers /\ DOMAIN mine' = Workers
        /\ \A v \in Workers : IsRow(seen'[v])
        /\ seenStamp' \in [Workers -> Nat]
    BY <1>1, <1>2 DEF CartTypeOK, Leave
  <2>3. rowLock' \in Workers \cup {None}
    BY <1>1 DEF CartTypeOK, Leave, Unlock
  <2>4. QED
    BY <1>1, <2>1, <2>2, <2>3 DEF CartTypeOK, shared
<1>4. \A v \in Workers \ {w} :
        /\ pc'[v] = pc[v] /\ seen'[v] = seen[v]
        /\ seenStamp'[v] = seenStamp[v] /\ mine'[v] = mine[v]
        /\ rowLock = v => rowLock' = v
  BY <1>1 DEF CartTypeOK, Leave, Goto, Unlock
<1>5. WorkerInv(w)'
  BY <1>1 DEF CartTypeOK, WorkerInv, Leave, Goto, shared
<1>6. QED
  BY <1>3, <1>4, <1>5, OneWorkerMoves DEF shared

(* Where a step moves on without loading or writing. *)
LEMMA GotoKeepsCartInv ==
  ASSUME CartInv, NEW w \in Workers, NEW p \in Positions, Goto(w, p),
         p \in {"asked", "unlocked", "missing"},
         UNCHANGED <<shared, rowLock, summary, session>>,
         job' \in [Workers -> Jobs], requests' \in Nat
  PROVE  CartInv'
<1>1. CartTypeOK
  BY DEF CartInv, CartLocking
<1>2. CartTypeOK'
  BY <1>1 DEF CartTypeOK, Goto, shared, session
<1>3. WorkerInv(w)'
  BY <1>1, WorkerByWorker DEF CartTypeOK, WorkerInv, Goto, shared, session
<1>4. \A v \in Workers \ {w} : pc'[v] = pc[v]
  BY <1>1 DEF CartTypeOK, Goto
<1>5. QED
  BY <1>2, <1>3, <1>4, OneWorkerMoves DEF shared, session

(* Where it loads the columns of the row that is there. *)
LEMMA ReadKeepsCartInv ==
  ASSUME CartInv, NEW w \in Workers, ReadRow(w), cart.active, Goto(w, "found"),
         UNCHANGED <<shared, summary, requests>>, job' \in [Workers -> Jobs],
         rowLock' = rowLock \/ (rowLock = None /\ rowLock' = w)
  PROVE  CartInv'
<1>1. CartTypeOK /\ IsRow(Columns(cart))
  BY LoadedIsRow DEF CartInv, CartLocking, CartTypeOK
<1>2. CartTypeOK'
  <2>1. pc' \in [Workers -> Positions] /\ seenStamp' \in [Workers -> Nat]
    BY <1>1 DEF CartTypeOK, Goto, ReadRow, Positions, shared
  <2>2. DOMAIN seen' = Workers /\ \A v \in Workers : IsRow(seen'[v])
    BY <1>1 DEF CartTypeOK, ReadRow
  <2>3. QED
    BY <1>1, <2>1, <2>2 DEF CartTypeOK, ReadRow, shared
<1>3. WorkerInv(w)'
  BY <1>1 DEF CartTypeOK, WorkerInv, Goto, ReadRow, shared
<1>4. \A v \in Workers \ {w} :
        /\ pc'[v] = pc[v] /\ seen'[v] = seen[v]
        /\ seenStamp'[v] = seenStamp[v] /\ mine'[v] = mine[v]
        /\ rowLock = v => rowLock' = v
  BY <1>1, WorkersAssumption DEF CartTypeOK, Goto, ReadRow
<1>5. QED
  BY <1>2, <1>3, <1>4, OneWorkerMoves DEF shared

-----------------------------------------------------------------------------
(* The steps *)

LEMMA CreateKeepsCartInv ==
  ASSUME CartInv, NEW w \in Workers, CreateCart(w)
  PROVE  CartInv'
<1>1. CartTypeOK /\ cart' = NewCart(cart.id + 1) /\ ~cart.active
  BY DEF CartInv, CartLocking, CreateCart, OpenCart
<1>2. cart.id + 1 \in Nat
  BY <1>1 DEF CartTypeOK, IsRow
<1>3. Sound(cart') /\ cart' = Columns(cart') /\ cart'.active
  BY <1>1, <1>2, NewCartIsSound DEF NewCart
<1>4. CartTypeOK'
  <2>1. pc' \in [Workers -> Positions] /\ seenStamp' \in [Workers -> Nat]
    BY <1>1 DEF CartTypeOK, CreateCart, Goto, Positions
  <2>2. DOMAIN seen' = Workers /\ \A v \in Workers : IsRow(seen'[v])
    BY <1>1, <1>3 DEF CartTypeOK, CreateCart, Sound
  <2>3. QED
    BY <1>1, <1>3, <2>1, <2>2 DEF CartTypeOK, CreateCart, Sound
<1>5. WorkerInv(w)'
  BY <1>1, <1>3 DEF CartTypeOK, WorkerInv, CreateCart, Goto
<1>6. ASSUME NEW v \in Workers \ {w}
      PROVE  WorkerInv(v)'
  <2>1. /\ pc'[v] = pc[v] /\ seen'[v] = seen[v] /\ mine'[v] = mine[v]
        /\ seenStamp'[v] = seenStamp[v] /\ stamp' = stamp + 1
        /\ stamp \in Nat /\ seenStamp[v] \in Nat
    BY <1>1 DEF CartTypeOK, CreateCart, Goto
  <2>2. pc[v] # "flushed"
    BY <1>1, WorkerByWorker DEF WorkerInv
  <2>3. QED
    BY <2>1, <2>2, WorkerByWorker DEF WorkerInv
<1>7. QED
  BY <1>3, <1>4, <1>5, <1>6
     DEF CartInv, CartLocking, LoadedRowsArePast, WritesComeFromReads, WorkerInv

LEMMA RequireKeepsCartInv ==
  ASSUME CartInv, NEW w \in Workers, RequireCart(w)
  PROVE  CartInv'
<1>1. CartTypeOK
  BY DEF CartInv, CartLocking
<1>2. CASE seen[w].id = cart.id
  <2>1. UNCHANGED <<shared, rowLock, summary, job, session, requests>>
        /\ Goto(w, "found") /\ pc[w] = "created"
    BY <1>2 DEF RequireCart
  <2>2. CartTypeOK'
    BY <1>1, <2>1 DEF CartTypeOK, Goto, Positions, shared, session
  <2>3. WorkerInv(w)'
    BY <1>1, <2>1, WorkerByWorker
       DEF CartTypeOK, WorkerInv, Goto, shared, session
  <2>4. \A v \in Workers \ {w} : pc'[v] = pc[v]
    BY <1>1, <2>1 DEF CartTypeOK, Goto
  <2>5. QED
    BY <2>1, <2>2, <2>3, <2>4, OneWorkerMoves DEF shared, session
<1>3. CASE seen[w].id # cart.id
  BY <1>1, <1>3, ReadKeepsCartInv DEF RequireCart, CartTypeOK
<1>4. QED
  BY <1>2, <1>3

LEMMA LoadKeepsCartInv ==
  ASSUME CartInv, NEW w \in Workers, LoadLines(w)
  PROVE  CartInv'
<1> DEFINE s == IF seen[w].id = cart.id THEN cart.lines ELSE <<>>
<1>1. CartTypeOK /\ IsRow(cart) /\ IsRow(seen[w]) /\ s \in Seq(Line)
  BY DEF CartInv, CartLocking, CartTypeOK, IsRow
<1>2. /\ seen' = [seen EXCEPT ![w] = WithLines(seen[w], s)]
      /\ Goto(w, "loaded") /\ pc[w] = "found"
      /\ UNCHANGED <<shared, rowLock, summary, job, seenStamp, mine, requests>>
  BY DEF LoadLines
<1>3. IsRow(WithLines(seen[w], s))
  BY <1>1, LoadedIsRow
<1>4. CartTypeOK'
  <2>1. pc' \in [Workers -> Positions]
    BY <1>1, <1>2 DEF CartTypeOK, Goto, Positions
  <2>2. DOMAIN seen' = Workers /\ \A v \in Workers : IsRow(seen'[v])
    BY <1>1, <1>2, <1>3 DEF CartTypeOK
  <2>3. QED
    BY <1>1, <1>2, <2>1, <2>2 DEF CartTypeOK, shared
<1>5. seenStamp[w] = stamp =>
        cart.active /\ WithLines(seen[w], s) = cart
  BY <1>1, <1>2, WorkerByWorker, ColumnsAndLines DEF WorkerInv
<1>6. WorkerInv(w)'
  BY <1>1, <1>2, <1>5, WorkerByWorker DEF CartTypeOK, WorkerInv, Goto, shared
<1>7. \A v \in Workers \ {w} : pc'[v] = pc[v] /\ seen'[v] = seen[v]
  BY <1>1, <1>2 DEF CartTypeOK, Goto
<1>8. QED
  BY <1>2, <1>4, <1>6, <1>7, OneWorkerMoves DEF shared

(* The eight operations: what is decided is an effect on what was loaded.  *)
LEMMA DecideKeepsCartInv ==
  ASSUME CartInv, NEW w \in Workers, NEW j, NEW results,
         Decide(w, j, results), results \subseteq Mutations(seen[w])
  PROVE  CartInv'
<1>1. CartTypeOK
  BY DEF CartInv, CartLocking
<1>2. PICK d \in results : mine' = [mine EXCEPT ![w] = d]
  BY DEF Decide
<1>3. /\ Goto(w, "decided") /\ pc[w] = "loaded"
      /\ UNCHANGED <<shared, rowLock, summary, job, seen, seenStamp, requests>>
  BY DEF Decide
<1>4. CartTypeOK'
  <2>1. pc' \in [Workers -> Positions] /\ DOMAIN mine' = Workers
    BY <1>1, <1>2, <1>3 DEF CartTypeOK, Goto, Positions
  <2>2. QED
    BY <1>1, <1>3, <2>1 DEF CartTypeOK, shared
<1>5. WorkerInv(w)'
  <2>1. mine'[w] \in Mutations(seen'[w]) /\ pc'[w] = "decided"
    BY <1>1, <1>2, <1>3 DEF CartTypeOK, Goto
  <2>2. QED
    BY <1>3, <2>1, WorkerByWorker DEF WorkerInv, shared
<1>6. \A v \in Workers \ {w} : pc'[v] = pc[v] /\ mine'[v] = mine[v]
  BY <1>1, <1>2, <1>3 DEF CartTypeOK, Goto
<1>7. QED
  BY <1>3, <1>4, <1>5, <1>6, OneWorkerMoves DEF shared

LEMMA FlushKeepsCartInv ==
  ASSUME CartInv, NEW w \in Workers, Flush(w)
  PROVE  CartInv'
<1>1. CartTypeOK
  BY DEF CartInv, CartLocking
<1>2. CartTypeOK'
  <2>1. pc' \in [Workers -> Positions] /\ rowLock' \in Workers \cup {None}
    BY <1>1 DEF CartTypeOK, Flush, Goto, Positions
  <2>2. summary' \in Nat \cup {None}
    BY <1>1 DEF CartTypeOK, Flush, InvalidateUser
  <2>3. QED
    BY <1>1, <2>1, <2>2 DEF CartTypeOK, Flush, shared, session
<1>3. WorkerInv(w)'
  BY <1>1, WorkerByWorker
     DEF CartTypeOK, WorkerInv, Flush, Goto, shared, session
<1>4. \A v \in Workers \ {w} :
        /\ pc'[v] = pc[v] /\ seen'[v] = seen[v]
        /\ seenStamp'[v] = seenStamp[v] /\ mine'[v] = mine[v]
        /\ rowLock = v => rowLock' = v
  BY <1>1, WorkersAssumption DEF CartTypeOK, Flush, Goto, session
<1>5. QED
  BY <1>2, <1>3, <1>4, OneWorkerMoves DEF Flush, shared

(* A commit is an atomic request on the current cart. *)
LEMMA CommitMutates ==
  ASSUME CartInv, NEW w \in Workers, Commit(w)
  PROVE  Mutate
<1>1. seen[w] = cart /\ cart.active /\ mine[w] \in Mutations(seen[w])
  BY WorkerByWorker DEF WorkerInv, Commit
<1>2. QED
  BY <1>1 DEF Mutate, Commit

LEMMA CommitKeepsCartInv ==
  ASSUME CartInv, NEW w \in Workers, Commit(w)
  PROVE  CartInv'
<1>1. CartTypeOK
  BY DEF CartInv, CartLocking
<1>2. Sound(cart')
  BY CommitMutates, MutationsAreSound DEF Mutate, CartInv
<1>3. rowLock = w /\ seenStamp[w] = stamp
  BY WorkerByWorker DEF WorkerInv, Commit
<1>4. CartTypeOK'
  <2>1. pc' \in [Workers -> Positions] /\ rowLock' \in Workers \cup {None}
    BY <1>1 DEF CartTypeOK, Commit, Goto, Unlock, Positions
  <2>2. stamp' \in Nat
    BY <1>1 DEF CartTypeOK, Commit
  <2>3. QED
    BY <1>1, <1>2, <2>1, <2>2 DEF CartTypeOK, Commit, Sound, session
<1>5. ASSUME NEW v \in Workers
      PROVE  WorkerInv(v)'
  <2>1. /\ seen'[v] = seen[v] /\ mine'[v] = mine[v]
        /\ seenStamp'[v] = seenStamp[v] /\ stamp' = stamp + 1
        /\ stamp \in Nat /\ seenStamp[v] \in Nat /\ seenStamp[v] <= stamp
    BY <1>1, WorkerByWorker DEF CartTypeOK, Commit, session, WorkerInv
  <2>2. pc'[v] = (IF v = w THEN "committed" ELSE pc[v])
    BY <1>1 DEF CartTypeOK, Commit, Goto
  <2>3. v # w => pc[v] # "flushed"
    BY <1>3, WorkerByWorker DEF WorkerInv
  <2>4. QED
    BY <2>1, <2>2, <2>3, WorkerByWorker DEF WorkerInv
<1>6. QED
  BY <1>2, <1>4, <1>5
     DEF CartInv, CartLocking, LoadedRowsArePast, WritesComeFromReads, WorkerInv

LEMMA InitIsCartInv == CartInit => CartInv
<1> SUFFICES ASSUME CartInit PROVE CartInv
  OBVIOUS
<1>1. Sound(cart) /\ IsRow(NewCart(0))
  <2>1. Sound(NewCart(0)) /\ cart = [NewCart(0) EXCEPT !.active = FALSE]
    BY NewCartIsSound DEF CartInit, Init
  <2> DEFINE d == [id |-> 0, active |-> FALSE, lines |-> <<>>, coupon |-> None,
                   subtotal |-> 0, discount |-> 0]
  <2>2. cart = d
    BY <2>1, Zenon DEF NewCart
  <2>3. d.active \in BOOLEAN
    BY Zenon
  <2>4. IsRow(d)
    BY <2>3 DEF IsRow
  <2>5. QED
    BY <2>1, <2>2, <2>4, CartLimitsAssumption DEF Sound, Covered
<1>2. CartTypeOK
  BY <1>1 DEF CartTypeOK, CartInit, Sound, Positions, Jobs
<1>3. LoadedRowsArePast /\ WritesComeFromReads
  BY DEF CartInit, LoadedRowsArePast, WritesComeFromReads
<1>4. QED
  BY <1>1, <1>2, <1>3 DEF CartInv, CartLocking

(* The other steps of a handler, by what they do to its session. *)
LEMMA StepKeepsCartInv ==
  ASSUME CartInv, NEW w \in Workers, Begin(w) \/ HandlerStep(w) \/ Crash(w)
  PROVE  CartInv'
<1>1. CartTypeOK
  BY DEF CartInv, CartLocking
<1>2. CASE Begin(w)
  <2>1. job' \in [Workers -> Jobs] /\ requests' \in Nat
    BY <1>1, <1>2 DEF Begin, CartTypeOK, Jobs
  <2>2. QED
    BY <1>2, <2>1, GotoKeepsCartInv DEF Begin, Positions
<1>3. CASE NoLock(w) \/ NothingToLock(w) \/ MissCart(w)
  BY <1>1, <1>3, GotoKeepsCartInv
     DEF NoLock, NothingToLock, MissCart, Positions, CartTypeOK
<1>4. CASE \/ SummaryHit(w) \/ NothingToOrder(w) \/ CreateRefused(w)
           \/ CreatedGone(w) \/ Refuse(w) \/ FlushStale(w) \/ Crash(w)
  <2>1. UNCHANGED <<shared, summary, requests>> /\ Leave(w)
    BY <1>4 DEF SummaryHit, NothingToOrder, CreateRefused, CreatedGone,
                Refuse, FlushStale, Crash
  <2>2. QED
    BY <1>1, <2>1, LeaveKeepsCartInv DEF CartTypeOK
<1>5. CASE FillSummary(w)
  <2>1. summary' \in Nat \cup {None}
    BY <1>1, <1>5 DEF CartTypeOK, FillSummary
  <2>2. QED
    BY <1>5, <2>1, LeaveKeepsCartInv DEF FillSummary
<1>6. CASE Answer(w)
  <2>1. summary' \in Nat \cup {None}
    BY <1>1, <1>6 DEF CartTypeOK, Answer, InvalidateUser
  <2>2. QED
    BY <1>6, <2>1, LeaveKeepsCartInv DEF Answer
<1>7. CASE LockCart(w) \/ FindCart(w)
  BY <1>1, <1>7, ReadKeepsCartInv DEF LockCart, FindCart, CartTypeOK
<1>8. CASE SwitchCart(w)
  <2>1. job' \in [Workers -> Jobs]
    BY <1>1, <1>8 DEF SwitchCart, CartTypeOK, Jobs
  <2>2. QED
    BY <1>8, <2>1, ReadKeepsCartInv DEF SwitchCart
<1>9. CASE \/ AddItem(w) \/ UpdateItem(w) \/ RemoveItem(w) \/ Clear(w)
           \/ ApplyCoupon(w) \/ RemoveCoupon(w) \/ Recalculate(w)
           \/ PlaceOrder(w)
  <2>1. PICK j, results :
          Decide(w, j, results) /\ results \subseteq Mutations(seen[w])
    BY <1>9 DEF AddItem, UpdateItem, RemoveItem, Clear, ApplyCoupon,
                RemoveCoupon, Recalculate, PlaceOrder, Mutations
  <2>2. QED
    BY <2>1, DecideKeepsCartInv
<1>10. QED
  BY <1>2, <1>3, <1>4, <1>5, <1>6, <1>7, <1>8, <1>9, CreateKeepsCartInv,
     RequireKeepsCartInv, LoadKeepsCartInv, FlushKeepsCartInv,
     CommitKeepsCartInv
     DEF HandlerStep

LEMMA NextKeepsCartInv == CartInv /\ [CartNext]_allVars => CartInv'
<1> SUFFICES ASSUME CartInv, [CartNext]_allVars PROVE CartInv'
  OBVIOUS
<1>1. CASE ExpireSummary
  BY <1>1 DEF ExpireSummary, CartInv, CartLocking, CartTypeOK,
              LoadedRowsArePast, WritesComeFromReads, shared, session
<1>2. CASE UNCHANGED allVars
  BY <1>2 DEF allVars, CartInv, CartLocking, CartTypeOK,
              LoadedRowsArePast, WritesComeFromReads, shared, session
<1>3. QED
  BY <1>1, <1>2, StepKeepsCartInv DEF CartNext

LEMMA CartInvHolds == CartSpec => []CartInv
  BY InitIsCartInv, NextKeepsCartInv, PTL DEF CartSpec

-----------------------------------------------------------------------------
(* The theorems *)

(* What a request is about to write is an effect of it on the cart it      *)
(* loaded, and once its UPDATE matched the version, on the current cart:   *)
(* also for the requests that never lock the row.                          *)
THEOREM CartAtomicity == CartSpec => []CartLocking
<1>1. CartInv => CartLocking
  BY DEF CartInv
<1>2. QED
  BY <1>1, CartInvHolds, PTL

(* Concurrent, failing, crashing cart requests implement atomic ones.      *)
THEOREM CartRefinement == CartSpec => ImplementsCartMachine
<1>1. CartInit => Init
  BY DEF CartInit
<1>2. CartInv /\ [CartNext]_allVars => [OpenCart \/ Mutate]_cart
  <2> SUFFICES ASSUME CartInv, [CartNext]_allVars
               PROVE  [OpenCart \/ Mutate]_cart
    OBVIOUS
  <2>1. ASSUME NEW w \in Workers, Commit(w) PROVE Mutate
    BY <2>1, CommitMutates
  <2>2. ASSUME NEW w \in Workers, CreateCart(w) PROVE OpenCart
    BY <2>2 DEF CreateCart
  <2>3. ASSUME NEW w \in Workers, HandlerStep(w), ~Commit(w), ~CreateCart(w)
        PROVE  UNCHANGED cart
    BY <2>3 DEF HandlerStep, SummaryHit, NoLock, LockCart, NothingToLock,
                NothingToOrder, FindCart, MissCart, CreateRefused, RequireCart,
                CreatedGone, LoadLines, AddItem, UpdateItem, RemoveItem, Clear,
                ApplyCoupon, RemoveCoupon, Recalculate, PlaceOrder, Decide,
                SwitchCart, FillSummary, Flush, FlushStale, Answer, Refuse,
                shared
  <2>4. ASSUME NEW w \in Workers, Begin(w) \/ Crash(w)
        PROVE  UNCHANGED cart
    BY <2>4 DEF Begin, Crash, shared
  <2>5. ExpireSummary \/ UNCHANGED allVars => UNCHANGED cart
    BY DEF ExpireSummary, allVars, shared
  <2>6. QED
    BY <2>1, <2>2, <2>3, <2>4, <2>5 DEF CartNext
<1>3. QED
  BY <1>1, <1>2, CartInvHolds, PTL DEF CartSpec, ImplementsCartMachine, Spec

(* No interleaving of requests exceeds cart_max_items or                   *)
(* cart_max_item_quantity, although both are checked on loaded objects.    *)
THEOREM CartLimits == CartSpec => []CartWithinLimits
<1>1. CartInv => CartWithinLimits
  BY FieldsOfLine DEF CartInv, Sound, IsRow, CartWithinLimits
<1>2. QED
  BY <1>1, CartInvHolds, PTL

(* What is left to pay is never negative, and a cart without a coupon has  *)
(* no discount: the check constraints of the carts table never fail.       *)
THEOREM CartDiscount == CartSpec => []DiscountCovered
<1>1. CartInv => DiscountCovered
  BY DEF CartInv, Sound, Covered, DiscountCovered
<1>2. QED
  BY <1>1, CartInvHolds, PTL

(* The stored subtotal of an active cart misses at most its newest line.   *)
THEOREM CartTotals == CartSpec => []TotalsMissOnlyNewest
<1>1. CartInv => TotalsMissOnlyNewest
  BY DEF CartInv, Sound, TotalsMissOnlyNewest
<1>2. QED
  BY <1>1, CartInvHolds, PTL

-----------------------------------------------------------------------------
(* Why cart requests end *)

LEMMA Stages ==
  ASSUME NEW j \in Jobs
  PROVE  LET k == IF j = "touch" THEN 10 ELSE 0 IN
         /\ Stage("asked", j) = k + 1 /\ Stage("unlocked", j) = k + 2
         /\ Stage("missing", j) = k + 3 /\ Stage("created", j) = k + 4
         /\ Stage("found", j) = k + 5 /\ Stage("loaded", j) = k + 6
         /\ Stage("decided", j) = k + 7 /\ Stage("flushed", j) = k + 8
         /\ Stage("committed", j) = k + 9
  BY DEF Stage

(* Position p with job i comes after position q with job j. *)
After(q, j, p, i) == p # q /\ (p = "idle" \/ Stage(p, i) > Stage(q, j))

LEMMA StepsAfter ==
  ASSUME NEW j \in Jobs
  PROVE  /\ \A q \in Positions \ {"idle"} : \A i : After(q, j, "idle", i)
         /\ After("asked", j, "unlocked", j) /\ After("asked", j, "found", j)
         /\ After("unlocked", j, "found", j) /\ After("unlocked", j, "missing", j)
         /\ After("missing", j, "created", j) /\ After("created", j, "found", j)
         /\ After("found", j, "loaded", j) /\ After("loaded", j, "decided", j)
         /\ After("decided", j, "flushed", j) /\ After("flushed", j, "committed", j)
  BY Stages DEF After, Positions

LEMMA SwitchAfter == After("loaded", "mutate", "found", "touch")
  BY Stages DEF After, Jobs

LEMMA HandlerMovesOn ==
  ASSUME CartTypeOK, NEW w \in Workers, HandlerStep(w) \/ Crash(w)
  PROVE  \E p : /\ pc' = [pc EXCEPT ![w] = p] /\ After(pc[w], job[w], p, job'[w])
                /\ \A v \in Workers : v # w => job'[v] = job[v]
<1>1. pc[w] \in Positions /\ job[w] \in Jobs /\ job \in [Workers -> Jobs]
  BY DEF CartTypeOK
<1>2. CASE \/ SummaryHit(w) \/ NothingToOrder(w) \/ CreateRefused(w) \/ CreatedGone(w)
           \/ FillSummary(w) \/ FlushStale(w) \/ Answer(w) \/ Refuse(w) \/ Crash(w)
  <2>1. pc[w] # "idle" /\ Leave(w)
    BY <1>2 DEF SummaryHit, NothingToOrder, CreateRefused, CreatedGone, FillSummary,
                FlushStale, Answer, Refuse, Crash
  <2>2. QED
    BY <1>1, <2>1, StepsAfter DEF Leave, Goto
<1>3. CASE NoLock(w) \/ NothingToLock(w)
  BY <1>1, <1>3, StepsAfter DEF NoLock, NothingToLock, Goto
<1>4. CASE LockCart(w)
  BY <1>1, <1>4, StepsAfter DEF LockCart, Goto
<1>5. CASE FindCart(w)
  BY <1>1, <1>5, StepsAfter DEF FindCart, Goto
<1>6. CASE MissCart(w)
  BY <1>1, <1>6, StepsAfter DEF MissCart, Goto
<1>7. CASE CreateCart(w)
  BY <1>1, <1>7, StepsAfter DEF CreateCart, Goto
<1>8. CASE RequireCart(w)
  BY <1>1, <1>8, StepsAfter DEF RequireCart, Goto
<1>9. CASE LoadLines(w)
  BY <1>1, <1>9, StepsAfter DEF LoadLines, Goto
<1>10. CASE \/ AddItem(w) \/ UpdateItem(w) \/ RemoveItem(w) \/ Clear(w)
            \/ ApplyCoupon(w) \/ RemoveCoupon(w) \/ Recalculate(w) \/ PlaceOrder(w)
  <2>1. pc[w] = "loaded" /\ Goto(w, "decided") /\ UNCHANGED job
    BY <1>10 DEF AddItem, UpdateItem, RemoveItem, Clear, ApplyCoupon, RemoveCoupon,
                 Recalculate, PlaceOrder, Decide
  <2>2. QED
    BY <1>1, <2>1, StepsAfter DEF Goto
<1>11. CASE SwitchCart(w)
  <2>1. /\ pc[w] = "loaded" /\ job[w] = "mutate" /\ job'[w] = "touch"
        /\ pc' = [pc EXCEPT ![w] = "found"]
        /\ \A v \in Workers : v # w => job'[v] = job[v]
    BY <1>1, <1>11 DEF SwitchCart, Goto
  <2>2. QED
    BY <2>1, SwitchAfter
<1>12. CASE Flush(w)
  BY <1>1, <1>12, StepsAfter DEF Flush, Goto
<1>13. CASE Commit(w)
  BY <1>1, <1>13, StepsAfter DEF Commit, Goto
<1>14. QED
  BY <1>2, <1>3, <1>4, <1>5, <1>6, <1>7, <1>8, <1>9, <1>10, <1>11, <1>12, <1>13
     DEF HandlerStep

(* Nothing moves a request but its own steps and its death. *)
LEMMA NobodyMovesBack ==
  ASSUME CartTypeOK, [CartNext]_allVars, NEW v \in Workers, pc[v] # "idle", pc'[v] # pc[v]
  PROVE  pc'[v] = "idle" \/ Stage(pc'[v], job'[v]) > Stage(pc[v], job[v])
<1>1. CASE \E w \in Workers : HandlerStep(w) \/ Crash(w)
  <2>1. PICK w \in Workers : HandlerStep(w) \/ Crash(w)
    BY <1>1
  <2>2. PICK p : pc' = [pc EXCEPT ![w] = p] /\ After(pc[w], job[w], p, job'[w])
    BY <2>1, HandlerMovesOn
  <2>3. v = w /\ pc'[v] = p
    BY <2>2 DEF CartTypeOK
  <2>4. QED
    BY <2>2, <2>3 DEF After
<1>2. CASE \E w \in Workers : Begin(w)
  BY <1>2 DEF Begin, Goto, CartTypeOK
<1>3. CASE ExpireSummary \/ UNCHANGED allVars
  BY <1>3 DEF ExpireSummary, allVars
<1>4. QED
  BY <1>1, <1>2, <1>3 DEF CartNext

(* Where a request holds the row. *)
Underway == {"found", "loaded", "decided", "flushed"}

LEMMA HolderStays ==
  ASSUME CartTypeOK, HolderIsUnderway, NEW w \in Workers,
         Begin(w) \/ HandlerStep(w) \/ Crash(w)
  PROVE  HolderIsUnderway'
<1>1. pc \in [Workers -> Positions]
  BY DEF CartTypeOK
<1>2. CASE Leave(w) \/ Commit(w)
  <2>1. /\ rowLock' = IF rowLock = w THEN None ELSE rowLock
        /\ \A v \in Workers : v # w => pc'[v] = pc[v]
    BY <1>1, <1>2 DEF Leave, Commit, Unlock, Goto
  <2>2. QED
    BY <2>1 DEF HolderIsUnderway
<1>3. CASE \/ Begin(w) \/ NoLock(w) \/ NothingToLock(w) \/ MissCart(w) \/ CreateCart(w)
  <2>1. /\ UNCHANGED rowLock /\ pc[w] \in {"idle", "asked", "unlocked", "missing"}
        /\ \A v \in Workers : v # w => pc'[v] = pc[v]
    BY <1>1, <1>3 DEF Begin, NoLock, NothingToLock, MissCart, CreateCart, Goto
  <2>2. QED
    BY <2>1 DEF HolderIsUnderway
<1>4. CASE \/ LockCart(w) \/ FindCart(w) \/ RequireCart(w) \/ LoadLines(w)
           \/ SwitchCart(w) \/ Flush(w) \/ \E j, results : Decide(w, j, results)
  <2>1. /\ rowLock' \in {rowLock, w} /\ pc'[w] \in Underway
        /\ \A v \in Workers : v # w => pc'[v] = pc[v]
    BY <1>1, <1>4 DEF LockCart, FindCart, RequireCart, LoadLines, SwitchCart, Flush,
                      Decide, Goto, Underway
  <2>2. QED
    BY <2>1 DEF HolderIsUnderway, Underway
<1>5. CASE \/ AddItem(w) \/ UpdateItem(w) \/ RemoveItem(w) \/ Clear(w)
           \/ ApplyCoupon(w) \/ RemoveCoupon(w) \/ Recalculate(w) \/ PlaceOrder(w)
  BY <1>4, <1>5 DEF AddItem, UpdateItem, RemoveItem, Clear, ApplyCoupon, RemoveCoupon,
                    Recalculate, PlaceOrder
<1>6. CASE \/ SummaryHit(w) \/ NothingToOrder(w) \/ CreateRefused(w) \/ CreatedGone(w)
           \/ FillSummary(w) \/ FlushStale(w) \/ Answer(w) \/ Refuse(w) \/ Crash(w)
  BY <1>2, <1>6 DEF SummaryHit, NothingToOrder, CreateRefused, CreatedGone, FillSummary,
                    FlushStale, Answer, Refuse, Crash
<1>7. QED
  BY <1>2, <1>3, <1>4, <1>5, <1>6 DEF HandlerStep

(* The row lock is held by a request on its way to its commit, which waits *)
(* for no row, and no request repeats a step but for one switch of carts:  *)
(* what is left of CartRequestsFinish is that each is given its steps.     *)
THEOREM CartRequestsNeverStuck == CartSpec => []HolderIsUnderway /\ CartRequestsGoForward
<1> DEFINE A(w) ==
      /\ HandlerStep(w) => pc'[w] # pc[w]
      /\ pc[w] # "idle" /\ pc'[w] # pc[w]
           => pc'[w] = "idle" \/ Stage(pc'[w], job'[w]) > Stage(pc[w], job[w])
<1>1. CartInit => HolderIsUnderway
  BY DEF CartInit, HolderIsUnderway
<1>2. CartLocking /\ HolderIsUnderway /\ [CartNext]_allVars => HolderIsUnderway'
  <2> SUFFICES ASSUME CartTypeOK, HolderIsUnderway, [CartNext]_allVars
               PROVE  HolderIsUnderway'
    BY DEF CartLocking
  <2>1. CASE ExpireSummary \/ UNCHANGED allVars
    BY <2>1 DEF ExpireSummary, allVars, HolderIsUnderway
  <2>2. QED
    BY <2>1, HolderStays DEF CartNext
<1>3. CartLocking /\ [CartNext]_allVars => [\A w \in Workers : A(w)]_allVars
  <2> SUFFICES ASSUME CartTypeOK, [CartNext]_allVars, NEW w \in Workers PROVE A(w)
    BY DEF CartLocking
  <2>1. HandlerStep(w) => pc'[w] # pc[w]
    BY HandlerMovesOn DEF CartTypeOK, After
  <2>2. QED
    BY <2>1, NobodyMovesBack
<1>4. QED
  BY <1>1, <1>2, <1>3, CartAtomicity, PTL DEF CartSpec, CartRequestsGoForward

=============================================================================
