-------------------------------- MODULE Pricing --------------------------------
(***************************************************************************)
(* What a cart costs: CartService.recalculate (src/app/services/cart.py)   *)
(* over CouponService, DeliveryService and TaxService, with the settings   *)
(* and the coupon an administrator may edit between two calls.  Amounts    *)
(* are integers of a hundredth of a rupee, percentages integers of a       *)
(* hundredth of a percent: both are NUMERIC(12, 2) in the database.        *)
(***************************************************************************)
EXTENDS Integers

CONSTANTS
  Subtotals,       \* what the lines of a cart may come to
  Fees,            \* values of delivery.fee; nothing stops a negative one
  Thresholds,      \* values of delivery.free_threshold
  Rates,           \* values of tax.percent
  CouponValues,    \* coupons.value: an amount or a percentage
  Minimums,        \* coupons.minimum_order_amount, 0 for NULL
  Caps             \* coupons.maximum_discount, or NoCap

NoCap == -1

ASSUME PricingAssumption ==
  /\ Fees \subseteq Int /\ Thresholds \subseteq Int /\ Rates \subseteq Int
  /\ \A s \in Subtotals \cup CouponValues \cup Minimums : s \in Nat
  /\ Caps \subseteq Nat \cup {NoCap}

VARIABLES
  terms,           \* CommerceConfig: what the settings say now
  coupon,          \* the row of one coupon
  bill             \* the totals of one cart, and whether it holds the coupon

pricingVars == <<terms, coupon, bill>>

Terms == [fee : Fees, threshold : Thresholds, rate : Rates]
Coupons ==
  {c \in [percentage : BOOLEAN, value : CouponValues, minimum : Minimums, cap : Caps] :
     c.percentage => c.value <= 10000}

Least(a, b) == IF a <= b THEN a ELSE b
Waived == 0

(* ROUND_HALF_UP of n / d, for n >= 0. *)
Money(n, d) == (2 * n + d) \div (2 * d)

(* CouponService.calculate_discount before its last line, which a bug may  *)
(* leave out.                                                              *)
DiscountUncapped(c, subtotal) ==
  LET full == IF c.percentage THEN Money(subtotal * c.value, 10000) ELSE c.value
  IN  IF c.cap = NoCap THEN full ELSE Least(full, c.cap)

Discount(c, subtotal) == Least(DiscountUncapped(c, subtotal), subtotal)

(* A bug: free delivery only beyond the threshold.                         *)
FeeBeyond(t, after) == IF t.threshold > 0 /\ after > t.threshold THEN Waived ELSE t.fee

Free(t, after) == t.threshold > 0 /\ after >= t.threshold
Fee(t, after) == IF Free(t, after) THEN Waived ELSE t.fee

Tax(t, after) == IF t.rate <= 0 \/ after <= 0 THEN 0 ELSE Money(after * t.rate, 10000)

Bill(subtotal, held, discount, fee, tax) ==
  [subtotal |-> subtotal, held |-> held, discount |-> discount, fee |-> fee,
   tax |-> tax, total |-> subtotal - discount + fee + tax]

Good(c, subtotal) == subtotal >= c.minimum

(* Bugs: a discount that outlives its coupon, and free delivery judged     *)
(* before the discount.                                                    *)
DroppedLate(t, c, subtotal, holds) ==
  LET held == holds /\ Good(c, subtotal)
      less == IF holds THEN Discount(c, subtotal) ELSE 0
  IN  Bill(subtotal, held, less, Fee(t, subtotal - less), Tax(t, subtotal - less))

FeeBeforeDiscount(t, c, subtotal, holds) ==
  LET held == holds /\ Good(c, subtotal)
      less == IF held THEN Discount(c, subtotal) ELSE 0
  IN  Bill(subtotal, held, less, Fee(t, subtotal), Tax(t, subtotal - less))

(* A coupon that is no longer good leaves the cart and takes nothing off.  *)
Recalculated(t, c, subtotal, holds) ==
  LET held == holds /\ Good(c, subtotal)
      less == IF held THEN Discount(c, subtotal) ELSE 0
  IN  Bill(subtotal, held, less, Fee(t, subtotal - less), Tax(t, subtotal - less))

(* The CHECK constraints of carts. *)
Storable(b) == b.subtotal >= 0 /\ b.discount >= 0 /\ b.fee >= 0 /\ b.tax >= 0 /\ b.total >= 0

-----------------------------------------------------------------------------

PricingInit ==
  /\ terms \in {t \in Terms : t.fee >= 0}
  /\ coupon \in Coupons
  /\ bill = Bill(0, FALSE, 0, 0, 0)

(* Totals that break a CHECK end the request, and the cart stays.          *)
Store(subtotal, holds) ==
  LET b == Recalculated(terms, coupon, subtotal, holds)
  IN  Storable(b) /\ bill' = b

(* add_item, update_item, remove_item, clear, a refresh and a checkout:    *)
(* what the lines come to, with the coupon of the cart unless it has been  *)
(* switched off, has expired or is used up.                                *)
Reprice ==
  /\ \E s \in Subtotals, holds \in {bill.held, FALSE} : Store(s, holds)
  /\ UNCHANGED <<terms, coupon>>

ApplyCoupon ==
  /\ \E s \in Subtotals : Good(coupon, s) /\ Store(s, TRUE)
  /\ UNCHANGED <<terms, coupon>>

RemoveCoupon ==
  /\ \E s \in Subtotals : Store(s, FALSE)
  /\ UNCHANGED <<terms, coupon>>

EditCoupon == coupon' \in Coupons /\ UNCHANGED <<terms, bill>>
EditTerms == terms' \in Terms /\ UNCHANGED <<coupon, bill>>

PricingNext == Reprice \/ ApplyCoupon \/ RemoveCoupon \/ EditCoupon \/ EditTerms

PricingSpec == PricingInit /\ [][PricingNext]_pricingVars

-----------------------------------------------------------------------------

(* What a cart shows adds up, and nothing is taken off a cart that holds   *)
(* no coupon: a coupon that went took its discount along.                  *)
PricingTypeOK ==
  /\ terms \in Terms /\ coupon \in Coupons
  /\ Storable(bill) /\ bill.held \in BOOLEAN
  /\ bill.total = bill.subtotal - bill.discount + bill.fee + bill.tax
  /\ bill.discount > 0 => bill.held

(* While no setting is negative, whatever is put into the cart can be      *)
(* priced: no coupon makes its totals break a CHECK of the table, which    *)
(* would refuse every request on that cart.                                *)
EveryCartHasAPrice ==
  terms.fee >= 0 => \A s \in Subtotals : Storable(Recalculated(terms, coupon, s, bill.held))

(* A fuller cart costs no less, coupon, rounding and tax included, unless  *)
(* what is added takes the discounted sum to free delivery, or brings back *)
(* a coupon whose minimum was missed.                                      *)
MoreCostsMore ==
  LET now == Recalculated(terms, coupon, bill.subtotal, bill.held)
  IN  \A s \in Subtotals :
        LET more == Recalculated(terms, coupon, s, bill.held)
        IN  s > bill.subtotal /\ more.total < now.total =>
              \/ ~now.held /\ more.held
              \/ ~Free(terms, now.subtotal - now.discount) /\ Free(terms, s - more.discount)

(* A coupon makes a cart dearer in one case alone: it takes the sum back   *)
(* under the threshold of free delivery, and then by no more than the fee. *)
CouponCostsAtMostTheFee ==
  LET without == Recalculated(terms, coupon, bill.subtotal, FALSE)
      with == Recalculated(terms, coupon, bill.subtotal, TRUE)
  IN  with.total > without.total =>
        /\ Free(terms, bill.subtotal) /\ ~Free(terms, bill.subtotal - with.discount)
        /\ with.total <= without.total + terms.fee

(* All that is promised of prices: every cart has one, a fuller cart costs *)
(* no less and a coupon helps, but for the free delivery gained or lost.   *)
PricesCorrect ==
  /\ PricingTypeOK /\ EveryCartHasAPrice
  /\ MoreCostsMore /\ CouponCostsAtMostTheFee

=============================================================================
