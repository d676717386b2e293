CONSTANTS
  None = None
  Users = {u1, u2}
  Coupons = {c1}
  Keys = {k1}
  Workers = {w1, w2}
  UsageLimit <- ScarceUsage
  PerUserLimit <- OncePerUser
  Lapses = TRUE
  Faults = TRUE
  MaxRequests = 2
  MaxCarts = 1
  MaxVersion = 2
SPECIFICATION FairCheckoutSpec
CHECK_DEADLOCK FALSE
INVARIANTS
  CheckoutLocking
  NumbersGapFree
  CouponsCounted
PROPERTIES
  CheckoutsSettle
  ImplementsPurchases
