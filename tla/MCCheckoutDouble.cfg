CONSTANTS
  None = None
  Users = {u1}
  Coupons = {c1}
  Keys = {k1}
  Workers = {w1, w2}
  UsageLimit <- AmpleUsage
  PerUserLimit <- OncePerUser
  Lapses = TRUE
  Faults = FALSE
  MaxRequests = 2
  MaxCarts = 2
  MaxVersion = 2
SPECIFICATION CheckoutSpec
CHECK_DEADLOCK FALSE
INVARIANTS
  NoDoubleSubmit
