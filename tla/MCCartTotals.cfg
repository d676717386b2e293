CONSTANTS
  None = None
  Items = {pizza}
  Extras = {cheese}
  Coupons = {c1}
  ItemPrice <- OnePrice
  ExtrasPrice <- OneExtras
  Value <- LargeValue
  MaxItems = 2
  MaxQuantity = 2
  Workers = {w1, w2}
  Faults = TRUE
  MaxRequests = 4
SPECIFICATION CartSpec
CHECK_DEADLOCK FALSE
SYMMETRY CartSymmetry
INVARIANTS
  CartWithinLimits
  TotalsMissOnlyNewest
  DiscountCovered
