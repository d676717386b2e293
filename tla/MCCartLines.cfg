CONSTANTS
  None = None
  Items = {pizza}
  Extras = {cheese}
  Coupons = {c1}
  ItemPrice <- OnePrice
  ExtrasPrice <- OneExtras
  Value <- LargeValue
  MaxItems = 2
  MaxQuantity = 2
  Workers = {w1}
  Faults = FALSE
  MaxRequests = 3
SPECIFICATION CartSpec
CHECK_DEADLOCK FALSE
INVARIANTS
  TotalsMatchLines
