CONSTANTS
  None = None
  Items = {pizza}
  Extras = {cheese}
  Coupons = {c1, c2}
  ItemPrice <- OnePrice
  ExtrasPrice <- OneExtras
  Value <- SmallValue
  MaxItems = 2
  MaxQuantity = 2
  Workers = {w1, w2}
  Faults = TRUE
  MaxRequests = 3
SPECIFICATION FairCartSpec
CHECK_DEADLOCK FALSE
INVARIANTS
  CartLocking
PROPERTIES
  CartSettles
  ImplementsCartMachine
