CONSTANTS
  Orders = {o1}
  Workers = {w1, w2}
  Kinds = {"cancel", "status", "payment", "notes", "track"}
  StaffPayments = {"paid", "pending"}
  Faults = TRUE
  MaxRequests = 3
  None = None
SPECIFICATION FairSpec
INVARIANTS
  TypeOK
  OptimisticLocking
  TimelineIsStatusPath
  TrackingShowsItsStatus
  MirrorHoldsCommitted
PROPERTIES
  RequestsFinish
  StaleTrackingExpires
  ImplementsOrderMachine
  CancelBeatsNoKitchen
CHECK_DEADLOCK FALSE
