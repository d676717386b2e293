CONSTANTS
  Segments = {"7", "featured", "reorder", "clear", "restaurant"}
  FailClosedPolicies = {"auth", "upload", "email", "orders"}
  Length <- Windows
  Limit <- Admitted
  LastTick = 9
  Workers = {w1, w2}
  None = None
  MaxEdits = 3
  Occasions = {o1}
  MaxAttempts = 3
  Subtotals = {0, 1000, 1100, 2001}
  Fees <- FeeChoices
  Thresholds = {0, 1000}
  Rates = {0, 1600}
  CouponValues = {100, 1250, 10000}
  Minimums = {0, 1100}
  Caps <- CapChoices
SPECIFICATION FairPlatformSpec
CHECK_DEADLOCK FALSE
INVARIANTS
  
  MailCorrect
PROPERTIES
  GatewayCorrect
  LimitsCorrect
  SettingsCorrect
  PlatformSettles
