CONSTANTS
  Processes = {p1, p2}
  Codes = {apple}
  MaxBoots = 3
  MaxDowngrades = 2
SPECIFICATION MeetingSpec
CHECK_DEADLOCK FALSE
INVARIANTS
  SchemaCorrect
PROPERTIES
  SeedsCorrect
