CONSTANTS
  Workers = {w1, w2}
  None = None
  Users = {u1, u2}
  Emails = {chef, mail}
  ChefEmail = chef
  MaxWrites = 4
  MaxAddresses = 2
  MaxRows = 3
  MaxChanges = 2
  Products = {pizza, cola}
  MaxGen = 2
  Readers = {ann, bob}
  Sendings = {s1}
  MaxSaves = 4
  Mirrored = {r1, r2}
  MaxCommits = 2
SPECIFICATION CustomerSpec
SYMMETRY CustomerSymmetry
CHECK_DEADLOCK FALSE

  
PROPERTIES
  SessionsCorrect
  AddressesCorrect
  WishlistsCorrect
  InboxCorrect
  AvatarsCorrect
