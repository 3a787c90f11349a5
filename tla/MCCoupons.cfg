SPECIFICATION FairSpec
CONSTANTS
  Ids = {1, 2}
  Venues = {"hall"}
  VenueType <- MCVenueType
  OwnerOf <- MCOwnerOf
  Owners = {"ravi", "uma"}
  Vendors = {"ravi"}
  Admins = {"admin"}
  Codes = {"FLAT", "TEN"}
  Drafts <- MCDrafts
  Carts <- MCCarts
  Amounts = {30, 55, 85}
  Checkouts = {b1, b2}
  Away = {}
  FirstInstant = 3
  LastInstant = 4
  None = None
INVARIANTS
  PricingSound
  ScreensAgree
  HoldsMatch
PROPERTY EveryTransactionEnds
CHECK_DEADLOCK FALSE
