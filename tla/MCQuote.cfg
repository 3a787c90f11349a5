\* Customer, owner and an admin; two amounts; an offer may expire in between.
SPECIFICATION QuoteSpec
CONSTANTS
  Calls = {c1, c2}
  NoCall = NoCall
  People = {customer, owner, admin}
  customer = customer
  owner = owner
  admins = {admin}
  Totals = {1, 2}
  NoAmount = NoAmount
  Days = {1, 2}
  NoDate = NoDate
  Keys = {quoteKey, clientKey}
  QuoteKey = quoteKey
  MaxVersions = 3
SYMMETRY Symmetry
INVARIANTS
  OneBooking
PROPERTIES
  SettledFairly
  PromiseHolds
CHECK_DEADLOCK FALSE
