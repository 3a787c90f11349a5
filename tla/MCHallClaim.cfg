\* Four claims of one hall, compatible and not, on two dates.
SPECIFICATION FairSpec
CONSTANTS
  b1 = b1
  b2 = b2
  b3 = b3
  b4 = b4
  f1 = f1
  Bookings <- MCBookings
  Facilities <- MCFacilities
  LastDate = 2
  Request <- MCRequest
  Keys <- MCKeys
  Key <- MCKey
  NoBooking = NoBooking
INVARIANTS
  ClaimsSound
PROPERTIES
  SlotPromiseHolds
  EveryTransactionEnds
CHECK_DEADLOCK FALSE
