\* One booking, three orders and three webhook events; the gateway keeps delivering.
SPECIFICATION FairSpec
CONSTANTS
  Bookings = {b1}
  Orders = {o1, o2, o3}
  Events = {e1, e2, e3}
  Total <- MCTotal
  NoBooking = NoBooking
  NoEvent = NoEvent
INVARIANTS
  MoneySound
  PaidMatchesOrders
PROPERTIES
  LifecycleHolds
  CapturedSettles
CHECK_DEADLOCK FALSE
