SPECIFICATION FairSpec
CONSTANTS
  Bookings = {b1, b2}
  Workers = {w1, w2}
  f1 = f1
  t1 = t1
  c1 = c1
  Facilities <- MCFacilities
  RoomTypes <- MCRoomTypes
  Coupons <- MCCoupons
  TotalRooms <- MCTotalRooms
  LastDate = 3
  Limits = {0, 1, 2}
  Requests <- MCRequests
  NoBooking = NoBooking
  NoRequest = NoRequest
INVARIANTS
  NoDoubleBooking
  RoomsWithinCapacity
  InventoryAccounted
PROPERTIES
  SlotPromiseHolds
  LimitRespected
  LifecycleHolds
  HoldsEnd
CHECK_DEADLOCK FALSE
