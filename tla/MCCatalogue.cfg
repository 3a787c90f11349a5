SPECIFICATION VenuesSpec
CONSTANTS
  None = None
  h1 = h1
  h2 = h2
  t1 = t1
  r1 = r1
  r2 = r2
  x1 = x1
  Halls = {h1, h2}
  Hotels = {t1}
  RoomTypes = {r1, r2}
  Extras = {x1}
  At <- MCAt
  Profiles <- MCProfiles
  Names <- MCNames
  Cities = {"bangalore", "Mysuru"}
  Prices = {0}
  Capacities = {100}
  Lower <- MCLower
  Percents = {50}
  Amenities = {"parking", "mandap"}
  Applies <- MCApplies
  EventTypes = {"WEDDING", "SANGEET"}
  Rooms <- MCRooms
  Days = {1, 2}
  Slots = {"MORNING", "EVENING", "FULL_DAY"}
  Nightly <- MCNightly
  Openings <- MCOpenings
  MaxEdits = 2
  MaxOpen = 2
  OldCities <- MCOldCities
  Synonyms = {{"hall", "banquet"}}
  Short = {"of"}
  Near <- MCNear
  EventWords <- MCEventWords
  Platform <- MCPlatform
  Searches <- MCSearches
  Typed <- MCTyped
  Forms <- MCForms
  RoomForms <- MCRoomForms
  MaxHallDays = 2
  MaxNights = 2
  MaxLines = 2
INVARIANTS
  FacetsTell
  FoundIsBookable
  CheckoutKept
  SuggestionsLead
  OnlyLiveShown
CHECK_DEADLOCK FALSE
