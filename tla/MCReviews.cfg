SPECIFICATION ReviewsSpec
CONSTANTS
  Users = {u1, u2}
  Venues = {h1}
  Stars = {2, 5}
  Pins <- MCPins
  Writers = {c1, c2}
  MaxWrites = 4
  MaxPins = 2
  Admin = Admin
  Nothing = Nothing
INVARIANT RatingTells
CHECK_DEADLOCK FALSE
