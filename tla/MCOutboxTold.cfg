\* What the comments say of an event that needs no answer.
SPECIFICATION Spec
CONSTANTS
  Bookings = {b1}
  Rows <- OpsRows
  Workers = {w1}
  MaxAttempts = 1
  BatchSize = 2
PROPERTIES
  EventsToldOnce
