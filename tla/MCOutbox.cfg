\* The owner's request and the customer's answer, sent by two workers.
SPECIFICATION FairSpec
CONSTANTS
  Bookings = {b1}
  Rows <- DecisionRows
  Workers = {w1, w2}
  MaxAttempts = 1
  BatchSize = 2
INVARIANTS
  ScheduleSound
PROPERTIES
  SilenceKept
  RowsProgress
