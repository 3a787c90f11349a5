SPECIFICATION FairSpec
CONSTANTS
  Images = {i1, i2}
  Videos = {v1}
  Given = {{i1}, {i1, i2}}
  Calls = {c1, c2}
  MaxRequests = 2
  MaxFaults = 2
  MaxAttempts = 2
  None = None
INVARIANTS
  ReadyIsStored
  BytesKept
PROPERTY PendingSettles
CHECK_DEADLOCK FALSE
