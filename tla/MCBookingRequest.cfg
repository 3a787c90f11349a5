\* One idempotency key shared by a retry and a stranger, and two keyless requests.
SPECIFICATION RequestFairSpec
CONSTANTS
  alice = alice
  bob = bob
  key = key
  s1 = s1
  s2 = s2
  first = first
  retry = retry
  other = other
  keyless1 = keyless1
  keyless2 = keyless2
  Calls <- MCCalls
  UserOf <- MCUserOf
  IdemKey <- MCIdemKey
  SlotOf <- MCSlotOf
  Slots <- MCSlots
  NoKey = NoKey
  Nothing = Nothing
INVARIANTS
  RetriesSafe
PROPERTIES
  NotTakenByItself
  EveryCallAnswered
CHECK_DEADLOCK FALSE
