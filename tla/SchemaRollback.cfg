SPECIFICATION FairSpec
CONSTANTS
  Requests = {r1, r2, r3}
  Owners = {alice, bob}
  Names = {shop}
  NoRequest = NoRequest
  ElectricEnabled = TRUE
  Faults = {"refuse", "die"}
CHECK_DEADLOCK FALSE
INVARIANT CleanRollback
PROPERTY FoundIsOwn
PROPERTY EveryRequestEnds
