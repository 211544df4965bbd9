SPECIFICATION Spec
CONSTANTS
  Requests = {r1, r2}
  Owners = {alice, bob}
  Names = {shop}
  NoRequest = NoRequest
  ElectricEnabled = TRUE
  Faults = {}
CHECK_DEADLOCK FALSE
INVARIANT LockExcludes
