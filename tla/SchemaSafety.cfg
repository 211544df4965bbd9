SPECIFICATION Spec
CONSTANTS
  Requests = {r1, r2, r3}
  Owners = {alice, bob}
  Names = {shop}
  NoRequest = NoRequest
  ElectricEnabled = TRUE
  Faults = {"refuse", "lost", "rollback", "ctx", "die"}
SYMMETRY Symmetry
CHECK_DEADLOCK FALSE
INVARIANTS
  TypeOK
  SuccessIsUsable
  RowCanConnect
  InsertIsUnique
  ConflictIsReal
  RoleIsTheLock
PROPERTIES
  OnlyMakerRemoves
  NameIsSpent
  ImplementsNameClaim
