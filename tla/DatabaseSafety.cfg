SPECIFICATION Spec
CONSTANTS
  Projects = {p1, p2, p3}
  Legacy = {}
  Syncs = {}
  Owners = {alice, bob}
  Names = {shop, blog}
  Ports = {1, 2}
  None = None
  ElectricEnabled = TRUE
  Faults = {"refuse", "lost", "rollback"}
SYMMETRY Symmetry
CHECK_DEADLOCK FALSE
INVARIANTS
  SuccessIsUsable
  SuccessIsServed
PROPERTIES
  ImplementsNameClaim
