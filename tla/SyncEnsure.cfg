SPECIFICATION Spec
CONSTANTS
  Projects = {p1, p2}
  Legacy = {p1, p2}
  Syncs = {s1, s2}
  Owners = {alice}
  Names = {shop, blog}
  Ports = {1, 2}
  None = None
  ElectricEnabled = TRUE
  Faults = {}
SYMMETRY Symmetry
CHECK_DEADLOCK FALSE
INVARIANTS
  MissingIsNoticed
