SPECIFICATION Spec
CONSTANTS
  Projects = {p1, p2, p3}
  Existing = {p1}
  Legacy = {p1}
  Syncs = {s1}
  None = None
  InUse = InUse
  EnvSecret = None
  Faults = {}
SYMMETRY Symmetry
CHECK_DEADLOCK FALSE
INVARIANTS
  ElectricStands
  SomebodySucceeds
