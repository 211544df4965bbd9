SPECIFICATION Spec
CONSTANTS
  Projects = {p1, p2}
  Existing = {}
  Legacy = {}
  Syncs = {}
  None = None
  InUse = InUse
  EnvSecret = None
  Faults = {}
CHECK_DEADLOCK FALSE
INVARIANTS
  SecretIsKnown
