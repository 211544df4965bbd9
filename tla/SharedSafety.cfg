SPECIFICATION FairSpec
CONSTANTS
  Projects = {p1, p2, p3}
  Existing = {p1, p2}
  Legacy = {p2}
  Syncs = {s1}
  None = None
  InUse = InUse
  EnvSecret = None
  Faults = {"refuse", "query", "ctx", "panic", "restart", "crash"}
CHECK_DEADLOCK FALSE
INVARIANTS
  TypeOK
  OneSecret
PROPERTIES
  EveryCallEnds
