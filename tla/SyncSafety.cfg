SPECIFICATION CanonicalSpec
CONSTANTS
  Projects = {p1, p2, p3}
  Legacy = {p1}
  Syncs = {s1}
  Owners = {alice}
  Names = {shop, blog, news}
  Ports = {1, 2}
  None = None
  ElectricEnabled = TRUE
  Faults = {"refuse", "stop"}
CHECK_DEADLOCK FALSE
INVARIANTS
  TypeOK
  AnswerIsOwn
  AllOrNothing
  RowIsBacked
PROPERTIES
  EveryCallEnds
