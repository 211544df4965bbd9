SPECIFICATION FairSpec
CHECK_DEADLOCK FALSE
CONSTANTS
  p1 = p1
  p2 = p2
  alice = alice
  bob = bob
  Old = old
  None = none
  Persists = {p1, p2}
  Keys = {"token", "workspaceBranch"}
  TokenKey = "token"
  DocToken = alice
  OtherToken = bob
  Asked = {none, old}
  Given = {none}
  Faults = {"full", "kill"}
  Apps = {a1}
  Rows = {p1, p2}
  Owner <- MCOwner
  AuthDisabled = FALSE
  DevSub = dev
  NetFaults = {"refuse", "slow", "vanish", "drop"}
INVARIANT TypeOK
INVARIANT OnePair
INVARIANT PrintedIsServed
INVARIANT WaitIsServed
PROPERTY AppIsTold
PROPERTY TunnelsEnd
PROPERTY ServeStops
