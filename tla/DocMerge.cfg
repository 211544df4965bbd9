SPECIFICATION Spec
CHECK_DEADLOCK FALSE
CONSTANTS
  p1 = p1
  p2 = p2
  alice = alice
  bob = bob
  Old = old
  None = none
  Persists = {p1, p2}
  Keys = {"token", "workspaceBranch"}
  TokenKey = "token"
  DocToken = alice
  OtherToken = bob
  Asked = {none}
  Given = {none}
  Faults = {}
  Apps = {}
  Rows = {p1, p2}
  Owner <- MCOwner
  AuthDisabled = FALSE
  DevSub = dev
  NetFaults = {}
INVARIANT MergeKeeps
