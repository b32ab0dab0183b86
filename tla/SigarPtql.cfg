CONSTANTS
  Lowercase = {1, 2}
  Shift = 10
  Space = 5
  Pid = {1, 2}
  Hosts <- MCHosts
  Private = {"Exe"}
  ReImpl = TRUE
  PTQL_BRANCH_LIST_MAX = 1
SPECIFICATION Spec
INVARIANTS TypeOK  DestroySafe RefsPointBack
PROPERTIES AcceptedHolds LeaksOnlyUnseen
