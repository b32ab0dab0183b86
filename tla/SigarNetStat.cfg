SPECIFICATION Spec
CONSTANTS
  p1 = p1
  p2 = p2
  NULL = NULL
  Inode = {i1, i2, i3}
  Port = {p1, p2}
  Pid = {a, b}
  Private = {b}
  Alike = {b}
  Peer = 1
  Kind <- MCKind
  Request <- MCRequest
  MaxCalls = 2
  MaxChanges = 1
SYMMETRY Symmetry
INVARIANTS InboundOutbound ListenAddress PortCounts PortPid ListedOnce TypeOK
