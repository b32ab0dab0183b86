SPECIFICATION Spec
CONSTANTS
  Port <- MCPort
  PortFns <- MCFns
  PortApi <- MCApi
  PortFields <- MCFields
  PortLeaks <- MCLeaks
  PortFaults <- MCFaults
  PortDangles <- MCDangles
  PortKept <- MCKept
  MaxCalls = 2
INVARIANTS
  CloseReleases
  CallsLoseNothing
  NothingUndefined
  FieldsSound
  TypeOK
