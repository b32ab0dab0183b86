SPECIFICATION Spec
CONSTANTS
  Pid = {p1, p2}
  NoPid = NoPid
  NULL = NULL
  Sec = 1
  StatExpire = 2
  MaxNow = 5
  Active = {p1}
  Watched = {p1}
  MaxInc = 2
  CleanupPeriod = 1
  EntryExpire = 1
  TimeMod = 64
INVARIANT StatIsOfPid
