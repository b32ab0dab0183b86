SPECIFICATION Spec
CONSTANTS
  Pid = {p1}
  NULL = NULL
  Sec = 2
  CleanupPeriod = 2
  EntryExpire = 3
  Word = 10
  Precision = 8
  MaxNow = 6
  MaxBytes = 2
  MaxInc = 1
  Failures = TRUE
  ClockSteps = FALSE
INVARIANT RateIsPerSecond
