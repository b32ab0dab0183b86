SPECIFICATION FairSpec
CONSTANTS
  Key = {0, 2, 7}
  Value = {v}
  NULL = NULL
  InitSize = 2
  CleanupPeriod = 1
  ExpirePeriod = 0
  TimeMod = 16
  MaxNow = 2
INVARIANTS ReturnedIsLive DestroyFreesAll IInv
PROPERTIES EntriesStay IsMap CallReturns
