SPECIFICATION FairSpec
CONSTANTS
  Procs = {p1, p2}
  Stoppable = {p1}
  Sizes = {2}
  MaxBuf = 1
  Quota = 1
  FreeStart = 1
  Bonus = 1
  MaxTries = 2
  MaxCalls = 2
  MaxEvents = 1
  MaxFaults = 1
INVARIANTS Conserved BucketsAddUp
PROPERTY DebtIsWorkedOff
CHECK_DEADLOCK FALSE
