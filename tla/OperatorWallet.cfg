CONSTANTS
  c1 = c1
  sweep = sweep
  MaxBets = 2
  Callers = {c1}
  Sweeper = sweep
  MaxRetries = 2
  MaxFaults = 2
SPECIFICATION FairSpec
INVARIANTS OutboxInv LiveBetIsCharged OwedIsRecorded OneEmitter
PROPERTIES EventuallySquare
CHECK_DEADLOCK FALSE
