CONSTANTS
  n1 = n1
  n2 = n2
  r1 = r1
  r2 = r2
  r3 = r3
  Callers = {n1, n2}
  Deposed = {n2}
  Rpcs = {r1, r2, r3}
  Liars = {r3}
  ChainLength = 1
  MaxEpochs = 3
  MaxFaults = 1
SPECIFICATION FairSpec
INVARIANTS EpochInv ServedSaltIsGenuine
PROPERTIES SaltNeverChanges SeedsContinue
CHECK_DEADLOCK FALSE
