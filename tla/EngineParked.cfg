CONSTANTS
  n1 = n1
  n2 = n2
  Nodes = {n1, n2}
  NoFence = NoFence
  MaxFence = 3
  Slots = {1, 2}
  MaxRounds = 2
  MaxDeposed = 1
  MaxFaults <- FaultBudget
SPECIFICATION FairSpec
PROPERTIES StalledLeaderStepsDown
CHECK_DEADLOCK FALSE
