CONSTANTS
  n1 = n1
  n2 = n2
  Nodes = {n1, n2}
  Participants = {n1, n2}
  Slots = {1, 2}
  MaxSessions = 2
  NoSession = NoSession
  NoFence = NoFence
  MaxFence = 3
  MaxFaults <- FaultBudget
SPECIFICATION FairSpec
INVARIANTS LockInv OneCurrentLeader
PROPERTIES ImplementsLeadership LeaderEmerges
CHECK_DEADLOCK FALSE
