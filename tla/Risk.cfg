CONSTANTS
  w1 = w1
  w2 = w2
  eur = eur
  usd = usd
  Wallets = {w1, w2}
  pA = pA
  pC = pC
  op1 = op1
  op2 = op2
  pB = pB
  Panels = {pA, pB, pC}
  Seats <- MCSeats
  Stakes = {1, 2}
  Multipliers = {290}
  Hashes = {20}
  MinBet = 1
  MaxBet = 1
  Setups <- MCSetups
  MaxRound = 2
  MaxBets = 3
  MaxCalls = 2
  MaxMoves = 1
  MaxWinPerBet = 3
  MaxMultiplier = 3
  MaxRoundExposure = 6
  Entropy = 64
  MaxCents = 2000
SPECIFICATION Spec
INVARIANTS CapsInv ExposureCapped HouseEdge 
SYMMETRY Symmetric
CHECK_DEADLOCK FALSE
