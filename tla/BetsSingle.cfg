CONSTANTS
  b1 = b1
  b2 = b2
  p1 = p1
  p2 = p2
  BetIds = {b1, b2}
  Procs = {p1, p2}
  Boot = Boot
  NoBet = NoBet
  OperatorMode = TRUE
  Faults = {"crash", "die", "throw", "orphan"}
  MaxFaults = 2
SPECIFICATION Spec
SYMMETRY SymProcs
INVARIANTS IInv OneCreditPerBet BooksBalance NoOrphanedDebit
PROPERTIES VoidedIsFinal ImplementsBetOutcome
\* One slot: its life ends.
CHECK_DEADLOCK FALSE
