CONSTANTS
  t1 = t1
  t2 = t2
  l1 = l1
  l2 = l2
  s1 = s1
  s2 = s2
  Tickets = {t1, t2}
  FirstTicket = t1
  Launchers = {l1, l2}
  Sockets = {s1, s2}
  FirstSocket = s1
  None = None
  MaxWallets = 2
  MaxChecks = 2
  MaxFaults = 1
SPECIFICATION FairSpec
INVARIANTS IdentityInv PlayingIsRegistered PauseSurvivesReconnect ErasedIsSettled
PROPERTIES RevokedIsDropped
CHECK_DEADLOCK FALSE
