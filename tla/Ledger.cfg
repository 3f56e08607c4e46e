CONSTANTS
  c1 = c1
  c2 = c2
  w1 = w1
  w2 = w2
  k1 = k1
  k2 = k2
  Callers = {c1, c2}
  Wallets = {w1, w2}
  Keys = {k1, k2}
  Amounts <- OneUnit
  Targets = {1}
  NoCaller = NoCaller
  NoRequest = NoRequest
SPECIFICATION FairSpec
INVARIANTS IInv ChainOK
PROPERTIES ImplementsPromise CallsReturn
