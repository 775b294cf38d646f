SPECIFICATION FairSpec
CONSTANTS
  None = None
  Hashes = {h1}
  Txs = {t1, t2}
  Jobs = {j1, j2}
  Clients = {c1}
  Workers = {w1, w2}
  Callers = {"record", "finalize", "stored"}
  MaxAttempts = 2
  Contract = TRUE
  Faults = 2
INVARIANTS AnchoredIsOnChain OverIsSettled
PROPERTIES ReceiptStable JobSettles
CHECK_DEADLOCK FALSE
