SPECIFICATION Spec
CONSTANTS
  None = None
  Wallets = {w1}
  Ids = {b1}
  Chains = {c1}
  Procs = {p1}
  Clients = {q1}
  Watching = {"unbind"}
  MaxHead = 2
  MaxRules = 1
  MaxLag = 0
  Overlap = FALSE
  Breaks = TRUE
INVARIANT NoGap
CHECK_DEADLOCK FALSE
