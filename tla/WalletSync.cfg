SPECIFICATION Spec
CONSTANTS
  None = None
  Wallets = {w1}
  Ids = {b1, b2}
  Chains = {c1}
  Procs = {p1, p2}
  Clients = {q1}
  Watching = {"watch", "unbind"}
  MaxHead = 2
  MaxRules = 2
  MaxLag = 0
  Overlap = FALSE
  Breaks = FALSE
SYMMETRY Symmetry
INVARIANTS NoGap JudgedByRules
CHECK_DEADLOCK FALSE
