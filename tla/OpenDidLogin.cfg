SPECIFICATION Spec
CONSTANTS
  None = None
  Browsers = {b1, b2}
  Holders = {h1}
  Ids = {i1, i2}
  Reqs = {r1, r2}
  OfferTtls = {2}
  LeaseTtl = 1
  PollGap = 0
  Retention = 0
  MaxNow = 2
SYMMETRY Symmetry
INVARIANTS ConsumedOnce SessionIsBrowsers
PROPERTY ImplementsLifecycle
CHECK_DEADLOCK FALSE
