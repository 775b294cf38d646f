SPECIFICATION Spec
CONSTANTS
  None = None
  Wallet = Wallet
  Bridge = Bridge
  Other = Other
  Worlds <- Switching
  Scans = {1, 2}
  PageSize = 1
  MaxPages = 3
  RateLimitRetries = 1
  Concurrency = 2
  Reprobe = 2
  MaxNow = 2
INVARIANTS SourceSwitchConverges
CHECK_DEADLOCK FALSE
