SPECIFICATION FairJobsSpec
CONSTANTS
  None = None
  Other = Other
  Wallets = {w1}
  Jobs = {1, 2}
  Reqs = {1, 2, q}
  Runs = {r1, r2, r3}
  Chains = {1}
  MaxRecords = 1
INVARIANTS SingleRun ForcedByForced OneActiveJob FinishedShowsAll
CHECK_DEADLOCK FALSE
PROPERTY EveryJobEnds
