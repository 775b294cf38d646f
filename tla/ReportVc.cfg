SPECIFICATION Spec
CONSTANTS
  None = None
  Users = {u1, u2}
  Dids = {d1}
  Roots = {e1}
  Keys = {k1}
  Ids = {i1, i2, i3}
  Reqs = {r1, r2}
  AttemptTtl = 1
  OfferTtls = {2}
  LeaseTtl = 1
  PollGap = 0
  Retention = 0
  MaxNow = 2
  Purposes = {"link","issue","verify"}
SYMMETRY Symmetry
CONSTRAINT OneAccountLast
INVARIANTS OneActivePerAccount IssuanceHolderLinked CredentialIsReal CancelledIsDeadUpstream VerifiedIsRecorded
PROPERTY ImplementsLifecycle
CHECK_DEADLOCK FALSE
