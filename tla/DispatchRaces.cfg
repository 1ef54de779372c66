SPECIFICATION Spec
CONSTANTS
  w1 = w1  w2 = w2  w3 = w3
  k1 = k1  k2 = k2  k3 = k3
  s1 = s1  s2 = s2
  Worker = {w1,w2}
  ProviderKey = {k1,k2}
  Snapshot = {s1,s2}
  ZeroSnapshot = {s2}
  Clearance = {TRUE, FALSE}
  Outcome = {"accepted", "lost", "delayed", "refused"}
  MaxCalls = 2
  SlowHolder = TRUE
  StoreFaults = TRUE
  ReplayRecovery = TRUE
  SharedReference = TRUE
  Preregistered = FALSE
  None = None
  Orphan = Orphan
SYMMETRY Symmetry
INVARIANTS TypeOK OnePayout ClaimsSerialized PayoutAuthorized IInv
PROPERTIES FencedClaim
CHECK_DEADLOCK FALSE
