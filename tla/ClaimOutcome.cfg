SPECIFICATION Spec
CONSTANTS
  w1 = w1  w2 = w2  w3 = w3
  k1 = k1  k2 = k2  k3 = k3
  s1 = s1  s2 = s2
  Worker = {w1,w2}
  ProviderKey = {k1}
  Snapshot = {s1}
  ZeroSnapshot = {}
  Clearance = {TRUE}
  Outcome = {"accepted", "refused"}
  MaxCalls = 1
  SlowHolder = FALSE
  StoreFaults = FALSE
  ReplayRecovery = FALSE
  SharedReference = FALSE
  Preregistered = TRUE
  None = None
  Orphan = Orphan
SYMMETRY Symmetry
INVARIANTS OutcomeRecorded
CHECK_DEADLOCK FALSE
