SPECIFICATION Spec
CONSTANTS
  w1 = w1  w2 = w2  w3 = w3
  k1 = k1  k2 = k2  k3 = k3
  s1 = s1  s2 = s2
  Worker = {w1, w2}
  ProviderKey = {k1, k2}
  Snapshot = {s1}
  ZeroSnapshot = {}
  Clearance = {TRUE}
  Outcome = {"accepted", "lost", "delayed", "dropped"}
  MaxCalls = 2
  SlowHolder = FALSE
  StoreFaults = FALSE
  ReplayRecovery = FALSE
  SharedReference = FALSE
  Preregistered = FALSE
  None = None
  Orphan = Orphan
SYMMETRY Symmetry
INVARIANTS ExclusiveSubmission  SettledBacked SuccessIsPaid
PROPERTIES LegalTransitions
CHECK_DEADLOCK FALSE
