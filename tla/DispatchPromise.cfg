SPECIFICATION FairSpec
CONSTANTS
  w1 = w1  w2 = w2  w3 = w3
  k1 = k1  k2 = k2  k3 = k3
  s1 = s1  s2 = s2
  Worker = {w1,w2,w3}
  ProviderKey = {k1}
  Snapshot = {s1}
  ZeroSnapshot = {}
  Clearance = {TRUE}
  Outcome = {"accepted", "lost", "delayed"}
  MaxCalls = 1
  SlowHolder = FALSE
  StoreFaults = FALSE
  ReplayRecovery = FALSE
  SharedReference = FALSE
  Preregistered = TRUE
  None = None
  Orphan = Orphan
PROPERTIES KeepsPromise CallsReturn
CHECK_DEADLOCK FALSE
