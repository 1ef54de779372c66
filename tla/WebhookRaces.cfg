SPECIFICATION WebhookSpec
CONSTANTS
  w1 = w1  w2 = w2  w3 = w3
  k1 = k1  k2 = k2  k3 = k3
  s1 = s1  s2 = s2
  h1 = h1  h2 = h2
  Worker = {w1}
  ProviderKey = {k1,k2,k3}
  Snapshot = {s1}
  ZeroSnapshot = {}
  Clearance = {TRUE}
  Outcome = {"accepted", "delayed"}
  MaxCalls = 2
  SlowHolder = FALSE
  StoreFaults = FALSE
  ReplayRecovery = FALSE
  SharedReference = TRUE
  Preregistered = FALSE
  None = None
  Orphan = Orphan
  Handler = {h1,h2}
  NotesCarryKey = TRUE
  LocalStore = TRUE
  HandlerCrashes = TRUE
SYMMETRY Symmetry
INVARIANTS WebhookTypeOK AppliedOnce OnePayout
PROPERTIES ProcessedNeverFails
CHECK_DEADLOCK FALSE
