SPECIFICATION DisbursalSpec
CONSTANTS
  p1 = p1  p2 = p2
  i1 = i1  i2 = i2
  v1 = v1  v2 = v2
  k1 = k1  k2 = k2  k3 = k3
  q1 = q1
  Process = {p1,p2}
  Invoice = {i1}
  Vendor = {v1}
  ProviderKey = {k1,k2}
  ClientKey = {}
  NoKey = NoKey
  IntentKey = IntentKey
  Verdict = {"AUTO_SCHEDULED_STP", "ACTION_REQUIRED"}
  Endpoint = {"upload", "resolve", "disburse"}
  MaxRequests = 4
  MaxCuts = 1
  MaxYear = 1
  Evidenced = TRUE
  SaveFaults = TRUE
SYMMETRY Symmetry
INVARIANTS DisbursalTypeOK SettledAsAgreed PaidAsApproved PaidOnce HistoryInv
CHECK_DEADLOCK FALSE
