SPECIFICATION DisbursalSpec
CONSTANTS
  p1 = p1  p2 = p2
  i1 = i1  i2 = i2
  v1 = v1  v2 = v2
  k1 = k1  k2 = k2  k3 = k3
  q1 = q1
  Process = {p1}
  Invoice = {i1,i2}
  Vendor = {v1,v2}
  ProviderKey = {k1,k2}
  ClientKey = {q1}
  NoKey = NoKey
  IntentKey = IntentKey
  Verdict = {"AUTO_SCHEDULED_STP", "ACTION_REQUIRED"}
  Endpoint = {"upload", "resolve", "disburse", "bulk", "credit", "webhook", "setActive",
              "reset"}
  MaxRequests = 4
  MaxCuts = 1
  MaxYear = 0
  Evidenced = FALSE
  SaveFaults = TRUE
SYMMETRY Symmetry
PROPERTIES DecisionsKept
CHECK_DEADLOCK FALSE
