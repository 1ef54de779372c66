SPECIFICATION ProcurementSpec
CONSTANTS
  w1 = w1  w2 = w2
  i1 = i1  i2 = i2
  a = a
  Worker = {w1, w2}
  Invoice = {i1, i2}
  Sku = {a}
  Rate <- UnitRate
  Request <- Uploads
  Quantities <- OrderSizes
  Rejected <- NoneRejected
  DefaultPo <- Fallback
  MaxCalls = 3
  MaxChanges = 2
SYMMETRY Symmetry
INVARIANTS ProcurementTypeOK LedgerExplained NoOverAllocation LedgerBounded
 
CHECK_DEADLOCK FALSE
