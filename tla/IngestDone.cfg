SPECIFICATION IngestionFairSpec
CONSTANTS
  w1 = w1  w2 = w2
  i1 = i1  i2 = i2  p1 = p1  p2 = p2  n1 = n1
  archive = archive  single = single  number = number
  Worker = {w1, w2}
  Invoice = {i1, i2}
  Pdf = {p1, p2}
  Note = {n1}
  File = {archive}
  InvoiceOf <- ReadsAs
  NumberOf <- OneNumber
  Docs <- Batch
  Payable <- PayableOf
  Approvable <- ApprovableOf
  Face <- FaceOf
  MaxEvents = 2
PROPERTIES EveryFileDone ApprovalHeld
CHECK_DEADLOCK FALSE
