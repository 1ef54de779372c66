SPECIFICATION IngestionSpec
CONSTANTS
  w1 = w1  w2 = w2
  i1 = i1  i2 = i2  p1 = p1  p2 = p2  n1 = n1
  archive = archive  single = single  number = number
  Worker = {w1, w2}
  Invoice = {i1, i2}
  Pdf = {p1, p2}
  Note = {n1}
  File = {archive, single}
  InvoiceOf <- ReadsAs
  NumberOf <- OneNumber
  Docs <- Contents
  Payable <- PayableOf
  Approvable <- ApprovableOf
  Face <- FaceOf
  MaxEvents = 1
SYMMETRY WorkerSymmetry
INVARIANTS IngestionTypeOK CreditsConserved PayoutBacked FileHandled
CHECK_DEADLOCK FALSE
