SPECIFICATION BooksSpec
CONSTANTS
  w1 = w1  w2 = w2
  b1 = b1  b2 = b2
  p1 = p1  p2 = p2
  h1 = h1
  Worker = {w1, w2}
  Base = {b1, b2}
  Postings = {p1, p2}
  Hold = {h1}
  Retained <- RetainedOf
  Amounts = {1, 2, 4}
  MaxDepth = 2
  MaxCalls = 4
SYMMETRY Symmetry
INVARIANTS BooksTypeOK ReversalNegates ReleasedIsPaid
PROPERTIES PostedKept
CHECK_DEADLOCK FALSE
