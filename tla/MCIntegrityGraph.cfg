SPECIFICATION Spec
CONSTANTS
  Agents = {w, a, b, c}
  worker = w
  None = None
  Specs = {s1, s2}
  Receipts <- ReportedReceipts
  Histories <- AllHistories
  MaxNews = 2
SYMMETRY Symmetry
INVARIANTS
  HonestWorkersAreClean
  CollusionIsCaught
PROPERTIES
  NewCustomerNeverAccuses
CHECK_DEADLOCK FALSE
