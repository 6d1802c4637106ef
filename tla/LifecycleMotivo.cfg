CONSTANTS
  i1 = i1
  e1 = e1
  e2 = e2
  NoInvoice = NoInvoice
  NoCuf = NoCuf
  Invoices <- OneInvoice
  Emitters <- TwoEmitters
  MaxCufd = 2
  MaxEvents = 0
  IssueDate <- Dates
  OfflineCapable = FALSE
  SlowAttempts = FALSE
  v1 = v1
  v2 = v2
  Operators <- TwoOperators
SPECIFICATION LSpec
SYMMETRY RequestSymmetry
INVARIANTS AcceptedHasNoMotivo
CHECK_DEADLOCK FALSE
