CONSTANTS
  i1 = i1
  e1 = e1
  e2 = e2
  NoInvoice = NoInvoice
  NoCuf = NoCuf
  Invoices <- OneInvoice
  Emitters <- TwoEmitters
  MaxCufd = 2
  MaxEvents = 2
  IssueDate <- Dates
  OfflineCapable = TRUE
  SlowAttempts = FALSE
  v1 = v1
  v2 = v2
  Operators <- TwoOperators
SPECIFICATION LSpec
SYMMETRY RequestSymmetry
PROPERTIES RemovalOwnedBySending
CHECK_DEADLOCK FALSE
