CONSTANTS
  i1 = i1
  e1 = e1
  e2 = e2
  NoInvoice = NoInvoice
  NoCuf = NoCuf
  Invoices <- OneInvoice
  Emitters <- TwoEmitters
  MaxCufd = 2
  MaxEvents = 2
  IssueDate <- Dates
  OfflineCapable = TRUE
  SlowAttempts = FALSE
SPECIFICATION FairSpec
INVARIANTS TypeOK ExclusiveAttempt DispatchedIsDurable FinalDocumentStored
PROPERTIES RemovalOwnedBySending SendingResolves
CHECK_DEADLOCK FALSE
