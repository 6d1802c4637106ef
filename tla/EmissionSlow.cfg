CONSTANTS
  i1 = i1
  e1 = e1
  e2 = e2
  NoInvoice = NoInvoice
  NoCuf = NoCuf
  Invoices <- OneInvoice
  Emitters <- TwoEmitters
  MaxCufd = 2
  MaxEvents = 1
  IssueDate <- Dates
  OfflineCapable = TRUE
  SlowAttempts = TRUE
SPECIFICATION Spec
SYMMETRY EmitterSymmetry
INVARIANTS OutcomeMatchesSiat
PROPERTIES ImplementsRecord ImplementsLedger
CHECK_DEADLOCK FALSE
