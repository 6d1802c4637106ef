CONSTANTS
  r1 = r1
  r2 = r2
  r3 = r3
  NoCuf = NoCuf
  Invoices <- FourInvoices
  Requests <- ThreeRequests
  Sector <- Sectors
  Adjustments <- NoteSectors
  AirTickets <- TicketSectors
  Limit = 2
  MaxCufd = 2
  MaxPackages = 2
SPECIFICATION SceneSpec
SYMMETRY RequestSymmetry
INVARIANTS
  TypeOK
  HeldOnce
  MembersKeepCodes
  VerdictsAreBacked
  
PROPERTIES PackageAdvances
CHECK_DEADLOCK FALSE
