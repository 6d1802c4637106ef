CONSTANTS
  Scheduler = scheduler
  c1 = c1
  s1 = s1
  s2 = s2
  Callers <- TwoCallers
  Editing = TRUE
  MaxCuis = 2
  MaxCufd = 2
  Invoices = {i1}
  Registrars = {r1, r2}
  Before = 1
  Window = 3
  Valid <- Span
  Given <- Asked
  MaxTime = 3
  MaxEvents = 2
  Editors = {e1, e2}
  Editor = e1
  Processes = {p1, p2}
  MaxCerts = 2
  MaxPuts = 3
  MaxEdits = 3
  Replicas = {r1, r2}
  MaxStage = 4
  Point = p1
  Syncs = {s1, s2}
  Downloader = s1
  Order <- SomeOfEachKind
  DocumentBodies <- TodosLosCuerpos
  Sales <- TodasLasVentas
  MaxFaults = 1
  Idle = Idle
  Creators <- TwoCreators
  Bodies <- ConcurrentBodies
  Sale <- LineasDeVenta
  Cufs <- SaleCufs
  Actividad = 1
  MaxDrafts = 2
  MaxChanges = 1
SPECIFICATION OperationsSpec
INVARIANT PreviewedIsCreatable
CHECK_DEADLOCK FALSE
