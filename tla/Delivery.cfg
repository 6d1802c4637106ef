CONSTANTS
  None = None
  Keys = {k1, k2}
  Contents = {s1, s2}
  Callers = {c1, c2}
  Saver = c1
  Notes = {n1, n2}
  Note = n1
  MailDispatchers = {d1, d2}
  Publisher = d1
  Workers = {w1, w2}
  MailTries = 3
  MaxMailFaults = 5
  MaxBatchFaults = 3
  Events = {e1, e2}
  Dispatchers = {d1, d2}
  MaxAttempts = 2
  Slow = TRUE
  MaxFaults = 3
  Jobs = {j1, j2, j3}
  Threshold = 2
  Cooldown = 2
  Rate = 1
  Burst = 2
  MaxTime = 7
SPECIFICATION DeliverySpec
INVARIANTS DeliveryTypeOK RowHasObject MailHandOff PublishedWasRequested
PROPERTIES AdmissionHolds LateMarksTakeNothingBack WorkDrains
CHECK_DEADLOCK FALSE
