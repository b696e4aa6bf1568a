\* Two tickets and a batch of one, or one ticket and a late delivery: the job settles every
\* expired ticket and lets scans through, and all that reports see are steps of ScanLog.
SPECIFICATION LiveSpec
CONSTANTS
  NULL = NULL
  p1 = p1
  Tickets = {t1, t2}
  Passengers = {p1}
  Drivers = {d1}
  OnlineScans = {s1}
  OfflineScans = {o1}
  Runs = {j1}
  Owner <- OneOwner
  Fare <- UnitFare
  InitialBalance <- Pocket2
  TicketTTL = 1
  BatchSize = 1
  MaxTime = 2
  MaxInFlight = 4
  ScanModes = {"boarding"}

PROPERTIES
  ExpiredIsSettled
  ScansEnd
  KeepsLog
CHECK_DEADLOCK FALSE
