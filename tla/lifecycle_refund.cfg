\* A scan claims a ticket between the job's query and the job's update.
SPECIFICATION Spec
CONSTANTS
  NULL = NULL
  p1 = p1
  Tickets = {t1}
  Passengers = {p1}
  Drivers = {d1}
  OnlineScans = {s1}
  OfflineScans = {}
  Runs = {j1}
  Owner <- OneOwner
  Fare <- UnitFare
  InitialBalance <- Pocket1
  TicketTTL = 1
  BatchSize = 1
  MaxTime = 2
  MaxInFlight = 3
  ScanModes = {"boarding"}
SYMMETRY Symmetry
INVARIANT
  OnlyUnusedRefunded
CHECK_DEADLOCK FALSE
