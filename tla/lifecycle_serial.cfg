\* One handler at a time: what each keeps on its own, crashes included.
SPECIFICATION Spec
CONSTANTS
  NULL = NULL
  p1 = p1
  Tickets = {t1}
  Passengers = {p1}
  Drivers = {d1, d2}
  OnlineScans = {s1}
  OfflineScans = {o1, o2}
  Runs = {j1}
  Owner <- OneOwner
  Fare <- UnitFare
  InitialBalance <- Pocket1
  TicketTTL = 1
  BatchSize = 1
  MaxTime = 3
  MaxInFlight = 1
  ScanModes = {"boarding", "inspection", "forged"}
SYMMETRY Symmetry
INVARIANTS
  EarliestScanWins
  DeliveredOnce
  OutdoneByAnother
PROPERTY
  KeepsPromise
CHECK_DEADLOCK FALSE
