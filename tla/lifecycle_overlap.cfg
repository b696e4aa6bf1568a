\* One ticket and two online scans, or two tickets of one wallet; a late delivery and a
\* run of the job; all overlapping.
SPECIFICATION OverlapSpec
CONSTANTS
  NULL = NULL
  p1 = p1
  Tickets = {t1, t2}
  Passengers = {p1}
  Drivers = {d1}
  OnlineScans = {s1, s2}
  OfflineScans = {o1}
  Runs = {j1}
  Owner <- OneOwner
  Fare <- UnitFare
  InitialBalance <- Pocket1
  TicketTTL = 1
  BatchSize = 1
  MaxTime = 3
  MaxInFlight = 3
  ScanModes = {"boarding", "inspection", "forged"}
SYMMETRY Symmetry
INVARIANTS
  TypeOK
  SingleAdmission
  UsedInTime
  AtMostOneRefund
  UsedIsLogged
  OverdrawnOnlyByReversal
  PaidExactlyOnce
CHECK_DEADLOCK FALSE
