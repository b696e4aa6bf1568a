\* Reports are put together while tickets are bought, used, scanned, refunded and audited.
SPECIFICATION MCSpec
CONSTANTS
  NULL = NULL
  t1 = t1
  t2 = t2
  p1 = p1
  r1 = r1
  r2 = r2
  Tickets = {t1, t2}
  Passengers = {p1}
  Owner <- MCOwner
  Fare <- MCFare
  PerBirr = 2
  Routes = {r1, r2}
  RouteOf <- MCRouteOf
  Drivers = {d1, d2}
  ScanIds = {s1, s2, s3}
  Scans = {a1, a2}
  Distances = {0, 200, 300, 700}
  MlEnabled = TRUE
  Runs = {j1}
  TicketTTL = 1
  MaxTime = 2
  DayLength = 2
  HistoryDays = 1
  RepeatWindow = 1
  RepeatLimit = 1
  FailurePercent = 10
  MaxRows = 1
  Followed <- MCFollowed
  Periods <- MCPeriods
  RouteFilters = {NULL, r1}
  MaxMeanwhile = 2
SYMMETRY Symmetry
INVARIANTS
  FlagsWarranted
  FiguresAgree
  RapidRepeatExact
PROPERTIES
  OnlyRefundsTakeBack
CHECK_DEADLOCK FALSE
