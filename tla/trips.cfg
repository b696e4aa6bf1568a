\* One driver with two trips, the administrators, a scan on line and one off line.
SPECIFICATION Spec
CONSTANTS
  NULL = NULL
  TripIds = {t1, t2}
  Drivers = {d1}
  Days = {m1, m2}
  Calls = {c1, c2}
  DeviceScans = {s1}
  SequentialDrivers = TRUE
  SequentialAdmins = TRUE
  MaxTime = 2
SYMMETRY Symmetry
INVARIANTS
  OneActiveTrip
  ScanWithinTrip
  OfflineScanAttributed
  OneScheduledPerDay
PROPERTY
  TimesKept
CHECK_DEADLOCK FALSE
