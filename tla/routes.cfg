\* One route, its stops replaced up to twice, two requests at a time.
SPECIFICATION Spec
CONSTANTS
  NULL = NULL
  Routes = {r1}
  StopIds = {s1, s2, s3, s4, s5, s6}
  Tickets = {t1}
  Calls = {c1, c2}
  StopLists <- MCStopLists
  FareLists <- MCFareLists
  SeedStops <- MCSeedStops
  SeedFares <- MCSeedFares
  MaxRequests = 4
SYMMETRY Symmetry
INVARIANTS
  CatalogWhole
  ChargedAsShown
  FaresAsSent
  DeletedUnlessMissed
CHECK_DEADLOCK FALSE
