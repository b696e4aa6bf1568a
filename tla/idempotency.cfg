\* Retries that overlap, expire, are lost or find nothing stored.
SPECIFICATION Spec
CONSTANTS
  NULL = NULL
  k1 = k1
  k2 = k2
  p1 = p1
  p2 = p2
  u1 = u1
  u2 = u2
  Requests = {p1, p2, u1, u2}
  Keys = {k1, k2}
  KeyOf <- MixedKeys
  Endpoint <- MixedEndpoints
  KeyTTL = 2
  MaxTime = 3
INVARIANTS
  ChargedOnce
  OneAnswerPerKey
  ReplayedInTime
PROPERTY
  ChargedNeverAsks
CHECK_DEADLOCK FALSE
