\* One phone, three requests, two at a time, and the clean-up jobs.
SPECIFICATION MCSpec
CONSTANTS
  NULL = NULL
  Phones = {p1}
  UserIds = {u1, u2}
  Tokens = {t1, t2}
  Spellings <- MCSpellings
  Trim <- MCTrim
  Calls = {c1, c2}
  MaxCodes = 2
  MaxRequests = 3
  MaxTime = 2
  ResendAfter = 1
  CodeTTL = 1
  Skew = 0
  MaxAttempts = 2
  CodesKept = 0
  StaleAge = 1
  TokenTTL = 1
  TokensKept = 0
  LockoutSteps <- Steps
  EventWindow = 2
  SequentialSessions = TRUE
SYMMETRY Symmetry
INVARIANTS
  OnlyLastIsLive
  ResetEndsSessions
  EnabledInTimeIsKept
  DisabledStaysDisabled
  GuessesBounded
  LockoutHolds
CHECK_DEADLOCK FALSE
