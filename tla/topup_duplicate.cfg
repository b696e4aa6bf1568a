\* Two calls about one payment both find it PENDING.
SPECIFICATION Spec
CONSTANTS
  NULL = NULL
  w1 = w1
  u1 = u1
  u2 = u2
  Topups = {u1}
  Wallets = {w1}
  WalletOf <- OneWallet
  Amount <- One
  Calls = {c1, c2}
  Interim = FALSE
INVARIANT CreditedOnce
CHECK_DEADLOCK FALSE
