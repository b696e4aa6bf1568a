\* One call at a time, failing, repeated and with reports of open payments.
SPECIFICATION FairSpec
CONSTANTS
  NULL = NULL
  w1 = w1
  u1 = u1
  u2 = u2
  Topups = {u1, u2}
  Wallets = {w1}
  WalletOf <- OneWallet
  Amount <- Amounts
  Calls = {c1}
  Interim = TRUE
PROPERTIES
  KeepsPromise
  RecordedIsCredited
CHECK_DEADLOCK FALSE
