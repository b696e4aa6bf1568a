\* Webhook calls for two top-ups of one wallet overlap, repeat and fail.
SPECIFICATION Spec
CONSTANTS
  NULL = NULL
  w1 = w1
  u1 = u1
  u2 = u2
  Topups = {u1, u2}
  Wallets = {w1}
  WalletOf <- OneWallet
  Amount <- Amounts
  Calls = {c1, c2, c3}
  Interim = FALSE
SYMMETRY Symmetry
INVARIANTS
  CreditedIsCompleted
CHECK_DEADLOCK FALSE
