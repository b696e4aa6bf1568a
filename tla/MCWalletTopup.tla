----------------------------- MODULE MCWalletTopup -----------------------------
(***************************************************************************)
(* Small instances of WalletTopup for TLC.                                 *)
(***************************************************************************)
EXTENDS WalletTopup, TLC

CONSTANTS w1, u1, u2

\* Both top-ups are for one wallet, of different amounts.
OneWallet == [u \in Topups |-> w1]
Amounts == u1 :> 1 @@ u2 :> 2
One == u1 :> 1

Symmetry == Permutations(Calls)
================================================================================
