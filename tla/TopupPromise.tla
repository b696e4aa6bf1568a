------------------------------ MODULE TopupPromise ------------------------------
(***************************************************************************)
(* What a wallet promises about its top-ups: a top-up is recorded before it *)
(* is credited, its amount is added to the wallet in the one step that      *)
(* completes it, and a completed top-up stays as it is.                    *)
(***************************************************************************)
EXTENDS Integers

CONSTANTS Topups, Wallets, WalletOf, Amount

VARIABLES status, balance

Init ==
  /\ status = [u \in Topups |-> "NONE"]
  /\ balance = [w \in Wallets |-> 0]

Record(u) ==
  /\ status[u] = "NONE"
  /\ status' = [status EXCEPT ![u] = "PENDING"]
  /\ UNCHANGED balance

Complete(u) ==
  /\ status[u] \in {"PENDING", "FAILED"}
  /\ status' = [status EXCEPT ![u] = "COMPLETED"]
  /\ balance' = [balance EXCEPT ![WalletOf[u]] = @ + Amount[u]]

Fail(u) ==
  /\ status[u] = "PENDING"
  /\ status' = [status EXCEPT ![u] = "FAILED"]
  /\ UNCHANGED balance

Next == \E u \in Topups : Record(u) \/ Complete(u) \/ Fail(u)

Spec == Init /\ [][Next]_<<status, balance>>
================================================================================
