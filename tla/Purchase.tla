-------------------------------- MODULE Purchase --------------------------------
(***************************************************************************)
(* TicketsService.purchase with WalletService.debit: the fare is read, one *)
(* transaction reads the wallet, writes the new balance, the debit row and *)
(* the signed ticket.  Each ticket id is drawn by one purchase, so the     *)
(* purchase is named by the ticket it would create.                        *)
(***************************************************************************)
EXTENDS TicketStore

VARIABLE buy        \* the purchase in progress for each ticket id

BuyIdle == [pc |-> "idle", at |-> 0, read |-> 0]

BuyTypeOK ==
  buy \in [Tickets ->
    [pc: {"idle", "readWallet", "write", "bought", "rejected", "failed"},
     at: Times, read: Int]]

PurchaseInit == buy = [t \in Tickets |-> BuyIdle]

\* purchase: the ticket id and purchasedAt are fixed before the transaction.
StartPurchase(t) ==
  /\ buy[t].pc = "idle"
  /\ buy' = [buy EXCEPT ![t] = [@ EXCEPT !.pc = "readWallet", !.at = now]]
  /\ UNCHANGED store

\* debit: an insufficient balance is answered 402 and the transaction ends.
RejectInsufficient(t) ==
  /\ buy[t].pc = "readWallet"
  /\ balance[Owner[t]] < Fare[t]
  /\ buy' = [buy EXCEPT ![t].pc = "rejected"]
  /\ UNCHANGED store

\* Mutant: the balance is not compared with the fare.
ReadWalletUnchecked(t) ==
  /\ buy[t].pc = "readWallet"
  /\ buy' = [buy EXCEPT ![t] = [@ EXCEPT !.pc = "write",
                                         !.read = balance[Owner[t]]]]
  /\ UNCHANGED store

\* debit: the balance read here is the one the new balance is computed from.
ReadWallet(t) ==
  /\ buy[t].pc = "readWallet"
  /\ balance[Owner[t]] >= Fare[t]
  /\ buy' = [buy EXCEPT ![t] = [@ EXCEPT !.pc = "write",
                                         !.read = balance[Owner[t]]]]
  /\ UNCHANGED store

\* The writes of the transaction and its commit: new balance, TICKET_PURCHASE
\* row, ticket row with its QR payload and signature.
CommitPurchase(t) ==
  /\ buy[t].pc = "write"
  /\ buy' = [buy EXCEPT ![t].pc = "bought"]
  /\ balance' = [balance EXCEPT ![Owner[t]] = buy[t].read - Fare[t]]
  /\ ledger' = [ledger EXCEPT ![t].debits = @ + 1]
  /\ ticket' = [ticket EXCEPT ![t] =
       [status |-> "ACTIVE", expiresAt |-> buy[t].at + TicketTTL,
        usedAt |-> NULL, refundedAt |-> NULL]]
  /\ UNCHANGED <<now, rowLock, scanEvents>>

\* Mutant: the debit commits on its own, a failure after it leaves it behind.
AbortKeepsDebit(t) ==
  /\ buy[t].pc \in {"readWallet", "write"}
  /\ buy' = [buy EXCEPT ![t].pc = "failed"]
  /\ IF buy[t].pc = "readWallet" THEN UNCHANGED <<balance, ledger>> ELSE
       /\ balance' = [balance EXCEPT ![Owner[t]] = buy[t].read - Fare[t]]
       /\ ledger' = [ledger EXCEPT ![t].debits = @ + 1]
  /\ UNCHANGED <<now, ticket, rowLock, scanEvents>>

\* A failed statement, a transaction timeout or a crash rolls everything back.
AbortPurchase(t) ==
  /\ buy[t].pc \in {"readWallet", "write"}
  /\ buy' = [buy EXCEPT ![t].pc = "failed"]
  /\ UNCHANGED store

PurchaseStep(t) ==
  RejectInsufficient(t) \/ ReadWallet(t) \/ CommitPurchase(t) \/ AbortPurchase(t)

BuyInFlight == {t \in Tickets : buy[t].pc \in {"readWallet", "write"}}
================================================================================
