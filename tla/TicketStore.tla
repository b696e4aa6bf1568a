------------------------------ MODULE TicketStore ------------------------------
(***************************************************************************)
(* The database rows the ticket handlers share: tickets, wallets, the      *)
(* wallet transactions that name a ticket, and scan events.                *)
(*                                                                         *)
(* PostgreSQL runs at its default level, READ COMMITTED.  A plain read      *)
(* returns the committed row and takes no lock.  A write waits while       *)
(* another transaction holds the row, and an update by id then overwrites   *)
(* whatever it finds.  A transaction whose reads all come before its first *)
(* write is one step from that write to its commit; only a transaction     *)
(* that reads between two writes shows its row lock, in rowLock.           *)
(*                                                                         *)
(* Money is an integer: the rounding of the Float columns is abstracted.   *)
(***************************************************************************)
EXTENDS Integers, FiniteSets

CONSTANTS
  Tickets,          \* ticket ids (the UUIDs purchases draw)
  Passengers,       \* users that own a wallet
  Drivers,          \* users that scan
  Owner,            \* the passenger each ticket id is drawn for
  Fare,             \* the fare snapshot of each ticket
  InitialBalance,   \* the balance each wallet starts with
  TicketTTL,        \* TICKET_EXPIRY_MS
  MaxTime,          \* bound on the clock
  NULL              \* SQL NULL

ScanResult == {"VALID", "ALREADY_USED", "EXPIRED", "INSPECTION_ONLY",
               "INVALID_SIGNATURE"}

ASSUME StoreAssumption ==
  /\ Owner \in [Tickets -> Passengers]
  /\ Fare \in [Tickets -> Nat]
  /\ InitialBalance \in [Passengers -> Nat]
  /\ TicketTTL \in Nat
  /\ MaxTime \in Nat
  /\ NULL \notin Nat \cup Tickets \cup Drivers \cup ScanResult

VARIABLES
  now,              \* the server clock
  ticket,           \* committed ticket rows
  rowLock,          \* the transaction that holds a ticket row, or NULL
  balance,          \* committed wallet balances
  ledger,           \* committed wallet transactions of each ticket, counted by type
  scanEvents        \* committed scan_events rows

store == <<now, ticket, rowLock, balance, ledger, scanEvents>>

Times == 0..MaxTime

\* TicketStatus.  EXPIRED is only ever written inside the expiry transaction,
\* which overwrites it before it commits; NONE is a ticket not yet created.
TicketStatus == {"NONE", "ACTIVE", "USED", "REFUNDED"}

NoTicket == [status |-> "NONE", expiresAt |-> 0, usedAt |-> NULL,
             refundedAt |-> NULL]

TicketRow ==
  [status: TicketStatus, expiresAt: Nat, usedAt: Times \cup {NULL},
   refundedAt: Times \cup {NULL}]

LedgerRow == [debits: Nat, refunds: Nat, reversals: Nat]

StoreTypeOK ==
  /\ now \in Times
  /\ ticket \in [Tickets -> TicketRow]
  /\ balance \in [Passengers -> Int]
  /\ ledger \in [Tickets -> LedgerRow]

StoreInit ==
  /\ now = 0
  /\ ticket = [t \in Tickets |-> NoTicket]
  /\ rowLock = [t \in Tickets |-> NULL]
  /\ balance = InitialBalance
  /\ ledger = [t \in Tickets |-> [debits |-> 0, refunds |-> 0, reversals |-> 0]]
  /\ scanEvents = {}

\* Time passes.
Tick ==
  /\ now < MaxTime
  /\ now' = now + 1
  /\ UNCHANGED <<ticket, rowLock, balance, ledger, scanEvents>>

Issued(t) == ticket[t].status # "NONE"

Expired(t, time) == time > ticket[t].expiresAt

Unlocked(t) == rowLock[t] = NULL

\* Append one scan_events row; `by' is the request that writes it, which
\* stands for the generated id of the row.
InsertScanEvent(by, d, t, at, result, isOffline) ==
  scanEvents' = scanEvents \cup
    {[by |-> by, driver |-> d, ticket |-> t, at |-> at, result |-> result,
      offline |-> isOffline]}
================================================================================
