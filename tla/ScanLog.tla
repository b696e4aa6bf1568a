--------------------------------- MODULE ScanLog ---------------------------------
(***************************************************************************)
(* The tickets and their scan events as reports see them.  Of all that the *)
(* handlers of TicketLifecycle do, however they overlap, there is a step   *)
(* here for each commit that changes a ticket's status or times, or the    *)
(* log, and for what the runs of the expiry job have on their lists: that  *)
(* is decided long before the write it leads to.                           *)
(***************************************************************************)
EXTENDS Integers, FiniteSets

CONSTANTS
  Tickets, Drivers,
  ScanIds,        \* ids of the scan events that are ever logged
  Runs,           \* runs of the expiry job that may overlap
  TicketTTL,      \* TICKET_EXPIRY_MS
  MaxTime,        \* bound on the clock
  NULL

ASSUME ScanLogAssumption ==
  TicketTTL \in Nat /\ MaxTime \in Nat /\ NULL \notin Nat

VARIABLES
  now,         \* the server clock
  phase,       \* the status of each ticket, NONE until it is bought
  boughtAt,    \* purchasedAt of each ticket
  usedAt,      \* usedAt of each ticket
  listed,      \* the tickets each run has found expired and is not through with
  scanEvents   \* the scan_events rows

lvars == <<now, phase, boughtAt, usedAt, listed, scanEvents>>

ScanResult == {"VALID", "EXPIRED", "ALREADY_USED", "INSPECTION_ONLY", "INVALID_SIGNATURE"}

LogInit ==
  /\ now = 0
  /\ phase = [t \in Tickets |-> "NONE"]
  /\ boughtAt = [t \in Tickets |-> NULL]
  /\ usedAt = [t \in Tickets |-> NULL]
  /\ listed = [j \in Runs |-> {}]
  /\ scanEvents = {}

Tick ==
  /\ now < MaxTime
  /\ now' = now + 1
  /\ UNCHANGED <<phase, boughtAt, usedAt, listed, scanEvents>>

-----------------------------------------------------------------------------
(* Purchases and scans *)

Sold == {t \in Tickets : phase[t] # "NONE"}

ExpiresAt(t) == boughtAt[t] + TicketTTL

\* The ticket commits some time after its time of purchase was taken.
Buy(t, at) ==
  /\ t \notin Sold /\ at <= now
  /\ phase' = [phase EXCEPT ![t] = "ACTIVE"]
  /\ boughtAt' = [boughtAt EXCEPT ![t] = at]
  /\ UNCHANGED <<now, usedAt, listed, scanEvents>>

\* An online scan claims the ticket.
Use(t, at) ==
  /\ phase[t] = "ACTIVE" /\ at <= now /\ at <= ExpiresAt(t)
  /\ phase' = [phase EXCEPT ![t] = "USED"]
  /\ usedAt' = [usedAt EXCEPT ![t] = at]
  /\ UNCHANGED <<now, boughtAt, listed, scanEvents>>

\* An offline scan is delivered: it uses the ticket, whatever that is by now, or
\* moves usedAt of one it saw used.
Deliver(t, at) ==
  /\ t \in Sold /\ boughtAt[t] <= at /\ at <= now /\ at <= ExpiresAt(t)
  /\ phase' \in {phase, [phase EXCEPT ![t] = "USED"]}
  /\ usedAt' = [usedAt EXCEPT ![t] = at]
  /\ UNCHANGED <<now, boughtAt, listed, scanEvents>>

\* A scan is logged, whatever became of it and of the ticket since.
Log(s, d, t, at, result, isOffline) ==
  /\ at <= now /\ \A e \in scanEvents : e.by # s
  /\ scanEvents' = scanEvents \cup
       {[by |-> s, driver |-> d, ticket |-> t, at |-> at, result |-> result,
         offline |-> isOffline]}
  /\ t \in Sold
  /\ UNCHANGED <<now, phase, boughtAt, usedAt, listed>>

-----------------------------------------------------------------------------
(* The expiry job *)

\* Mutant: the query does not look at the time.
ExpirableEarly == {t \in Tickets : phase[t] = "ACTIVE"}

Expirable == {t \in Tickets : phase[t] = "ACTIVE" /\ now > ExpiresAt(t)}

Find(j) ==
  /\ \E batch \in SUBSET Expirable : listed' = [listed EXCEPT ![j] = batch]
  /\ UNCHANGED <<now, phase, boughtAt, usedAt, scanEvents>>

\* A ticket on the list is refunded by id, used or not by now.
Refund(j, t) ==
  /\ t \in listed[j]
  /\ phase' = [phase EXCEPT ![t] = "REFUNDED"]
  /\ listed' = [listed EXCEPT ![j] = @ \ {t}]
  /\ UNCHANGED <<now, boughtAt, usedAt, scanEvents>>

\* A refund is rolled back, or the run dies.
Drop(j) ==
  /\ \E rest \in SUBSET listed[j] : listed' = [listed EXCEPT ![j] = rest]
  /\ UNCHANGED <<now, phase, boughtAt, usedAt, scanEvents>>

-----------------------------------------------------------------------------
\* The steps that are no refund.
Going ==
  \/ Tick
  \/ \E t \in Tickets, at \in 0..MaxTime : Buy(t, at) \/ Use(t, at) \/ Deliver(t, at)
  \/ \E s \in ScanIds, d \in Drivers, t \in Tickets, at \in 0..MaxTime,
        result \in ScanResult, isOffline \in BOOLEAN : Log(s, d, t, at, result, isOffline)
  \/ \E j \in Runs : Find(j) \/ Drop(j)

LogNext == Going \/ \E j \in Runs, t \in Tickets : Refund(j, t)

LogSpec == LogInit /\ [][LogNext]_lvars
================================================================================
