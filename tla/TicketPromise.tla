------------------------------ MODULE TicketPromise ------------------------------
(***************************************************************************)
(* What the system promises of every ticket, without handlers, statements  *)
(* or rows: it is bought for its fare, is used at most once, is refunded   *)
(* only if its hour passed unused, and pays its fare again if it turns out *)
(* that its passenger had boarded in time.                                 *)
(***************************************************************************)
EXTENDS Integers

CONSTANTS Tickets, Passengers, Owner, Fare, InitialBalance

VARIABLES
  phase,            \* where the ticket is in its life
  over,             \* tickets whose hour is over
  charged,          \* how many fares the ticket has cost its owner
  purse             \* the owners' money

pvars == <<phase, over, charged, purse>>

Init ==
  /\ phase = [t \in Tickets |-> "NONE"]
  /\ over = {}
  /\ charged = [t \in Tickets |-> 0]
  /\ purse = InitialBalance

\* The ticket goes from one phase to another and its owner pays n fares for it.
Move(t, from, to, n) ==
  /\ phase[t] = from
  /\ phase' = [phase EXCEPT ![t] = to]
  /\ charged' = [charged EXCEPT ![t] = @ + n]
  /\ purse' = [purse EXCEPT ![Owner[t]] = @ - n * Fare[t]]

Buy(t) ==
  /\ purse[Owner[t]] >= Fare[t]
  /\ Move(t, "NONE", "ACTIVE", 1)
  /\ over' \in {over, over \cup {t}}      \* a slow purchase may come too late

Board(t) == Move(t, "ACTIVE", "USED", 0) /\ UNCHANGED over

Refund(t) == t \in over /\ Move(t, "ACTIVE", "REFUNDED", -1) /\ UNCHANGED over

BoardedAfterAll(t) ==
  Move(t, "REFUNDED", "USED", 1) /\ UNCHANGED over

TimePasses ==
  /\ \E T \in SUBSET {t \in Tickets : phase[t] # "NONE"} : over' = over \cup T
  /\ UNCHANGED <<phase, charged, purse>>

Next ==
  \/ \E t \in Tickets : Buy(t) \/ Board(t) \/ Refund(t) \/ BoardedAfterAll(t)
  \/ TimePasses

Spec == Init /\ [][Next]_pvars
================================================================================
