------------------------------- MODULE MCLifecycle -------------------------------
(***************************************************************************)
(* Small instances of TicketLifecycle for TLC.                             *)
(***************************************************************************)
EXTENDS TicketLifecycle, TLC

CONSTANTS p1

\* Every ticket belongs to the one passenger and costs one unit.
OneOwner == [t \in Tickets |-> p1]
UnitFare == [t \in Tickets |-> 1]
Pocket(n) == [p \in Passengers |-> n]
Pocket1 == Pocket(1)
Pocket2 == Pocket(2)

Symmetry == Permutations(Tickets) \cup Permutations(OnlineScans)
              \cup Permutations(OfflineScans) \cup Permutations(Drivers) \cup Permutations(Runs)

\* Behaviours follow one ticket through every kind of scan, or a wallet of which
\* several tickets are bought, as the money is no business of the scans.
OneTicket == Cardinality({t \in Tickets : buy[t].pc # "idle"}) <= 1
NoScan == \A s \in OnlineScans : scan[s].pc = "idle"
NoDelivery == \A o \in OfflineScans : syn[o].pc = "idle"

OverlapSpec ==
  Init /\ [][/\ Next
             /\ NoScan' \/ (OneTicket' /\ now' < MaxTime)]_vars

LiveSpec == Init /\ [][Next /\ (OneTicket' \/ NoDelivery')]_vars /\ Fairness
================================================================================
