-------------------------------- MODULE MCReports --------------------------------
(***************************************************************************)
(* A small instance of AnomalyAudit and of Reports for TLC: two tickets of *)
(* one passenger, on two routes, of one and a half birr each.  Audits and  *)
(* reports have no state in common, and the figures that are followed      *)
(* depend on the tickets or on the scans: a behaviour follows one of the   *)
(* three.                                                                  *)
(***************************************************************************)
EXTENDS AnomalyAudit, Reports, TLC

CONSTANTS t1, t2, p1, r1, r2

MCOwner == (t1 :> p1) @@ (t2 :> p1)
MCFare == (t1 :> 3) @@ (t2 :> 3)
MCRouteOf == (t1 :> r1) @@ (t2 :> r2)

\* The figures that depend on each other, and of what does not one at a time.
MCFollowed ==
  [dashboard |-> {"purchased", "used", "refunded"},
   revenue   |-> {"total", "byRoute", "byDay"},
   tickets   |-> {"count", "countByStatus", "countByRoute"},
   anomalies |-> {"crossDevice", "rapidRepeat"},
   exportedTickets |-> {"ticketRows"},
   exportedRevenue |-> {"revenueRows"}]

MCPeriods == {<<1, 0>>, <<NULL, NULL>>}

VARIABLE followed

MCInit == AuditInit /\ ReportsInit /\ followed \in {"audits", "tickets", "scans"}

\* Reports on tickets, of which no scan is logged.  An export is one query: what
\* happens while it waits changes nothing that happened before could not.
FollowTickets ==
  /\ UNCHANGED scanEvents
  /\ ReportsNext
  /\ report'.kind # NULL => report'.kind # "anomalies" /\ report'.from > 0
  /\ report'.kind \in {"exportedTickets", "exportedRevenue"} => report'.meanwhile = 0

\* Anomalies: neither the results of scans matter to them nor when a ticket is bought
\* and what becomes of it, nor what happens while they are looked for.  Scans of any
\* time are delivered at the end, in any order.
FollowScans ==
  /\ UNCHANGED listed
  /\ ReportsNext
  /\ \A t \in Tickets : phase'[t] \in {"NONE", "ACTIVE"} /\ boughtAt'[t] \in {NULL, 0}
  /\ now' > 0 => Sold = Tickets
  /\ \A e \in scanEvents' : e.result = "VALID" /\ e.offline /\ now = MaxTime
  /\ report'.kind \in {NULL, "anomalies"} /\ report'.route = NULL /\ report'.meanwhile = 0

MCNext ==
  /\ \/ followed = "audits" /\ AuditNext /\ UNCHANGED rvars
     \/ followed = "tickets" /\ FollowTickets /\ UNCHANGED avars
     \/ followed = "scans" /\ FollowScans /\ UNCHANGED avars
  /\ UNCHANGED followed

MCSpec == MCInit /\ [][MCNext]_<<avars, rvars, followed>>

Symmetry == Permutations(Drivers) \cup Permutations(ScanIds) \cup Permutations(Scans)
================================================================================
