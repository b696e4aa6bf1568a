------------------------------ MODULE RouteCatalog ------------------------------
(***************************************************************************)
(* The route catalogue: administrators create routes, replace their stops  *)
(* and fares, take them out of service and delete them, while passengers   *)
(* look at routes and buy tickets from what they saw.                       *)
(*                                                                         *)
(* A handler is a chain of statements and transactions; a step is one of    *)
(* them.  A transaction that replaces rows is two steps: its deletions see  *)
(* the rows that are committed by then, and its commit leaves what other    *)
(* transactions committed in between.  Foreign keys refuse a fare or a      *)
(* ticket of a stop that is gone and the deletion of a stop that is in use, *)
(* unique keys a second row for one number or one pair of stops.            *)
(*                                                                         *)
(* Names, descriptions and estimates are left out; so are updateSegments    *)
(* and softDelete, which nothing calls.                                     *)
(***************************************************************************)
EXTENDS Integers, Sequences, FiniteSets

CONSTANTS
  Routes,
  StopIds,      \* ids of stops, drawn afresh for every stop
  Tickets,
  Calls,        \* slots for the handlers at work
  StopLists,    \* the stops an administrator may send: their sequence numbers
  FareLists,    \* the fares: a set of [from, to, amount], by sequence number
  SeedStops, SeedFares,  \* what the seed data says of a route
  MaxRequests,  \* bound on the requests that arrive
  NULL

\* A list with two amounts for a pair of stops fails on the unique key of fares.
ASSUME CatalogAssumption ==
  /\ IsFiniteSet(StopIds)
  /\ StopLists \subseteq Seq(Nat) /\ SeedStops \in Seq(Nat)
  /\ \A list \in FareLists \cup {SeedFares} :
       /\ list \subseteq [from: Nat, to: Nat, amount: Nat]
       /\ \A f, g \in list : f.from = g.from /\ f.to = g.to => f = g
  /\ MaxRequests \in Nat
  /\ NULL \notin Routes \cup StopIds \cup Tickets \cup Nat

VARIABLES
  route,    \* the status of each route
  stop,     \* the rows of stops
  fares,    \* the rows of fares
  segments, \* the rows of route_segments
  ticket,   \* the rows of tickets
  audit,    \* the rows of admin_actions about routes
  screen,   \* what the passenger saw last
  call,     \* the handlers at work
  requests  \* how many requests have arrived

vars == <<route, stop, fares, segments, ticket, audit, screen, call, requests>>

catalog == <<route, stop, fares, segments>>

\* ACTIVE and INACTIVE tell isActive, until deletedAt is set.
RouteStatus == {"NONE", "ACTIVE", "INACTIVE", "DELETED"}

\* For the properties only: edition tells how often stops or fares were replaced,
\* sent is the list of fares of the last replacement, and since the edition there
\* was when its transaction began.
RouteRow == [status: RouteStatus, edition: Nat, since: Nat,
             sent: FareLists \cup {SeedFares, {}}]

NoRoute == [status |-> "NONE", edition |-> 0, since |-> 0, sent |-> {}]

\* gone: the row was deleted; its id is not drawn again.
StopRow == [route: Routes, seq: Nat, gone: BOOLEAN]

\* edition, the one the row was created with, stands for the id of the row: a fare
\* that is created again is another row.
FareRow == [route: Routes, from: StopIds, to: StopIds, amount: Nat, edition: Nat]

SegmentRow == [route: Routes, from: StopIds, to: StopIds]

\* A route as the passenger saw it; edition, for the properties only, is the
\* edition it had when the request for it arrived.
Screen == [fares: SUBSET FareRow, edition: Nat]

\* For the properties only: shown is the amount the passenger saw, edited tells
\* that the route was edited between the request for it and the purchase, and
\* missed that the route was deleted, or its deletion had counted the tickets.
TicketRow == [status: {"ACTIVE", "ENDED"}, fare: FareRow,
              shown: Nat, edited: BOOLEAN, missed: BOOLEAN]

\* No row is NULL.
ASSUME NullAssumption == NULL \notin StopRow \cup FareRow \cup TicketRow

Actions == {"route.create", "route.update", "route.update_stops",
            "route.update_fares", "route.delete"}

Pcs == {"idle", "update", "deleteStops", "createStops", "readStops", "deleteFares",
        "createFares", "count", "delete", "log", "readFares", "readFare", "buy"}

Call == [pc: Pcs, action: Actions \cup {NULL}, route: Routes \cup {NULL},
         stops: StopLists \cup {<<>>}, fares: FareLists \cup {{}},
         ids: SUBSET StopIds, old: SUBSET FareRow, screen: Screen,
         fare: FareRow \cup {NULL}, ticket: Tickets \cup {NULL}]

NoScreen == [fares |-> {}, edition |-> 0]

Idle == [pc |-> "idle", action |-> NULL, route |-> NULL, stops |-> <<>>, fares |-> {},
         ids |-> {}, old |-> {}, screen |-> NoScreen, fare |-> NULL, ticket |-> NULL]

TypeOK ==
  /\ route \in [Routes -> RouteRow]
  /\ stop \in [StopIds -> StopRow \cup {NULL}]
  /\ fares \subseteq FareRow
  /\ segments \subseteq SegmentRow
  /\ ticket \in [Tickets -> TicketRow \cup {NULL}]
  /\ audit \subseteq Routes \X Actions
  /\ screen \in Screen
  /\ call \in [Calls -> Call]
  /\ requests \in 0..MaxRequests

-----------------------------------------------------------------------------
\* Mutant: the numbers must differ, wherever they start.
DistinctSequences(list) ==
  Len(list) >= 2 /\ \A i, j \in DOMAIN list : list[i] = list[j] => i = j

\* validateStops: at least two stops, numbered from 1 without a gap.
ValidStops(list) ==
  Len(list) >= 2 /\ {list[i] : i \in DOMAIN list} = DOMAIN list

\* Every fare of a list joins two of the numbered stops.
Resolves(list, seqs) == \A f \in list : f.from \in seqs /\ f.to \in seqs

\* The seed data numbers the stops of a route and has a fare for pairs of them.
ASSUME SeedAssumption ==
  ValidStops(SeedStops) /\ Resolves(SeedFares, DOMAIN SeedStops)

\* Fresh ids for the stops of a list, by their number; which ones does not matter.
FreshStops(list) ==
  CHOOSE ids \in [{list[i] : i \in DOMAIN list} -> {s \in StopIds : stop[s] = NULL}] :
    \A m, n \in DOMAIN ids : ids[m] = ids[n] => m = n

\* Bound: there are ids left.
StopsLeft(list) == Cardinality({s \in StopIds : stop[s] = NULL}) >= Len(list)

\* The table of stops once ids are created for route r.
WithStops(table, r, ids) ==
  [s \in StopIds |->
     IF \E n \in DOMAIN ids : ids[n] = s
       THEN [route |-> r, seq |-> CHOOSE n \in DOMAIN ids : ids[n] = s, gone |-> FALSE]
       ELSE table[s]]

\* The rows of a list of fares of route r between the stops ids[n].
FareRows(r, list, ids, edition) ==
  {[route |-> r, from |-> ids[f.from], to |-> ids[f.to], amount |-> f.amount,
    edition |-> edition] : f \in list}

\* The route exists with its stops and fares, and with a segment between any two
\* neighbours when they are joined.
Publish(r, list, prices, joined) ==
  LET ids == FreshStops(list) IN
  /\ route[r].status = "NONE" /\ StopsLeft(list)
  /\ route' = [route EXCEPT ![r].status = "ACTIVE", ![r].sent = prices]
  /\ stop' = WithStops(stop, r, ids)
  /\ fares' = fares \cup FareRows(r, prices, ids, 0)
  /\ segments' = segments \cup
       {[route |-> r, from |-> ids[n], to |-> ids[n + 1]] :
          n \in {m \in DOMAIN ids : joined /\ m + 1 \in DOMAIN ids}}

\* An empty database.
Init ==
  /\ stop = [s \in StopIds |-> NULL]
  /\ fares = {}
  /\ route = [r \in Routes |-> NoRoute]
  /\ segments = {} /\ audit = {}
  /\ ticket = [t \in Tickets |-> NULL]
  /\ screen = NoScreen
  /\ call = [c \in Calls |-> Idle]
  /\ requests = 0

-----------------------------------------------------------------------------
\* The seed data, before the first request: a route with its stops and fares.
Seed(r) ==
  /\ requests = 0
  /\ Publish(r, SeedStops, SeedFares, TRUE)
  /\ UNCHANGED <<ticket, audit, screen, call, requests>>

\* The fares of a route, its stops, and of such a set of stops the one with each
\* number.
FaresOn(r) == {f \in fares : f.route = r}

StopsOf(r) == {s \in StopIds : stop[s] # NULL /\ stop[s].route = r /\ ~stop[s].gone}

ByNumber(ids) ==
  [n \in {stop[s].seq : s \in ids} |-> CHOOSE s \in ids : stop[s].seq = n]

Exists(s) == stop[s] # NULL /\ ~stop[s].gone

Arrive(c, next) ==
  /\ call[c].pc = "idle" /\ requests < MaxRequests
  /\ requests' = requests + 1
  /\ call' = [call EXCEPT ![c] = next]

Goto(c, next) ==
  /\ call' = [call EXCEPT ![c] = next]
  /\ UNCHANGED requests

\* The change is committed and is entered in the audit log next.
Changed(c) == Goto(c, [Idle EXCEPT !.pc = "log", !.action = call[c].action,
                                   !.route = call[c].route])

LogAction(c) ==
  /\ call[c].pc = "log"
  /\ audit' = audit \cup {<<call[c].route, call[c].action>>}
  /\ Goto(c, Idle)
  /\ UNCHANGED <<catalog, ticket, screen>>

-----------------------------------------------------------------------------
(* createRoute and updateRoute *)

\* The route, its stops and its fares in one transaction, with a segment between
\* neighbours or none; a fare of a stop that is not listed is refused (422).
CreateRoute(c, r, list, prices, joined) ==
  /\ ValidStops(list) /\ Resolves(prices, DOMAIN list)
  /\ Publish(r, list, prices, joined)
  /\ Arrive(c, [Idle EXCEPT !.pc = "log", !.action = "route.create", !.route = r])
  /\ UNCHANGED <<ticket, audit, screen>>

\* assertExists: the handlers below start when the route exists and is not deleted.
FindRoute(c, r, next) ==
  /\ route[r].status \in {"ACTIVE", "INACTIVE"}
  /\ Arrive(c, [next EXCEPT !.route = r])
  /\ UNCHANGED <<catalog, ticket, audit, screen>>

UpdateRoute(c, r) ==
  FindRoute(c, r, [Idle EXCEPT !.pc = "update", !.action = "route.update"])

\* isActive is written by id, deletedAt left as it is by now.
SetActive(c) ==
  /\ call[c].pc = "update"
  /\ \E status \in {"ACTIVE", "INACTIVE"} :
       route' = [route EXCEPT ![call[c].route].status =
                   IF @ = "DELETED" THEN @ ELSE status]
  /\ Changed(c)
  /\ UNCHANGED <<stop, fares, segments, ticket, audit, screen>>

-----------------------------------------------------------------------------
(* updateStops and updateFares *)

\* The deletions of a transaction see the fares, and the stops ids, committed now.
Begin(c, next, ids) ==
  LET r == call[c].route IN
  /\ Goto(c, [call[c] EXCEPT !.pc = next, !.ids = ids,
                             !.old = FaresOn(r),
                             !.screen.edition = route[r].edition])
  /\ UNCHANGED <<catalog, ticket, audit, screen>>

\* Another edition of the route is committed, with the fares of a list.
Edit(c, list) ==
  LET r == call[c].route IN
  route' = [route EXCEPT ![r].edition = @ + 1, ![r].since = call[c].screen.edition,
                         ![r].sent = list]

UpdateStops(c, r, list) ==
  /\ ValidStops(list)
  /\ FindRoute(c, r, [Idle EXCEPT !.pc = "deleteStops", !.stops = list,
                                  !.action = "route.update_stops"])

DeleteStops(c) ==
  call[c].pc = "deleteStops" /\ Begin(c, "createStops", StopsOf(call[c].route))

\* Fares, segments and stops are gone and new stops created; the route has no
\* fare until updateFares.  A ticket of one of the stops, however old, or a fare
\* committed since then refuses it, and so do new stops.
CreateStops(c) ==
  LET r == call[c].route
      used == {ticket[t].fare : t \in {u \in Tickets : ticket[u] # NULL}}
                \cup (fares \ call[c].old) IN
  /\ call[c].pc = "createStops"
  /\ \A f \in used : {f.from, f.to} \cap call[c].ids = {}
  /\ StopsOf(r) = call[c].ids
  /\ StopsLeft(call[c].stops)
  /\ stop' = WithStops([s \in StopIds |-> IF s \in call[c].ids
                          THEN [stop[s] EXCEPT !.gone = TRUE] ELSE stop[s]],
                       r, FreshStops(call[c].stops))
  /\ fares' = fares \ call[c].old
  /\ segments' = {g \in segments : g.route # r}
  /\ Edit(c, {})
  /\ Changed(c)
  /\ UNCHANGED <<ticket, audit, screen>>

UpdateFares(c, r, prices) ==
  FindRoute(c, r, [Idle EXCEPT !.pc = "readStops", !.fares = prices,
                               !.action = "route.update_fares"])

\* The stops are read before the transaction; a fare of a stop that is not among
\* them is refused (422).
ReadStops(c) ==
  LET ids == StopsOf(call[c].route) IN
  /\ call[c].pc = "readStops"
  /\ Goto(c, IF Resolves(call[c].fares, DOMAIN ByNumber(ids))
               THEN [call[c] EXCEPT !.pc = "deleteFares", !.ids = ids] ELSE Idle)
  /\ UNCHANGED <<catalog, ticket, audit, screen>>

\* Mutant: the new fares are added to the old.
DeleteNoFares(c) ==
  /\ call[c].pc = "deleteFares"
  /\ Goto(c, [call[c] EXCEPT !.pc = "createFares",
                             !.screen.edition = route[call[c].route].edition])
  /\ UNCHANGED <<catalog, ticket, audit, screen>>

DeleteFares(c) ==
  call[c].pc = "deleteFares" /\ Begin(c, "createFares", call[c].ids)

\* A fare of a stop that is gone since the stops were read fails the transaction,
\* and so does one for two stops that have a fare.
CreateFares(c) ==
  LET r == call[c].route
      new == FareRows(r, call[c].fares, ByNumber(call[c].ids), route[r].edition + 1)
      kept == fares \ call[c].old IN
  /\ call[c].pc = "createFares"
  /\ \A f \in new : Exists(f.from) /\ Exists(f.to)
  /\ \A f \in new, g \in kept : f.from # g.from \/ f.to # g.to
  /\ fares' = kept \cup new
  /\ Edit(c, call[c].fares)
  /\ Changed(c)
  /\ UNCHANGED <<stop, segments, ticket, audit, screen>>

-----------------------------------------------------------------------------
(* deleteRoute *)

DeleteRoute(c, r) ==
  FindRoute(c, r, [Idle EXCEPT !.pc = "count", !.action = "route.delete"])

\* Mutant: any ticket that was ever used up lets the route go.
CountNone(c) ==
  /\ call[c].pc = "count"
  /\ Goto(c, [call[c] EXCEPT !.pc = "delete"])
  /\ UNCHANGED <<catalog, ticket, audit, screen>>

ActiveOn(r) ==
  {t \in Tickets : ticket[t] # NULL /\ ticket[t].fare.route = r /\ ticket[t].status = "ACTIVE"}

\* A route with active tickets is not deleted (409).
CountTickets(c) ==
  /\ call[c].pc = "count"
  /\ Goto(c, IF ActiveOn(call[c].route) = {}
               THEN [call[c] EXCEPT !.pc = "delete"] ELSE Idle)
  /\ UNCHANGED <<catalog, ticket, audit, screen>>

Delete(c) ==
  /\ call[c].pc = "delete"
  /\ route' = [route EXCEPT ![call[c].route].status = "DELETED"]
  /\ Changed(c)
  /\ UNCHANGED <<stop, fares, segments, ticket, audit, screen>>

-----------------------------------------------------------------------------
(* findById and purchase, of one passenger *)

\* A route in service is shown: its row first, its fares in a later statement.
View(c, r) ==
  /\ route[r].status = "ACTIVE"
  /\ Arrive(c, [Idle EXCEPT !.pc = "readFares", !.route = r,
                            !.screen.edition = route[r].edition])
  /\ UNCHANGED <<catalog, ticket, audit, screen>>

ReadFares(c) ==
  /\ call[c].pc = "readFares"
  /\ screen' = [call[c].screen EXCEPT !.fares = FaresOn(call[c].route)]
  /\ Goto(c, Idle)
  /\ UNCHANGED <<catalog, ticket, audit>>

\* A ticket is bought for a fare on the screen.  getFare looks for the two stops
\* of the route; whether the route is in service, or deleted, does not matter.
Purchase(c, t, f) ==
  /\ ticket[t] = NULL /\ \A d \in Calls : call[d].ticket # t
  /\ f \in screen.fares
  /\ {f.from, f.to} \subseteq StopsOf(f.route)
  /\ Arrive(c, [Idle EXCEPT !.pc = "readFare", !.ticket = t, !.fare = f,
                            !.screen = [screen EXCEPT !.fares = {}]])
  /\ UNCHANGED <<catalog, ticket, audit, screen>>

\* Mutant: the fare from the boarding stop to any other.
FareFrom(f) == {g \in fares : g.route = f.route /\ g.from = f.from}

\* The fare of the two stops by now.
FareOf(f) == {g \in fares : g.route = f.route /\ g.from = f.from /\ g.to = f.to}

\* Without one the purchase is refused (404).  From here on call.fare is the fare
\* to charge and call.screen.fares has the fare that was shown.
ReadFare(c) ==
  LET f == call[c].fare IN
  /\ call[c].pc = "readFare"
  /\ \/ FareOf(f) = {} /\ Goto(c, Idle)
     \/ \E g \in FareOf(f) :
          Goto(c, [call[c] EXCEPT !.pc = "buy", !.fare = g, !.screen.fares = {f}])
  /\ UNCHANGED <<catalog, ticket, audit, screen>>

\* The transaction: the fare is debited and the ticket created, unless one of its
\* stops was deleted meanwhile.
Buy(c) ==
  LET f == call[c].fare IN
  /\ call[c].pc = "buy"
  /\ Exists(f.from) /\ Exists(f.to)
  /\ ticket' = [ticket EXCEPT ![call[c].ticket] =
       [status |-> "ACTIVE", fare |-> f,
        shown |-> (CHOOSE g \in call[c].screen.fares : TRUE).amount,
        edited |-> route[f.route].edition > call[c].screen.edition,
        missed |-> \/ route[f.route].status = "DELETED"
                   \/ \E d \in Calls : call[d].pc = "delete" /\ call[d].route = f.route]]
  /\ Goto(c, Idle)
  /\ UNCHANGED <<catalog, audit, screen>>

\* The ticket is used, or expires.
TicketEnds(t) ==
  /\ ticket[t] # NULL /\ ticket[t].status = "ACTIVE"
  /\ ticket' = [ticket EXCEPT ![t].status = "ENDED"]
  /\ UNCHANGED <<catalog, audit, screen, call, requests>>

-----------------------------------------------------------------------------
\* The handler fails or dies before its next statement.
Fail(c) ==
  /\ call[c].pc # "idle"
  /\ Goto(c, Idle)
  /\ UNCHANGED <<catalog, ticket, audit, screen>>

Request(c) ==
  \/ \E r \in Routes :
       \/ \E list \in StopLists, prices \in FareLists, joined \in BOOLEAN :
            CreateRoute(c, r, list, prices, joined)
       \/ \E list \in StopLists : UpdateStops(c, r, list)
       \/ \E prices \in FareLists : UpdateFares(c, r, prices)
       \/ UpdateRoute(c, r) \/ DeleteRoute(c, r) \/ View(c, r)
  \/ \E t \in Tickets, f \in screen.fares : Purchase(c, t, f)

Continue(c) ==
  \/ LogAction(c) \/ SetActive(c) \/ DeleteStops(c) \/ CreateStops(c)
  \/ ReadStops(c) \/ DeleteFares(c) \/ CreateFares(c)
  \/ CountTickets(c) \/ Delete(c) \/ ReadFares(c) \/ ReadFare(c) \/ Buy(c) \/ Fail(c)

Next ==
  \/ \E c \in Calls : Request(c) \/ Continue(c)
  \/ \E t \in Tickets : TicketEnds(t)
  \/ \E r \in Routes : Seed(r)

Spec == Init /\ [][Next]_vars

-----------------------------------------------------------------------------
\* The stops of a published route are numbered from 1 without a gap, at least two
\* of them, and every fare, segment and ticket joins two stops of its own route
\* that are still there, although updateFares resolves numbers before its
\* transaction and a purchase finds its fare before its own, and both may meet the
\* replacement of the stops.
CatalogWhole ==
  /\ \A r \in Routes : route[r].status # "NONE" =>
       LET n == Cardinality(StopsOf(r)) IN
       n >= 2 /\ {stop[s].seq : s \in StopsOf(r)} = 1..n
  /\ \A f \in fares \cup segments : {f.from, f.to} \subseteq StopsOf(f.route)
  /\ \A t \in Tickets : ticket[t] # NULL =>
       {ticket[t].fare.from, ticket[t].fare.to} \subseteq StopsOf(ticket[t].fare.route)

\* A passenger is charged the amount that was shown for the two stops, unless the
\* route was edited between the request that showed it and the purchase.
ChargedAsShown ==
  \A t \in Tickets :
    ticket[t] # NULL /\ ticket[t].fare.amount # ticket[t].shown => ticket[t].edited

\* A route has the fares of the list that was committed last, all of them, and apart
\* from those only fares that other edits committed while the transaction of the last
\* one was open: those its deletions had not seen.  So an edit that overlaps no other
\* leaves exactly its list, whatever mixture of lists it found, and none that was
\* replaced comes back.
FaresAsSent ==
  \A r \in Routes :
    /\ {[from |-> stop[f.from].seq, to |-> stop[f.to].seq, amount |-> f.amount] :
          f \in {g \in FaresOn(r) : g.edition = route[r].edition}} = route[r].sent
    /\ \A f \in FaresOn(r) : f.edition = route[r].edition \/ f.edition > route[r].since

\* A deleted route has no active ticket but those bought after its deletion had
\* counted the tickets, or even later: nothing stops a purchase from a screen.
DeletedUnlessMissed ==
  \A r \in Routes : route[r].status = "DELETED" =>
    \A t \in ActiveOn(r) : ticket[t].missed
================================================================================
