--------------------------------- MODULE Reports ---------------------------------
(***************************************************************************)
(* AnalyticsService: the reports an administrator asks for.  A report is   *)
(* put together from queries that are sent to the database all at once,    *)
(* outside any transaction: each sees the tickets and scans as they are    *)
(* when its turn comes, and passengers and drivers go on meanwhile.        *)
(***************************************************************************)
EXTENDS ScanLog, FiniteSetsExt, Functions

CONSTANTS
  Passengers, Owner,
  Fare,             \* in the smallest amount a fare differs by
  PerBirr,          \* such amounts to a birr
  Routes, RouteOf,  \* the routes, and the one each ticket is for
  DayLength,        \* a day on the clock
  HistoryDays,      \* the 30 days a report covers when no start is given
  RepeatWindow,     \* INTERVAL '10 minutes'
  RepeatLimit,      \* the scans in that interval above which they are an anomaly
  FailurePercent,   \* the share of failures above which a driver is one
  MaxRows,          \* MAX_ROWS
  Followed,         \* the figures that are followed of each report
  Periods,          \* the pairs of dates, or of none, that a request may give
  RouteFilters,     \* the routes a request may be limited to, or none
  MaxMeanwhile      \* bound on what happens while a report is put together

ASSUME ReportsAssumption ==
  /\ Owner \in [Tickets -> Passengers]
  /\ Fare \in [Tickets -> Nat] /\ PerBirr \in Nat \ {0}
  /\ IsFiniteSet(Routes) /\ RouteOf \in [Tickets -> Routes]
  /\ DayLength \in Nat \ {0} /\ HistoryDays \in Nat
  /\ RepeatWindow \in Nat /\ RepeatLimit \in Nat
  /\ FailurePercent \in 0..100 /\ MaxRows \in Nat
  /\ Periods \subseteq (Nat \cup {NULL}) \X (Nat \cup {NULL})
  /\ NULL \notin Routes /\ RouteFilters \subseteq Routes \cup {NULL}
  /\ MaxMeanwhile \in Nat

VARIABLES
  refundRows, \* the REFUND wallet transactions
  report      \* the report being put together or just answered

rvars == <<lvars, refundRows, report>>

TicketStatus == {"ACTIVE", "USED", "EXPIRED", "REFUNDED"}

NoReport == [kind |-> NULL, from |-> 0, to |-> 0, route |-> NULL,
             asked |-> {}, figures |-> <<>>,
             changed |-> {}, meanwhile |-> 0]

ReportsInit ==
  LogInit /\ refundRows = {} /\ report = NoReport

-----------------------------------------------------------------------------
(* The queries *)

Total(T) == MapThenSumSet(LAMBDA t : Fare[t], T)

\* ::bigint, the nearest birr, of two the even one
Rounded(x) ==
  LET birr == x \div PerBirr
      rest == 2 * (x % PerBirr)
  IN IF rest > PerBirr \/ (rest = PerBirr /\ birr % 2 = 1) THEN birr + 1 ELSE birr

Of(route) == {t \in Tickets : route \in {NULL, RouteOf[t]}}

\* whereFilter, baseWhere, periodWhere
Bought(from, to, route) ==
  {t \in Of(route) \cap Sold : from <= boughtAt[t] /\ boughtAt[t] <= to}

With(statuses, T) == {t \in T : phase[t] \in statuses}

REVENUE_STATUSES == {"USED", "EXPIRED"}

Earning(from, to, route) == With(REVENUE_STATUSES, Bought(from, to, route))

Day(t) == boughtAt[t] \div DayLength

\* Mutant: the end of the period is left out of one of the statements.
RevenueByDayOpenEnded(from, to, route) ==
  LET earning == Earning(from, MaxTime, route) IN
  [d \in {Day(t) : t \in earning} |-> Rounded(Total({t \in earning : Day(t) = d}))]

\* SUM ... GROUP BY: the fares of a group are added up, and the sum is rounded.
RevenueByDay(from, to, route) ==
  LET earning == Earning(from, to, route) IN
  [d \in {Day(t) : t \in earning} |-> Rounded(Total({t \in earning : Day(t) = d}))]

RevenueByRoute(from, to, route) ==
  LET earning == Earning(from, to, route) IN
  [r \in {RouteOf[t] : t \in earning} |-> Rounded(Total({t \in earning : RouteOf[t] = r}))]

RevenueByDayAndRoute(from, to, route) ==
  LET earning == Earning(from, to, route) IN
  [dr \in {<<Day(t), RouteOf[t]>> : t \in earning} |->
    Rounded(Total({t \in earning : <<Day(t), RouteOf[t]>> = dr}))]

CountByStatus(from, to, route) ==
  LET bought == Bought(from, to, route) IN
  [s \in {phase[t] : t \in bought} |-> Cardinality(With({s}, bought))]

CountByRoute(from, to, route) ==
  LET bought == Bought(from, to, route) IN
  [r \in {RouteOf[t] : t \in bought} |-> Cardinality({t \in bought : RouteOf[t] = r})]

\* Math.round of the average, in birr, of none 0
AverageFare(T) ==
  LET n == PerBirr * Cardinality(T) IN IF T = {} THEN 0 ELSE (2 * Total(T) + n) \div (2 * n)

\* Rows of reversed refunds are still COMPLETED.
RefundsPaid(from, to) ==
  MapThenSumSet(LAMBDA row : Fare[row.ticket],
                {row \in refundRows : from <= row.at /\ row.at <= to})

ScansIn(from, to) == {e \in scanEvents : from <= e.at /\ e.at <= to}

\* queryCrossDeviceDuplicates
CrossDeviceDuplicates(from, to, route) ==
  {t \in Of(route) :
     Cardinality({e.driver : e \in {o \in ScansIn(from, to) : o.ticket = t}}) > 1}

\* queryExpiredTicketUse
ExpiredTicketUse(from, to, route) ==
  {t \in Of(route) :
     usedAt[t] # NULL /\ usedAt[t] > ExpiresAt(t) /\ from <= usedAt[t] /\ usedAt[t] <= to}

\* queryHighFailureDrivers
HighFailureDrivers(from, to) ==
  {d \in Drivers :
     LET scans == {e \in ScansIn(from, to) : e.driver = d}
         failed == {e \in scans : e.result = "INVALID_SIGNATURE"}
     IN scans # {} /\ 100 * Cardinality(failed) > FailurePercent * Cardinality(scans)}

ScansOf(p, from, to) == {e \in ScansIn(from, to) : Owner[e.ticket] = p}

\* Mutant: the window takes the rows before, and of those of the same time only its own.
WithoutPeers(e, scans) ==
  {e} \cup {o \in scans : e.at - RepeatWindow <= o.at /\ o.at < e.at}

\* RANGE BETWEEN INTERVAL '10 minutes' PRECEDING AND CURRENT ROW
WindowOf(e, scans) == {o \in scans : e.at - RepeatWindow <= o.at /\ o.at <= e.at}

\* queryRapidRepeatScans: for the passengers with such windows, the fullest of them
RapidRepeatScans(from, to) ==
  LET full(p) == {n \in {Cardinality(WindowOf(e, ScansOf(p, from, to))) :
                           e \in ScansOf(p, from, to)} : n > RepeatLimit}
  IN [p \in {q \in Passengers : full(q) # {}} |-> Max(full(p))]

\* ORDER BY ... LIMIT MAX_ROWS: the rows of an export that come first; before are the
\* pairs in order.
Taken(rows, before) ==
  CHOOSE taken \in SUBSET rows :
    /\ Cardinality(taken) = Min({MaxRows, Cardinality(rows)})
    /\ taken \X (rows \ taken) \subseteq before

TicketRows(bought) ==
  Taken(bought, {tu \in bought \X bought : boughtAt[tu[1]] >= boughtAt[tu[2]]})

RevenueRows(sums) ==
  LET rows == DOMAIN sums
      newest == {ab \in rows \X rows :
                   \/ ab[1][1] > ab[2][1]
                   \/ ab[1][1] = ab[2][1] /\ sums[ab[1]] >= sums[ab[2]]}
  IN Restrict(sums, Taken(rows, newest))

-----------------------------------------------------------------------------
(* The reports *)

Anomalies == {"crossDevice", "expiredUse", "highFailure", "rapidRepeat"}

Figures ==
  [dashboard |-> {"activeUsers", "purchased", "used", "expired", "refunded", "revenue",
                  "refunds", "scans"} \cup Anomalies,
   revenue |-> {"total", "byRoute", "byDay"},
   tickets |-> {"count", "countByStatus", "countByRoute", "averageFare"},
   anomalies |-> Anomalies,
   exportedTickets |-> {"ticketRows"},
   exportedRevenue |-> {"revenueRows"}]

Kinds == DOMAIN Followed

ASSUME FollowedAssumption ==
  Kinds \subseteq DOMAIN Figures /\ \A k \in Kinds : Followed[k] \subseteq Figures[k]

\* The statements that are not built by Prisma compare the id of a route, which is a
\* text, with a uuid: PostgreSQL rejects them.
ComparesUuid == {"byRoute", "byDay", "revenueRows", "countByRoute", "crossDevice", "expiredUse"}

\* What the query behind a figure returns.  The dashboard knows no route.
Answer(f, from, to, route) ==
  LET bought == Bought(from, to, route) IN
  CASE f = "activeUsers"   -> Cardinality({Owner[t] : t \in bought})
    [] f \in {"purchased", "count"} -> Cardinality(bought)
    [] f = "used"          -> Cardinality(With({"USED"}, bought))
    [] f = "expired"       -> Cardinality(With({"EXPIRED"}, bought))
    [] f = "refunded"      -> Cardinality(With({"REFUNDED"}, bought))
    [] f \in {"revenue", "total"} -> Total(Earning(from, to, route))
    [] f = "refunds"       -> RefundsPaid(from, to)
    [] f = "scans"         -> Cardinality(ScansIn(from, to))
    [] f = "byRoute"       -> RevenueByRoute(from, to, route)
    [] f = "byDay"         -> RevenueByDay(from, to, route)
    [] f = "revenueRows"   -> RevenueRows(RevenueByDayAndRoute(from, to, route))
    [] f = "countByStatus" -> CountByStatus(from, to, route)
    [] f = "countByRoute"  -> CountByRoute(from, to, route)
    [] f = "averageFare"   -> AverageFare(Earning(from, to, route))
    [] f = "crossDevice"   -> CrossDeviceDuplicates(from, to, route)
    [] f = "expiredUse"    -> ExpiredTicketUse(from, to, route)
    [] f = "highFailure"   -> HighFailureDrivers(from, to)
    [] f = "rapidRepeat"   -> RapidRepeatScans(from, to)
    [] f = "ticketRows"    -> TicketRows(bought)

StartOfDay(x) == x - (x % DayLength)
EndOfDay(x) == StartOfDay(x) + DayLength - 1

\* effectivePeriod
EffectivePeriod(fromDate, toDate) ==
  LET to == IF toDate = NULL THEN now ELSE toDate IN
  [from |-> IF fromDate = NULL THEN StartOfDay(to - HistoryDays * DayLength) ELSE fromDate,
   to   |-> EndOfDay(to)]

\* A request arrives and its queries are sent.
Ask(kind, dates, route) ==
  LET period == EffectivePeriod(dates[1], dates[2]) IN
  /\ report.asked = {}
  /\ kind = "dashboard" => route = NULL
  /\ report' = [NoReport EXCEPT !.kind = kind, !.asked = Followed[kind], !.route = route,
                                !.from = period.from, !.to = period.to]
  /\ UNCHANGED <<lvars, refundRows>>

\* One of them is answered, in whatever order the database gets to them.
Collect(f) ==
  /\ f \in report.asked /\ (report.route # NULL => f \notin ComparesUuid)
  /\ report' = [report EXCEPT
       !.asked = @ \ {f},
       !.figures = [g \in DOMAIN @ \cup {f} |->
         IF g = f THEN Answer(f, report.from, report.to, report.route) ELSE @[g]]]
  /\ UNCHANGED <<lvars, refundRows>>

\* One of them fails or is rejected, and the report is an error.
Abandon == report.asked # {} /\ report' = NoReport /\ UNCHANGED <<lvars, refundRows>>

\* Meanwhile the tickets and scans go on.  A report that is complete is gone.
World ==
  /\ \/ Going /\ UNCHANGED refundRows
     \/ \E j \in Runs, t \in Tickets :
          /\ Refund(j, t)
          /\ refundRows' = refundRows \cup {[ticket |-> t, by |-> j, at |-> now]}
  /\ report.asked # {} => report.meanwhile < MaxMeanwhile
  /\ report' = IF report.asked = {} THEN NoReport
               ELSE [report EXCEPT !.changed = @ \cup {t \in Tickets : phase'[t] # phase[t]},
                                   !.meanwhile = @ + 1]

ReportsNext ==
  \/ World \/ Abandon
  \/ \E kind \in Kinds, dates \in Periods, route \in RouteFilters : Ask(kind, dates, route)
  \/ \E f \in UNION {Followed[k] : k \in Kinds} : Collect(f)

ReportsSpec == ReportsInit /\ [][ReportsNext]_rvars

-----------------------------------------------------------------------------
AtMostApart(a, b, d) == a - b <= d /\ b - a <= d

Answered(kind, figures) == report.kind = kind /\ figures \subseteq DOMAIN report.figures

\* Sums that were rounded in parts stand for an amount.
PartsOf(parts, amount, money) ==
  AtMostApart(2 * amount, 2 * PerBirr * SumFunction(parts),
              2 * money + PerBirr * Cardinality(DOMAIN parts))

\* The figures of one report, read one by one while tickets are bought, used and
\* refunded, never contradict each other by more than the tickets that changed in
\* the meantime (in the dashboard one may be counted as refunded and then, its use
\* delivered, as used) and, where amounts are broken down, half a birr for each row,
\* as the database rounds each and the total is not.
FiguresAgree ==
  LET value == report.figures
      tickets == Cardinality(report.changed)
      money == Total(report.changed) IN
  /\ Answered("revenue", {"total", "byRoute"}) =>
       PartsOf(value["byRoute"], value["total"], money)
  /\ Answered("revenue", {"total", "byDay"}) =>
       PartsOf(value["byDay"], value["total"], money)
  /\ Answered("tickets", {"count", "countByStatus"}) =>
       AtMostApart(value["count"], SumFunction(value["countByStatus"]), tickets)
  /\ Answered("tickets", {"count", "countByRoute"}) =>
       AtMostApart(value["count"], SumFunction(value["countByRoute"]), tickets)
  /\ Answered("dashboard", {"purchased", "used", "refunded"}) =>
       value["used"] + value["refunded"] <= value["purchased"] + 2 * tickets

\* A passenger is listed for rapid repeats exactly if some interval of the window's
\* length within the period holds too many of the scans of his tickets, and with
\* the most that any holds: looking back from each scan misses no burst.
RapidRepeatExact ==
  report = NoReport => \A from \in 0..MaxTime : \A to \in from..MaxTime :
    LET found == RapidRepeatScans(from, to)
        within(p, a) == {e \in ScansOf(p, from, to) : a <= e.at /\ e.at <= a + RepeatWindow}
        most(p) == Max({Cardinality(within(p, a)) : a \in 0..MaxTime})
    IN \A p \in Passengers :
         /\ p \in DOMAIN found <=> most(p) > RepeatLimit
         /\ p \in DOMAIN found => found[p] = most(p)

\* What a report has counted as earned leaves a later one on the same period only
\* with a refund that is paid for it, after its hour: the job overwrites a use that
\* came while the ticket was on its list.
OnlyRefundsTakeBack ==
  [][phase' # phase => \A from \in 0..MaxTime : \A to \in from..MaxTime :
       \A t \in Earning(from, to, NULL) :
         \/ t \in Earning(from, to, NULL)'
         \/ /\ now > ExpiresAt(t)
            /\ \E row \in refundRows' \ refundRows : row.ticket = t]_rvars
================================================================================
