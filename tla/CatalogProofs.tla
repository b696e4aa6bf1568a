------------------------------ MODULE CatalogProofs ------------------------------
(***************************************************************************)
(* Proofs about RouteCatalog for every value of the constants: however the *)
(* transactions that replace stops and fares, deletions and purchases      *)
(* interleave, the catalogue is whole, a passenger is charged what was     *)
(* shown unless the route was edited, a route has the fares sent last and  *)
(* of others only those committed during that edit, and a deleted route    *)
(* has no active ticket that its deletion could have seen.                 *)
(***************************************************************************)
EXTENDS RouteCatalog, FiniteSetTheorems, TLAPS

-----------------------------------------------------------------------------
(* Stops that are created.                                                   *)

\* Distinct ids for the stops of a list, none of them drawn before.
Fresh(ids, D) ==
  /\ ids \in [D -> StopIds]
  /\ \A n \in D : stop[ids[n]] = NULL
  /\ \A m, n \in D : ids[m] = ids[n] => m = n

LEMMA ValidNumbers ==
  ASSUME NEW list \in Seq(Nat), ValidStops(list)
  PROVE  /\ {list[i] : i \in DOMAIN list} = DOMAIN list
         /\ DOMAIN list = 1..Len(list) /\ Len(list) \in Nat /\ Len(list) >= 2
  BY DEF ValidStops

\* The ids that are drawn are fresh: there are enough of them.
LEMMA FreshStopsAreFresh ==
  ASSUME NEW list \in Seq(Nat), ValidStops(list), StopsLeft(list)
  PROVE  Fresh(FreshStops(list), DOMAIN list)
<1> DEFINE F == {s \in StopIds : stop[s] = NULL}
           n == Len(list)
<1>1. IsFiniteSet(F) BY CatalogAssumption, FS_Subset
<1>2. PICK f \in Bijection(1..Cardinality(F), F) : TRUE
  BY <1>1, FS_CardinalityType DEF ExistsBijection
<1>3. Cardinality(F) \in Nat /\ Cardinality(F) >= n
  BY <1>1, FS_CardinalityType DEF StopsLeft
<1>4. /\ f \in [1..Cardinality(F) -> F]
      /\ \A i, j \in 1..Cardinality(F) : f[i] = f[j] => i = j
  BY <1>2 DEF Bijection, Injection, IsInjective
<1> DEFINE g == [i \in 1..n |-> f[i]]
<1>5. n \in Nat /\ 1..n \subseteq 1..Cardinality(F)
  <2>1. n \in Nat BY ValidNumbers
  <2>2. ASSUME NEW k \in Nat, k >= n PROVE 1..n \subseteq 1..k BY <2>1, <2>2
  <2>3. QED BY <1>3, <2>1, <2>2
<1>6. g \in [1..n -> F] /\ \A i, j \in 1..n : g[i] = g[j] => i = j
  BY <1>4, <1>5
<1>7. FreshStops(list) =
        CHOOSE ids \in [1..n -> F] : \A i, j \in DOMAIN ids : ids[i] = ids[j] => i = j
  BY ValidNumbers DEF FreshStops
<1>8. \A ids \in [1..n -> F] : DOMAIN ids = 1..n OBVIOUS
<1>9. \E ids \in [1..n -> F] : \A i, j \in DOMAIN ids : ids[i] = ids[j] => i = j
  BY <1>6, <1>8
<1> HIDE DEF g
<1>10. /\ FreshStops(list) \in [1..n -> F]
       /\ \A i, j \in DOMAIN FreshStops(list) :
            FreshStops(list)[i] = FreshStops(list)[j] => i = j
  BY <1>7, <1>9
<1>11. QED BY <1>10, ValidNumbers DEF Fresh

-----------------------------------------------------------------------------
(* Types.                                                                    *)

RowsOK ==
  /\ route \in [Routes -> RouteRow]
  /\ stop \in [StopIds -> StopRow \cup {NULL}]
  /\ fares \subseteq FareRow
  /\ segments \subseteq SegmentRow

\* A row of fares, and the fields of the rows.
LEMMA RowFields ==
  ASSUME RowsOK
  PROVE  /\ DOMAIN route = Routes /\ DOMAIN stop = StopIds
         /\ \A r \in Routes : /\ DOMAIN route[r] = {"status", "edition", "since", "sent"}
                              /\ route[r].edition \in Nat /\ route[r].since \in Nat
                              /\ route[r].status \in RouteStatus
                              /\ route[r].sent \in FareLists \cup {SeedFares, {}}
         /\ \A s \in StopIds : stop[s] # NULL =>
              /\ DOMAIN stop[s] = {"route", "seq", "gone"} /\ stop[s].route \in Routes
              /\ stop[s].seq \in Nat /\ stop[s].gone \in BOOLEAN
         /\ \A f \in fares : /\ f.route \in Routes /\ f.from \in StopIds /\ f.to \in StopIds
                             /\ f.edition \in Nat
         /\ \A g \in segments :
              g.route \in Routes /\ g.from \in StopIds /\ g.to \in StopIds
  BY DEF RowsOK, RouteRow, StopRow, FareRow, SegmentRow

-----------------------------------------------------------------------------
(* Fares that are created.                                                   *)

\* The list of a set of fares by the numbers of their stops.
ListOf(F, table) ==
  {[from |-> table[f.from].seq, to |-> table[f.to].seq, amount |-> f.amount] : f \in F}

\* The list an administrator or the seed data may send.
Sent(list) == list \in FareLists \cup {SeedFares}

LEMMA FareRowsOfList ==
  ASSUME NEW r \in Routes, NEW D, NEW ids \in [D -> StopIds], NEW list, Sent(list),
         Resolves(list, D), NEW table, \A n \in D : table[ids[n]].seq = n, NEW e \in Nat
  PROVE  /\ FareRows(r, list, ids, e) \subseteq FareRow
         /\ \A f \in FareRows(r, list, ids, e) :
              /\ f.route = r /\ f.edition = e
              /\ \E m, n \in D : f.from = ids[m] /\ f.to = ids[n]
         /\ \A f, g \in FareRows(r, list, ids, e) :
              f.from = g.from /\ f.to = g.to => f = g
         /\ ListOf(FareRows(r, list, ids, e), table) = list
<1> DEFINE Row(a) == [route |-> r, from |-> ids[a.from], to |-> ids[a.to],
                      amount |-> a.amount, edition |-> e]
<1>0. /\ list \subseteq [from: Nat, to: Nat, amount: Nat]
      /\ \A f, g \in list : f.from = g.from /\ f.to = g.to => f = g
      /\ \A a \in list : a.from \in D /\ a.to \in D
  BY CatalogAssumption DEF Sent, Resolves
<1>1. FareRows(r, list, ids, e) = {Row(a) : a \in list} BY DEF FareRows
<1>2. \A a \in list : /\ Row(a) \in FareRow /\ Row(a).route = r /\ Row(a).edition = e
                      /\ Row(a).from = ids[a.from] /\ Row(a).to = ids[a.to]
                      /\ Row(a).amount = a.amount
  BY <1>0 DEF FareRow
<1>3. \A a, b \in list : Row(a).from = Row(b).from /\ Row(a).to = Row(b).to => a = b
  BY <1>0, <1>2
<1>4. \A a \in list : [from |-> table[Row(a).from].seq, to |-> table[Row(a).to].seq,
                       amount |-> Row(a).amount] = a
  BY <1>0, <1>2
<1> HIDE DEF Row
<1>5. ListOf(FareRows(r, list, ids, e), table) = list BY <1>1, <1>4 DEF ListOf
<1>6. QED BY <1>0, <1>1, <1>2, <1>3, <1>5

-----------------------------------------------------------------------------
(* The stops of one route are replaced.                                      *)

\* In table, the stops route r had are gone and the others are as they were.
Retired(table, r) ==
  \A s \in StopIds :
    /\ stop[s] = NULL \/ stop[s].route # r => table[s] = stop[s]
    /\ stop[s] # NULL /\ stop[s].route = r =>
         /\ table[s] \in StopRow
         /\ table[s].route = r /\ table[s].seq = stop[s].seq /\ table[s].gone

\* Rows of stops are never dropped, and keep their route and their number.
StopsStay ==
  \A s \in StopIds : stop[s] # NULL =>
    stop'[s] # NULL /\ stop'[s].route = stop[s].route /\ stop'[s].seq = stop[s].seq

\* Route r has the stops ids[1], ids[2], ... now, and no other route has new stops.
Replaced(r, ids, D) ==
  /\ stop' \in [StopIds -> StopRow \cup {NULL}]
  /\ StopsStay
  /\ StopsOf(r)' = {ids[n] : n \in D}
  /\ \A q \in Routes \ {r} : StopsOf(q)' = StopsOf(q)
  /\ \A n \in D : stop'[ids[n]].seq = n
  /\ \A s \in StopIds : stop[s] = NULL /\ stop'[s] # NULL => stop'[s].route = r

LEMMA StopsReplaced ==
  ASSUME RowsOK, NEW r \in Routes, NEW D \in SUBSET Nat, NEW ids, Fresh(ids, D),
         NEW table, Retired(table, r), stop' = WithStops(table, r, ids)
  PROVE  Replaced(r, ids, D)
<1>0. /\ ids \in [D -> StopIds]
      /\ \A n \in D : stop[ids[n]] = NULL
      /\ \A m, n \in D : ids[m] = ids[n] => m = n
  BY DEF Fresh
<1>1. /\ DOMAIN stop' = StopIds
      /\ \A n \in D : stop'[ids[n]] = [route |-> r, seq |-> n, gone |-> FALSE]
      /\ \A s \in StopIds : (\A n \in D : ids[n] # s) => stop'[s] = table[s]
  <2>0. DOMAIN ids = D BY <1>0
  <2>1. ASSUME NEW n \in D PROVE stop'[ids[n]] = [route |-> r, seq |-> n, gone |-> FALSE]
    <3>1. ids[n] \in StopIds /\ (CHOOSE m \in D : ids[m] = ids[n]) = n BY <1>0
    <3>2. QED BY <2>0, <3>1 DEF WithStops
  <2>2. QED BY <2>0, <2>1 DEF WithStops
<1>2. /\ \A s \in StopIds : stop[s] # NULL => \A n \in D : ids[n] # s
      /\ NULL \notin StopRow
  BY <1>0, NullAssumption
<1>3. \A n \in D : /\ stop'[ids[n]] \in StopRow /\ stop'[ids[n]].route = r
                   /\ stop'[ids[n]].seq = n /\ ~stop'[ids[n]].gone
  <2> SUFFICES ASSUME NEW n \in D
               PROVE  /\ stop'[ids[n]] \in StopRow /\ stop'[ids[n]].route = r
                      /\ stop'[ids[n]].seq = n /\ ~stop'[ids[n]].gone
    OBVIOUS
  <2>1. stop'[ids[n]] = [route |-> r, seq |-> n, gone |-> FALSE] BY <1>1
  <2>2. n \in Nat OBVIOUS
  <2>3. QED BY <2>1, <2>2 DEF StopRow
<1>4. \A s \in StopIds : stop'[s] \in StopRow \cup {NULL}
  <2> SUFFICES ASSUME NEW s \in StopIds PROVE stop'[s] \in StopRow \cup {NULL}
    OBVIOUS
  <2>1. CASE \E n \in D : ids[n] = s BY <1>3, <2>1
  <2>2. CASE \A n \in D : ids[n] # s BY <1>1, <2>2 DEF RowsOK, Retired
  <2>3. QED BY <2>1, <2>2
<1>5. stop' \in [StopIds -> StopRow \cup {NULL}]
  <2>1. stop' = [s \in StopIds |-> stop'[s]] BY <1>1 DEF WithStops
  <2>2. QED BY <1>4, <2>1
<1>6. StopsStay BY <1>1, <1>2 DEF StopsStay, Retired
<1>7. ASSUME NEW s \in StopIds
      PROVE  s \in StopsOf(r)' <=> \E n \in D : ids[n] = s
  <2>1. CASE \E n \in D : ids[n] = s BY <1>2, <1>3, <2>1 DEF StopsOf
  <2>2. CASE \A n \in D : ids[n] # s
    BY <1>1, <2>2 DEF StopsOf, Retired
  <2>3. QED BY <2>1, <2>2
<1>8. StopsOf(r)' = {ids[n] : n \in D}
  <2>1. StopsOf(r)' \subseteq StopIds BY DEF StopsOf
  <2>2. QED BY <1>0, <1>7, <2>1
<1>9. ASSUME NEW q \in Routes \ {r}, NEW s \in StopIds
      PROVE  s \in StopsOf(q)' <=> s \in StopsOf(q)
  <2>1. CASE \E n \in D : ids[n] = s BY <1>0, <1>3, <2>1 DEF StopsOf
  <2>2. CASE \A n \in D : ids[n] # s
    BY <1>1, <2>2 DEF StopsOf, Retired
  <2>3. QED BY <2>1, <2>2
<1>10. \A q \in Routes \ {r} : StopsOf(q)' = StopsOf(q)
  BY <1>9 DEF StopsOf
<1>11. \A s \in StopIds : stop[s] = NULL /\ stop'[s] # NULL => stop'[s].route = r
  BY <1>1, <1>3 DEF Retired
<1>12. QED BY <1>3, <1>5, <1>6, <1>8, <1>10, <1>11 DEF Replaced

\* The stops of a route are numbered from 1 without a gap, two of them at least.
Counted(r) ==
  LET n == Cardinality(StopsOf(r)) IN
  n >= 2 /\ {stop[s].seq : s \in StopsOf(r)} = 1..n

LEMMA ReplacedCounted ==
  ASSUME RowsOK, NEW r \in Routes, NEW list \in Seq(Nat), ValidStops(list), NEW ids,
         Fresh(ids, DOMAIN list), Replaced(r, ids, DOMAIN list)
  PROVE  /\ Counted(r)'
         /\ \A q \in Routes \ {r} : Counted(q) => Counted(q)'
<1>0. /\ DOMAIN list = 1..Len(list) /\ Len(list) \in Nat /\ Len(list) >= 2
      /\ ids \in [1..Len(list) -> StopIds]
      /\ \A i, j \in 1..Len(list) : ids[i] = ids[j] => i = j
  BY ValidNumbers DEF Fresh
<1> DEFINE n == Len(list)
<1> HIDE DEF n
<1>1. ids \in Bijection(1..n, StopsOf(r)')
  BY <1>0 DEF Replaced, Bijection, Injection, IsInjective, Surjection, n
<1>2. Cardinality(StopsOf(r)') = n
  BY <1>0, <1>1, FS_CountingElements DEF ExistsBijection, n
<1>3. {stop'[s].seq : s \in StopsOf(r)'} = 1..n BY <1>0 DEF Replaced, n
<1>4. Counted(r)' BY <1>0, <1>2, <1>3 DEF Counted, n
<1>5. ASSUME NEW q \in Routes \ {r}, Counted(q) PROVE Counted(q)'
  <2>1. StopsOf(q)' = StopsOf(q) BY DEF Replaced
  <2>2. \A s \in StopsOf(q) : stop'[s].seq = stop[s].seq
    BY DEF Replaced, StopsStay, StopsOf
  <2>3. QED BY <1>5, <2>1, <2>2 DEF Counted
<1>6. QED BY <1>4, <1>5

-----------------------------------------------------------------------------
(* The catalogue.                                                            *)

\* Fares and segments join stops of their route.
Joins == \A f \in fares \cup segments : {f.from, f.to} \subseteq StopsOf(f.route)

\* Two stops have one fare.
OnePrice == \A f, g \in fares : f.from = g.from /\ f.to = g.to => f = g

\* A route that does not exist yet has never had a stop.
Unused(r) == \A s \in StopIds : stop[s] # NULL => stop[s].route # r

\* The fares of the last edit are the list that was sent, and the others were
\* committed since its transaction began.
Newest(r) == {f \in FaresOn(r) : f.edition = route[r].edition}

AsSent(r) ==
  /\ ListOf(Newest(r), stop) = route[r].sent
  /\ \A f \in FaresOn(r) :
       /\ f.edition <= route[r].edition
       /\ f.edition = route[r].edition \/ f.edition > route[r].since

CatInv ==
  /\ \A r \in Routes : IF route[r].status = "NONE" THEN Unused(r) ELSE Counted(r)
  /\ \A r \in Routes : route[r].status = "NONE" =>
       route[r].edition = 0 /\ route[r].since = 0
  /\ Joins /\ OnePrice
  /\ \A r \in Routes : AsSent(r)

\* The fares of a route change with its edition only, and new ones are rows of it.
FaresStay(r) ==
  /\ route'[r].status # "NONE" /\ route'[r].edition >= route[r].edition
  /\ \A f \in FaresOn(r)' : f.edition <= route[r].edition => f \in fares
  /\ route'[r].edition = route[r].edition => FaresOn(r)' = FaresOn(r)

Advance ==
  /\ StopsStay
  /\ \A r \in Routes : route[r].status # "NONE" => FaresStay(r)

OthersKeepStops(r) == \A q \in Routes \ {r} : StopsOf(q)' = StopsOf(q)

\* A stop of another route than the one whose stops are replaced.
LEMMA OtherStops ==
  ASSUME NEW r \in Routes, NEW ids, NEW D, Replaced(r, ids, D), NEW q \in Routes \ {r}
  PROVE  /\ \A s \in StopsOf(q) : s \in StopsOf(q)' /\ stop'[s].seq = stop[s].seq
         /\ Unused(q) => Unused(q)'
<1>1. \A s \in StopsOf(q) : s \in StopsOf(q)' /\ stop'[s].seq = stop[s].seq
  BY DEF Replaced, StopsStay, StopsOf
<1>2. ASSUME Unused(q), NEW s \in StopIds, stop'[s] # NULL PROVE stop'[s].route # q
  BY <1>2 DEF Replaced, StopsStay, Unused
<1>3. QED BY <1>1, <1>2 DEF Unused

\* The list of the fares of a route that is not touched.
LEMMA OtherList ==
  ASSUME Joins, NEW q \in Routes, FaresOn(q)' = FaresOn(q), AsSent(q),
         route'[q].edition = route[q].edition, route'[q].since = route[q].since,
         route'[q].sent = route[q].sent,
         \A s \in StopsOf(q) : stop'[s].seq = stop[s].seq
  PROVE  AsSent(q)'
<1>1. \A f \in Newest(q) : f.from \in StopsOf(q) /\ f.to \in StopsOf(q)
  BY DEF Joins, FaresOn, Newest
<1>2. ListOf(Newest(q), stop') = ListOf(Newest(q), stop) BY <1>1 DEF ListOf
<1>3. Newest(q)' = Newest(q) BY DEF Newest
<1>4. QED BY <1>2, <1>3 DEF AsSent

\* A route is created with its stops and fares, or seeded.
LEMMA PublishKeeps ==
  ASSUME RowsOK, CatInv, NEW r \in Routes, NEW list \in Seq(Nat), ValidStops(list),
         NEW prices, Sent(prices), Resolves(prices, DOMAIN list),
         NEW joined \in BOOLEAN, Publish(r, list, prices, joined)
  PROVE  RowsOK' /\ CatInv' /\ Advance /\ OthersKeepStops(r)
<1> DEFINE D == DOMAIN list
           ids == FreshStops(list)
           new == FareRows(r, prices, ids, 0)
           links == {[route |-> r, from |-> ids[n], to |-> ids[n + 1]] :
                       n \in {m \in DOMAIN ids : joined /\ m + 1 \in DOMAIN ids}}
<1>1. /\ route[r].status = "NONE"
      /\ route' = [route EXCEPT ![r].status = "ACTIVE", ![r].sent = prices]
      /\ stop' = WithStops(stop, r, ids)
      /\ fares' = fares \cup new
      /\ segments' = segments \cup links
      /\ Fresh(ids, D)
  BY FreshStopsAreFresh DEF Publish
<1>2. ids \in [D -> StopIds] /\ D \in SUBSET Nat /\ Unused(r)
  BY <1>1, ValidNumbers DEF Fresh, CatInv
<1> HIDE DEF ids, new, links, D
<1>3. Retired(stop, r) BY <1>2 DEF Retired, Unused
<1>4. Replaced(r, ids, D) BY <1>1, <1>2, <1>3, StopsReplaced
<1>5. StopsOf(r) = {} BY <1>2 DEF Unused, StopsOf
<1>6. FaresOn(r) = {} BY <1>5 DEF CatInv, Joins, FaresOn
<1>7. /\ new \subseteq FareRow
      /\ \A f \in new : /\ f.route = r /\ f.edition = 0
                        /\ \E m, n \in D : f.from = ids[m] /\ f.to = ids[n]
      /\ \A f, g \in new : f.from = g.from /\ f.to = g.to => f = g
      /\ ListOf(new, stop') = prices
  <2>1. \A n \in D : stop'[ids[n]].seq = n BY <1>4 DEF Replaced
  <2>2. Resolves(prices, D) BY DEF D
  <2>3. SUFFICES ASSUME NEW table, table = stop', NEW own, own = ids
                 PROVE  /\ FareRows(r, prices, own, 0) \subseteq FareRow
                        /\ \A f \in FareRows(r, prices, own, 0) :
                             /\ f.route = r /\ f.edition = 0
                             /\ \E m, n \in D : f.from = own[m] /\ f.to = own[n]
                        /\ \A f, g \in FareRows(r, prices, own, 0) :
                             f.from = g.from /\ f.to = g.to => f = g
                        /\ ListOf(FareRows(r, prices, own, 0), table) = prices
    BY DEF new
  <2>4. own \in [D -> StopIds] /\ \A n \in D : table[own[n]].seq = n BY <1>2, <2>1, <2>3
  <2>5. QED BY <2>2, <2>4, FareRowsOfList
<1>8. /\ links \subseteq SegmentRow
      /\ \A g \in links : g.route = r /\ \E m, n \in D : g.from = ids[m] /\ g.to = ids[n]
  <2>1. DOMAIN ids = D BY <1>2
  <2>2. ASSUME NEW n \in D, n + 1 \in D
        PROVE  [route |-> r, from |-> ids[n], to |-> ids[n + 1]] \in SegmentRow
    BY <1>2, <2>2 DEF SegmentRow
  <2>3. ASSUME NEW g \in links
        PROVE  \E n \in D : /\ n + 1 \in D
                             /\ g = [route |-> r, from |-> ids[n], to |-> ids[n + 1]]
    BY <2>1 DEF links
  <2>4. ASSUME NEW g \in links
        PROVE  g.route = r /\ \E m, n \in D : g.from = ids[m] /\ g.to = ids[n]
    <3>1. PICK n \in D : /\ n + 1 \in D
                         /\ g = [route |-> r, from |-> ids[n], to |-> ids[n + 1]]
      BY <2>3
    <3>2. g.route = r /\ g.from = ids[n] /\ g.to = ids[n + 1] BY <3>1
    <3>3. QED BY <3>1, <3>2
  <2>5. QED BY <2>2, <2>3, <2>4
<1>9. \A s \in StopIds : (\E n \in D : ids[n] = s) => stop[s] = NULL
  BY <1>1 DEF Fresh
<1>10. RowsOK'
  <2>1. route' \in [Routes -> RouteRow]
    BY <1>1 DEF RowsOK, RouteRow, RouteStatus, Sent
  <2>2. QED BY <1>1, <1>4, <1>7, <1>8, <2>1 DEF RowsOK, Replaced
<1>11. /\ route'[r].status = "ACTIVE" /\ route'[r].sent = prices
       /\ route'[r].edition = 0 /\ route'[r].since = 0
       /\ \A q \in Routes : q # r => route'[q] = route[q]
  BY <1>1, RowFields DEF CatInv
<1>12. \A q \in Routes : q # r => FaresOn(q)' = FaresOn(q)
  <2> SUFFICES ASSUME NEW q \in Routes, q # r
               PROVE  {f \in fares' : f.route = q} = {f \in fares : f.route = q}
    BY DEF FaresOn
  <2>1. \A f \in new : f.route # q BY <1>7
  <2>2. QED BY <1>1, <2>1
<1>13. FaresOn(r)' = new
  <2> SUFFICES {f \in fares' : f.route = r} = new BY DEF FaresOn
  <2>1. \A f \in new : f.route = r BY <1>7
  <2>2. \A f \in fares : f.route # r BY <1>6 DEF FaresOn
  <2>3. QED BY <1>1, <2>1, <2>2
<1>14. Advance
  <2>1. \A q \in Routes : route[q].status # "NONE" => q # r BY <1>1
  <2>2. \A q \in Routes : \A f \in FaresOn(q) : f \in fares BY DEF FaresOn
  <2>3. QED BY <1>4, <1>11, <1>12, <2>1, <2>2, RowFields DEF Advance, FaresStay, Replaced
<1>15. \A q \in Routes : IF route'[q].status = "NONE" THEN Unused(q)' ELSE Counted(q)'
  <2>1. Counted(r)' /\ \A q \in Routes \ {r} : Counted(q) => Counted(q)'
    BY <1>1, <1>4, ReplacedCounted DEF D
  <2>2. QED BY <1>4, <1>11, <2>1, OtherStops DEF CatInv
<1>16. Joins'
  <2>1. ASSUME NEW f \in fares \cup segments
        PROVE  {f.from, f.to} \subseteq StopsOf(f.route)'
    <3>1. f.route \in Routes /\ {f.from, f.to} \subseteq StopsOf(f.route)
      BY RowFields DEF CatInv, Joins
    <3>2. f.route # r BY <1>5, <3>1
    <3>3. QED BY <1>4, <3>1, <3>2 DEF Replaced
  <2>2. ASSUME NEW f \in new \cup links PROVE {f.from, f.to} \subseteq StopsOf(f.route)'
    BY <1>4, <1>7, <1>8 DEF Replaced
  <2>3. QED BY <1>1, <2>1, <2>2 DEF Joins
<1>17. OnePrice'
  <2>1. \A f \in new, g \in fares : f.from # g.from
    <3> SUFFICES ASSUME NEW f \in new, NEW g \in fares PROVE f.from # g.from OBVIOUS
    <3>1. stop[f.from] = NULL BY <1>2, <1>7, <1>9
    <3>2. g.from \in StopsOf(g.route) BY DEF CatInv, Joins
    <3>3. QED BY <3>1, <3>2 DEF StopsOf
  <2>2. QED BY <1>1, <1>7, <2>1 DEF CatInv, OnePrice
<1>18. ASSUME NEW q \in Routes PROVE AsSent(q)'
  <2>1. CASE q = r
    <3>1. Newest(r)' = new BY <1>7, <1>11, <1>13 DEF Newest
    <3>2. QED BY <1>7, <1>11, <1>13, <2>1, <3>1 DEF AsSent
  <2>2. CASE q # r
    <3>1. \A s \in StopsOf(q) : stop'[s].seq = stop[s].seq BY <1>4, <2>2, OtherStops
    <3>2. AsSent(q) BY DEF CatInv
    <3>3. QED BY <1>11, <1>12, <2>2, <3>1, <3>2, OtherList DEF CatInv
  <2>3. QED BY <2>1, <2>2
<1>19. OthersKeepStops(r) BY <1>4 DEF Replaced, OthersKeepStops
<1>20. \A q \in Routes : route'[q].status = "NONE" =>
         route'[q].edition = 0 /\ route'[q].since = 0
  BY <1>11 DEF CatInv
<1>21. QED BY <1>10, <1>14, <1>15, <1>16, <1>17, <1>18, <1>19, <1>20 DEF CatInv

\* Another edition of a route that exists: what a transaction writes to its row.
Edited(r, seen, list) ==
  /\ route[r].status # "NONE"
  /\ route' = [route EXCEPT ![r].edition = @ + 1, ![r].since = seen, ![r].sent = list]

\* A transaction deletes what it sees: all the fares the route has by then.
Saw(r, old, seen) ==
  /\ \A f \in old : f.route = r
  /\ seen \in Nat /\ seen <= route[r].edition
  /\ \A f \in FaresOn(r) : f.edition <= seen => f \in old

LEMMA EditedRows ==
  ASSUME RowsOK, NEW r \in Routes, NEW seen \in Nat,
         NEW list \in FareLists \cup {SeedFares, {}}, Edited(r, seen, list)
  PROVE  /\ route' \in [Routes -> RouteRow]
         /\ route'[r].status = route[r].status
         /\ route'[r].edition = route[r].edition + 1
         /\ route'[r].since = seen /\ route'[r].sent = list
         /\ \A q \in Routes : q # r => route'[q] = route[q]
<1>0. /\ DOMAIN route = Routes /\ route[r].edition \in Nat /\ route[r].status \in RouteStatus
      /\ DOMAIN route[r] = {"status", "edition", "since", "sent"}
  BY RowFields
<1>1. \A q \in Routes : q # r => route'[q] = route[q] BY <1>0 DEF Edited
<1>2. route'[r] = [status |-> route[r].status, edition |-> route[r].edition + 1,
                   since |-> seen, sent |-> list]
  BY <1>0 DEF Edited, RowsOK, RouteRow
<1>3. route'[r] \in RouteRow BY <1>0, <1>2 DEF RouteRow
<1>4. route' \in [Routes -> RouteRow]
  <2>1. \A q \in Routes : route'[q] \in RouteRow BY <1>1, <1>3 DEF RowsOK
  <2>2. route' = [q \in Routes |-> route'[q]] BY <1>0 DEF Edited
  <2>3. QED BY <2>1, <2>2
<1>5. QED BY <1>1, <1>2, <1>4

\* An edit that leaves the fares of the other routes, and where their stops are.
LEMMA OthersKeepTheirs ==
  ASSUME CatInv, RowsOK, NEW r \in Routes, NEW seen \in Nat,
         NEW list \in FareLists \cup {SeedFares, {}}, Edited(r, seen, list), StopsStay,
         OthersKeepStops(r), \A q \in Routes \ {r} : FaresOn(q)' = FaresOn(q),
         \A f \in FaresOn(r)' : f \in fares \/ f.edition = route[r].edition + 1
  PROVE  /\ Advance
         /\ \A q \in Routes \ {r} : AsSent(q)'
         /\ \A q \in Routes : route'[q].status # "NONE" \/ route'[q] = route[q]
<1>1. \A q \in Routes : route'[q].status # "NONE" \/ route'[q] = route[q]
  BY EditedRows DEF Edited
<1>2. Advance
  <2>1. ASSUME NEW q \in Routes \ {r}, route[q].status # "NONE" PROVE FaresStay(q)
    <3>1. route'[q] = route[q] /\ route[q].edition \in Nat BY EditedRows, RowFields
    <3>2. \A f \in FaresOn(q) : f \in fares BY DEF FaresOn
    <3>3. QED BY <2>1, <3>1, <3>2 DEF FaresStay
  <2>2. FaresStay(r)
    <3>1. route[r].edition \in Nat /\ route'[r].edition = route[r].edition + 1
      BY EditedRows, RowFields
    <3>2. route'[r].status # "NONE" BY EditedRows DEF Edited
    <3>3. QED BY <3>1, <3>2 DEF FaresStay
  <2>3. QED BY <2>1, <2>2 DEF Advance
<1>3. ASSUME NEW q \in Routes \ {r} PROVE AsSent(q)'
  <2>1. \A s \in StopsOf(q) : stop'[s].seq = stop[s].seq BY DEF StopsStay, StopsOf
  <2>2. route'[q] = route[q] /\ AsSent(q) BY EditedRows DEF CatInv
  <2>3. QED BY <2>1, <2>2, OtherList DEF CatInv
<1>4. QED BY <1>1, <1>2, <1>3

\* updateStops commits: the fares it saw, which are all the route has, are gone.
LEMMA CreateStopsKeeps ==
  ASSUME RowsOK, CatInv, NEW r \in Routes, NEW seen, NEW old, Saw(r, old, seen),
         Edited(r, seen, {}), NEW list \in Seq(Nat), ValidStops(list), StopsLeft(list),
         NEW ids, ids = StopsOf(r),
         \A f \in fares \ old : {f.from, f.to} \cap ids = {},
         stop' = WithStops([s \in StopIds |-> IF s \in ids
                              THEN [stop[s] EXCEPT !.gone = TRUE] ELSE stop[s]],
                           r, FreshStops(list)),
         fares' = fares \ old,
         segments' = {g \in segments : g.route # r}
  PROVE  RowsOK' /\ CatInv' /\ Advance /\ OthersKeepStops(r)
<1> DEFINE D == DOMAIN list
           new == FreshStops(list)
           table == [s \in StopIds |-> IF s \in ids
                       THEN [stop[s] EXCEPT !.gone = TRUE] ELSE stop[s]]
<1>1. Fresh(new, D) BY FreshStopsAreFresh
<1>2. D \in SUBSET Nat BY ValidNumbers
<1>3. Retired(table, r)
  <2> SUFFICES ASSUME NEW s \in StopIds
               PROVE  /\ stop[s] = NULL \/ stop[s].route # r => table[s] = stop[s]
                      /\ stop[s] # NULL /\ stop[s].route = r =>
                           /\ table[s] \in StopRow
                           /\ table[s].route = r /\ table[s].seq = stop[s].seq
                           /\ table[s].gone
    BY DEF Retired
  <2>1. CASE s \in ids
    <3>1. /\ stop[s] # NULL /\ stop[s].route = r /\ stop[s] \in StopRow
          /\ DOMAIN stop[s] = {"route", "seq", "gone"}
      BY <2>1, RowFields DEF StopsOf, RowsOK
    <3>2. table[s] = [stop[s] EXCEPT !.gone = TRUE] BY <2>1
    <3>3. QED BY <3>1, <3>2 DEF StopRow
  <2>2. CASE s \notin ids
    <3>1. table[s] = stop[s] BY <2>2
    <3>2. stop[s] # NULL /\ stop[s].route = r => stop[s].gone BY <2>2 DEF StopsOf
    <3>3. QED BY <3>1, <3>2 DEF RowsOK
  <2>3. QED BY <2>1, <2>2
<1> HIDE DEF D, new, table
<1>4. stop' = WithStops(table, r, new) BY DEF table, new
<1>5. Replaced(r, new, D) BY <1>1, <1>2, <1>3, <1>4, StopsReplaced
<1>6. OthersKeepStops(r) /\ StopsStay BY <1>5 DEF Replaced, OthersKeepStops
<1>7. \A f \in fares' : f \in fares /\ f.route # r
  BY DEF CatInv, Joins
<1>8. FaresOn(r)' = {} BY <1>7 DEF FaresOn
<1>9. \A q \in Routes \ {r} : FaresOn(q)' = FaresOn(q)
  <2> SUFFICES ASSUME NEW q \in Routes \ {r}
               PROVE  {f \in fares' : f.route = q} = {f \in fares : f.route = q}
    BY DEF FaresOn
  <2>1. \A f \in old : f.route # q BY DEF Saw
  <2>2. QED BY <2>1
<1>10. /\ Advance /\ \A q \in Routes \ {r} : AsSent(q)'
       /\ \A q \in Routes : route'[q].status # "NONE" \/ route'[q] = route[q]
  BY <1>6, <1>8, <1>9, OthersKeepTheirs DEF Saw
<1>11. AsSent(r)'
  <2>1. route'[r].sent = {} BY EditedRows DEF Saw
  <2>2. ListOf(Newest(r)', stop') = {} BY <1>8 DEF Newest, ListOf
  <2>3. QED BY <1>8, <2>1, <2>2 DEF AsSent
<1>12. RowsOK' BY <1>5, <1>7, EditedRows DEF RowsOK, Replaced, Saw
<1>13. Joins'
  <2> SUFFICES ASSUME NEW f \in fares' \cup segments'
               PROVE  {f.from, f.to} \subseteq StopsOf(f.route)'
    BY DEF Joins
  <2>1. f \in fares \cup segments /\ f.route # r BY <1>7
  <2>2. f.route \in Routes BY <2>1, RowFields
  <2>3. QED BY <1>6, <2>1, <2>2 DEF CatInv, Joins, OthersKeepStops
<1>14. OnePrice' BY <1>7 DEF OnePrice, CatInv
<1>15. \A q \in Routes : IF route'[q].status = "NONE" THEN Unused(q)' ELSE Counted(q)'
  <2>1. Counted(r)' /\ \A q \in Routes \ {r} : Counted(q) => Counted(q)'
    BY <1>1, <1>5, ReplacedCounted DEF D
  <2>2. /\ route'[r].status # "NONE"
        /\ \A q \in Routes : q # r => route'[q] = route[q]
    BY EditedRows DEF Edited, Saw
  <2>3. QED BY <1>5, <2>1, <2>2, OtherStops DEF CatInv
<1>16. \A q \in Routes : AsSent(q)' BY <1>10, <1>11
<1>17. \A q \in Routes : route'[q].status = "NONE" =>
         route'[q].edition = 0 /\ route'[q].since = 0
  BY <1>10 DEF CatInv
<1>18. CatInv' BY <1>13, <1>14, <1>15, <1>16, <1>17 DEF CatInv
<1>19. QED BY <1>6, <1>10, <1>12, <1>18

\* The stops of a set by number, each with its own number.
LEMMA Numbered ==
  ASSUME NEW ids \in SUBSET StopIds
  PROVE  /\ ByNumber(ids) \in [{stop[s].seq : s \in ids} -> StopIds]
         /\ \A n \in {stop[s].seq : s \in ids} :
              ByNumber(ids)[n] \in ids /\ stop[ByNumber(ids)[n]].seq = n
<1> DEFINE D == {stop[s].seq : s \in ids}
           by(n) == CHOOSE s \in ids : stop[s].seq = n
<1>1. \A n \in D : by(n) \in ids /\ stop[by(n)].seq = n
  <2> SUFFICES ASSUME NEW n \in D PROVE by(n) \in ids /\ stop[by(n)].seq = n OBVIOUS
  <2>1. \E s \in ids : stop[s].seq = n OBVIOUS
  <2>2. QED BY <2>1
<1> HIDE DEF by
<1>2. ByNumber(ids) = [n \in D |-> by(n)] BY DEF ByNumber, by
<1>3. QED BY <1>1, <1>2

\* updateFares commits: its fares join stops that are still there, whose numbers
\* are those it was sent, and none of them joins two stops that have a fare.
LEMMA CreateFaresKeeps ==
  ASSUME RowsOK, CatInv, NEW r \in Routes, NEW seen, NEW old, Saw(r, old, seen),
         NEW prices, Edited(r, seen, prices), Sent(prices), NEW ids \in SUBSET StopIds,
         \A s \in ids : stop[s] # NULL /\ stop[s].route = r,
         Resolves(prices, {stop[s].seq : s \in ids}),
         NEW new, new = FareRows(r, prices, ByNumber(ids), route[r].edition + 1),
         \A f \in new : Exists(f.from) /\ Exists(f.to),
         \A f \in new, g \in fares \ old : f.from # g.from \/ f.to # g.to,
         fares' = (fares \ old) \cup new,
         UNCHANGED <<stop, segments>>
  PROVE  RowsOK' /\ CatInv' /\ Advance /\ \A q \in Routes : StopsOf(q)' = StopsOf(q)
<1> DEFINE D == {stop[s].seq : s \in ids}
<1>0. route[r].edition \in Nat BY RowFields
<1>1. SUFFICES ASSUME NEW table, table = stop, NEW own, own = ByNumber(ids),
                      NEW e \in Nat, e = route[r].edition + 1,
                      new = FareRows(r, prices, own, e)
               PROVE  RowsOK' /\ CatInv' /\ Advance
                      /\ \A q \in Routes : StopsOf(q)' = StopsOf(q)
  BY <1>0
<1>2. own \in [D -> StopIds] /\ \A n \in D : own[n] \in ids /\ table[own[n]].seq = n
  BY <1>1, Numbered
<1> HIDE DEF D
<1>3. Resolves(prices, D) BY DEF D
<1>4. /\ new \subseteq FareRow
      /\ \A f \in new : /\ f.route = r /\ f.edition = e
                        /\ \E m, n \in D : f.from = own[m] /\ f.to = own[n]
      /\ \A f, g \in new : f.from = g.from /\ f.to = g.to => f = g
      /\ ListOf(new, stop) = prices
  BY <1>1, <1>2, <1>3, FareRowsOfList
<1>5. \A q \in Routes : StopsOf(q)' = StopsOf(q) BY DEF StopsOf
<1>6. StopsStay /\ OthersKeepStops(r) BY <1>5 DEF StopsStay, OthersKeepStops
<1>7. \A q \in Routes \ {r} : FaresOn(q)' = FaresOn(q)
  <2> SUFFICES ASSUME NEW q \in Routes \ {r}
               PROVE  {f \in fares' : f.route = q} = {f \in fares : f.route = q}
    BY DEF FaresOn
  <2>1. \A f \in old : f.route # q BY DEF Saw
  <2>2. \A f \in new : f.route # q BY <1>4
  <2>3. QED BY <2>1, <2>2
<1>8. /\ Advance /\ \A q \in Routes \ {r} : AsSent(q)'
      /\ \A q \in Routes : route'[q].status # "NONE" \/ route'[q] = route[q]
  <2>1. \A f \in FaresOn(r)' : f \in fares \/ f.edition = route[r].edition + 1
    BY <1>1, <1>4 DEF FaresOn
  <2>2. prices \in FareLists \cup {SeedFares, {}} BY DEF Sent
  <2>3. QED BY <1>6, <1>7, <2>1, <2>2, OthersKeepTheirs DEF Saw
<1>9. AsSent(r)'
  <2>1. route'[r].edition = e /\ route'[r].since = seen /\ route'[r].sent = prices
    BY <1>1, EditedRows DEF Saw, Sent
  <2>2. ASSUME NEW f \in fares \ old, f.route = r
        PROVE  f.edition <= e /\ f.edition # e /\ f.edition > seen
    <3>1. f \in FaresOn(r) /\ f.edition \in Nat /\ seen \in Nat
      BY <2>2, RowFields DEF FaresOn, Saw
    <3>2. f.edition <= route[r].edition BY <3>1 DEF CatInv, AsSent
    <3>3. ~(f.edition <= seen) BY <2>2, <3>1 DEF Saw
    <3>4. QED BY <1>0, <1>1, <3>1, <3>2, <3>3
  <2>3. \A f \in FaresOn(r)' : f \in new \/ (f \in fares \ old /\ f.route = r)
    BY DEF FaresOn
  <2>4. \A f \in new : f \in FaresOn(r)' BY <1>4 DEF FaresOn
  <2>5. Newest(r)' = new BY <1>4, <2>1, <2>2, <2>3, <2>4 DEF Newest
  <2>6. \A f \in FaresOn(r)' : f.edition <= e /\ (f.edition = e \/ f.edition > seen)
    BY <1>4, <2>2, <2>3
  <2>7. ListOf(new, stop') = prices BY <1>4
  <2>8. QED BY <2>1, <2>5, <2>6, <2>7 DEF AsSent
<1>10. RowsOK' BY <1>4, EditedRows DEF RowsOK, Saw, Sent
<1>11. Joins'
  <2>1. \A f \in new : f.route = r /\ {f.from, f.to} \subseteq StopsOf(r)
    <3> SUFFICES ASSUME NEW f \in new
                 PROVE  f.route = r /\ {f.from, f.to} \subseteq StopsOf(r)
      OBVIOUS
    <3>1. f.route = r /\ f.from \in ids /\ f.to \in ids BY <1>2, <1>4
    <3>2. Exists(f.from) /\ Exists(f.to) OBVIOUS
    <3>3. QED BY <3>1, <3>2 DEF Exists, StopsOf
  <2>2. \A f \in fares \cup segments : f.route \in Routes BY RowFields
  <2>3. QED BY <1>5, <2>1, <2>2 DEF CatInv, Joins
<1>12. OnePrice' BY <1>4 DEF OnePrice, CatInv
<1>13. \A q \in Routes : IF route'[q].status = "NONE" THEN Unused(q)' ELSE Counted(q)'
  <2>1. \A q \in Routes : route'[q].status = route[q].status BY EditedRows DEF Saw, Sent
  <2>2. \A q \in Routes : /\ Unused(q) => Unused(q)'
                          /\ Counted(q) => Counted(q)'
    BY <1>5 DEF Unused, Counted
  <2>3. QED BY <2>1, <2>2 DEF CatInv
<1>14. \A q \in Routes : AsSent(q)' BY <1>8, <1>9
<1>15. \A q \in Routes : route'[q].status = "NONE" =>
         route'[q].edition = 0 /\ route'[q].since = 0
  BY <1>8 DEF CatInv
<1>16. CatInv' BY <1>11, <1>12, <1>13, <1>14, <1>15 DEF CatInv
<1>17. QED BY <1>5, <1>8, <1>10, <1>16

\* A route is put into service, taken out of it or deleted.
LEMMA StatusKeeps ==
  ASSUME RowsOK, CatInv, NEW r \in Routes, route[r].status # "NONE",
         NEW status \in RouteStatus \ {"NONE"},
         route' = [route EXCEPT ![r].status = status],
         UNCHANGED <<stop, fares, segments>>
  PROVE  RowsOK' /\ CatInv' /\ Advance /\ \A q \in Routes : StopsOf(q)' = StopsOf(q)
<1>1. /\ \A q \in Routes : q # r => route'[q] = route[q]
      /\ route'[r].status = status
      /\ route'[r].edition = route[r].edition /\ route'[r].since = route[r].since
      /\ route'[r].sent = route[r].sent
  BY RowFields
<1>2. route' \in [Routes -> RouteRow] BY DEF RowsOK, RouteRow
<1>3. /\ \A q \in Routes : StopsOf(q)' = StopsOf(q) /\ FaresOn(q)' = FaresOn(q)
      /\ StopsStay
  BY DEF StopsOf, FaresOn, StopsStay
<1>4. RowsOK' BY <1>2 DEF RowsOK
<1>5. Advance
  <2>1. \A q \in Routes : \A f \in FaresOn(q) : f \in fares BY DEF FaresOn
  <2>2. QED BY <1>1, <1>3, <2>1, RowFields DEF Advance, FaresStay
<1>6. Joins' /\ OnePrice'
  <2>1. \A f \in fares \cup segments : f.route \in Routes BY RowFields
  <2>2. QED BY <1>3, <2>1 DEF CatInv, Joins, OnePrice
<1>7. \A q \in Routes : AsSent(q)'
  <2> SUFFICES ASSUME NEW q \in Routes PROVE AsSent(q)' OBVIOUS
  <2>1. /\ route'[q].edition = route[q].edition /\ route'[q].since = route[q].since
        /\ route'[q].sent = route[q].sent
    BY <1>1
  <2>2. QED BY <1>3, <2>1, OtherList DEF CatInv
<1>8. \A q \in Routes : /\ IF route'[q].status = "NONE" THEN Unused(q)' ELSE Counted(q)'
                        /\ route'[q].status = "NONE" =>
                             route'[q].edition = 0 /\ route'[q].since = 0
  BY <1>1, <1>3 DEF CatInv, Unused, Counted
<1>9. QED BY <1>3, <1>4, <1>5, <1>6, <1>7, <1>8 DEF CatInv

\* The other steps leave the catalogue as it is.
LEMMA SameCatalog ==
  ASSUME RowsOK, CatInv, UNCHANGED catalog
  PROVE  RowsOK' /\ CatInv' /\ Advance /\ \A q \in Routes : StopsOf(q)' = StopsOf(q)
<1>1. \A q \in Routes : StopsOf(q)' = StopsOf(q) /\ FaresOn(q)' = FaresOn(q)
  BY DEF catalog, StopsOf, FaresOn
<1>2. RowsOK' BY DEF catalog, RowsOK
<1>3. Advance
  <2>1. \A q \in Routes : \A f \in FaresOn(q) : f \in fares BY DEF FaresOn
  <2>2. QED BY <1>1, <2>1, RowFields DEF catalog, Advance, FaresStay, StopsStay
<1>4. Joins' /\ OnePrice'
  <2>1. \A f \in fares \cup segments : f.route \in Routes BY RowFields
  <2>2. QED BY <1>1, <2>1 DEF catalog, CatInv, Joins, OnePrice
<1>5. \A q \in Routes : AsSent(q)'
  <2> SUFFICES ASSUME NEW q \in Routes PROVE AsSent(q)' OBVIOUS
  <2>1. Newest(q)' = Newest(q) BY <1>1 DEF catalog, Newest
  <2>2. QED BY <1>1, <2>1 DEF catalog, CatInv, AsSent
<1>6. \A q \in Routes : /\ IF route'[q].status = "NONE" THEN Unused(q)' ELSE Counted(q)'
                        /\ route'[q].status = "NONE" =>
                             route'[q].edition = 0 /\ route'[q].since = 0
  BY <1>1 DEF catalog, CatInv, Unused, Counted
<1>7. QED BY <1>1, <1>2, <1>3, <1>4, <1>5, <1>6 DEF CatInv

-----------------------------------------------------------------------------
(* What a handler carries from one statement to the next.                    *)

\* The route was there when the handler looked: routes are never taken back.
Known(r) == r \in Routes /\ route[r].status # "NONE"

\* The stops of the fare are, or were, stops of its route.
StopsKnown(f) ==
  /\ f \in FareRow /\ Known(f.route)
  /\ \A s \in {f.from, f.to} : stop[s] # NULL /\ stop[s].route = f.route

\* What was seen at this edition; if the route was not edited since, it still is.
Current(f, edition) ==
  /\ edition <= route[f.route].edition
  /\ edition = route[f.route].edition => f \in fares

ScreenOK(s) ==
  s \in Screen /\ \A f \in s.fares : Known(f.route) /\ Current(f, s.edition)

\* updateFares found the stops its fares are for.
Resolved(k) ==
  /\ \A s \in k.ids : stop[s] # NULL /\ stop[s].route = k.route
  /\ Resolves(k.fares, {stop[s].seq : s \in k.ids})

\* What a purchase is about to charge is what was shown, unless the route was edited.
ToCharge(k) ==
  \E g \in k.screen.fares :
    /\ k.screen.fares = {g}
    /\ k.screen.edition <= route[k.fare.route].edition
    /\ k.screen.edition = route[k.fare.route].edition => k.fare.amount = g.amount

CallOK(k) ==
  /\ k \in Call
  /\ k.pc \notin {"idle", "readFare", "buy"} => Known(k.route)
  /\ k.pc \notin {"idle", "readFares", "readFare", "buy"} => k.action \in Actions
  /\ k.pc \in {"deleteStops", "createStops"} => k.stops \in StopLists /\ ValidStops(k.stops)
  /\ k.pc \in {"readStops", "deleteFares", "createFares"} => k.fares \in FareLists
  /\ k.pc \in {"deleteFares", "createFares"} => Resolved(k)
  /\ k.pc \in {"createStops", "createFares"} => Saw(k.route, k.old, k.screen.edition)
  /\ k.pc = "readFares" => k.screen.edition <= route[k.route].edition
  /\ k.pc \in {"readFare", "buy"} => StopsKnown(k.fare) /\ k.ticket \in Tickets
  /\ k.pc = "readFare" => Current(k.fare, k.screen.edition)
  /\ k.pc = "buy" => ToCharge(k)

CallsOK == call \in [Calls -> Call] /\ \A d \in Calls : CallOK(call[d])

-----------------------------------------------------------------------------
(* The invariant.                                                            *)

TicketsOK ==
  \A t \in Tickets : ticket[t] # NULL =>
    /\ {ticket[t].fare.from, ticket[t].fare.to} \subseteq StopsOf(ticket[t].fare.route)
    /\ ticket[t].fare.amount # ticket[t].shown => ticket[t].edited

\* A route that is deleted, or whose tickets were counted by its deletion.
Leaving(r) ==
  route[r].status = "DELETED" \/ \E d \in Calls : call[d].pc = "delete" /\ call[d].route = r

MissedOn(r) == \A t \in ActiveOn(r) : ticket[t].missed

Inv ==
  /\ RowsOK /\ CatInv
  /\ ticket \in [Tickets -> TicketRow \cup {NULL}] /\ TicketsOK
  /\ audit \subseteq Routes \X Actions
  /\ requests \in 0..MaxRequests
  /\ ScreenOK(screen)
  /\ CallsOK
  /\ \A r \in Routes : Leaving(r) => MissedOn(r)

-----------------------------------------------------------------------------
(* What a handler carries stays true while the others work.                  *)

LEMMA KnownStays ==
  ASSUME Advance, NEW r, Known(r)
  PROVE  Known(r)'
  BY DEF Advance, Known, FaresStay

LEMMA CurrentStays ==
  ASSUME RowsOK, RowsOK', Advance, NEW f, Known(f.route), NEW e \in Nat, Current(f, e)
  PROVE  Current(f, e)'
<1>1. /\ f.route \in Routes /\ FaresStay(f.route)
      /\ route[f.route].edition \in Nat /\ route'[f.route].edition \in Nat
  BY RowFields DEF Advance, Known, RowsOK, RouteRow
<1>2. e <= route'[f.route].edition BY <1>1 DEF Current, FaresStay
<1>3. ASSUME e = route'[f.route].edition PROVE f \in fares'
  <2>1. e = route[f.route].edition /\ route'[f.route].edition = route[f.route].edition
    BY <1>1, <1>3 DEF Current, FaresStay
  <2>2. f \in FaresOn(f.route) BY <2>1 DEF Current, FaresOn
  <2>3. FaresOn(f.route)' = FaresOn(f.route) BY <1>1, <2>1 DEF FaresStay
  <2>4. QED BY <2>2, <2>3 DEF FaresOn
<1>4. QED BY <1>2, <1>3 DEF Current

LEMMA ScreenStays ==
  ASSUME RowsOK, RowsOK', Advance, NEW s, ScreenOK(s)
  PROVE  ScreenOK(s)'
<1>1. s.edition \in Nat BY DEF ScreenOK, Screen
<1>2. ASSUME NEW f \in s.fares PROVE Known(f.route)' /\ Current(f, s.edition)'
  BY <1>1, KnownStays, CurrentStays DEF ScreenOK
<1>3. QED BY <1>2 DEF ScreenOK

LEMMA SawStays ==
  ASSUME RowsOK, RowsOK', Advance, NEW r, Known(r), NEW old, NEW seen, Saw(r, old, seen)
  PROVE  Saw(r, old, seen)'
<1>1. /\ r \in Routes /\ FaresStay(r)
      /\ route[r].edition \in Nat /\ route'[r].edition \in Nat
  BY RowFields DEF Advance, Known, RowsOK, RouteRow
<1>2. seen <= route'[r].edition BY <1>1 DEF Saw, FaresStay
<1>3. ASSUME NEW f \in FaresOn(r)', f.edition <= seen PROVE f \in old
  <2>1. f.edition \in Nat /\ f.route = r BY <1>3 DEF FaresOn, RowsOK, FareRow
  <2>2. seen \in Nat /\ seen <= route[r].edition BY DEF Saw
  <2>3. f.edition <= route[r].edition BY <1>1, <1>3, <2>1, <2>2
  <2>4. f \in FaresOn(r) BY <1>1, <1>3, <2>1, <2>3 DEF FaresStay, FaresOn
  <2>5. QED BY <1>3, <2>4 DEF Saw
<1>4. QED BY <1>2, <1>3 DEF Saw

LEMMA StopsKnownStay ==
  ASSUME Advance, NEW f, StopsKnown(f)
  PROVE  StopsKnown(f)'
<1>1. Known(f.route)' BY KnownStays DEF StopsKnown
<1>2. f.from \in StopIds /\ f.to \in StopIds BY DEF StopsKnown, FareRow
<1>3. QED BY <1>1, <1>2 DEF StopsKnown, Advance, StopsStay

LEMMA ResolvedStays ==
  ASSUME Advance, NEW k \in Call, Resolved(k)
  PROVE  Resolved(k)'
<1>1. k.ids \subseteq StopIds BY DEF Call
<1>2. \A s \in k.ids : /\ stop'[s] # NULL /\ stop'[s].route = k.route
                       /\ stop'[s].seq = stop[s].seq
  BY <1>1 DEF Advance, StopsStay, Resolved
<1>3. QED BY <1>2 DEF Resolved, Resolves

LEMMA ToChargeStays ==
  ASSUME RowsOK, RowsOK', Advance, NEW k \in Call, Known(k.fare.route), ToCharge(k)
  PROVE  ToCharge(k)'
<1>1. PICK g \in k.screen.fares :
        /\ k.screen.fares = {g}
        /\ k.screen.edition <= route[k.fare.route].edition
        /\ k.screen.edition = route[k.fare.route].edition => k.fare.amount = g.amount
  BY DEF ToCharge
<1>2. k.screen.edition \in Nat BY DEF Call, Screen
<1>3. /\ k.fare.route \in Routes /\ FaresStay(k.fare.route)
      /\ route[k.fare.route].edition \in Nat /\ route'[k.fare.route].edition \in Nat
  BY RowFields DEF Advance, Known, RowsOK, RouteRow
<1>4. /\ k.screen.edition <= route'[k.fare.route].edition
      /\ k.screen.edition = route'[k.fare.route].edition => k.fare.amount = g.amount
  BY <1>1, <1>2, <1>3 DEF FaresStay
<1>5. QED BY <1>1, <1>4 DEF ToCharge

LEMMA CallStays ==
  ASSUME RowsOK, RowsOK', Advance, NEW k, CallOK(k)
  PROVE  CallOK(k)'
<1>1. k \in Call /\ k.screen.edition \in Nat BY DEF CallOK, Call, Screen
<1>2. k.pc \notin {"idle", "readFare", "buy"} => Known(k.route) /\ Known(k.route)'
  BY KnownStays DEF CallOK
<1>3. k.pc \in {"deleteFares", "createFares"} => Resolved(k)'
  BY <1>1, ResolvedStays DEF CallOK
<1>4. k.pc \in {"createStops", "createFares"} => Saw(k.route, k.old, k.screen.edition)'
  BY <1>2, SawStays DEF CallOK
<1>5. k.pc = "readFares" => k.screen.edition <= route'[k.route].edition
  <2> SUFFICES ASSUME k.pc = "readFares" PROVE k.screen.edition <= route'[k.route].edition
    OBVIOUS
  <2>1. k.screen.edition <= route[k.route].edition /\ Known(k.route) BY DEF CallOK
  <2>2. /\ FaresStay(k.route)
        /\ route[k.route].edition \in Nat /\ route'[k.route].edition \in Nat
    BY <2>1, RowFields DEF Advance, Known, RowsOK, RouteRow
  <2>3. QED BY <1>1, <2>1, <2>2 DEF FaresStay
<1>6. k.pc \in {"readFare", "buy"} => StopsKnown(k.fare)' /\ Known(k.fare.route)
  BY StopsKnownStay DEF CallOK, StopsKnown
<1>7. k.pc = "readFare" => Current(k.fare, k.screen.edition)'
  BY <1>1, <1>6, CurrentStays DEF CallOK
<1>8. k.pc = "buy" => ToCharge(k)'
  BY <1>1, <1>6, ToChargeStays DEF CallOK
<1>9. QED BY <1>2, <1>3, <1>4, <1>5, <1>6, <1>7, <1>8 DEF CallOK

\* One handler moves on to k, the others wait.
LEMMA CallsStep ==
  ASSUME RowsOK, RowsOK', Advance, CallsOK, NEW c \in Calls, NEW k, CallOK(k)',
         call' = [call EXCEPT ![c] = k]
  PROVE  CallsOK'
<1>1. k \in Call BY DEF CallOK
<1>2. call' \in [Calls -> Call] BY <1>1 DEF CallsOK
<1>3. ASSUME NEW d \in Calls PROVE CallOK(call[d])'
  <2> SUFFICES ASSUME NEW l, l = call'[d] PROVE CallOK(l)'
    BY DEF CallOK, Resolved, ToCharge
  <2>1. CASE d = c BY <2>1 DEF CallsOK
  <2>2. CASE d # c
    <3>1. l = call[d] BY <2>2 DEF CallsOK
    <3>2. CallOK(l) BY <3>1 DEF CallsOK
    <3>3. QED BY <3>2, CallStays
  <2>3. QED BY <2>1, <2>2
<1>4. QED BY <1>2, <1>3 DEF CallsOK

-----------------------------------------------------------------------------
(* Handlers at their start and at their end.                                 *)

LEMMA IdleOK ==
  CallOK(Idle)
<1>1. Idle.pc = "idle" BY DEF Idle
<1>2. NoScreen \in Screen BY DEF NoScreen, Screen
<1>3. Idle \in Call BY <1>2 DEF Idle, Call, Pcs
<1>4. QED BY <1>1, <1>3 DEF CallOK

\* The change is committed; what is left is the audit log.
Logging(r, action) == [Idle EXCEPT !.pc = "log", !.action = action, !.route = r]

LEMMA LogCall ==
  ASSUME NEW r \in Routes, NEW action \in Actions, NEW k, k = Logging(r, action)
  PROVE  /\ k \in Call /\ k.pc = "log" /\ k.action = action /\ k.route = r
         /\ Known(r) => CallOK(k)
         /\ Known(r)' => CallOK(k)'
<1>1. NoScreen \in Screen BY DEF NoScreen, Screen
<1>2. k = [pc |-> "log", action |-> action, route |-> r, stops |-> <<>>, fares |-> {},
           ids |-> {}, old |-> {}, screen |-> NoScreen, fare |-> NULL, ticket |-> NULL]
  BY DEF Idle, Logging
<1>3. k \in Call BY <1>1, <1>2 DEF Call, Pcs
<1>4. k.pc = "log" /\ k.action = action /\ k.route = r BY <1>2
<1>5. QED BY <1>3, <1>4 DEF CallOK

\* A handler that was called for a route that exists.
Started(pc, action, r, list, prices) ==
  [pc |-> pc, action |-> action, route |-> r, stops |-> list, fares |-> prices,
   ids |-> {}, old |-> {}, screen |-> NoScreen, fare |-> NULL, ticket |-> NULL]

LEMMA StartCall ==
  ASSUME NEW pc, NEW action, NEW r, Known(r), NEW list, NEW prices, NEW k,
         k = Started(pc, action, r, list, prices),
         \/ pc \in {"update", "count"} /\ action \in Actions /\ list = <<>> /\ prices = {}
         \/ /\ pc = "deleteStops" /\ action = "route.update_stops"
            /\ list \in StopLists /\ ValidStops(list) /\ prices = {}
         \/ /\ pc = "readStops" /\ action = "route.update_fares"
            /\ list = <<>> /\ prices \in FareLists
  PROVE  CallOK(k) /\ k.pc # "delete"
<1>1. NoScreen \in Screen BY DEF NoScreen, Screen
<1>2. /\ k.pc = pc /\ k.action = action /\ k.route = r /\ k.stops = list
      /\ k.fares = prices
  BY DEF Started
<1>3. k \in Call BY <1>1 DEF Call, Pcs, Actions, Known, Started
<1>4. pc \notin {"idle", "deleteFares", "createStops", "createFares", "readFares",
                 "readFare", "buy", "delete"}
  OBVIOUS
<1>5. action \in Actions BY DEF Actions
<1>6. QED BY <1>2, <1>3, <1>4, <1>5 DEF CallOK

-----------------------------------------------------------------------------
(* Steps of one handler.                                                     *)

LEMMA InvFields ==
  ASSUME Inv
  PROVE  /\ requests \in 0..MaxRequests /\ audit \subseteq Routes \X Actions
         /\ DOMAIN call = Calls /\ DOMAIN ticket = Tickets
         /\ \A d \in Calls : call[d] \in Call /\ CallOK(call[d])
         /\ \A t \in Tickets : ticket[t] # NULL =>
              /\ ticket[t] \in TicketRow /\ ticket[t].fare \in FareRow
              /\ ticket[t].fare.route \in Routes
              /\ ticket[t].fare.from \in StopIds /\ ticket[t].fare.to \in StopIds
  BY DEF Inv, CallsOK, TicketRow, FareRow

\* No handler moves.
LEMMA CallsWait ==
  ASSUME Inv, RowsOK', Advance, UNCHANGED call
  PROVE  CallsOK'
<1>1. ASSUME NEW d \in Calls PROVE CallOK(call[d])'
  <2> SUFFICES ASSUME NEW l, l = call'[d] PROVE CallOK(l)'
    BY DEF CallOK, Resolved, ToCharge
  <2>1. l = call[d] /\ CallOK(l) BY InvFields
  <2>2. QED BY <2>1, CallStays DEF Inv
<1>2. QED BY <1>1 DEF CallsOK, Inv

\* A step that leaves the tickets and what the passenger saw.
LEMMA EditStep ==
  ASSUME Inv, RowsOK', CatInv', Advance, NEW c \in Calls, NEW k, CallOK(k)',
         call' = [call EXCEPT ![c] = k], UNCHANGED <<ticket, screen>>,
         audit' \subseteq Routes \X Actions, requests' \in 0..MaxRequests,
         \A t \in Tickets : ticket[t] # NULL =>
           StopsOf(ticket[t].fare.route)' = StopsOf(ticket[t].fare.route),
         \A r \in Routes : \/ route'[r].status = "DELETED"
                           \/ k.pc = "delete" /\ k.route = r
                           => Leaving(r) \/ MissedOn(r)
  PROVE  Inv'
<1>1. RowsOK /\ CallsOK /\ ScreenOK(screen) /\ TicketsOK BY DEF Inv
<1>2. CallsOK' BY <1>1, CallsStep
<1>3. ScreenOK(screen)'
  <2> SUFFICES ASSUME NEW s, s = screen, s = screen' PROVE ScreenOK(s)'
    BY DEF ScreenOK
  <2>1. QED BY <1>1, ScreenStays
<1>4. TicketsOK' BY <1>1 DEF TicketsOK
<1>5. ASSUME NEW r \in Routes, Leaving(r)' PROVE MissedOn(r)'
  <2>1. Leaving(r) \/ MissedOn(r)
    <3>1. CASE route'[r].status = "DELETED" BY <3>1
    <3>2. CASE \E d \in Calls : call'[d].pc = "delete" /\ call'[d].route = r
      <4>1. PICK d \in Calls : call'[d].pc = "delete" /\ call'[d].route = r BY <3>2
      <4>2. CASE d = c BY <4>1, <4>2, InvFields
      <4>3. CASE d # c
        <5>1. call'[d] = call[d] BY <4>3, InvFields
        <5>2. QED BY <4>1, <5>1 DEF Leaving
      <4>4. QED BY <4>2, <4>3
    <3>3. QED BY <1>5, <3>1, <3>2 DEF Leaving
  <2>2. MissedOn(r) BY <2>1 DEF Inv
  <2>3. QED BY <2>2 DEF MissedOn, ActiveOn
<1>6. QED BY <1>2, <1>3, <1>4, <1>5 DEF Inv

\* A step that reads only.
LEMMA ReadStep ==
  ASSUME Inv, NEW c \in Calls, NEW k, CallOK(k), call' = [call EXCEPT ![c] = k],
         UNCHANGED <<catalog, ticket, screen>>,
         audit' \subseteq Routes \X Actions, requests' \in 0..MaxRequests,
         k.pc = "delete" => MissedOn(k.route)
  PROVE  Inv'
<1>1. RowsOK' /\ CatInv' /\ Advance /\ \A q \in Routes : StopsOf(q)' = StopsOf(q)
  BY SameCatalog DEF Inv
<1>2. CallOK(k)' BY <1>1, CallStays DEF Inv
<1>3. \A r \in Routes : route'[r].status = "DELETED" => Leaving(r)
  BY DEF catalog, Leaving
<1>4. \A t \in Tickets : ticket[t] # NULL =>
        StopsOf(ticket[t].fare.route)' = StopsOf(ticket[t].fare.route)
  BY <1>1, InvFields
<1>5. QED BY <1>1, <1>2, <1>3, <1>4, EditStep

LEMMA FailKeeps ==
  ASSUME Inv, NEW c \in Calls, Fail(c)
  PROVE  Inv'
<1>1. Idle.pc = "idle" BY DEF Idle
<1>2. /\ call' = [call EXCEPT ![c] = Idle] /\ UNCHANGED requests
      /\ UNCHANGED <<catalog, ticket, audit, screen>>
  BY DEF Fail, Goto
<1>3. audit' \subseteq Routes \X Actions /\ requests' \in 0..MaxRequests BY <1>2 DEF Inv
<1>4. QED BY <1>1, <1>2, <1>3, IdleOK, ReadStep

LEMMA LogActionKeeps ==
  ASSUME Inv, NEW c \in Calls, LogAction(c)
  PROVE  Inv'
<1>1. Idle.pc = "idle" BY DEF Idle
<1>2. /\ call[c].pc = "log"
      /\ call' = [call EXCEPT ![c] = Idle] /\ UNCHANGED requests
      /\ UNCHANGED <<catalog, ticket, screen>>
      /\ audit' = audit \cup {<<call[c].route, call[c].action>>}
  BY DEF LogAction, Goto
<1>3. call[c].route \in Routes /\ call[c].action \in Actions
  BY <1>2, InvFields DEF CallOK, Known
<1>4. audit' \subseteq Routes \X Actions /\ requests' \in 0..MaxRequests
  BY <1>2, <1>3 DEF Inv
<1>5. QED BY <1>1, <1>2, <1>4, IdleOK, ReadStep

LEMMA Arrived ==
  ASSUME requests \in 0..MaxRequests, requests < MaxRequests, requests' = requests + 1
  PROVE  requests' \in 0..MaxRequests
  BY CatalogAssumption

LEMMA FoundKeeps ==
  ASSUME Inv, NEW c \in Calls, NEW r \in Routes, NEW pc, NEW action, NEW list, NEW prices,
         NEW base, base = Started(pc, action, NULL, list, prices), FindRoute(c, r, base),
         \/ pc \in {"update", "count"} /\ action \in Actions /\ list = <<>> /\ prices = {}
         \/ /\ pc = "deleteStops" /\ action = "route.update_stops"
            /\ list \in StopLists /\ ValidStops(list) /\ prices = {}
         \/ /\ pc = "readStops" /\ action = "route.update_fares"
            /\ list = <<>> /\ prices \in FareLists
  PROVE  Inv'
<1>1. PICK k : k = [base EXCEPT !.route = r] OBVIOUS
<1>2. /\ route[r].status \in {"ACTIVE", "INACTIVE"}
      /\ requests < MaxRequests /\ requests' = requests + 1
      /\ UNCHANGED <<catalog, ticket, audit, screen>>
      /\ call' = [call EXCEPT ![c] = k]
  BY <1>1 DEF FindRoute, Arrive
<1>3. k = Started(pc, action, r, list, prices) BY <1>1 DEF Started
<1>4. Known(r) BY <1>2 DEF Known
<1>5. CallOK(k) /\ k.pc # "delete" BY <1>3, <1>4, StartCall
<1>6. audit' \subseteq Routes \X Actions /\ requests' \in 0..MaxRequests
  <2>1. requests \in 0..MaxRequests /\ audit \subseteq Routes \X Actions BY InvFields
  <2>2. requests' \in 0..MaxRequests BY <1>2, <2>1, Arrived
  <2>3. QED BY <1>2, <2>1, <2>2
<1>7. QED BY <1>2, <1>5, <1>6, ReadStep

\* A handler starts for a route that exists.
LEMMA StartKeeps ==
  ASSUME Inv, NEW c \in Calls, NEW r \in Routes,
         \/ UpdateRoute(c, r) \/ DeleteRoute(c, r)
         \/ \E list \in StopLists : UpdateStops(c, r, list)
         \/ \E prices \in FareLists : UpdateFares(c, r, prices)
  PROVE  Inv'
<1>1. CASE UpdateRoute(c, r)
  <2>1. PICK base : base = [Idle EXCEPT !.pc = "update", !.action = "route.update"] OBVIOUS
  <2>2. base = Started("update", "route.update", NULL, <<>>, {}) BY <2>1 DEF Idle, Started
  <2>3. FindRoute(c, r, base) BY <1>1, <2>1 DEF UpdateRoute
  <2>4. QED BY <2>2, <2>3, FoundKeeps DEF Actions
<1>2. CASE DeleteRoute(c, r)
  <2>1. PICK base : base = [Idle EXCEPT !.pc = "count", !.action = "route.delete"] OBVIOUS
  <2>2. base = Started("count", "route.delete", NULL, <<>>, {}) BY <2>1 DEF Idle, Started
  <2>3. FindRoute(c, r, base) BY <1>2, <2>1 DEF DeleteRoute
  <2>4. QED BY <2>2, <2>3, FoundKeeps DEF Actions
<1>3. ASSUME NEW list \in StopLists, UpdateStops(c, r, list) PROVE Inv'
  <2>1. PICK base : base = [Idle EXCEPT !.pc = "deleteStops", !.stops = list,
                                        !.action = "route.update_stops"] OBVIOUS
  <2>2. base = Started("deleteStops", "route.update_stops", NULL, list, {}) BY <2>1 DEF Idle, Started
  <2>3. FindRoute(c, r, base) /\ ValidStops(list) BY <1>3, <2>1 DEF UpdateStops
  <2>4. QED BY <2>2, <2>3, FoundKeeps DEF Actions
<1>4. ASSUME NEW prices \in FareLists, UpdateFares(c, r, prices) PROVE Inv'
  <2>1. PICK base : base = [Idle EXCEPT !.pc = "readStops", !.fares = prices,
                                        !.action = "route.update_fares"] OBVIOUS
  <2>2. base = Started("readStops", "route.update_fares", NULL, <<>>, prices) BY <2>1 DEF Idle, Started
  <2>3. FindRoute(c, r, base) BY <1>4, <2>1 DEF UpdateFares
  <2>4. QED BY <2>2, <2>3, FoundKeeps DEF Actions
<1>5. QED BY <1>1, <1>2, <1>3, <1>4

\* A transaction has deleted what it sees.
LEMMA BeginKeeps ==
  ASSUME Inv, NEW c \in Calls, DeleteStops(c) \/ DeleteFares(c)
  PROVE  Inv'
<1> DEFINE r == call[c].route
           seen == route[r].edition
<1>1. PICK next \in {"createStops", "createFares"}, ids \in SUBSET StopIds :
        /\ call' = [call EXCEPT ![c] =
             [call[c] EXCEPT !.pc = next, !.ids = ids, !.old = FaresOn(r),
                             !.screen.edition = route[r].edition]]
        /\ UNCHANGED requests /\ UNCHANGED <<catalog, ticket, audit, screen>>
        /\ next = "createStops" => call[c].pc = "deleteStops"
        /\ next = "createFares" => call[c].pc = "deleteFares" /\ ids = call[c].ids
  <2>1. CASE DeleteStops(c)
    <3>1. StopsOf(call[c].route) \in SUBSET StopIds BY DEF StopsOf
    <3>2. QED BY <2>1, <3>1 DEF DeleteStops, Begin, Goto
  <2>2. CASE DeleteFares(c)
    <3>1. call[c].ids \in SUBSET StopIds BY InvFields DEF Call
    <3>2. QED BY <2>2, <3>1 DEF DeleteFares, Begin, Goto
  <2>3. QED BY <2>1, <2>2
<1>2. PICK k : k = call'[c] OBVIOUS
<1>3. /\ call[c] \in Call /\ CallOK(call[c]) /\ Known(r) BY <1>1, InvFields DEF CallOK
<1>4. /\ k = [call[c] EXCEPT !.pc = next, !.ids = ids, !.old = FaresOn(r),
                             !.screen.edition = route[r].edition]
      /\ call' = [call EXCEPT ![c] = k]
  BY <1>1, <1>2, InvFields
<1>5. /\ k.pc = next /\ k.ids = ids /\ k.old = FaresOn(r)
      /\ k.screen = [call[c].screen EXCEPT !.edition = route[r].edition]
      /\ k.action = call[c].action /\ k.route = r /\ k.stops = call[c].stops
      /\ k.fares = call[c].fares /\ k.fare = call[c].fare /\ k.ticket = call[c].ticket
  BY <1>3, <1>4 DEF Call
<1>6. seen \in Nat /\ r \in Routes BY <1>3, RowFields DEF Known, Inv
<1>7. k.screen.edition = seen /\ k.screen \in Screen
  <2>1. call[c].screen \in Screen BY <1>3 DEF Call
  <2>2. QED BY <1>5, <1>6, <2>1 DEF Screen
<1>8. k \in Call
  <2>1. k = [pc |-> next, action |-> call[c].action, route |-> r,
             stops |-> call[c].stops, fares |-> call[c].fares, ids |-> ids,
             old |-> k.old, screen |-> k.screen, fare |-> call[c].fare,
             ticket |-> call[c].ticket]
    BY <1>3, <1>4, <1>5 DEF Call
  <2>2. k.old \in SUBSET FareRow BY <1>5 DEF Inv, RowsOK, FaresOn
  <2>3. QED BY <1>3, <1>7, <2>1, <2>2 DEF Call, Pcs
<1>9. Saw(r, k.old, seen) BY <1>5, <1>6 DEF Saw, FaresOn
<1>10. next = "createFares" => Resolved(k)
  <2>1. next = "createFares" => Resolved(call[c]) BY <1>1, <1>3 DEF CallOK
  <2>2. QED BY <1>1, <1>5, <2>1 DEF Resolved
<1>11. CallOK(k)
  <2>1. call[c].action \in Actions BY <1>1, <1>3 DEF CallOK
  <2>2. next = "createStops" => call[c].stops \in StopLists /\ ValidStops(call[c].stops)
    BY <1>1, <1>3 DEF CallOK
  <2>3. next = "createFares" => call[c].fares \in FareLists BY <1>1, <1>3 DEF CallOK
  <2>4. QED BY <1>3, <1>5, <1>7, <1>8, <1>9, <1>10, <2>1, <2>2, <2>3 DEF CallOK
<1>12. audit' \subseteq Routes \X Actions /\ requests' \in 0..MaxRequests
  BY <1>1 DEF Inv
<1>13. QED BY <1>1, <1>4, <1>5, <1>11, <1>12, ReadStep

LEMMA ReadStopsKeeps ==
  ASSUME Inv, NEW c \in Calls, ReadStops(c)
  PROVE  Inv'
<1> DEFINE own == StopsOf(call[c].route)
<1>1. PICK k : k = IF Resolves(call[c].fares, DOMAIN ByNumber(own))
                     THEN [call[c] EXCEPT !.pc = "deleteFares", !.ids = own] ELSE Idle
  OBVIOUS
<1>2. /\ call[c].pc = "readStops"
      /\ call' = [call EXCEPT ![c] = k] /\ UNCHANGED requests
      /\ UNCHANGED <<catalog, ticket, audit, screen>>
  BY <1>1 DEF ReadStops, Goto
<1>3. CallOK(k) /\ k.pc # "delete"
  <2>1. CASE k = Idle BY <2>1, IdleOK DEF Idle
  <2>2. CASE /\ Resolves(call[c].fares, DOMAIN ByNumber(own))
             /\ k = [call[c] EXCEPT !.pc = "deleteFares", !.ids = own]
    <3>1. call[c] \in Call /\ CallOK(call[c]) BY InvFields
    <3>2. own \in SUBSET StopIds /\ \A s \in own : stop[s] # NULL /\ stop[s].route = call[c].route
      BY DEF StopsOf
    <3>3. DOMAIN ByNumber(own) = {stop[s].seq : s \in own} BY DEF ByNumber
    <3> HIDE DEF own
    <3>4. k \in Call BY <2>2, <3>1, <3>2 DEF Call, Pcs
    <3>5. /\ k.pc = "deleteFares" /\ k.ids = own /\ k.route = call[c].route
          /\ k.fares = call[c].fares /\ k.action = call[c].action
      BY <2>2, <3>1 DEF Call
    <3>6. Resolved(k) BY <2>2, <3>2, <3>3, <3>5 DEF Resolved
    <3>7. Known(k.route) /\ k.action \in Actions /\ k.fares \in FareLists
      BY <1>2, <3>1, <3>5 DEF CallOK
    <3>8. QED BY <3>4, <3>5, <3>6, <3>7 DEF CallOK
  <2>3. QED BY <1>1, <2>1, <2>2
<1>4. audit' \subseteq Routes \X Actions /\ requests' \in 0..MaxRequests
  BY <1>2 DEF Inv
<1>5. QED BY <1>2, <1>3, <1>4, ReadStep

LEMMA CountTicketsKeeps ==
  ASSUME Inv, NEW c \in Calls, CountTickets(c)
  PROVE  Inv'
<1>1. PICK k : k = IF ActiveOn(call[c].route) = {}
                     THEN [call[c] EXCEPT !.pc = "delete"] ELSE Idle
  OBVIOUS
<1>2. /\ call[c].pc = "count"
      /\ call' = [call EXCEPT ![c] = k] /\ UNCHANGED requests
      /\ UNCHANGED <<catalog, ticket, audit, screen>>
  BY <1>1 DEF CountTickets, Goto
<1>3. CallOK(k) /\ (k.pc = "delete" => MissedOn(k.route))
  <2>1. CASE k = Idle BY <2>1, IdleOK DEF Idle
  <2>2. CASE ActiveOn(call[c].route) = {} /\ k = [call[c] EXCEPT !.pc = "delete"]
    <3>1. call[c] \in Call /\ CallOK(call[c]) BY InvFields
    <3>2. k \in Call BY <2>2, <3>1 DEF Call, Pcs
    <3>3. k.pc = "delete" /\ k.route = call[c].route /\ k.action = call[c].action
      BY <2>2, <3>1 DEF Call
    <3>4. Known(k.route) /\ k.action \in Actions BY <1>2, <3>1, <3>3 DEF CallOK
    <3>5. MissedOn(k.route) BY <2>2, <3>3 DEF MissedOn
    <3>6. QED BY <3>2, <3>3, <3>4, <3>5 DEF CallOK
  <2>3. QED BY <1>1, <2>1, <2>2
<1>4. audit' \subseteq Routes \X Actions /\ requests' \in 0..MaxRequests
  BY <1>2 DEF Inv
<1>5. QED BY <1>2, <1>3, <1>4, ReadStep

\* The edition that is noted with the request is the one the route has.
LEMMA ViewKeeps ==
  ASSUME Inv, NEW c \in Calls, NEW r \in Routes, View(c, r)
  PROVE  Inv'
<1>1. PICK k : k = [Idle EXCEPT !.pc = "readFares", !.route = r,
                                !.screen.edition = route[r].edition]
  OBVIOUS
<1>2. /\ route[r].status = "ACTIVE"
      /\ call' = [call EXCEPT ![c] = k]
      /\ requests < MaxRequests /\ requests' = requests + 1
      /\ UNCHANGED <<catalog, ticket, audit, screen>>
  BY <1>1 DEF View, Arrive
<1>3. route[r].edition \in Nat BY RowFields DEF Inv
<1>4. k = [pc |-> "readFares", action |-> NULL, route |-> r, stops |-> <<>>, fares |-> {},
           ids |-> {}, old |-> {}, screen |-> [fares |-> {}, edition |-> route[r].edition],
           fare |-> NULL, ticket |-> NULL]
  BY <1>1 DEF Idle, NoScreen
<1>5. [fares |-> {}, edition |-> route[r].edition] \in Screen BY <1>3 DEF Screen
<1>6. k \in Call BY <1>4, <1>5 DEF Call, Pcs
<1>7. k.pc = "readFares" /\ k.route = r /\ k.screen.edition = route[r].edition
  BY <1>4
<1>8. CallOK(k) BY <1>2, <1>3, <1>6, <1>7 DEF CallOK, Known
<1>9. audit' \subseteq Routes \X Actions /\ requests' \in 0..MaxRequests
  <2>1. requests \in 0..MaxRequests /\ audit \subseteq Routes \X Actions BY InvFields
  <2>2. requests' \in 0..MaxRequests BY <1>2, <2>1, CatalogAssumption
  <2>3. QED BY <1>2, <2>1, <2>2
<1>10. QED BY <1>2, <1>7, <1>8, <1>9, ReadStep

\* What is on the screen is still so, unless the route was edited.
LEMMA PurchaseKeeps ==
  ASSUME Inv, NEW c \in Calls, NEW t \in Tickets, NEW f \in screen.fares, Purchase(c, t, f)
  PROVE  Inv'
<1>1. PICK k : k = [Idle EXCEPT !.pc = "readFare", !.ticket = t, !.fare = f,
                                !.screen = [screen EXCEPT !.fares = {}]]
  OBVIOUS
<1>2. /\ {f.from, f.to} \subseteq StopsOf(f.route)
      /\ call' = [call EXCEPT ![c] = k]
      /\ requests < MaxRequests /\ requests' = requests + 1
      /\ UNCHANGED <<catalog, ticket, audit, screen>>
  BY <1>1 DEF Purchase, Arrive
<1>3. /\ screen \in Screen /\ f \in FareRow
      /\ Known(f.route) /\ Current(f, screen.edition)
  BY DEF Inv, ScreenOK, Screen
<1>4. k = [pc |-> "readFare", action |-> NULL, route |-> NULL, stops |-> <<>>, fares |-> {},
           ids |-> {}, old |-> {}, screen |-> [fares |-> {}, edition |-> screen.edition],
           fare |-> f, ticket |-> t]
  BY <1>1, <1>3 DEF Idle, Screen
<1>5. [fares |-> {}, edition |-> screen.edition] \in Screen BY <1>3 DEF Screen
<1>6. k \in Call BY <1>3, <1>4, <1>5 DEF Call, Pcs
<1>7. /\ k.pc = "readFare" /\ k.fare = f /\ k.ticket = t
      /\ k.screen.edition = screen.edition
  BY <1>4
<1>8. StopsKnown(f) BY <1>2, <1>3 DEF StopsKnown, StopsOf
<1>9. CallOK(k) BY <1>3, <1>6, <1>7, <1>8 DEF CallOK
<1>10. audit' \subseteq Routes \X Actions /\ requests' \in 0..MaxRequests
  <2>1. requests \in 0..MaxRequests /\ audit \subseteq Routes \X Actions BY InvFields
  <2>2. requests' \in 0..MaxRequests BY <1>2, <2>1, CatalogAssumption
  <2>3. QED BY <1>2, <2>1, <2>2
<1>11. QED BY <1>2, <1>7, <1>9, <1>10, ReadStep

\* Two stops have one fare: while the route is not edited, the one that was shown.
LEMMA ReadFareKeeps ==
  ASSUME Inv, NEW c \in Calls, ReadFare(c)
  PROVE  Inv'
<1> DEFINE f == call[c].fare
<1>1. /\ call[c].pc = "readFare" /\ UNCHANGED requests
      /\ UNCHANGED <<catalog, ticket, audit, screen>>
      /\ audit' \subseteq Routes \X Actions /\ requests' \in 0..MaxRequests
  BY DEF ReadFare, Goto, Inv
<1>2. /\ call[c] \in Call /\ CallOK(call[c]) /\ StopsKnown(f) /\ call[c].ticket \in Tickets
      /\ Current(f, call[c].screen.edition)
  BY <1>1, InvFields DEF CallOK
<1>3. CASE call' = [call EXCEPT ![c] = Idle]
  <2>1. Idle.pc # "delete" BY DEF Idle
  <2>2. QED BY <1>1, <1>3, <2>1, IdleOK, ReadStep
<1>4. ASSUME NEW g \in FareOf(f),
             call' = [call EXCEPT ![c] =
               [call[c] EXCEPT !.pc = "buy", !.fare = g, !.screen.fares = {f}]]
      PROVE  Inv'
  <2>1. PICK k : k = [call[c] EXCEPT !.pc = "buy", !.fare = g, !.screen.fares = {f}]
    OBVIOUS
  <2>2. g \in fares /\ g \in FareRow /\ g.route = f.route /\ g.from = f.from /\ g.to = f.to
    BY DEF FareOf, Inv, RowsOK
  <2>3. f \in FareRow /\ call[c].screen \in Screen BY <1>2 DEF StopsKnown, Call
  <2>4. /\ k.pc = "buy" /\ k.fare = g /\ k.ticket = call[c].ticket
        /\ k.screen = [call[c].screen EXCEPT !.fares = {f}]
    BY <1>2, <2>1 DEF Call
  <2>5. /\ k.screen.fares = {f} /\ k.screen.edition = call[c].screen.edition
        /\ k.screen \in Screen
    BY <2>3, <2>4 DEF Screen
  <2>6. k \in Call
    <3>1. k = [pc |-> "buy", action |-> call[c].action, route |-> call[c].route,
               stops |-> call[c].stops, fares |-> call[c].fares, ids |-> call[c].ids,
               old |-> call[c].old, screen |-> k.screen, fare |-> g,
               ticket |-> call[c].ticket]
      BY <1>2, <2>1, <2>4 DEF Call
    <3>2. QED BY <1>2, <2>2, <2>5, <3>1 DEF Call, Pcs
  <2>7. StopsKnown(g) BY <1>2, <2>2 DEF StopsKnown
  <2>8. f \in fares => g = f BY <2>2 DEF Inv, CatInv, OnePrice
  <2>9. ToCharge(k) BY <1>2, <2>2, <2>4, <2>5, <2>8 DEF ToCharge, Current
  <2>10. CallOK(k) BY <1>2, <2>4, <2>6, <2>7, <2>9 DEF CallOK
  <2>11. QED BY <1>1, <1>4, <2>1, <2>4, <2>10, ReadStep
<1>5. QED BY <1>3, <1>4 DEF ReadFare, Goto

-----------------------------------------------------------------------------
(* Steps that change the catalogue.                                          *)

LEMMA SetActiveKeeps ==
  ASSUME Inv, NEW c \in Calls, SetActive(c) \/ Delete(c)
  PROVE  Inv'
<1> DEFINE r == call[c].route
<1>1. PICK k : k = Logging(r, call[c].action) OBVIOUS
<1>2. /\ call[c].pc \in {"update", "delete"}
      /\ call' = [call EXCEPT ![c] = k] /\ UNCHANGED requests
      /\ UNCHANGED <<stop, fares, segments, ticket, audit, screen>>
      /\ audit' \subseteq Routes \X Actions /\ requests' \in 0..MaxRequests
  BY <1>1 DEF SetActive, Delete, Changed, Goto, Inv, Logging
<1>3. Known(r) /\ r \in Routes /\ call[c].action \in Actions
  BY <1>2, InvFields DEF CallOK, Known
<1>4. PICK status \in RouteStatus \ {"NONE"} :
        /\ route' = [route EXCEPT ![r].status = status]
        /\ status = "DELETED" => Leaving(r)
  <2>0. DOMAIN route = Routes /\ DOMAIN route[r] = {"status", "edition", "since", "sent"}
    BY <1>3, RowFields DEF Inv
  <2>1. CASE SetActive(c)
    <3>1. PICK s \in {"ACTIVE", "INACTIVE"} :
            route' = [route EXCEPT ![r].status = IF @ = "DELETED" THEN @ ELSE s]
      BY <2>1 DEF SetActive
    <3>2. CASE route[r].status = "DELETED"
      <4>1. route' = [route EXCEPT ![r].status = "DELETED"] BY <3>1, <3>2
      <4>2. QED BY <1>3, <3>2, <4>1 DEF RouteStatus, Leaving
    <3>3. CASE route[r].status # "DELETED"
      <4>1. route' = [route EXCEPT ![r].status = s] BY <3>1, <3>3
      <4>2. QED BY <4>1 DEF RouteStatus
    <3>4. QED BY <3>2, <3>3
  <2>2. CASE Delete(c)
    <3>1. route' = [route EXCEPT ![r].status = "DELETED"] /\ call[c].pc = "delete"
      BY <2>2 DEF Delete
    <3>2. Leaving(r) BY <3>1 DEF Leaving
    <3>3. "DELETED" \in RouteStatus \ {"NONE"} BY DEF RouteStatus
    <3>4. QED BY <3>1, <3>2, <3>3
  <2>3. QED BY <2>1, <2>2
<1>5. route[r].status # "NONE" BY <1>3 DEF Known
<1>6. RowsOK' /\ CatInv' /\ Advance /\ \A q \in Routes : StopsOf(q)' = StopsOf(q)
  BY <1>2, <1>3, <1>4, <1>5, StatusKeeps DEF Inv
<1>7. CallOK(k)' /\ k.pc = "log"
  <2>1. SUFFICES ASSUME NEW q \in Routes, q = r, NEW a \in Actions, a = call[c].action
                 PROVE  CallOK(k)' /\ k.pc = "log"
    BY <1>3
  <2>2. Known(q) /\ Advance BY <2>1, <1>3, <1>6
  <2>3. Known(q)' BY <2>2, KnownStays
  <2>4. k = Logging(q, a) BY <2>1, <1>1
  <2>5. QED BY <2>3, <2>4, LogCall
<1>8. \A q \in Routes : route'[q].status = "DELETED" => Leaving(q)
  <2>1. DOMAIN route = Routes BY RowFields DEF Inv
  <2>2. ASSUME NEW q \in Routes, q # r, route'[q].status = "DELETED" PROVE Leaving(q)
    <3>1. route'[q] = route[q] BY <1>4, <2>1, <2>2
    <3>2. QED BY <2>2, <3>1 DEF Leaving
  <2>3. ASSUME route'[r].status = "DELETED" PROVE Leaving(r)
    <3>1. DOMAIN route[r] = {"status", "edition", "since", "sent"} BY <1>3, RowFields DEF Inv
    <3>2. status = "DELETED" BY <1>3, <1>4, <2>1, <2>3, <3>1
    <3>3. QED BY <1>4, <3>2
  <2>4. QED BY <2>2, <2>3
<1>9. \A t \in Tickets : ticket[t] # NULL =>
        StopsOf(ticket[t].fare.route)' = StopsOf(ticket[t].fare.route)
  BY <1>2, <1>6, InvFields
<1>10. QED BY <1>2, <1>6, <1>7, <1>8, <1>9, EditStep

\* Both transactions end with another edition of the route and the audit log next.
LEMMA EditKeeps ==
  ASSUME Inv, NEW c \in Calls, NEW k, NEW list, RowsOK', CatInv', Advance,
         Known(call[c].route), call[c].action \in Actions,
         Edit(c, list), Changed(c),
         k = Logging(call[c].route, call[c].action),
         UNCHANGED <<ticket, audit, screen>>,
         \A t \in Tickets : ticket[t] # NULL =>
           StopsOf(ticket[t].fare.route)' = StopsOf(ticket[t].fare.route)
  PROVE  Inv'
<1> DEFINE r == call[c].route
<1>1. r \in Routes BY DEF Known
<1>2. call' = [call EXCEPT ![c] = k] /\ UNCHANGED requests
  BY DEF Changed, Goto, Logging
<1>3. audit' \subseteq Routes \X Actions /\ requests' \in 0..MaxRequests
  BY <1>2 DEF Inv
<1>4. CallOK(k)' /\ k.pc = "log"
  <2>1. SUFFICES ASSUME NEW q \in Routes, q = r, NEW a \in Actions, a = call[c].action
                 PROVE  CallOK(k)' /\ k.pc = "log"
    BY <1>1
  <2>2. Known(q) /\ Advance BY <2>1
  <2>3. Known(q)' BY <2>2, KnownStays
  <2>4. k = Logging(q, a) BY <2>1
  <2>5. QED BY <2>3, <2>4, LogCall
<1>5. \A q \in Routes : route'[q].status = route[q].status
  <2>1. DOMAIN route = Routes /\ DOMAIN route[r] = {"status", "edition", "since", "sent"}
    BY <1>1, RowFields DEF Inv
  <2>2. \A q \in Routes : q # r => route'[q] = route[q] BY <1>1, <2>1 DEF Edit
  <2>3. route'[r].status = route[r].status BY <1>1, <2>1 DEF Edit
  <2>4. QED BY <2>2, <2>3
<1>6. \A q \in Routes : route'[q].status = "DELETED" => Leaving(q) BY <1>5 DEF Leaving
<1>7. QED BY <1>2, <1>3, <1>4, <1>6, EditStep

LEMMA CreateStopsStep ==
  ASSUME Inv, NEW c \in Calls, CreateStops(c)
  PROVE  Inv'
<1>1. PICK r, old, seen, ids, list :
        /\ r = call[c].route /\ old = call[c].old /\ seen = call[c].screen.edition
        /\ ids = call[c].ids /\ list = call[c].stops
  OBVIOUS
<1>2. /\ call[c].pc = "createStops"
      /\ call[c] \in Call /\ CallOK(call[c])
  BY InvFields DEF CreateStops
<1>3. /\ Known(r) /\ r \in Routes /\ call[c].action \in Actions
      /\ Saw(r, old, seen) /\ list \in Seq(Nat) /\ ValidStops(list)
      /\ ids \in SUBSET StopIds
  BY <1>1, <1>2, CatalogAssumption DEF CallOK, Known, Call
<1>4. Edited(r, seen, {}) BY <1>1, <1>3 DEF CreateStops, Edit, Edited, Known
<1>5. /\ ids = StopsOf(r) /\ StopsLeft(list)
      /\ stop' = WithStops([s \in StopIds |-> IF s \in ids
                              THEN [stop[s] EXCEPT !.gone = TRUE] ELSE stop[s]],
                           r, FreshStops(list))
      /\ fares' = fares \ old
      /\ segments' = {g \in segments : g.route # r}
      /\ Edit(c, {}) /\ Changed(c) /\ UNCHANGED <<ticket, audit, screen>>
  BY <1>1 DEF CreateStops
<1>6. /\ \A f \in fares \ old : {f.from, f.to} \cap ids = {}
      /\ \A t \in Tickets : ticket[t] # NULL =>
           {ticket[t].fare.from, ticket[t].fare.to} \cap ids = {}
  BY <1>1 DEF CreateStops
<1>7. RowsOK' /\ CatInv' /\ Advance /\ OthersKeepStops(r)
  BY <1>3, <1>4, <1>5, <1>6, CreateStopsKeeps DEF Inv
<1>8. \A t \in Tickets : ticket[t] # NULL =>
        StopsOf(ticket[t].fare.route)' = StopsOf(ticket[t].fare.route)
  <2> SUFFICES ASSUME NEW t \in Tickets, ticket[t] # NULL,
                      NEW q, q = ticket[t].fare.route
               PROVE  StopsOf(q)' = StopsOf(q)
    BY <1>5 DEF StopsOf
  <2>1. q \in Routes /\ ticket[t].fare.from \in StopsOf(q)
    BY InvFields DEF Inv, TicketsOK
  <2>2. q # r BY <1>5, <1>6, <2>1
  <2>3. QED BY <1>7, <2>1, <2>2 DEF OthersKeepStops
<1>9. PICK k : k = Logging(call[c].route, call[c].action) OBVIOUS
<1>10. Known(call[c].route) BY <1>1, <1>3
<1>11. QED BY <1>3, <1>5, <1>7, <1>8, <1>9, <1>10, EditKeeps

LEMMA CreateFaresStep ==
  ASSUME Inv, NEW c \in Calls, CreateFares(c)
  PROVE  Inv'
<1>1. PICK r, old, seen, ids, prices :
        /\ r = call[c].route /\ old = call[c].old /\ seen = call[c].screen.edition
        /\ ids = call[c].ids /\ prices = call[c].fares
  OBVIOUS
<1>2. /\ call[c].pc = "createFares"
      /\ call[c] \in Call /\ CallOK(call[c])
  BY InvFields DEF CreateFares
<1>3. /\ Known(r) /\ r \in Routes /\ call[c].action \in Actions
      /\ Saw(r, old, seen) /\ Sent(prices) /\ ids \in SUBSET StopIds
      /\ \A s \in ids : stop[s] # NULL /\ stop[s].route = r
      /\ Resolves(prices, {stop[s].seq : s \in ids})
  BY <1>1, <1>2 DEF CallOK, Known, Call, Sent, Resolved
<1>4. Edited(r, seen, prices) BY <1>1, <1>3 DEF CreateFares, Edit, Edited, Known
<1>5. PICK new : new = FareRows(r, prices, ByNumber(ids), route[r].edition + 1) OBVIOUS
<1>6. /\ \A f \in new : Exists(f.from) /\ Exists(f.to)
      /\ \A f \in new, g \in fares \ old : f.from # g.from \/ f.to # g.to
      /\ fares' = (fares \ old) \cup new
      /\ Edit(c, prices) /\ Changed(c) /\ UNCHANGED <<stop, segments, ticket, audit, screen>>
  BY <1>1, <1>5 DEF CreateFares
<1>7. RowsOK' /\ CatInv' /\ Advance /\ \A q \in Routes : StopsOf(q)' = StopsOf(q)
  BY <1>3, <1>4, <1>5, <1>6, CreateFaresKeeps DEF Inv
<1>8. \A t \in Tickets : ticket[t] # NULL =>
        StopsOf(ticket[t].fare.route)' = StopsOf(ticket[t].fare.route)
  BY <1>6, <1>7, InvFields
<1>9. PICK k : k = Logging(call[c].route, call[c].action) OBVIOUS
<1>10. Known(call[c].route) BY <1>1, <1>3
<1>11. QED BY <1>3, <1>6, <1>7, <1>8, <1>9, <1>10, EditKeeps

\* A route that is created had no stops, hence no tickets.
LEMMA NoTicketsYet ==
  ASSUME Inv, NEW r \in Routes, route[r].status = "NONE", UNCHANGED ticket, OthersKeepStops(r)
  PROVE  \A t \in Tickets : ticket[t] # NULL =>
           /\ ticket[t].fare.route # r
           /\ StopsOf(ticket[t].fare.route)' = StopsOf(ticket[t].fare.route)
<1> SUFFICES ASSUME NEW t \in Tickets, ticket[t] # NULL, NEW q, q = ticket[t].fare.route
             PROVE  q # r /\ StopsOf(q)' = StopsOf(q)
  BY DEF StopsOf
<1>1. q \in Routes /\ ticket[t].fare.from \in StopsOf(q)
  BY InvFields DEF Inv, TicketsOK
<1>2. StopsOf(r) = {} BY DEF Inv, CatInv, Unused, StopsOf
<1>3. QED BY <1>1, <1>2 DEF OthersKeepStops

LEMMA CreateRouteKeeps ==
  ASSUME Inv, NEW c \in Calls, NEW r \in Routes, NEW list \in StopLists,
         NEW prices \in FareLists, NEW joined \in BOOLEAN,
         CreateRoute(c, r, list, prices, joined)
  PROVE  Inv'
<1>1. /\ ValidStops(list) /\ Resolves(prices, DOMAIN list)
      /\ Publish(r, list, prices, joined)
      /\ UNCHANGED <<ticket, audit, screen>>
      /\ requests < MaxRequests /\ requests' = requests + 1
  BY DEF CreateRoute, Arrive
<1>2. list \in Seq(Nat) /\ Sent(prices) BY CatalogAssumption DEF Sent
<1>3. RowsOK' /\ CatInv' /\ Advance /\ OthersKeepStops(r)
  BY <1>1, <1>2, PublishKeeps DEF Inv
<1>4. /\ route[r].status = "NONE"
      /\ \E sent : route' = [route EXCEPT ![r].status = "ACTIVE", ![r].sent = sent]
  BY <1>1 DEF Publish
<1>5. /\ route'[r].status = "ACTIVE"
      /\ \A q \in Routes : q # r => route'[q] = route[q]
  BY <1>4, RowFields DEF Inv
<1>6. PICK k : k = Logging(r, "route.create") OBVIOUS
<1>7. call' = [call EXCEPT ![c] = k] BY <1>6 DEF CreateRoute, Arrive, Logging
<1>8. CallOK(k)' /\ k.pc = "log"
  <2>1. Known(r)' BY <1>5 DEF Known
  <2>2. "route.create" \in Actions BY DEF Actions
  <2>3. QED BY <1>6, <2>1, <2>2, LogCall
<1>9. \A q \in Routes : route'[q].status = "DELETED" => Leaving(q)
  BY <1>5 DEF Leaving
<1>10. audit' \subseteq Routes \X Actions /\ requests' \in 0..MaxRequests
  BY <1>1, InvFields, Arrived
<1>11. \A t \in Tickets : ticket[t] # NULL =>
         StopsOf(ticket[t].fare.route)' = StopsOf(ticket[t].fare.route)
  BY <1>1, <1>3, <1>4, NoTicketsYet
<1>12. QED BY <1>1, <1>3, <1>7, <1>8, <1>9, <1>10, <1>11, EditStep

LEMMA SeedKeeps ==
  ASSUME Inv, NEW r \in Routes, Seed(r)
  PROVE  Inv'
<1>1. /\ Publish(r, SeedStops, SeedFares, TRUE)
      /\ UNCHANGED <<ticket, audit, screen, call, requests>>
  BY DEF Seed
<1>2. /\ SeedStops \in Seq(Nat) /\ Sent(SeedFares)
      /\ ValidStops(SeedStops) /\ Resolves(SeedFares, DOMAIN SeedStops)
  BY CatalogAssumption, SeedAssumption DEF Sent
<1>3. RowsOK' /\ CatInv' /\ Advance /\ OthersKeepStops(r)
  BY <1>1, <1>2, PublishKeeps DEF Inv
<1>4. /\ route[r].status = "NONE"
      /\ \E sent : route' = [route EXCEPT ![r].status = "ACTIVE", ![r].sent = sent]
  BY <1>1 DEF Publish
<1>5. /\ route'[r].status = "ACTIVE"
      /\ \A q \in Routes : q # r => route'[q] = route[q]
  BY <1>4, RowFields DEF Inv
<1>6. CallsOK' BY <1>1, <1>3, CallsWait
<1>7. ScreenOK(screen)'
  <2> SUFFICES ASSUME NEW s, s = screen, s = screen' PROVE ScreenOK(s)'
    BY <1>1 DEF ScreenOK
  <2>1. QED BY <1>3, ScreenStays DEF Inv
<1>8. \A t \in Tickets : ticket[t] # NULL =>
        StopsOf(ticket[t].fare.route)' = StopsOf(ticket[t].fare.route)
  BY <1>1, <1>3, <1>4, NoTicketsYet
<1>9. TicketsOK' BY <1>1, <1>8 DEF Inv, TicketsOK
<1>10. \A q \in Routes : Leaving(q)' => MissedOn(q)'
  <2>1. \A q \in Routes : Leaving(q)' => Leaving(q) BY <1>1, <1>5 DEF Leaving
  <2>2. \A q \in Routes : MissedOn(q) => MissedOn(q)' BY <1>1 DEF MissedOn, ActiveOn
  <2>3. QED BY <2>1, <2>2 DEF Inv
<1>11. QED BY <1>1, <1>3, <1>6, <1>7, <1>9, <1>10 DEF Inv

-----------------------------------------------------------------------------
(* Steps that change the screen or the tickets.                              *)

\* The handlers when one of them ends and the catalogue stays as it is.
LEMMA EndStep ==
  ASSUME Inv, NEW c \in Calls, call' = [call EXCEPT ![c] = Idle], UNCHANGED catalog
  PROVE  /\ CallsOK'
         /\ \A r \in Routes : Leaving(r)' => Leaving(r)
<1>1. RowsOK' /\ CatInv' /\ Advance BY SameCatalog DEF Inv
<1>2. CallOK(Idle)' BY <1>1, IdleOK, CallStays DEF Inv
<1>3. CallsOK'
  <2>1. PICK k : k = Idle OBVIOUS
  <2>2. CallOK(k) /\ call' = [call EXCEPT ![c] = k] BY <2>1, IdleOK
  <2>3. CallOK(k)' BY <1>1, <2>2, CallStays DEF Inv
  <2>4. QED BY <1>1, <2>2, <2>3, CallsStep DEF Inv
<1>4. ASSUME NEW r \in Routes, Leaving(r)' PROVE Leaving(r)
  <2>1. CASE route'[r].status = "DELETED" BY <2>1 DEF catalog, Leaving
  <2>2. ASSUME NEW d \in Calls, call'[d].pc = "delete", call'[d].route = r
        PROVE  Leaving(r)
    <3>1. d # c BY <2>2, InvFields DEF Idle
    <3>2. call'[d] = call[d] BY <3>1, InvFields
    <3>3. QED BY <2>2, <3>2 DEF Leaving
  <2>3. QED BY <1>4, <2>1, <2>2 DEF Leaving
<1>5. QED BY <1>3, <1>4

\* The fares that are shown are those of the edition, or the route was edited since.
LEMMA ReadFaresKeeps ==
  ASSUME Inv, NEW c \in Calls, ReadFares(c)
  PROVE  Inv'
<1>1. /\ call[c].pc = "readFares"
      /\ screen' = [call[c].screen EXCEPT !.fares = FaresOn(call[c].route)]
      /\ call' = [call EXCEPT ![c] = Idle]
      /\ UNCHANGED <<catalog, ticket, audit, requests>>
  BY DEF ReadFares, Goto
<1>2. /\ call[c].screen \in Screen /\ Known(call[c].route)
      /\ call[c].screen.edition <= route[call[c].route].edition
  BY <1>1, InvFields DEF CallOK, Call
<1>3. /\ screen'.fares = FaresOn(call[c].route)
      /\ screen'.edition = call[c].screen.edition
  BY <1>1, <1>2 DEF Screen
<1>4. screen' \in Screen
  <2>1. FaresOn(call[c].route) \in SUBSET FareRow BY DEF Inv, RowsOK, FaresOn
  <2>2. QED BY <1>1, <1>2, <2>1 DEF Screen
<1>5. ScreenOK(screen)'
  <2>1. ASSUME NEW f \in screen'.fares
        PROVE  Known(f.route)' /\ Current(f, screen.edition)'
    <3>1. f \in fares /\ f.route = call[c].route BY <1>3 DEF FaresOn
    <3>2. QED BY <1>1, <1>2, <1>3, <3>1 DEF Known, Current, catalog
  <2>2. QED BY <1>4, <2>1 DEF ScreenOK
<1>6. RowsOK' /\ CatInv' /\ \A q \in Routes : StopsOf(q)' = StopsOf(q)
  BY <1>1, SameCatalog DEF Inv
<1>7. CallsOK' /\ \A r \in Routes : Leaving(r)' => Leaving(r)
  BY <1>1, EndStep
<1>8. TicketsOK' BY <1>1, <1>6, InvFields DEF Inv, TicketsOK
<1>9. \A r \in Routes : MissedOn(r) => MissedOn(r)' BY <1>1 DEF MissedOn, ActiveOn
<1>10. QED BY <1>1, <1>5, <1>6, <1>7, <1>8, <1>9 DEF Inv

\* A ticket of stops that exist, for what was shown or of a route that was edited;
\* if its route is being deleted, the deletion has missed it.
LEMMA BuyKeeps ==
  ASSUME Inv, NEW c \in Calls, Buy(c)
  PROVE  Inv'
<1>1. PICK f, t, row :
        /\ f = call[c].fare /\ t = call[c].ticket
        /\ row = [status |-> "ACTIVE", fare |-> f,
             shown |-> (CHOOSE g \in call[c].screen.fares : TRUE).amount,
             edited |-> route[f.route].edition > call[c].screen.edition,
             missed |-> Leaving(f.route)]
  OBVIOUS
<1>2. /\ call[c].pc = "buy" /\ Exists(f.from) /\ Exists(f.to)
      /\ ticket' = [ticket EXCEPT ![t] = row]
      /\ call' = [call EXCEPT ![c] = Idle]
      /\ UNCHANGED <<catalog, audit, screen, requests>>
  BY <1>1 DEF Buy, Goto, Leaving
<1>3. /\ call[c] \in Call /\ StopsKnown(f) /\ t \in Tickets /\ ToCharge(call[c])
      /\ f \in FareRow /\ f.route \in Routes /\ f.from \in StopIds /\ f.to \in StopIds
  BY <1>1, <1>2, InvFields DEF CallOK, StopsKnown, FareRow
<1>4. PICK g \in FareRow :
        /\ call[c].screen.fares = {g}
        /\ call[c].screen.edition <= route[f.route].edition
        /\ call[c].screen.edition = route[f.route].edition => f.amount = g.amount
  BY <1>1, <1>3 DEF ToCharge, Call, Screen
<1>5. /\ row.status = "ACTIVE" /\ row.fare = f /\ row.shown = g.amount
      /\ route[f.route].edition > call[c].screen.edition => row.edited
      /\ row.edited \in BOOLEAN
      /\ row.missed = Leaving(f.route)
  <2>1. (CHOOSE x \in call[c].screen.fares : TRUE) = g BY <1>4
  <2>2. row.edited = (route[f.route].edition > call[c].screen.edition) BY <1>1
  <2>3. (route[f.route].edition > call[c].screen.edition) \in BOOLEAN OBVIOUS
  <2>4. /\ route[f.route].edition > call[c].screen.edition => row.edited
        /\ row.edited \in BOOLEAN
    BY <2>2, <2>3, Zenon
  <2>5. QED BY <1>1, <2>1, <2>4
<1>6. row \in TicketRow
  <2>1. g.amount \in Nat BY DEF FareRow
  <2>3. Leaving(f.route) \in BOOLEAN BY DEF Leaving
  <2>4. row = [status |-> row.status, fare |-> row.fare, shown |-> row.shown,
               edited |-> row.edited, missed |-> row.missed]
    BY <1>1
  <2>5. QED BY <1>3, <1>5, <2>1, <2>3, <2>4 DEF TicketRow
<1>7. {f.from, f.to} \subseteq StopsOf(f.route)
  BY <1>2, <1>3 DEF Exists, StopsKnown, StopsOf
<1>8. row.fare.amount # row.shown => row.edited
  <2>1. call[c].screen.edition \in Nat /\ route[f.route].edition \in Nat
    BY <1>3, RowFields DEF Call, Screen, Inv
  <2>2. QED BY <1>4, <1>5, <2>1
<1>9. /\ ticket'[t] = row
      /\ \A u \in Tickets : u # t => ticket'[u] = ticket[u]
  BY <1>2, <1>3, InvFields
<1>10. RowsOK' /\ CatInv' /\ \A q \in Routes : StopsOf(q)' = StopsOf(q)
  BY <1>2, SameCatalog DEF Inv
<1>11. ticket' \in [Tickets -> TicketRow \cup {NULL}] BY <1>2, <1>6 DEF Inv
<1>12. TicketsOK'
  <2>1. ASSUME NEW u \in Tickets, ticket'[u] # NULL, NEW q, q = ticket'[u].fare.route
        PROVE  /\ {ticket'[u].fare.from, ticket'[u].fare.to} \subseteq StopsOf(q)'
               /\ ticket'[u].fare.amount # ticket'[u].shown => ticket'[u].edited
    <3>1. CASE u = t
      <4>1. ticket'[u].fare = f /\ q = f.route BY <1>5, <1>9, <2>1, <3>1
      <4>2. QED BY <1>3, <1>7, <1>8, <1>9, <1>10, <3>1, <4>1
    <3>2. CASE u # t
      <4>1. ticket'[u] = ticket[u] BY <1>9, <3>2
      <4>2. q \in Routes /\ {ticket[u].fare.from, ticket[u].fare.to} \subseteq StopsOf(q)
        BY <2>1, <4>1, InvFields DEF Inv, TicketsOK
      <4>3. QED BY <1>10, <2>1, <4>1, <4>2 DEF Inv, TicketsOK
    <3>3. QED BY <3>1, <3>2
  <2>2. QED BY <2>1 DEF TicketsOK
<1>13. CallsOK' /\ \A r \in Routes : Leaving(r)' => Leaving(r)
  BY <1>2, EndStep
<1>14. ASSUME NEW r \in Routes, Leaving(r)' PROVE MissedOn(r)'
  <2>1. Leaving(r) /\ MissedOn(r) BY <1>13, <1>14 DEF Inv
  <2>2. ASSUME NEW u \in Tickets, ticket'[u] # NULL, ticket'[u].fare.route = r,
               ticket'[u].status = "ACTIVE"
        PROVE  ticket'[u].missed
    <3>1. CASE u = t BY <1>5, <1>9, <2>1, <2>2, <3>1
    <3>2. CASE u # t
      <4>1. ticket'[u] = ticket[u] BY <1>9, <3>2
      <4>2. QED BY <2>1, <2>2, <4>1 DEF MissedOn, ActiveOn
    <3>3. QED BY <3>1, <3>2
  <2>3. QED BY <2>2 DEF MissedOn, ActiveOn
<1>15. ScreenOK(screen)'
  BY <1>2 DEF Inv, ScreenOK, Known, Current, catalog
<1>16. QED BY <1>2, <1>10, <1>11, <1>12, <1>13, <1>14, <1>15 DEF Inv

LEMMA TicketEndsKeeps ==
  ASSUME Inv, NEW t \in Tickets, TicketEnds(t)
  PROVE  Inv'
<1>1. /\ ticket[t] # NULL
      /\ ticket' = [ticket EXCEPT ![t].status = "ENDED"]
      /\ UNCHANGED <<catalog, audit, screen, call, requests>>
  BY DEF TicketEnds
<1>2. ticket[t] \in TicketRow BY <1>1, InvFields
<1>3. /\ \A u \in Tickets : u # t => ticket'[u] = ticket[u]
      /\ ticket'[t] = [ticket[t] EXCEPT !.status = "ENDED"]
  BY <1>1, InvFields
<1>4. /\ ticket'[t] \in TicketRow /\ ticket'[t].status = "ENDED"
      /\ ticket'[t].fare = ticket[t].fare /\ ticket'[t].shown = ticket[t].shown
      /\ ticket'[t].edited = ticket[t].edited
  BY <1>2, <1>3 DEF TicketRow
<1>5. RowsOK' /\ CatInv' /\ \A q \in Routes : StopsOf(q)' = StopsOf(q)
  BY <1>1, SameCatalog DEF Inv
<1>6. ticket' \in [Tickets -> TicketRow \cup {NULL}] BY <1>1, <1>3, <1>4 DEF Inv
<1>7. TicketsOK'
  <2>1. ASSUME NEW u \in Tickets, ticket'[u] # NULL, NEW q, q = ticket'[u].fare.route
        PROVE  /\ {ticket'[u].fare.from, ticket'[u].fare.to} \subseteq StopsOf(q)'
               /\ ticket'[u].fare.amount # ticket'[u].shown => ticket'[u].edited
    <3>1. /\ ticket[u] # NULL /\ ticket'[u].fare = ticket[u].fare
          /\ ticket'[u].shown = ticket[u].shown /\ ticket'[u].edited = ticket[u].edited
      <4>1. CASE u = t BY <1>1, <1>4, <4>1
      <4>2. CASE u # t BY <1>3, <2>1, <4>2
      <4>3. QED BY <4>1, <4>2
    <3>2. q \in Routes /\ {ticket[u].fare.from, ticket[u].fare.to} \subseteq StopsOf(q)
      BY <2>1, <3>1, InvFields DEF Inv, TicketsOK
    <3>3. QED BY <1>5, <3>1, <3>2 DEF Inv, TicketsOK
  <2>2. QED BY <2>1 DEF TicketsOK
<1>8. CallsOK'
  <2>1. Advance BY <1>1, SameCatalog DEF Inv
  <2>2. QED BY <1>1, <1>5, <2>1, CallsWait
<1>9. ASSUME NEW r \in Routes, Leaving(r)' PROVE MissedOn(r)'
  <2>1. Leaving(r) BY <1>1, <1>9 DEF Leaving, catalog
  <2>2. MissedOn(r) BY <2>1 DEF Inv
  <2>3. ASSUME NEW u \in Tickets, ticket'[u] # NULL, ticket'[u].fare.route = r,
               ticket'[u].status = "ACTIVE"
        PROVE  ticket'[u].missed
    <3>1. u # t BY <1>4, <2>3
    <3>2. ticket'[u] = ticket[u] BY <1>3, <3>1
    <3>3. QED BY <2>2, <2>3, <3>2 DEF MissedOn, ActiveOn
  <2>4. QED BY <2>3 DEF MissedOn, ActiveOn
<1>10. ScreenOK(screen)'
  BY <1>1 DEF Inv, ScreenOK, Known, Current, catalog
<1>11. QED BY <1>1, <1>5, <1>6, <1>7, <1>8, <1>9, <1>10 DEF Inv

-----------------------------------------------------------------------------
(* The invariant holds.                                                      *)

LEMMA InitInv ==
  Init => Inv
<1> SUFFICES ASSUME Init PROVE Inv OBVIOUS
<1> USE DEF Init
<1>1. RowsOK
  <2>1. NoRoute \in RouteRow BY DEF NoRoute, RouteRow, RouteStatus
  <2>2. QED BY <2>1 DEF RowsOK
<1>2. CatInv
  <2>1. \A r \in Routes : /\ route[r].status = "NONE" /\ Unused(r) /\ route[r].sent = {}
                          /\ route[r].edition = 0 /\ route[r].since = 0
    BY DEF Unused, NoRoute
  <2>2. Joins /\ OnePrice BY DEF Joins, OnePrice
  <2>3. ASSUME NEW r \in Routes PROVE AsSent(r)
    <3>1. FaresOn(r) = {} BY DEF FaresOn
    <3>2. ListOf(Newest(r), stop) = {} BY <3>1 DEF Newest, ListOf
    <3>3. QED BY <2>1, <3>1, <3>2 DEF AsSent
  <2>4. QED BY <2>1, <2>2, <2>3 DEF CatInv
<1>3. ticket \in [Tickets -> TicketRow \cup {NULL}] /\ TicketsOK BY DEF TicketsOK
<1>4. ScreenOK(screen) BY DEF ScreenOK, Screen, NoScreen
<1>5. CallsOK
  <2>1. Idle \in Call BY IdleOK DEF CallOK
  <2>2. QED BY <2>1, IdleOK DEF CallsOK
<1>6. \A r \in Routes : Leaving(r) => MissedOn(r) BY DEF MissedOn, ActiveOn
<1>7. requests \in 0..MaxRequests /\ audit \subseteq Routes \X Actions BY CatalogAssumption
<1>8. QED BY <1>1, <1>2, <1>3, <1>4, <1>5, <1>6, <1>7 DEF Inv

LEMMA RequestKeeps ==
  ASSUME Inv, NEW c \in Calls, Request(c)
  PROVE  Inv'
<1>1. ASSUME NEW r \in Routes, NEW list \in StopLists, NEW prices \in FareLists,
             NEW joined \in BOOLEAN, CreateRoute(c, r, list, prices, joined)
      PROVE  Inv'
  BY <1>1, CreateRouteKeeps
<1>2. ASSUME NEW r \in Routes, NEW list \in StopLists, UpdateStops(c, r, list) PROVE Inv'
  BY <1>2, StartKeeps
<1>3. ASSUME NEW r \in Routes, NEW prices \in FareLists, UpdateFares(c, r, prices)
      PROVE Inv'
  BY <1>3, StartKeeps
<1>4. ASSUME NEW r \in Routes, UpdateRoute(c, r) \/ DeleteRoute(c, r) PROVE Inv'
  BY <1>4, StartKeeps
<1>5. ASSUME NEW r \in Routes, View(c, r) PROVE Inv'
  BY <1>5, ViewKeeps
<1>6. ASSUME NEW t \in Tickets, NEW f \in screen.fares, Purchase(c, t, f) PROVE Inv'
  BY <1>6, PurchaseKeeps
<1>7. QED BY <1>1, <1>2, <1>3, <1>4, <1>5, <1>6 DEF Request

LEMMA NextInv ==
  Inv /\ [Next]_vars => Inv'
<1> SUFFICES ASSUME Inv, [Next]_vars PROVE Inv' OBVIOUS
<1>1. ASSUME NEW c \in Calls, Request(c) PROVE Inv' BY <1>1, RequestKeeps
<1>2. ASSUME NEW c \in Calls, Continue(c) PROVE Inv'
  BY <1>2, LogActionKeeps, SetActiveKeeps, BeginKeeps, CreateStopsStep, ReadStopsKeeps,
     CreateFaresStep, CountTicketsKeeps, ReadFaresKeeps, ReadFareKeeps, BuyKeeps, FailKeeps
  DEF Continue
<1>3. ASSUME NEW t \in Tickets, TicketEnds(t) PROVE Inv' BY <1>3, TicketEndsKeeps
<1>4. ASSUME NEW r \in Routes, Seed(r) PROVE Inv' BY <1>4, SeedKeeps
<1>5. CASE UNCHANGED vars
  <2>1. UNCHANGED catalog /\ UNCHANGED <<ticket, audit, screen, call, requests>>
    BY <1>5 DEF vars, catalog
  <2>2. RowsOK' /\ CatInv' /\ Advance /\ \A q \in Routes : StopsOf(q)' = StopsOf(q)
    BY <2>1, SameCatalog DEF Inv
  <2>3. CallsOK' BY <2>1, <2>2, CallsWait
  <2>4. ScreenOK(screen)' BY <2>1 DEF Inv, ScreenOK, Known, Current, catalog
  <2>5. TicketsOK' BY <2>1, <2>2, InvFields DEF Inv, TicketsOK
  <2>6. \A r \in Routes : Leaving(r)' => MissedOn(r)'
    <3>1. \A r \in Routes : Leaving(r)' => Leaving(r) BY <2>1 DEF Leaving, catalog
    <3>2. \A r \in Routes : MissedOn(r) => MissedOn(r)' BY <2>1 DEF MissedOn, ActiveOn
    <3>3. QED BY <3>1, <3>2 DEF Inv
  <2>7. QED BY <2>1, <2>2, <2>3, <2>4, <2>5, <2>6 DEF Inv
<1>6. QED BY <1>1, <1>2, <1>3, <1>4, <1>5 DEF Next

LEMMA InvAlways ==
  Spec => []Inv
<1>1. QED BY InitInv, NextInv, PTL DEF Spec

-----------------------------------------------------------------------------
(* What it says of the catalogue.                                            *)

\* Rows, handlers and what is on the screen always have their types.
THEOREM TypeCorrect == Spec => []TypeOK
<1>1. Inv => TypeOK BY DEF Inv, RowsOK, ScreenOK, CallsOK, TypeOK
<1>2. QED BY <1>1, InvAlways, PTL

\* Whatever replacements of stops and fares overlap, the stops of a route are
\* numbered from 1 without a gap, and fares, segments and tickets join two stops of
\* their own route that are still there (routes.service.ts updateStops, updateFares).
THEOREM CatalogWholeAlways == Spec => []CatalogWhole
<1>1. ASSUME Inv PROVE CatalogWhole
  <2>1. \A r \in Routes : route[r].status # "NONE" => Counted(r)
    BY <1>1 DEF Inv, CatInv
  <2>2. \A f \in fares \cup segments : {f.from, f.to} \subseteq StopsOf(f.route)
    BY <1>1 DEF Inv, CatInv, Joins
  <2>3. \A t \in Tickets : ticket[t] # NULL =>
          {ticket[t].fare.from, ticket[t].fare.to} \subseteq StopsOf(ticket[t].fare.route)
    BY <1>1 DEF Inv, TicketsOK
  <2>4. QED BY <2>1, <2>2, <2>3 DEF CatalogWhole, Counted
<1>2. QED BY <1>1, InvAlways, PTL

\* A passenger is charged what the screen showed for the two stops, unless the route
\* was edited between the request for the screen and the purchase (purchase in
\* tickets.service.ts, which looks the fare up again).
THEOREM ChargedAsShownAlways == Spec => []ChargedAsShown
<1>1. Inv => ChargedAsShown BY DEF Inv, TicketsOK, ChargedAsShown
<1>2. QED BY <1>1, InvAlways, PTL

\* A route has all the fares of the list committed last, and of others only those
\* that were committed while the transaction of that edit was open (updateFares
\* deletes only the fares it sees).
THEOREM FaresAsSentAlways == Spec => []FaresAsSent
<1>1. Inv => FaresAsSent
  BY DEF Inv, CatInv, AsSent, Newest, ListOf, FaresAsSent
<1>2. QED BY <1>1, InvAlways, PTL

\* A deleted route has no active ticket but those its deletion could not have counted
\* (deleteRoute counts before its transaction; a purchase does not look at the route).
THEOREM DeletedUnlessMissedAlways == Spec => []DeletedUnlessMissed
<1>1. Inv => DeletedUnlessMissed BY DEF Inv, Leaving, MissedOn, DeletedUnlessMissed
<1>2. QED BY <1>1, InvAlways, PTL
================================================================================
