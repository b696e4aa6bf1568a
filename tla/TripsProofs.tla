------------------------------ MODULE TripsProofs ------------------------------
(***************************************************************************)
(* Proofs about Trips: for any number of drivers, trips, administrators    *)
(* and handlers at work, as long as each driver waits for the answer to    *)
(* the last request.                                                       *)
(***************************************************************************)
EXTENDS Trips, TLAPS

\* The times of a row agree with its status, and lie in the past.
RowOK(r) ==
  /\ r.status = "NONE" => r.driver = NULL
  /\ r.status \in {"NONE", "SCHEDULED"} => r.startedAt = NULL
  /\ r.status = "IN_PROGRESS" => r.startedAt # NULL /\ r.endedAt = NULL
  /\ r.status = "COMPLETED" => r.endedAt # NULL
  /\ r.startedAt # NULL => r.startedAt <= now
  /\ r.endedAt # NULL =>
       r.startedAt # NULL /\ r.startedAt <= r.endedAt /\ r.endedAt <= now

RowsOK == \A t \in TripIds : RowOK(trip[t])

\* What a handler read of its trip is still true when it goes on.
CallOK(x) ==
  /\ x.at <= now
  /\ x.pc \in DriverPcs => x.driver \in Drivers
  /\ x.pc \in {"checkActive", "start", "end", "log"} =>
       x.trip \in TripIds /\ trip[x.trip].driver = x.driver
  /\ x.pc \in {"checkActive", "start"} => trip[x.trip].startedAt = NULL
  /\ x.pc = "start" => Active(x.driver) = {}
  /\ x.pc = "end" => /\ trip[x.trip].startedAt # NULL
                     /\ trip[x.trip].startedAt <= x.at
                     /\ trip[x.trip].endedAt = NULL
  /\ x.pc = "findTrip" =>
       \A t \in TripIds : trip[t].driver = x.driver /\ trip[t].startedAt # NULL
                            => trip[t].startedAt <= x.at
  /\ x.pc = "log" => UnderWay(x.trip, x.driver, x.at)
  /\ x.pc = "create" => x.driver \in Drivers /\ x.day \in Days
  /\ x.pc = "cancel" => x.trip \in TripIds /\ trip[x.trip].status # "NONE"

CallsOK == \A c \in Calls : CallOK(call[c])

\* A driver has one request at work.
OneRequest ==
  \A b, c \in Calls :
    /\ call[b].pc \in DriverPcs /\ call[c].pc \in DriverPcs
    /\ call[b].driver = call[c].driver
    => b = c

\* A trip that is not cancelled, or that a handler is about to end.
Live(t) ==
  \/ trip[t].status # "CANCELLED"
  \/ \E c \in Calls : call[c].pc = "end" /\ call[c].trip = t

\* A scan kept on a device.  While it was on one trip, every other live trip of
\* its driver was over or had not begun.
DeviceOK(x) ==
  x.pc # "none" =>
    /\ x.driver \in Drivers
    /\ x.at <= now
    /\ x.on # NULL => UnderWay(x.on, x.driver, x.at)
    /\ x.on # NULL => \A t \in TripIds :
         t # x.on /\ trip[t].driver = x.driver /\ trip[t].startedAt # NULL /\ Live(t)
           => \/ trip[t].endedAt # NULL /\ trip[t].endedAt <= x.at
              \/ x.at <= trip[t].startedAt
    /\ x.pc # "made" =>
         /\ x.trip # NULL => UnderWay(x.trip, x.driver, x.at)
         /\ x.on # NULL => x.trip # NULL

DevicesOK == \A s \in DeviceScans : DeviceOK(device[s])

\* A driver scans off line before the next request, not while one is at work.
ScannedBefore(c, s) ==
  /\ call[c].pc \in {"start", "end"}
  /\ device[s].pc # "none"
  /\ device[s].driver = call[c].driver
  => device[s].at <= call[c].at

Ordered == \A c \in Calls, s \in DeviceScans : ScannedBefore(c, s)

\* No scan is logged past the moment a trip is about to end at.
ScansOK ==
  /\ \A e \in scans : e.at <= now
  /\ \A e \in scans : e.trip # NULL => UnderWay(e.trip, trip[e.trip].driver, e.at)
  /\ \A e \in scans, c \in Calls :
       call[c].pc = "end" /\ call[c].trip = e.trip => e.at <= call[c].at

Inv ==
  /\ TypeOK /\ RowsOK /\ CallsOK /\ OneRequest /\ OneActiveTrip
  /\ DevicesOK /\ Ordered /\ ScansOK

-----------------------------------------------------------------------------
LEMMA InitInv == ASSUME Init PROVE Inv
<1>1. TypeOK
  BY TripAssumption
  DEF Init, TypeOK, Times, NoTrip, TripRow, TripStatus, Idle, Call, NoScan, DeviceScan
<1>2. RowsOK BY DEF Init, RowsOK, RowOK, NoTrip
<1>3. CallsOK /\ OneRequest
  BY DEF Init, CallsOK, CallOK, OneRequest, Idle, DriverPcs
<1>4. OneActiveTrip BY DEF Init, OneActiveTrip, NoTrip
<1>5. DevicesOK BY DEF Init, DevicesOK, DeviceOK, NoScan
<1>6. Ordered /\ ScansOK BY DEF Init, Ordered, ScannedBefore, ScansOK, NoScan, Idle
<1> QED BY <1>1, <1>2, <1>3, <1>4, <1>5, <1>6 DEF Inv

-----------------------------------------------------------------------------
(* Handlers that change no row. *)

\* A handler goes on to x: the rows stay, so it is enough that x is consistent
\* with them and that its driver has no other request.
LEMMA GotoKeepsInv ==
  ASSUME Inv, NEW c \in Calls, NEW x \in Call, Goto(c, x), CallOK(x),
         x.pc \in DriverPcs => \A b \in Calls \ {c} :
           call[b].pc \in DriverPcs => call[b].driver # x.driver,
         x.pc = "end" => trip[x.trip].status = "IN_PROGRESS",
         x.pc \in {"start", "end"} => x.at = now
  PROVE  Inv'
<1>1. UNCHANGED <<now, trip, device, scans>> BY DEF Goto
<1>2. \A b \in Calls : call'[b] = IF b = c THEN x ELSE call[b]
  BY DEF Inv, TypeOK, Goto
<1>3. TypeOK' BY <1>1 DEF Inv, TypeOK, Goto
<1>4. RowsOK' BY <1>1 DEF Inv, RowsOK, RowOK
<1>5. CallsOK'
  <2>1. SUFFICES ASSUME NEW b \in Calls PROVE CallOK(call[b])'
    BY DEF CallsOK
  <2>2. CallOK(call'[b]) BY <1>2 DEF Inv, CallsOK
  <2> QED BY <1>1, <2>2 DEF CallOK, Active, UnderWay
<1>6. OneRequest' BY <1>2 DEF Inv, OneRequest
<1>7. OneActiveTrip' BY <1>1 DEF Inv, OneActiveTrip
<1>8. ASSUME NEW t \in TripIds, Live(t)' PROVE Live(t)
  BY <1>1, <1>2, <1>8 DEF Live
<1>9. DevicesOK'
  <2>1. SUFFICES ASSUME NEW s \in DeviceScans PROVE DeviceOK(device[s])'
    BY DEF DevicesOK
  <2>2. DeviceOK(device[s]) BY DEF Inv, DevicesOK
  <2> QED BY <1>1, <1>8, <2>2 DEF DeviceOK, UnderWay
<1>10. Ordered'
  BY <1>1, <1>2 DEF Inv, Ordered, ScannedBefore, DevicesOK, DeviceOK
<1>11. ScansOK' BY <1>1, <1>2 DEF Inv, ScansOK, UnderWay
<1> QED BY <1>3, <1>4, <1>5, <1>6, <1>7, <1>9, <1>10, <1>11 DEF Inv

LEMMA IdleOK == ASSUME Inv PROVE Idle \in Call /\ CallOK(Idle)
BY TripAssumption DEF Inv, TypeOK, Idle, Call, Times, CallOK, DriverPcs, AdminPcs

\* A new request, of a driver or an administrator.
LEMMA ArriveKeepsInv ==
  ASSUME Inv, SequentialDrivers, NEW c \in Calls, Arrive(c)
  PROVE  Inv'
<1> USE DEF DriverPcs
<1>1. now \in Times /\ Times \subseteq Int /\ trip \in [TripIds -> TripRow]
      /\ call \in [Calls -> Call]
  BY TripAssumption DEF Inv, TypeOK, Times
<1>2. RowsOK BY DEF Inv
<1>3. \A d \in Drivers, b \in Calls :
        DriverFree(d) /\ call[b].pc \in DriverPcs => call[b].driver # d
  BY DEF DriverFree
<1>4. ASSUME NEW d \in Drivers, ScanArrives(c, d) PROVE Inv'
  <2> DEFINE x == [Idle EXCEPT !.pc = "findTrip", !.driver = d, !.at = now]
  <2>1. x \in Call /\ x.pc = "findTrip" /\ x.driver = d /\ x.at = now
    BY <1>1 DEF Idle, Call
  <2>2. DriverFree(d) /\ Goto(c, x) BY <1>4 DEF ScanArrives
  <2> HIDE DEF x
  <2>3. CallOK(x) BY <1>1, <1>2, <2>1 DEF CallOK, RowsOK, RowOK
  <2> QED BY <1>3, <2>1, <2>2, <2>3, GotoKeepsInv
<1>5. ASSUME NEW d \in Drivers, NEW t \in TripIds, FindTripToStart(c, d, t) PROVE Inv'
  <2> DEFINE x == [Idle EXCEPT !.pc = "checkActive", !.driver = d, !.trip = t]
  <2>1. x \in Call /\ x.pc = "checkActive" /\ x.driver = d /\ x.trip = t /\ x.at = 0
    BY IdleOK DEF Idle, Call
  <2>2. DriverFree(d) /\ Goto(c, x) /\ trip[t].driver = d /\ trip[t].status = "SCHEDULED"
    BY <1>5 DEF FindTripToStart
  <2> HIDE DEF x
  <2>3. CallOK(x) BY TripAssumption, <1>1, <1>2, <2>1, <2>2 DEF CallOK, RowsOK, RowOK, Times
  <2> QED BY <1>3, <2>1, <2>2, <2>3, GotoKeepsInv
<1>6. ASSUME NEW d \in Drivers, NEW t \in TripIds, FindTripToEnd(c, d, t) PROVE Inv'
  <2> DEFINE x == [Idle EXCEPT !.pc = "end", !.driver = d, !.trip = t, !.at = now]
  <2>1. x \in Call /\ x.pc = "end" /\ x.driver = d /\ x.trip = t /\ x.at = now
    BY <1>1 DEF Idle, Call
  <2>2. DriverFree(d) /\ Goto(c, x) /\ trip[t].driver = d /\ trip[t].status = "IN_PROGRESS"
    BY <1>6 DEF FindTripToEnd
  <2> HIDE DEF x
  <2>3. CallOK(x) BY <1>1, <1>2, <2>1, <2>2 DEF CallOK, RowsOK, RowOK
  <2> QED BY <1>3, <2>1, <2>2, <2>3, GotoKeepsInv
<1>7. ASSUME NEW d \in Drivers, NEW day \in Days, CheckConflict(c, d, day) PROVE Inv'
  <2> DEFINE x == [Idle EXCEPT !.pc = "create", !.driver = d, !.day = day]
  <2>1. x \in Call /\ x.pc = "create" /\ x.driver = d /\ x.day = day /\ x.at = 0
    BY IdleOK DEF Idle, Call, AdminPcs
  <2>2. Goto(c, x) BY <1>7 DEF CheckConflict
  <2> HIDE DEF x
  <2>3. CallOK(x) BY TripAssumption, <1>1, <2>1 DEF CallOK, Times
  <2> QED BY <2>1, <2>2, <2>3, GotoKeepsInv
<1>8. ASSUME NEW t \in TripIds, FindTripToCancel(c, t) PROVE Inv'
  <2> DEFINE x == [Idle EXCEPT !.pc = "cancel", !.trip = t]
  <2>1. x \in Call /\ x.pc = "cancel" /\ x.trip = t /\ x.at = 0
    BY IdleOK DEF Idle, Call, AdminPcs
  <2>2. Goto(c, x) /\ trip[t].status = "SCHEDULED" BY <1>8 DEF FindTripToCancel
  <2> HIDE DEF x
  <2>3. CallOK(x) BY TripAssumption, <1>1, <2>1, <2>2 DEF CallOK, Times
  <2> QED BY <2>1, <2>2, <2>3, GotoKeepsInv
<1> QED BY <1>4, <1>5, <1>6, <1>7, <1>8 DEF Arrive

\* A request that goes on without writing, or ends.
LEMMA ReadKeepsInv ==
  ASSUME Inv, NEW c \in Calls, CheckNoActive(c) \/ FindActiveTrip(c) \/ Fail(c)
  PROVE  Inv'
<1> USE DEF DriverPcs
<1>1. now \in Times /\ call[c] \in Call /\ CallOK(call[c])
  BY DEF Inv, TypeOK, CallsOK
<1>2. \A b \in Calls \ {c} : call[c].pc \in DriverPcs /\ call[b].pc \in DriverPcs
                               => call[b].driver # call[c].driver
  BY DEF Inv, OneRequest
<1>3. ASSUME Goto(c, Idle) PROVE Inv'
  <2>1. Idle.pc = "idle" BY DEF Idle
  <2> QED BY <1>3, <2>1, IdleOK, GotoKeepsInv
<1>4. ASSUME call[c].pc = "checkActive", Active(call[c].driver) = {},
             Goto(c, [call[c] EXCEPT !.pc = "start", !.at = now])
      PROVE  Inv'
  <2> DEFINE x == [call[c] EXCEPT !.pc = "start", !.at = now]
  <2>1. /\ x \in Call /\ x.pc = "start" /\ x.at = now
        /\ x.driver = call[c].driver /\ x.trip = call[c].trip
    BY <1>1 DEF Call
  <2>2. Goto(c, x) BY <1>4
  <2> HIDE DEF x
  <2>3. CallOK(x) BY TripAssumption, <1>1, <1>4, <2>1 DEF CallOK, Times
  <2> QED BY <1>2, <1>4, <2>1, <2>2, <2>3, GotoKeepsInv
<1>5. ASSUME call[c].pc = "findTrip", NEW t \in Active(call[c].driver),
             Goto(c, [call[c] EXCEPT !.pc = "log", !.trip = t])
      PROVE  Inv'
  <2> DEFINE x == [call[c] EXCEPT !.pc = "log", !.trip = t]
  <2>1. /\ x \in Call /\ x.pc = "log" /\ x.trip = t
        /\ x.driver = call[c].driver /\ x.at = call[c].at
    BY <1>1 DEF Call, Active
  <2>2. Goto(c, x) BY <1>5
  <2>3. t \in TripIds /\ trip[t].driver = call[c].driver
        /\ trip[t].startedAt # NULL /\ trip[t].endedAt = NULL
    BY DEF Inv, RowsOK, RowOK, Active
  <2> HIDE DEF x
  <2>4. CallOK(x) BY <1>1, <1>5, <2>1, <2>3 DEF CallOK, UnderWay
  <2> QED BY <1>2, <1>5, <2>1, <2>2, <2>4, GotoKeepsInv
<1> QED BY <1>3, <1>4, <1>5 DEF CheckNoActive, FindActiveTrip, Fail

-----------------------------------------------------------------------------
(* Handlers that write a row. *)

\* A handler overwrites the row of t with r and ends.  Times are written once;
\* whoever writes one, or starts the trip, is alone among the requests of its
\* driver, and its time is not before any scan the driver made.
LEMMA UpdateKeepsInv ==
  ASSUME Inv, NEW c \in Calls, NEW t \in TripIds, NEW r \in TripRow,
         trip' = [trip EXCEPT ![t] = r],
         call' = [call EXCEPT ![c] = Idle],
         UNCHANGED <<now, device, scans>>,
         RowOK(r),
         trip[t].status # "NONE" =>
           r.driver = trip[t].driver /\ r.status # "NONE",
         trip[t].startedAt # NULL => r.startedAt = trip[t].startedAt,
         trip[t].endedAt # NULL => r.endedAt = trip[t].endedAt,
         r.startedAt # trip[t].startedAt \/ r.endedAt # trip[t].endedAt
           \/ r.status = "IN_PROGRESS"
           => \A b \in Calls \ {c} :
                call[b].pc \in DriverPcs => call[b].driver # r.driver,
         r.endedAt # trip[t].endedAt =>
           /\ \A e \in scans : e.trip = t => e.at <= r.endedAt
           /\ \A s \in DeviceScans :
                device[s].pc # "none" /\ device[s].driver = r.driver
                  => device[s].at <= r.endedAt,
         r.startedAt # trip[t].startedAt =>
           \A s \in DeviceScans :
             device[s].pc # "none" /\ device[s].driver = r.driver
               => device[s].at <= r.startedAt,
         r.status = "IN_PROGRESS" => Active(r.driver) \subseteq {t},
         r.startedAt # NULL /\ r.startedAt = trip[t].startedAt
           /\ r.status # "CANCELLED"
           => Live(t)
  PROVE  Inv'
<1> USE DEF DriverPcs
<1>1. \A u \in TripIds : trip'[u] = IF u = t THEN r ELSE trip[u]
  BY DEF Inv, TypeOK
<1>2. \A b \in Calls : call'[b] = IF b = c THEN Idle ELSE call[b]
  BY DEF Inv, TypeOK
<1>3. Idle.pc = "idle" /\ Idle.at = 0 BY DEF Idle
<1>4. TypeOK' BY IdleOK DEF Inv, TypeOK
<1>5. RowsOK' BY <1>1 DEF Inv, RowsOK, RowOK
<1>6. RowOK(trip[t]) BY DEF Inv, RowsOK
<1>7. ASSUME NEW u \in TripIds, NEW d, NEW at, UnderWay(u, d, at),
             u = t /\ r.endedAt # trip[t].endedAt => at <= r.endedAt
      PROVE  UnderWay(u, d, at)'
  BY <1>1, <1>6, <1>7 DEF UnderWay, RowOK
<1>8. CallsOK'
  <2>1. CallOK(Idle)'
    BY TripAssumption, <1>3 DEF Inv, TypeOK, Times, CallOK
  <2>2. ASSUME NEW b \in Calls, b # c, NEW x, x = call[b], CallOK(x)
        PROVE  CallOK(x)'
    <3>1. CallOK(x) BY <2>2
    <3>2. r.startedAt # trip[t].startedAt \/ r.endedAt # trip[t].endedAt
            \/ r.status = "IN_PROGRESS"
            => (x.pc \in DriverPcs => x.driver # r.driver)
      BY <2>2
    <3>3. /\ x.at <= now'
          /\ x.pc \in DriverPcs => x.driver \in Drivers
          /\ x.pc = "create" => x.driver \in Drivers /\ x.day \in Days
          /\ x.pc = "cancel" => x.trip \in TripIds /\ trip'[x.trip].status # "NONE"
      BY <1>1, <3>1 DEF CallOK
    <3>4. x.pc \in {"checkActive", "start", "end", "log"} =>
            x.trip \in TripIds /\ trip'[x.trip].driver = x.driver
      BY TripAssumption, <1>1, <1>6, <3>1 DEF CallOK, RowOK
    <3>5. /\ x.pc \in {"checkActive", "start"} => trip'[x.trip].startedAt = NULL
          /\ x.pc = "end" => /\ trip'[x.trip].startedAt # NULL
                             /\ trip'[x.trip].startedAt <= x.at
                             /\ trip'[x.trip].endedAt = NULL
      BY <1>1, <3>1, <3>2, <3>4 DEF CallOK
    <3>6. x.pc = "start" => Active(x.driver)' = {}
      BY <1>1, <3>1, <3>2 DEF CallOK, Active
    <3>7. x.pc = "findTrip" => \A u \in TripIds :
            trip'[u].driver = x.driver /\ trip'[u].startedAt # NULL
              => trip'[u].startedAt <= x.at
      BY TripAssumption, <1>1, <1>6, <3>1, <3>2 DEF CallOK, RowOK
    <3>8. x.pc = "log" => UnderWay(x.trip, x.driver, x.at)'
      BY <1>7, <3>1, <3>2, <3>4, <1>1 DEF CallOK
    <3> QED BY <3>3, <3>4, <3>5, <3>6, <3>7, <3>8 DEF CallOK
  <2> QED BY <1>2, <2>1, <2>2 DEF Inv, CallsOK
<1>9. OneRequest' BY <1>2, <1>3 DEF Inv, OneRequest
<1>10. OneActiveTrip' BY <1>1 DEF Inv, OneActiveTrip, Active
<1>11. ASSUME NEW u \in TripIds, Live(u)', u # t \/ trip'[u].status = "CANCELLED"
       PROVE  Live(u)
  BY <1>1, <1>2, <1>3, <1>11 DEF Live
<1>12. DevicesOK'
  <2>1. SUFFICES ASSUME NEW s \in DeviceScans, NEW x \in DeviceScan,
                        x = device[s], DeviceOK(x), x.pc # "none"
                 PROVE  DeviceOK(x)'
    BY DEF Inv, TypeOK, DevicesOK, DeviceOK
  <2>2. /\ x \in DeviceScan /\ DeviceOK(x) /\ x.pc # "none"
        /\ x.driver = r.driver =>
             /\ r.endedAt # trip[t].endedAt => x.at <= r.endedAt
             /\ r.startedAt # trip[t].startedAt => x.at <= r.startedAt
    BY <2>1
  <2>3. ASSUME NEW u \in TripIds, UnderWay(u, x.driver, x.at)
        PROVE  UnderWay(u, x.driver, x.at)'
    <3>1. u = t => r.driver = x.driver BY <1>6, <2>3 DEF UnderWay, RowOK
    <3> QED BY <1>7, <2>2, <2>3, <3>1
  <2>4. ASSUME x.on # NULL, NEW u \in TripIds, u # x.on,
               trip'[u].driver = x.driver, trip'[u].startedAt # NULL, Live(u)'
        PROVE  \/ trip'[u].endedAt # NULL /\ trip'[u].endedAt <= x.at
               \/ x.at <= trip'[u].startedAt
    <3>1. CASE u # t BY <1>1, <1>11, <2>2, <2>4, <3>1 DEF DeviceOK
    <3>2. CASE u = t /\ r.startedAt # trip[t].startedAt
      BY <1>1, <2>2, <2>4, <3>2
    <3>3. CASE u = t /\ r.startedAt = trip[t].startedAt
      <4>1. Live(t) BY <1>1, <1>11, <2>4, <3>3
      <4>2. trip[t].driver = x.driver BY <1>1, <1>6, <2>4, <3>3 DEF RowOK
      <4> QED BY <1>1, <2>2, <2>4, <3>3, <4>1, <4>2 DEF DeviceOK
    <3> QED BY <3>1, <3>2, <3>3
  <2>5. /\ x.driver \in Drivers /\ x.at <= now'
        /\ x.on # NULL => UnderWay(x.on, x.driver, x.at)'
        /\ x.pc # "made" /\ x.trip # NULL => UnderWay(x.trip, x.driver, x.at)'
        /\ x.pc # "made" /\ x.on # NULL => x.trip # NULL
    BY <2>2, <2>3 DEF DeviceOK, DeviceScan
  <2> QED BY <2>4, <2>5 DEF DeviceOK
<1>13. Ordered' BY <1>2, <1>3 DEF Inv, Ordered, ScannedBefore
<1>14. ScansOK'
  <2>1. ASSUME NEW e \in scans, e.trip # NULL
        PROVE  UnderWay(e.trip, trip[e.trip].driver, e.at)'
    <3>1. e.trip \in TripIds /\ UnderWay(e.trip, trip[e.trip].driver, e.at)
      BY <2>1 DEF Inv, TypeOK, ScansOK
    <3>2. UnderWay(e.trip, trip[e.trip].driver, e.at) => trip'[e.trip].driver = trip[e.trip].driver
      BY <1>1, <1>6, <3>1 DEF UnderWay, RowOK
    <3>3. e.trip = t /\ r.endedAt # trip[t].endedAt => e.at <= r.endedAt OBVIOUS
    <3> QED BY <1>1, <3>1, <3>2, <3>3 DEF UnderWay
  <2> QED BY <1>2, <1>3, <2>1 DEF Inv, ScansOK
<1> QED BY <1>4, <1>5, <1>8, <1>9, <1>10, <1>12, <1>13, <1>14 DEF Inv

LEMMA WriteKeepsInv ==
  ASSUME Inv, NEW c \in Calls, Start(c) \/ End(c) \/ Create(c) \/ Cancel(c)
  PROVE  Inv'
<1> USE DEF DriverPcs
<1>1. /\ now \in Times /\ trip \in [TripIds -> TripRow]
      /\ call[c] \in Call /\ CallOK(call[c])
      /\ \A t \in TripIds : RowOK(trip[t])
      /\ \A at \in Times : at \in Int /\ at # NULL
  BY TripAssumption DEF Inv, TypeOK, CallsOK, RowsOK, Times
<1>2. \A b \in Calls \ {c} : call[c].pc \in DriverPcs /\ call[b].pc \in DriverPcs
                               => call[b].driver # call[c].driver
  BY DEF Inv, OneRequest
<1>3. \A s \in DeviceScans :
        /\ call[c].pc \in {"start", "end"} /\ device[s].pc # "none"
        /\ device[s].driver = call[c].driver
        => device[s].at <= call[c].at
  BY DEF Inv, Ordered, ScannedBefore
<1>4. CASE Start(c)
  <2> DEFINE t == call[c].trip
             r == [trip[t] EXCEPT !.status = "IN_PROGRESS", !.startedAt = call[c].at]
  <2>1. /\ call[c].pc = "start" /\ t \in TripIds
        /\ trip[t].driver = call[c].driver /\ trip[t].startedAt = NULL
        /\ Active(call[c].driver) = {}
        /\ call[c].at \in Times /\ call[c].at # NULL /\ call[c].at <= now
        /\ trip[t].endedAt = NULL
    BY <1>1, <1>4 DEF Start, CallOK, Call, RowOK
  <2>2. /\ r \in TripRow /\ r.status = "IN_PROGRESS" /\ r.startedAt = call[c].at
        /\ r.driver = trip[t].driver /\ r.endedAt = NULL
    BY <1>1, <2>1 DEF TripRow, TripStatus
  <2>3. /\ trip' = [trip EXCEPT ![t] = r] /\ call' = [call EXCEPT ![c] = Idle]
        /\ UNCHANGED <<now, device, scans>>
    BY <1>4 DEF Start, Update
  <2> HIDE DEF r, t
  <2>4. RowOK(r) BY <2>1, <2>2 DEF RowOK
  <2>5. \A b \in Calls \ {c} : call[b].pc \in DriverPcs => call[b].driver # r.driver
    BY <1>2, <2>1, <2>2
  <2>6. \A s \in DeviceScans :
          device[s].pc # "none" /\ device[s].driver = r.driver
            => device[s].at <= r.startedAt
    BY <1>3, <2>1, <2>2
  <2>7. Active(r.driver) \subseteq {t} BY <2>1, <2>2
  <2>8. r.startedAt # trip[t].startedAt /\ r.endedAt = trip[t].endedAt
    BY <2>1, <2>2
  <2>9. trip[t].startedAt = NULL /\ trip[t].endedAt = NULL /\ t \in TripIds BY <2>1
  <2> QED BY <2>2, <2>3, <2>4, <2>5, <2>6, <2>7, <2>8, <2>9, UpdateKeepsInv
<1>5. CASE End(c)
  <2> DEFINE t == call[c].trip
             r == [trip[t] EXCEPT !.status = "COMPLETED", !.endedAt = call[c].at]
  <2>1. /\ call[c].pc = "end" /\ t \in TripIds
        /\ trip[t].driver = call[c].driver /\ trip[t].endedAt = NULL
        /\ trip[t].startedAt # NULL /\ trip[t].startedAt <= call[c].at
        /\ trip[t].status # "NONE" /\ trip[t].startedAt <= now
        /\ call[c].at \in Times /\ call[c].at # NULL /\ call[c].at <= now
    BY <1>1, <1>5 DEF End, CallOK, Call, RowOK
  <2>2. /\ r \in TripRow /\ r.status = "COMPLETED" /\ r.endedAt = call[c].at
        /\ r.driver = trip[t].driver /\ r.startedAt = trip[t].startedAt
    <3>1. trip[t] \in TripRow BY <1>1, <2>1
    <3> HIDE DEF t
    <3> QED BY <2>1, <3>1 DEF TripRow, TripStatus
  <2>3. /\ trip' = [trip EXCEPT ![t] = r] /\ call' = [call EXCEPT ![c] = Idle]
        /\ UNCHANGED <<now, device, scans>>
    BY <1>5 DEF End, Update
  <2>4. \A e \in scans : e.trip = t => e.at <= call[c].at
    BY <2>1 DEF Inv, ScansOK
  <2>5. Live(t) BY <2>1 DEF Live
  <2> HIDE DEF r, t
  <2>6. RowOK(r) BY <2>1, <2>2 DEF RowOK
  <2>7. \A b \in Calls \ {c} : call[b].pc \in DriverPcs => call[b].driver # r.driver
    BY <1>2, <2>1, <2>2
  <2>8. \A s \in DeviceScans :
          device[s].pc # "none" /\ device[s].driver = r.driver
            => device[s].at <= r.endedAt
    BY <1>3, <2>1, <2>2
  <2>9. \A e \in scans : e.trip = t => e.at <= r.endedAt BY <2>2, <2>4
  <2>10. t \in TripIds /\ trip[t].endedAt = NULL BY <2>1
  <2> QED BY <2>2, <2>3, <2>5, <2>6, <2>7, <2>8, <2>9, <2>10, UpdateKeepsInv
<1>6. CASE Create(c)
  <2>1. PICK t \in TripIds :
          /\ trip[t].status = "NONE"
          /\ trip' = [trip EXCEPT ![t] =
               [NoTrip EXCEPT !.status = "SCHEDULED", !.driver = call[c].driver,
                              !.day = call[c].day]]
    BY <1>6 DEF Create
  <2> DEFINE r == [NoTrip EXCEPT !.status = "SCHEDULED", !.driver = call[c].driver,
                                 !.day = call[c].day]
  <2>2. /\ r \in TripRow /\ r.status = "SCHEDULED"
        /\ r.startedAt = NULL /\ r.endedAt = NULL
    BY <1>1, <1>6 DEF Create, CallOK, NoTrip, TripRow, TripStatus
  <2>3. /\ trip' = [trip EXCEPT ![t] = r] /\ call' = [call EXCEPT ![c] = Idle]
        /\ UNCHANGED <<now, device, scans>>
    BY <1>6, <2>1 DEF Create
  <2>4. trip[t].startedAt = NULL /\ trip[t].endedAt = NULL
    BY <1>1, <2>1 DEF RowOK
  <2> HIDE DEF r
  <2>5. RowOK(r) BY <2>2 DEF RowOK
  <2>6. trip[t].status = "NONE" BY <2>1
  <2> QED BY <2>2, <2>3, <2>4, <2>5, <2>6, UpdateKeepsInv
<1>7. CASE Cancel(c)
  <2> DEFINE t == call[c].trip
             r == [trip[t] EXCEPT !.status = "CANCELLED"]
  <2>1. t \in TripIds /\ RowOK(trip[t]) /\ trip[t] \in TripRow
    BY <1>1, <1>7 DEF Cancel, CallOK
  <2>2. /\ r \in TripRow /\ r.status = "CANCELLED" /\ r.driver = trip[t].driver
        /\ r.startedAt = trip[t].startedAt /\ r.endedAt = trip[t].endedAt
    BY <2>1 DEF TripRow, TripStatus
  <2>3. /\ trip' = [trip EXCEPT ![t] = r] /\ call' = [call EXCEPT ![c] = Idle]
        /\ UNCHANGED <<now, device, scans>>
    BY <1>7 DEF Cancel, Update
  <2> HIDE DEF r, t
  <2>4. RowOK(r) BY <2>1, <2>2 DEF RowOK
  <2> QED BY <2>1, <2>2, <2>3, <2>4, UpdateKeepsInv
<1> QED BY <1>4, <1>5, <1>6, <1>7

-----------------------------------------------------------------------------
(* Scans. *)

\* A scan is logged: it lies within its trip and was made before any time its
\* trip is about to end at.
LEMMA LogKeepsScansOK ==
  ASSUME Inv, NEW t \in TripIds \cup {NULL}, NEW at \in Times, Log(t, at),
         UNCHANGED <<now, trip>>, at <= now,
         t # NULL => UnderWay(t, trip[t].driver, at),
         \A b \in Calls : call'[b].pc = "end" => call'[b] = call[b],
         \A b \in Calls : call[b].pc = "end" /\ call[b].trip = t => at <= call[b].at
  PROVE  ScansOK'
<1>1. \A e \in scans' : e \in scans \/ (e.trip = t /\ e.at = at)
  BY DEF Log
<1> QED BY <1>1 DEF Inv, ScansOK, UnderWay

LEMMA LogScanKeepsInv ==
  ASSUME Inv, NEW c \in Calls, LogScan(c)
  PROVE  Inv'
<1> USE DEF DriverPcs
<1>1. /\ call[c].pc = "log" /\ call[c] \in Call /\ CallOK(call[c])
      /\ Log(call[c].trip, call[c].at)
      /\ call' = [call EXCEPT ![c] = Idle]
      /\ UNCHANGED <<now, trip, device>>
  BY DEF Inv, TypeOK, CallsOK, LogScan
<1> DEFINE t == call[c].trip
           at == call[c].at
<1>2. /\ t \in TripIds /\ at \in Times /\ at <= now
      /\ UnderWay(t, trip[t].driver, at) /\ trip[t].driver = call[c].driver
  BY <1>1 DEF CallOK, Call
<1>3. \A b \in Calls : call'[b] = IF b = c THEN Idle ELSE call[b]
  BY <1>1 DEF Inv, TypeOK
<1>4. Idle.pc = "idle" BY DEF Idle
<1>5. \A b \in Calls : call[b].pc = "end" /\ call[b].trip = t => FALSE
  BY <1>1, <1>2 DEF Inv, CallsOK, CallOK, OneRequest
<1>6. ScansOK' BY <1>1, <1>2, <1>3, <1>4, <1>5, LogKeepsScansOK
<1>8. TypeOK'
  BY <1>1, <1>2, IdleOK DEF Inv, TypeOK, Log
<1>9. RowsOK' BY <1>1 DEF Inv, RowsOK, RowOK
<1>10. CallsOK'
  <2>1. CallOK(Idle)'
    BY <1>1, IdleOK DEF CallOK, Idle
  <2>2. ASSUME NEW b \in Calls, NEW x, x = call[b], CallOK(x)
        PROVE  CallOK(x)'
    BY <1>1, <2>2 DEF CallOK, Active, UnderWay
  <2> QED BY <1>3, <2>1, <2>2 DEF Inv, CallsOK
<1>11. OneRequest' /\ OneActiveTrip'
  BY <1>1, <1>3, <1>4 DEF Inv, OneRequest, OneActiveTrip
<1>12. ASSUME NEW u \in TripIds, Live(u)' PROVE Live(u)
  BY <1>1, <1>3, <1>4, <1>12 DEF Live
<1>13. DevicesOK'
  <2>1. SUFFICES ASSUME NEW s \in DeviceScans PROVE DeviceOK(device[s])'
    BY DEF DevicesOK
  <2>2. DeviceOK(device[s]) BY DEF Inv, DevicesOK
  <2> QED BY <1>1, <1>12, <2>2 DEF DeviceOK, UnderWay
<1>14. Ordered' BY <1>1, <1>3, <1>4 DEF Inv, Ordered, ScannedBefore
<1> QED BY <1>6, <1>8, <1>9, <1>10, <1>11, <1>13, <1>14 DEF Inv

\* The rest of the invariant does not depend on what devices keep.
LEMMA DeviceStepKeepsInv ==
  ASSUME Inv, UNCHANGED <<now, trip, call>>, TypeOK', DevicesOK', Ordered', ScansOK'
  PROVE  Inv'
<1>1. RowsOK' BY DEF Inv, RowsOK, RowOK
<1>2. CallsOK'
  <2>1. ASSUME NEW x, CallOK(x) PROVE CallOK(x)'
    BY <2>1 DEF CallOK, Active, UnderWay
  <2> QED BY <2>1 DEF Inv, CallsOK
<1>3. OneRequest' /\ OneActiveTrip' BY DEF Inv, OneRequest, OneActiveTrip
<1> QED BY <1>1, <1>2, <1>3 DEF Inv

\* Records whose trips are the same, and that do not move, stay in order.
LEMMA DeviceOKKept ==
  ASSUME UNCHANGED <<now, trip, call>>, NEW x, DeviceOK(x)
  PROVE  DeviceOK(x)'
<1>1. \A t \in TripIds : Live(t)' <=> Live(t) BY DEF Live
<1> QED BY <1>1 DEF DeviceOK, UnderWay

LEMMA ScanOfflineKeepsInv ==
  ASSUME Inv, SequentialDrivers, NEW s \in DeviceScans, NEW d \in Drivers,
         ScanOffline(s, d)
  PROVE  Inv'
<1> USE DEF DriverPcs
<1>1. PICK on \in IF Active(d) = {} THEN {NULL} ELSE Active(d) :
        device' = [device EXCEPT ![s] =
          [NoScan EXCEPT !.pc = "made", !.driver = d, !.at = now, !.on = on]]
  BY DEF ScanOffline
<1> DEFINE x == [NoScan EXCEPT !.pc = "made", !.driver = d, !.at = now, !.on = on]
<1>2. UNCHANGED <<now, trip, call, scans>> /\ now \in Times
  BY DEF ScanOffline, Inv, TypeOK
<1>3. /\ x \in DeviceScan /\ x.pc = "made" /\ x.driver = d /\ x.at = now /\ x.on = on
  BY <1>2 DEF NoScan, DeviceScan, Active
<1>4. device' = [device EXCEPT ![s] = x] BY <1>1
<1> HIDE DEF x
<1>5. \A r \in DeviceScans : device'[r] = IF r = s THEN x ELSE device[r]
  BY <1>4 DEF Inv, TypeOK
<1>6. \A c \in Calls : call[c].pc \in DriverPcs => call[c].driver # d
  BY DEF ScanOffline, DriverFree
<1>7. TypeOK' BY <1>2, <1>3, <1>4 DEF Inv, TypeOK
<1>8. DeviceOK(x)
  <2>1. on # NULL => on \in Active(d) OBVIOUS
  <2>2. ASSUME on # NULL PROVE UnderWay(on, d, now)
    BY <2>1, <2>2 DEF Inv, RowsOK, RowOK, Active, UnderWay
  <2>3. ASSUME on # NULL, NEW t \in TripIds, t # on, trip[t].driver = d,
               trip[t].startedAt # NULL, Live(t)
        PROVE  trip[t].endedAt # NULL /\ trip[t].endedAt <= now
    <3>1. trip[t].status # "IN_PROGRESS"
      BY <2>1, <2>3 DEF Inv, OneActiveTrip, Active
    <3>2. trip[t].status # "CANCELLED"
      BY <1>6, <2>3 DEF Live, Inv, CallsOK, CallOK
    <3>3. trip[t].status \in TripStatus /\ RowOK(trip[t])
      BY DEF Inv, TypeOK, TripRow, RowsOK
    <3> QED BY <2>3, <3>1, <3>2, <3>3 DEF TripStatus, RowOK
  <2>4. now <= now BY TripAssumption, <1>2 DEF Times
  <2> QED BY <1>3, <2>2, <2>3, <2>4 DEF DeviceOK
<1>9. DevicesOK'
  BY <1>2, <1>5, <1>8, DeviceOKKept DEF Inv, DevicesOK
<1>10. Ordered' BY <1>2, <1>3, <1>5, <1>6 DEF Inv, Ordered, ScannedBefore
<1>11. ScansOK' BY <1>2 DEF Inv, ScansOK, UnderWay
<1> QED BY <1>2, <1>7, <1>9, <1>10, <1>11, DeviceStepKeepsInv

LEMMA DeliverKeepsInv ==
  ASSUME Inv, NEW s \in DeviceScans, ResolveTripId(s) \/ LogOffline(s)
  PROVE  Inv'
<1> USE DEF DriverPcs
<1>1. UNCHANGED <<now, trip, call>> /\ device[s] \in DeviceScan /\ DeviceOK(device[s])
  BY DEF ResolveTripId, LogOffline, Inv, TypeOK, DevicesOK
<1>2. CASE ResolveTripId(s)
  <2> DEFINE found == {t \in TripIds : UnderWay(t, device[s].driver, device[s].at)}
  <2>1. PICK t \in IF found = {} THEN {NULL} ELSE found :
          device' = [device EXCEPT ![s].pc = "resolved", ![s].trip = t]
    BY <1>2 DEF ResolveTripId
  <2>2. device[s].pc = "made" /\ UNCHANGED scans BY <1>2 DEF ResolveTripId
  <2> DEFINE x == [device[s] EXCEPT !.pc = "resolved", !.trip = t]
  <2>3. /\ x \in DeviceScan /\ x.pc = "resolved" /\ x.trip = t
        /\ x.driver = device[s].driver /\ x.at = device[s].at /\ x.on = device[s].on
    BY <1>1 DEF DeviceScan
  <2>4. device' = [device EXCEPT ![s] = x] BY <2>1 DEF Inv, TypeOK
  <2>5. t # NULL => UnderWay(t, device[s].driver, device[s].at) OBVIOUS
  <2>6. device[s].on # NULL => t # NULL
    BY TripAssumption, <1>1, <2>2 DEF DeviceOK, DeviceScan
  <2> HIDE DEF x
  <2>7. \A r \in DeviceScans : device'[r] = IF r = s THEN x ELSE device[r]
    BY <2>4 DEF Inv, TypeOK
  <2>8. DeviceOK(x)
    BY <1>1, <2>2, <2>3, <2>5, <2>6 DEF DeviceOK
  <2>9. DevicesOK' BY <1>1, <2>7, <2>8, DeviceOKKept DEF Inv, DevicesOK
  <2>10. TypeOK' BY <1>1, <2>2, <2>3, <2>4 DEF Inv, TypeOK
  <2>11. Ordered' BY <1>1, <2>2, <2>3, <2>7 DEF Inv, Ordered, ScannedBefore
  <2>12. ScansOK' BY <1>1, <2>2 DEF Inv, ScansOK, UnderWay
  <2> QED BY <1>1, <2>9, <2>10, <2>11, <2>12, DeviceStepKeepsInv
<1>3. CASE LogOffline(s)
  <2>1. /\ device[s].pc = "resolved" /\ Log(device[s].trip, device[s].at)
        /\ device' = [device EXCEPT ![s].pc = "done"]
    BY <1>3 DEF LogOffline
  <2> DEFINE x == [device[s] EXCEPT !.pc = "done"]
             t == device[s].trip
             at == device[s].at
  <2>2. /\ x \in DeviceScan /\ x.pc = "done" /\ x.trip = device[s].trip
        /\ x.driver = device[s].driver /\ x.at = device[s].at /\ x.on = device[s].on
    BY <1>1 DEF DeviceScan
  <2>3. device' = [device EXCEPT ![s] = x] BY <2>1 DEF Inv, TypeOK
  <2> HIDE DEF x
  <2>4. \A r \in DeviceScans : device'[r] = IF r = s THEN x ELSE device[r]
    BY <2>3 DEF Inv, TypeOK
  <2>5. DeviceOK(x) BY <1>1, <2>1, <2>2 DEF DeviceOK
  <2>6. DevicesOK' BY <1>1, <2>4, <2>5, DeviceOKKept DEF Inv, DevicesOK
  <2>7. t \in TripIds \cup {NULL} /\ at \in Times /\ at <= now
    BY <1>1, <2>1 DEF DeviceScan, DeviceOK
  <2>8. t # NULL => /\ UnderWay(t, trip[t].driver, at)
                    /\ trip[t].driver = device[s].driver
    BY <1>1, <2>1 DEF DeviceOK, UnderWay
  <2>9. ASSUME NEW b \in Calls, call[b].pc = "end", call[b].trip = t
        PROVE  at <= call[b].at
    <3>1. t \in TripIds /\ trip[t].driver = call[b].driver
      BY <2>9 DEF Inv, CallsOK, CallOK
    <3>2. t # NULL BY TripAssumption, <3>1
    <3> QED BY <2>1, <2>8, <2>9, <3>1, <3>2 DEF Inv, Ordered, ScannedBefore
  <2>10. ScansOK' BY <1>1, <2>1, <2>7, <2>8, <2>9, LogKeepsScansOK
  <2>11. TypeOK' BY <1>1, <2>1, <2>2, <2>3, <2>7 DEF Inv, TypeOK, Log
  <2>12. Ordered' BY <1>1, <2>1, <2>2, <2>4 DEF Inv, Ordered, ScannedBefore
  <2> QED BY <1>1, <2>6, <2>10, <2>11, <2>12, DeviceStepKeepsInv
<1> QED BY <1>2, <1>3

LEMMA TickKeepsInv == ASSUME Inv, Tick PROVE Inv'
<1>1. /\ now \in Times /\ now' \in Times /\ \A n \in Int : n <= now => n <= now'
      /\ UNCHANGED <<trip, call, device, scans>> /\ Times \subseteq Int
  BY TripAssumption DEF Inv, TypeOK, Tick, Times
<1>2. TypeOK' BY <1>1 DEF Inv, TypeOK
<1>3. RowsOK'
  <2>1. ASSUME NEW t \in TripIds PROVE RowOK(trip[t])'
    <3>1. trip[t] \in TripRow /\ RowOK(trip[t]) BY DEF Inv, TypeOK, RowsOK
    <3> QED BY <1>1, <3>1 DEF RowOK, TripRow
  <2> QED BY <2>1 DEF RowsOK
<1>4. CallsOK'
  <2>1. ASSUME NEW x \in Call, CallOK(x) PROVE CallOK(x)'
    <3>1. x.at <= now' BY <1>1, <2>1 DEF CallOK, Call
    <3> QED BY <1>1, <2>1, <3>1 DEF CallOK, Active, UnderWay
  <2> QED BY <1>1, <2>1 DEF Inv, TypeOK, CallsOK
<1>5. OneRequest' /\ OneActiveTrip' BY <1>1 DEF Inv, OneRequest, OneActiveTrip
<1>6. DevicesOK'
  <2>1. ASSUME NEW x \in DeviceScan, DeviceOK(x) PROVE DeviceOK(x)'
    <3>1. x.pc # "none" => x.at <= now' BY <1>1, <2>1 DEF DeviceOK, DeviceScan
    <3>2. \A t \in TripIds : Live(t)' <=> Live(t) BY <1>1 DEF Live
    <3> QED BY <1>1, <2>1, <3>1, <3>2 DEF DeviceOK, UnderWay
  <2> QED BY <1>1, <2>1 DEF Inv, TypeOK, DevicesOK
<1>7. Ordered' BY <1>1 DEF Inv, Ordered, ScannedBefore
<1>8. ScansOK'
  <2>1. \A e \in scans : e.at \in Int BY <1>1 DEF Inv, TypeOK
  <2> QED BY <1>1, <2>1 DEF Inv, ScansOK, UnderWay
<1> QED BY <1>2, <1>3, <1>4, <1>5, <1>6, <1>7, <1>8 DEF Inv

LEMMA NextKeepsInv == ASSUME Inv, SequentialDrivers, [Next]_vars PROVE Inv'
<1>1. CASE Next
  BY <1>1, ArriveKeepsInv, ReadKeepsInv, WriteKeepsInv, LogScanKeepsInv,
     ScanOfflineKeepsInv, DeliverKeepsInv, TickKeepsInv
  DEF Next, Continue
<1>2. CASE UNCHANGED vars
  <2>1. UNCHANGED <<now, trip, call, device, scans>> BY <1>2 DEF vars
  <2>2. TypeOK' BY <2>1 DEF Inv, TypeOK
  <2>3. DevicesOK' BY <2>1, DeviceOKKept DEF Inv, DevicesOK
  <2>4. Ordered' /\ ScansOK' BY <2>1 DEF Inv, Ordered, ScannedBefore, ScansOK, UnderWay
  <2> QED BY <2>1, <2>2, <2>3, <2>4, DeviceStepKeepsInv
<1> QED BY <1>1, <1>2

-----------------------------------------------------------------------------
\* The inductive invariant: what a handler read of its trip is still true when it
\* writes it, because the others who write trips, the administrators, write no
\* times and start nothing.
THEOREM Invariance == ASSUME SequentialDrivers PROVE Spec => []Inv
<1>1. Init => Inv BY InitInv
<1>2. Inv /\ [Next]_vars => Inv' BY NextKeepsInv
<1> QED BY <1>1, <1>2, PTL DEF Spec

\* A driver who waits for each answer never has two trips in progress.
THEOREM OneActiveTripAlways ==
  ASSUME SequentialDrivers PROVE Spec => []OneActiveTrip
<1>1. Inv => OneActiveTrip BY DEF Inv
<1> QED BY <1>1, Invariance, PTL

\* Every scan event lies within the trip it is recorded with.
THEOREM ScanWithinTripAlways ==
  ASSUME SequentialDrivers PROVE Spec => []ScanWithinTrip
<1>1. Inv => ScanWithinTrip BY DEF Inv, ScansOK, ScanWithinTrip, UnderWay
<1> QED BY <1>1, Invariance, PTL

\* A scan made off line during a trip is recorded with that trip, or at a moment
\* that two trips share, or with a trip cancelled under way.
THEOREM OfflineScanAttributedAlways ==
  ASSUME SequentialDrivers PROVE Spec => []OfflineScanAttributed
<1>1. ASSUME Inv PROVE OfflineScanAttributed
  <2>1. SUFFICES ASSUME NEW s \in DeviceScans,
                        device[s].pc \in {"resolved", "done"}, device[s].on # NULL,
                        device[s].trip # NULL => device[s].trip # device[s].on
                 PROVE  /\ device[s].trip # NULL
                        /\ \/ trip[device[s].trip].status = "CANCELLED"
                           \/ device[s].at \in {trip[device[s].trip].startedAt,
                                                trip[device[s].trip].endedAt}
    <3>1. \A s \in DeviceScans :
            device[s].pc \in {"resolved", "done"} /\ device[s].on # NULL
              => device[s].trip # NULL
      BY <1>1 DEF Inv, DevicesOK, DeviceOK
    <3> QED BY <3>1 DEF OfflineScanAttributed
  <2> DEFINE t == device[s].trip
             at == device[s].at
  <2>2. DeviceOK(device[s]) /\ device[s] \in DeviceScan
    BY <1>1 DEF Inv, TypeOK, DevicesOK
  <2>3. t \in TripIds /\ t # NULL /\ t # device[s].on /\ at \in Int
    BY TripAssumption, <2>1, <2>2 DEF DeviceOK, DeviceScan, Times
  <2>4. UnderWay(t, device[s].driver, at) BY <2>1, <2>2, <2>3 DEF DeviceOK
  <2>5. trip[t] \in TripRow BY <1>1, <2>3 DEF Inv, TypeOK
  <2>6. /\ trip[t].startedAt \in Int /\ trip[t].startedAt <= at
        /\ trip[t].endedAt # NULL => trip[t].endedAt \in Int /\ at <= trip[t].endedAt
    BY TripAssumption, <2>4, <2>5 DEF UnderWay, TripRow, Times
  <2>7. CASE trip[t].status # "CANCELLED"
    <3>1. Live(t) BY <2>7 DEF Live
    <3>2. \/ trip[t].endedAt # NULL /\ trip[t].endedAt <= at
          \/ at <= trip[t].startedAt
      BY <2>1, <2>2, <2>3, <2>4, <3>1 DEF DeviceOK, UnderWay
    <3>3. at \in {trip[t].startedAt, trip[t].endedAt}
      BY <2>3, <2>6, <3>2
    <3> QED BY <2>3, <3>3
  <2> QED BY <2>3, <2>7
<1> QED BY <1>1, Invariance, PTL

\* The times of a trip are written once.
THEOREM TimesKeptAlways == ASSUME SequentialDrivers PROVE Spec => TimesKept
<1> DEFINE Kept == \A t \in TripIds :
             /\ trip[t].startedAt # NULL => trip'[t].startedAt = trip[t].startedAt
             /\ trip[t].endedAt # NULL => trip'[t].endedAt = trip[t].endedAt
<1>1. ASSUME Inv, Next PROVE Kept
  <2>1. \A t \in TripIds : trip[t] \in TripRow /\ RowOK(trip[t])
    BY <1>1 DEF Inv, TypeOK, RowsOK
  <2>2. ASSUME NEW c \in Calls, NEW r, Update(c, r), call[c].trip \in TripIds,
               trip[call[c].trip].startedAt # NULL =>
                 r.startedAt = trip[call[c].trip].startedAt,
               trip[call[c].trip].endedAt # NULL =>
                 r.endedAt = trip[call[c].trip].endedAt
        PROVE  Kept
    BY <1>1, <2>2 DEF Update, Inv, TypeOK
  <2>3. ASSUME NEW c \in Calls, Start(c) \/ End(c) \/ Create(c) \/ Cancel(c)
        PROVE  Kept
    <3> DEFINE t == call[c].trip
    <3>1. CallOK(call[c]) BY <1>1 DEF Inv, CallsOK
    <3>2. CASE Start(c)
      <4>1. t \in TripIds /\ trip[t].startedAt = NULL /\ trip[t].endedAt = NULL
        BY <2>1, <3>1, <3>2 DEF Start, CallOK, RowOK
      <4> QED BY <2>2, <3>2, <4>1 DEF Start
    <3>3. CASE End(c)
      <4>1. t \in TripIds /\ trip[t].endedAt = NULL
        BY <3>1, <3>3 DEF End, CallOK
      <4> DEFINE r == [trip[t] EXCEPT !.status = "COMPLETED", !.endedAt = call[c].at]
      <4>2. r.startedAt = trip[t].startedAt BY <2>1, <4>1 DEF TripRow
      <4>3. Update(c, r) BY <3>3 DEF End
      <4> HIDE DEF r
      <4> QED BY <2>2, <4>1, <4>2, <4>3
    <3>4. CASE Create(c)
      <4>1. \A u \in TripIds : trip[u].status = "NONE" =>
              trip[u].startedAt = NULL /\ trip[u].endedAt = NULL
        BY <2>1 DEF RowOK
      <4> QED BY <1>1, <3>4, <4>1 DEF Create, Inv, TypeOK
    <3>5. CASE Cancel(c)
      <4>1. t \in TripIds BY <3>1, <3>5 DEF Cancel, CallOK
      <4> DEFINE r == [trip[t] EXCEPT !.status = "CANCELLED"]
      <4>2. r.startedAt = trip[t].startedAt /\ r.endedAt = trip[t].endedAt
        BY <2>1, <4>1 DEF TripRow
      <4>3. Update(c, r) BY <3>5 DEF Cancel
      <4> HIDE DEF r
      <4> QED BY <2>2, <4>1, <4>2, <4>3
    <3> QED BY <2>3, <3>2, <3>3, <3>4, <3>5
  <2>4. ASSUME UNCHANGED trip PROVE Kept BY <2>4
  <2>5. CASE \E c \in Calls : Arrive(c)
    BY <2>4, <2>5 DEF Arrive, ScanArrives, FindTripToStart, FindTripToEnd,
                      CheckConflict, FindTripToCancel, Goto
  <2>6. CASE \E c \in Calls : Continue(c)
    BY <2>3, <2>4, <2>6 DEF Continue, CheckNoActive, FindActiveTrip, LogScan, Fail, Goto
  <2>7. CASE \E s \in DeviceScans : (\E d \in Drivers : ScanOffline(s, d))
                                     \/ ResolveTripId(s) \/ LogOffline(s)
    BY <2>4, <2>7 DEF ScanOffline, ResolveTripId, LogOffline
  <2>8. CASE Tick BY <2>4, <2>8 DEF Tick
  <2> QED BY <1>1, <2>5, <2>6, <2>7, <2>8 DEF Next
<1>2. Inv /\ [Next]_vars => [Kept]_vars BY <1>1
<1>3. TimesKept <=> [][Kept]_vars BY PTL DEF TimesKept
<1> QED BY <1>2, <1>3, Invariance, PTL DEF Spec

-----------------------------------------------------------------------------
(* The administrators' side, whatever drivers do. *)

Scheduled(d, day) ==
  {t \in TripIds :
     trip[t].driver = d /\ trip[t].day = day /\ trip[t].status = "SCHEDULED"}

\* One administrator at work; who is about to create a trip found none of that
\* driver and day scheduled, and there still is none.
ScheduleInv ==
  /\ trip \in [TripIds -> TripRow] /\ call \in [Calls -> Call] /\ now \in Times
  /\ \A b, c \in Calls : call[b].pc \in AdminPcs /\ call[c].pc \in AdminPcs => b = c
  /\ \A c \in Calls :
       call[c].pc = "create" => Scheduled(call[c].driver, call[c].day) = {}
  /\ OneScheduledPerDay

\* A step that schedules no trip and starts no administrator's handler.
Schedules == \A t \in TripIds :
  trip'[t].status = "SCHEDULED" => trip'[t] = trip[t]

AdminsKept == \A c \in Calls : call'[c].pc \in AdminPcs => call'[c] = call[c]

LEMMA OthersKeepSchedule ==
  ASSUME ScheduleInv, Schedules, AdminsKept,
         trip' \in [TripIds -> TripRow], call' \in [Calls -> Call], now' \in Times
  PROVE  ScheduleInv'
<1>1. OneScheduledPerDay'
  BY DEF ScheduleInv, Schedules, OneScheduledPerDay
<1>2. \A b, c \in Calls : call'[b].pc \in AdminPcs /\ call'[c].pc \in AdminPcs => b = c
  BY DEF ScheduleInv, AdminsKept
<1>3. ASSUME NEW c \in Calls, call'[c].pc = "create", NEW t \in TripIds
      PROVE  ~ (/\ trip'[t].driver = call'[c].driver
                /\ trip'[t].day = call'[c].day
                /\ trip'[t].status = "SCHEDULED")
  <2>1. call'[c] = call[c] BY <1>3 DEF AdminsKept, AdminPcs
  <2> QED BY <1>3, <2>1 DEF ScheduleInv, Schedules, Scheduled
<1> QED BY <1>1, <1>2, <1>3 DEF ScheduleInv, Scheduled

\* An administrator begins only when no other is at work.
LEMMA AdminBeginsKeepsSchedule ==
  ASSUME ScheduleInv, SequentialAdmins, NEW c \in Calls, NEW x \in Call,
         AdminFree, Goto(c, x),
         x.pc = "create" => Scheduled(x.driver, x.day) = {}
  PROVE  ScheduleInv'
<1>1. UNCHANGED <<now, trip>> /\ call' = [call EXCEPT ![c] = x] BY DEF Goto
<1>2. call' \in [Calls -> Call] /\ \A b \in Calls : call'[b] = IF b = c THEN x ELSE call[b]
  BY <1>1 DEF ScheduleInv
<1>3. \A b \in Calls : call[b].pc \notin AdminPcs BY DEF AdminFree
<1>4. ASSUME NEW b \in Calls, call'[b].pc \in AdminPcs PROVE b = c /\ call'[b] = x
  BY <1>2, <1>3, <1>4
<1>5. \A b \in Calls : call'[b].pc = "create" => call'[b] = x
  BY <1>4 DEF AdminPcs
<1>6. ASSUME NEW d, NEW day PROVE Scheduled(d, day)' = Scheduled(d, day)
  BY <1>1 DEF Scheduled
<1>7. \A b \in Calls :
        call'[b].pc = "create" => Scheduled(call[b].driver, call[b].day)' = {}
  <2> SUFFICES ASSUME NEW b \in Calls, call'[b].pc = "create"
               PROVE  \A t \in TripIds :
                 ~ (/\ trip'[t].driver = call'[b].driver
                    /\ trip'[t].day = call'[b].day
                    /\ trip'[t].status = "SCHEDULED")
    BY DEF Scheduled
  <2>1. call'[b] = x /\ x.pc = "create" BY <1>5
  <2> QED BY <1>1, <2>1 DEF Scheduled
<1>8. OneScheduledPerDay' BY <1>1 DEF ScheduleInv, OneScheduledPerDay
<1>9. \A a, b \in Calls : call'[a].pc \in AdminPcs /\ call'[b].pc \in AdminPcs => a = b
  BY <1>4
<1> QED BY <1>1, <1>2, <1>7, <1>8, <1>9 DEF ScheduleInv

LEMMA CreateKeepsSchedule ==
  ASSUME ScheduleInv, NEW c \in Calls, Create(c) PROVE ScheduleInv'
<1> DEFINE r == [NoTrip EXCEPT !.status = "SCHEDULED", !.driver = call[c].driver,
                               !.day = call[c].day]
<1>1. PICK u \in TripIds : trip[u].status = "NONE" /\ trip' = [trip EXCEPT ![u] = r]
  BY DEF Create
<1>2. /\ call[c] \in Call /\ call[c].pc = "create" /\ UNCHANGED now
      /\ call' = [call EXCEPT ![c] = Idle]
  BY DEF Create, ScheduleInv
<1>3. /\ r \in TripRow /\ r.status = "SCHEDULED"
      /\ r.driver = call[c].driver /\ r.day = call[c].day
  BY <1>2 DEF NoTrip, TripRow, Call, TripStatus
<1> HIDE DEF r
<1>4. \A t \in TripIds : trip'[t] = IF t = u THEN r ELSE trip[t]
  BY <1>1 DEF ScheduleInv
<1>5. trip' \in [TripIds -> TripRow] BY <1>1, <1>3 DEF ScheduleInv
<1>6. Idle \in Call /\ Idle.pc = "idle"
  BY TripAssumption DEF Idle, Call, Times
<1>7. call' \in [Calls -> Call] BY <1>2, <1>6 DEF ScheduleInv
<1>8. \A b \in Calls : call'[b] = IF b = c THEN Idle ELSE call[b]
  BY <1>2 DEF ScheduleInv
<1>9. \A b \in Calls : call'[b].pc \notin AdminPcs
  BY <1>2, <1>6, <1>8 DEF ScheduleInv, AdminPcs
<1>10. \A t \in TripIds : t # u =>
         ~ (/\ trip'[t].driver = r.driver /\ trip'[t].day = r.day
            /\ trip'[t].status = "SCHEDULED")
  BY <1>2, <1>3, <1>4 DEF ScheduleInv, Scheduled
<1>11. OneScheduledPerDay'
  BY <1>3, <1>4, <1>10 DEF ScheduleInv, OneScheduledPerDay
<1>12. \A b \in Calls : call'[b].pc # "create" BY <1>9 DEF AdminPcs
<1> QED BY <1>2, <1>5, <1>7, <1>9, <1>11, <1>12 DEF ScheduleInv

\* An update by id of a row that a handler starts, ends or cancels.
LEMMA UpdateKeepsSchedule ==
  ASSUME ScheduleInv, NEW c \in Calls, NEW r, Update(c, r),
         call[c].trip \in TripIds => r \in TripRow /\ r.status # "SCHEDULED"
  PROVE  ScheduleInv'
<1>1. /\ trip' = [trip EXCEPT ![call[c].trip] = r] /\ UNCHANGED now
      /\ call' = [call EXCEPT ![c] = Idle]
  BY DEF Update
<1>2. Idle \in Call /\ Idle.pc \notin AdminPcs
  BY TripAssumption DEF Idle, Call, Times, AdminPcs
<1>3. trip' \in [TripIds -> TripRow] /\ call' \in [Calls -> Call] /\ now' \in Times
  BY <1>1, <1>2 DEF ScheduleInv
<1>4. Schedules BY <1>1 DEF ScheduleInv, Schedules
<1>5. AdminsKept BY <1>1, <1>2 DEF ScheduleInv, AdminsKept
<1> QED BY <1>3, <1>4, <1>5, OthersKeepSchedule

\* A handler that is not an administrator's goes on, or one ends.
LEMMA GotoKeepsSchedule ==
  ASSUME ScheduleInv, NEW c \in Calls, NEW x \in Call, Goto(c, x), x.pc \notin AdminPcs
  PROVE  ScheduleInv'
<1>1. UNCHANGED <<now, trip>> /\ call' = [call EXCEPT ![c] = x] BY DEF Goto
<1>2. call' \in [Calls -> Call] /\ AdminsKept BY <1>1 DEF ScheduleInv, AdminsKept
<1>3. Schedules BY <1>1 DEF Schedules
<1> QED BY <1>1, <1>2, <1>3, OthersKeepSchedule DEF ScheduleInv

LEMMA ArriveKeepsSchedule ==
  ASSUME ScheduleInv, SequentialAdmins, NEW c \in Calls, Arrive(c)
  PROVE  ScheduleInv'
<1>1. now \in Times /\ now \in Int /\ 0 \in Times
  BY TripAssumption DEF ScheduleInv, Times
<1>2. ASSUME NEW d \in Drivers, ScanArrives(c, d) PROVE ScheduleInv'
  <2> DEFINE x == [Idle EXCEPT !.pc = "findTrip", !.driver = d, !.at = now]
  <2>1. x \in Call /\ x.pc \notin AdminPcs BY <1>1 DEF Idle, Call, DriverPcs, AdminPcs
  <2> QED BY <1>2, <2>1, GotoKeepsSchedule DEF ScanArrives
<1>3. ASSUME NEW d \in Drivers, NEW t \in TripIds, FindTripToStart(c, d, t)
      PROVE  ScheduleInv'
  <2> DEFINE x == [Idle EXCEPT !.pc = "checkActive", !.driver = d, !.trip = t]
  <2>1. x \in Call /\ x.pc \notin AdminPcs BY <1>1 DEF Idle, Call, DriverPcs, AdminPcs
  <2> QED BY <1>3, <2>1, GotoKeepsSchedule DEF FindTripToStart
<1>4. ASSUME NEW d \in Drivers, NEW t \in TripIds, FindTripToEnd(c, d, t)
      PROVE  ScheduleInv'
  <2> DEFINE x == [Idle EXCEPT !.pc = "end", !.driver = d, !.trip = t, !.at = now]
  <2>1. x \in Call /\ x.pc \notin AdminPcs BY <1>1 DEF Idle, Call, DriverPcs, AdminPcs
  <2> QED BY <1>4, <2>1, GotoKeepsSchedule DEF FindTripToEnd
<1>5. ASSUME NEW d \in Drivers, NEW day \in Days, CheckConflict(c, d, day)
      PROVE  ScheduleInv'
  <2> DEFINE x == [Idle EXCEPT !.pc = "create", !.driver = d, !.day = day]
  <2>1. x \in Call /\ x.driver = d /\ x.day = day BY <1>1 DEF Idle, Call, AdminPcs
  <2>2. Scheduled(d, day) = {} BY <1>5 DEF CheckConflict, NoConflict, Scheduled
  <2>3. AdminFree /\ Goto(c, x) BY <1>5 DEF CheckConflict
  <2> HIDE DEF x
  <2> QED BY <2>1, <2>2, <2>3, AdminBeginsKeepsSchedule
<1>6. ASSUME NEW t \in TripIds, FindTripToCancel(c, t) PROVE ScheduleInv'
  <2> DEFINE x == [Idle EXCEPT !.pc = "cancel", !.trip = t]
  <2>1. x \in Call /\ x.pc # "create" BY <1>1 DEF Idle, Call, AdminPcs
  <2>2. AdminFree /\ Goto(c, x) BY <1>6 DEF FindTripToCancel
  <2> HIDE DEF x
  <2> QED BY <2>1, <2>2, AdminBeginsKeepsSchedule
<1> QED BY <1>2, <1>3, <1>4, <1>5, <1>6 DEF Arrive

LEMMA ContinueKeepsSchedule ==
  ASSUME ScheduleInv, NEW c \in Calls, Continue(c) PROVE ScheduleInv'
<1>1. /\ now \in Times /\ Idle \in Call /\ Idle.pc \notin AdminPcs
      /\ call[c] \in Call
  BY TripAssumption DEF ScheduleInv, Times, Idle, Call, AdminPcs
<1>2. ASSUME NEW t \in TripIds PROVE trip[t] \in TripRow BY DEF ScheduleInv
<1>3. CASE CheckNoActive(c)
  <2> DEFINE x == [call[c] EXCEPT !.pc = "start", !.at = now]
  <2>1. x \in Call /\ x.pc \notin AdminPcs BY <1>1 DEF Call, DriverPcs, AdminPcs
  <2>2. Goto(c, x) \/ Goto(c, Idle) BY <1>3 DEF CheckNoActive
  <2> HIDE DEF x
  <2> QED BY <1>1, <2>1, <2>2, GotoKeepsSchedule
<1>4. CASE Start(c)
  <2> DEFINE r == [trip[call[c].trip] EXCEPT !.status = "IN_PROGRESS",
                                             !.startedAt = call[c].at]
  <2>1. call[c].trip \in TripIds => r \in TripRow /\ r.status # "SCHEDULED"
    <3>1. call[c].at \in Times BY <1>1 DEF Call
    <3>2. ASSUME NEW w \in TripRow, NEW at \in Times
          PROVE  LET v == [w EXCEPT !.status = "IN_PROGRESS", !.startedAt = at]
                 IN  v \in TripRow /\ v.status # "SCHEDULED"
      BY DEF TripRow, TripStatus
    <3> QED BY <1>2, <3>1, <3>2
  <2>2. Update(c, r) BY <1>4 DEF Start
  <2> HIDE DEF r
  <2> QED BY <2>1, <2>2, UpdateKeepsSchedule
<1>5. CASE End(c)
  <2> DEFINE r == [trip[call[c].trip] EXCEPT !.status = "COMPLETED",
                                             !.endedAt = call[c].at]
  <2>1. call[c].trip \in TripIds => r \in TripRow /\ r.status # "SCHEDULED"
    <3>1. call[c].at \in Times BY <1>1 DEF Call
    <3>2. ASSUME NEW w \in TripRow, NEW at \in Times
          PROVE  LET v == [w EXCEPT !.status = "COMPLETED", !.endedAt = at]
                 IN  v \in TripRow /\ v.status # "SCHEDULED"
      BY DEF TripRow, TripStatus
    <3> QED BY <1>2, <3>1, <3>2
  <2>2. Update(c, r) BY <1>5 DEF End
  <2> HIDE DEF r
  <2> QED BY <2>1, <2>2, UpdateKeepsSchedule
<1>6. CASE Create(c) BY <1>6, CreateKeepsSchedule
<1>7. CASE Cancel(c)
  <2> DEFINE r == [trip[call[c].trip] EXCEPT !.status = "CANCELLED"]
  <2>1. call[c].trip \in TripIds => r \in TripRow /\ r.status # "SCHEDULED"
    BY <1>1, <1>2 DEF Call, TripRow, TripStatus
  <2>2. Update(c, r) BY <1>7 DEF Cancel
  <2> HIDE DEF r
  <2> QED BY <2>1, <2>2, UpdateKeepsSchedule
<1>8. CASE FindActiveTrip(c)
  <2>1. ASSUME NEW t \in Active(call[c].driver),
               Goto(c, [call[c] EXCEPT !.pc = "log", !.trip = t])
        PROVE  ScheduleInv'
    <3> DEFINE x == [call[c] EXCEPT !.pc = "log", !.trip = t]
    <3>1. x \in Call /\ x.pc \notin AdminPcs BY <1>1 DEF Call, DriverPcs, AdminPcs, Active
    <3>2. Goto(c, x) BY <2>1
    <3> HIDE DEF x
    <3> QED BY <3>1, <3>2, GotoKeepsSchedule
  <2> QED BY <1>1, <1>8, <2>1, GotoKeepsSchedule DEF FindActiveTrip
<1>9. CASE LogScan(c)
  <2>1. UNCHANGED <<now, trip>> /\ call' = [call EXCEPT ![c] = Idle]
    BY <1>9 DEF LogScan
  <2>2. call' \in [Calls -> Call] /\ AdminsKept BY <1>1, <2>1 DEF ScheduleInv, AdminsKept
  <2>3. Schedules BY <2>1 DEF Schedules
  <2> QED BY <2>1, <2>2, <2>3, OthersKeepSchedule DEF ScheduleInv
<1>10. CASE Fail(c) BY <1>1, <1>10, GotoKeepsSchedule DEF Fail
<1> QED BY <1>3, <1>4, <1>5, <1>6, <1>7, <1>8, <1>9, <1>10 DEF Continue

\* Administrators who act one at a time never have two trips of one driver
\* scheduled on a day, however drivers start and end trips between the look for a
\* conflict and the insert of createTrip.
THEOREM OneScheduledPerDayAlways ==
  ASSUME SequentialAdmins PROVE Spec => []OneScheduledPerDay
<1>1. Init => ScheduleInv
  <2> SUFFICES ASSUME Init PROVE ScheduleInv OBVIOUS
  <2>1. NoTrip \in TripRow /\ NoTrip.status # "SCHEDULED"
    BY DEF NoTrip, TripRow, TripStatus
  <2>2. Idle \in Call /\ Idle.pc \notin AdminPcs /\ Idle.pc # "create" /\ 0 \in Times
    BY TripAssumption DEF Idle, Call, Times, AdminPcs
  <2> QED BY <2>1, <2>2 DEF Init, ScheduleInv, OneScheduledPerDay
<1>2. ScheduleInv /\ [Next]_vars => ScheduleInv'
  <2> SUFFICES ASSUME ScheduleInv, [Next]_vars PROVE ScheduleInv' OBVIOUS
  <2>1. ASSUME UNCHANGED <<trip, call>>, now' \in Times PROVE ScheduleInv'
    <3>1. Schedules /\ AdminsKept BY <2>1 DEF Schedules, AdminsKept
    <3> QED BY <2>1, <3>1, OthersKeepSchedule DEF ScheduleInv
  <2>2. ASSUME NEW s \in DeviceScans, NEW d \in Drivers, ScanOffline(s, d)
        PROVE  ScheduleInv'
    BY <2>1, <2>2 DEF ScanOffline, ScheduleInv
  <2>3. ASSUME NEW s \in DeviceScans, ResolveTripId(s) \/ LogOffline(s)
        PROVE  ScheduleInv'
    BY <2>1, <2>3 DEF ResolveTripId, LogOffline, ScheduleInv
  <2>4. CASE Tick
    <3>1. now' \in Times BY <2>4, TripAssumption DEF Tick, ScheduleInv, Times
    <3> QED BY <2>1, <2>4, <3>1 DEF Tick
  <2>5. CASE UNCHANGED vars BY <2>1, <2>5 DEF vars, ScheduleInv
  <2> QED BY <2>2, <2>3, <2>4, <2>5, ArriveKeepsSchedule, ContinueKeepsSchedule DEF Next
<1>3. ScheduleInv => OneScheduledPerDay BY DEF ScheduleInv
<1> QED BY <1>1, <1>2, <1>3, PTL DEF Spec
================================================================================
