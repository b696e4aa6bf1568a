--------------------------------- MODULE Trips ---------------------------------
(***************************************************************************)
(* Trips: drivers start and end them, administrators create and cancel     *)
(* them, and every scan is recorded with the trip it was made on.  An      *)
(* online scan looks for the driver's trip in progress, an offline scan is *)
(* delivered later and takes the trip that was under way at scannedAt.     *)
(*                                                                         *)
(* Each handler reads a row, decides, and updates it by id in a statement  *)
(* of its own, so that handlers overwrite what they did not read.          *)
(* Statuses and times decide; routes, buses and the audit log do not.      *)
(***************************************************************************)
EXTENDS Integers

CONSTANTS
  TripIds,            \* rows of trips, created one after the other
  Drivers,
  Days,               \* the days trips are scheduled for
  Calls,              \* slots for the handlers at work
  DeviceScans,        \* scans made while the driver's device is off line
  SequentialDrivers,  \* a driver waits for the answer to the last request
  SequentialAdmins,   \* and so do the administrators among themselves
  MaxTime,            \* bound on the clock
  NULL

ASSUME TripAssumption ==
  /\ SequentialDrivers \in BOOLEAN
  /\ SequentialAdmins \in BOOLEAN
  /\ MaxTime \in Nat
  /\ NULL \notin Drivers \cup TripIds \cup Days \cup Nat

VARIABLES
  now,      \* the server clock, and the devices' own
  trip,     \* the rows of trips
  call,     \* the handlers at work
  device,   \* the scans kept on devices, and what became of them
  scans     \* scan_events, by trip and scannedAt

vars == <<now, trip, call, device, scans>>

Times == 0..MaxTime

TripStatus == {"NONE", "SCHEDULED", "IN_PROGRESS", "COMPLETED", "CANCELLED"}

TripRow ==
  [status: TripStatus, driver: Drivers \cup {NULL}, day: Days \cup {NULL},
   startedAt: Times \cup {NULL}, endedAt: Times \cup {NULL}]

NoTrip == [status |-> "NONE", driver |-> NULL, day |-> NULL,
           startedAt |-> NULL, endedAt |-> NULL]

DriverPcs == {"checkActive", "start", "end", "findTrip", "log"}
AdminPcs == {"create", "cancel"}

Call ==
  [pc: {"idle"} \cup DriverPcs \cup AdminPcs, driver: Drivers \cup {NULL},
   trip: TripIds \cup {NULL}, day: Days \cup {NULL}, at: Times]

Idle == [pc |-> "idle", driver |-> NULL, trip |-> NULL, day |-> NULL, at |-> 0]

\* A scan on a device: on is the trip that was in progress when it was made
\* (only properties look at it), trip the one the server finds for it.
DeviceScan ==
  [pc: {"none", "made", "resolved", "done"}, driver: Drivers \cup {NULL},
   at: Times, on: TripIds \cup {NULL}, trip: TripIds \cup {NULL}]

NoScan == [pc |-> "none", driver |-> NULL, at |-> 0, on |-> NULL, trip |-> NULL]

TypeOK ==
  /\ now \in Times
  /\ trip \in [TripIds -> TripRow]
  /\ call \in [Calls -> Call]
  /\ device \in [DeviceScans -> DeviceScan]
  /\ scans \subseteq [trip: TripIds \cup {NULL}, at: Times]

Init ==
  /\ now = 0
  /\ trip = [t \in TripIds |-> NoTrip]
  /\ call = [c \in Calls |-> Idle]
  /\ device = [s \in DeviceScans |-> NoScan]
  /\ scans = {}

-----------------------------------------------------------------------------
\* A driver or an administrator may send the next request.
DriverFree(d) ==
  SequentialDrivers =>
    \A c \in Calls : call[c].pc \in DriverPcs => call[c].driver # d

AdminFree == SequentialAdmins => \A c \in Calls : call[c].pc \notin AdminPcs

\* The trips of a driver that are in progress.
Active(d) ==
  {t \in TripIds : trip[t].driver = d /\ trip[t].status = "IN_PROGRESS"}

Goto(c, next) ==
  /\ call' = [call EXCEPT ![c] = next]
  /\ UNCHANGED <<now, trip, device, scans>>

\* The handler updates the row of its trip by id and ends.
Update(c, row) ==
  /\ trip' = [trip EXCEPT ![call[c].trip] = row]
  /\ call' = [call EXCEPT ![c] = Idle]
  /\ UNCHANGED <<now, device, scans>>

-----------------------------------------------------------------------------
(* startTrip *)

FindTripToStart(c, d, t) ==
  /\ call[c].pc = "idle" /\ DriverFree(d)
  /\ trip[t].driver = d
  /\ trip[t].status = "SCHEDULED"
  /\ Goto(c, [Idle EXCEPT !.pc = "checkActive", !.driver = d, !.trip = t])

\* Mutant: the look for a trip in progress is left out.
CheckNothing(c) ==
  /\ call[c].pc = "checkActive"
  /\ Goto(c, [call[c] EXCEPT !.pc = "start", !.at = now])

\* A driver with a trip in progress is refused (409).
CheckNoActive(c) ==
  /\ call[c].pc = "checkActive"
  /\ \/ /\ Active(call[c].driver) = {}
        /\ Goto(c, [call[c] EXCEPT !.pc = "start", !.at = now])
     \/ /\ Active(call[c].driver) # {}
        /\ Goto(c, Idle)

Start(c) ==
  /\ call[c].pc = "start"
  /\ Update(c, [trip[call[c].trip] EXCEPT !.status = "IN_PROGRESS",
                                          !.startedAt = call[c].at])

(* endTrip *)

FindTripToEnd(c, d, t) ==
  /\ call[c].pc = "idle" /\ DriverFree(d)
  /\ trip[t].driver = d
  /\ trip[t].status = "IN_PROGRESS"
  /\ Goto(c, [Idle EXCEPT !.pc = "end", !.driver = d, !.trip = t, !.at = now])

End(c) ==
  /\ call[c].pc = "end"
  /\ Update(c, [trip[call[c].trip] EXCEPT !.status = "COMPLETED",
                                          !.endedAt = call[c].at])

-----------------------------------------------------------------------------
(* createTrip and cancelTrip of the administrators *)

\* Mutant: only a trip in progress counts as a conflict.
NoRunningConflict(d, day) ==
  \A t \in TripIds :
    trip[t].driver = d /\ trip[t].day = day => trip[t].status # "IN_PROGRESS"

\* No trip of the driver on that day, cancelled ones aside.
NoConflict(d, day) ==
  \A t \in TripIds :
    trip[t].driver = d /\ trip[t].day = day => trip[t].status = "CANCELLED"

CheckConflict(c, d, day) ==
  /\ call[c].pc = "idle" /\ AdminFree
  /\ NoConflict(d, day)
  /\ Goto(c, [Idle EXCEPT !.pc = "create", !.driver = d, !.day = day])

Create(c) ==
  /\ call[c].pc = "create"
  /\ \E t \in TripIds :
       /\ trip[t].status = "NONE"
       /\ trip' = [trip EXCEPT ![t] =
            [NoTrip EXCEPT !.status = "SCHEDULED", !.driver = call[c].driver,
                           !.day = call[c].day]]
  /\ call' = [call EXCEPT ![c] = Idle]
  /\ UNCHANGED <<now, device, scans>>

FindTripToCancel(c, t) ==
  /\ call[c].pc = "idle" /\ AdminFree
  /\ trip[t].status = "SCHEDULED"
  /\ Goto(c, [Idle EXCEPT !.pc = "cancel", !.trip = t])

\* Mutant: the row is written as it was read, not only its status.
CancelWholeRow(c) ==
  /\ call[c].pc = "cancel"
  /\ Update(c, [trip[call[c].trip] EXCEPT !.status = "CANCELLED",
                                          !.startedAt = NULL, !.endedAt = NULL])

Cancel(c) ==
  /\ call[c].pc = "cancel"
  /\ Update(c, [trip[call[c].trip] EXCEPT !.status = "CANCELLED"])

-----------------------------------------------------------------------------
(* validateTicket: the trip of an online scan *)

ScanArrives(c, d) ==
  /\ call[c].pc = "idle" /\ DriverFree(d)
  /\ Goto(c, [Idle EXCEPT !.pc = "findTrip", !.driver = d, !.at = now])

\* Mutant: any trip the driver started will do.
FindStarted(c) ==
  /\ call[c].pc = "findTrip"
  /\ \E t \in TripIds :
       /\ trip[t].driver = call[c].driver /\ trip[t].startedAt # NULL
       /\ Goto(c, [call[c] EXCEPT !.pc = "log", !.trip = t])

\* getActiveTrip; without one the scan is refused (404).
FindActiveTrip(c) ==
  /\ call[c].pc = "findTrip"
  /\ \/ \E t \in Active(call[c].driver) :
          Goto(c, [call[c] EXCEPT !.pc = "log", !.trip = t])
     \/ Active(call[c].driver) = {} /\ Goto(c, Idle)

Log(t, at) == scans' = scans \cup {[trip |-> t, at |-> at]}

LogScan(c) ==
  /\ call[c].pc = "log"
  /\ Log(call[c].trip, call[c].at)
  /\ call' = [call EXCEPT ![c] = Idle]
  /\ UNCHANGED <<now, trip, device>>

(* processScan: the trip of an offline scan *)

\* The driver scans while the device is off line, on a trip or not.
ScanOffline(s, d) ==
  /\ device[s].pc = "none" /\ DriverFree(d)
  /\ \E on \in IF Active(d) = {} THEN {NULL} ELSE Active(d) :
       device' = [device EXCEPT ![s] =
         [NoScan EXCEPT !.pc = "made", !.driver = d, !.at = now, !.on = on]]
  /\ UNCHANGED <<now, trip, call, scans>>

\* Mutant: the last moment of a trip is not part of it.
OpenInterval(t, d, at) ==
  /\ trip[t].driver = d
  /\ trip[t].startedAt # NULL /\ trip[t].startedAt <= at
  /\ trip[t].endedAt # NULL => at < trip[t].endedAt

\* The trip of driver d was under way at a moment, whatever its status.
UnderWay(t, d, at) ==
  /\ trip[t].driver = d
  /\ trip[t].startedAt # NULL /\ trip[t].startedAt <= at
  /\ trip[t].endedAt # NULL => at <= trip[t].endedAt

\* resolveTripId: the first of them in no particular order, or none.
ResolveTripId(s) ==
  LET found == {t \in TripIds : UnderWay(t, device[s].driver, device[s].at)} IN
  /\ device[s].pc = "made"
  /\ \E t \in IF found = {} THEN {NULL} ELSE found :
       device' = [device EXCEPT ![s].pc = "resolved", ![s].trip = t]
  /\ UNCHANGED <<now, trip, call, scans>>

LogOffline(s) ==
  /\ device[s].pc = "resolved"
  /\ Log(device[s].trip, device[s].at)
  /\ device' = [device EXCEPT ![s].pc = "done"]
  /\ UNCHANGED <<now, trip, call>>

-----------------------------------------------------------------------------
\* The handler fails or dies before its next statement.
Fail(c) ==
  /\ call[c].pc # "idle"
  /\ Goto(c, Idle)

Tick ==
  /\ now < MaxTime
  /\ now' = now + 1
  /\ UNCHANGED <<trip, call, device, scans>>

Arrive(c) ==
  \/ \E d \in Drivers : ScanArrives(c, d)
  \/ \E d \in Drivers, t \in TripIds : FindTripToStart(c, d, t) \/ FindTripToEnd(c, d, t)
  \/ \E d \in Drivers, day \in Days : CheckConflict(c, d, day)
  \/ \E t \in TripIds : FindTripToCancel(c, t)

Continue(c) ==
  \/ CheckNoActive(c) \/ Start(c) \/ End(c) \/ Create(c) \/ Cancel(c)
  \/ FindActiveTrip(c) \/ LogScan(c) \/ Fail(c)

Next ==
  \/ \E c \in Calls : Arrive(c) \/ Continue(c)
  \/ \E s \in DeviceScans, d \in Drivers : ScanOffline(s, d)
  \/ \E s \in DeviceScans : ResolveTripId(s) \/ LogOffline(s)
  \/ Tick

Spec == Init /\ [][Next]_vars

-----------------------------------------------------------------------------
\* A driver who waits for each answer never has two trips in progress, although
\* startTrip looks for one in a statement of its own and whatever administrators
\* cancel or create meanwhile.
OneActiveTrip ==
  \A t, u \in TripIds :
    /\ trip[t].status = "IN_PROGRESS" /\ trip[u].status = "IN_PROGRESS"
    /\ trip[t].driver = trip[u].driver
    => t = u

\* The times of a trip, by which offline scans find it, are written once: no
\* handler that decided on an older copy of the row starts or ends a trip again.
TimesKept ==
  [][\A t \in TripIds :
       /\ trip[t].startedAt # NULL => trip'[t].startedAt = trip[t].startedAt
       /\ trip[t].endedAt # NULL => trip'[t].endedAt = trip[t].endedAt]_vars

\* A scan event lies within the trip it is recorded with, although the scan took
\* its time before it looked for the trip and was logged when the trip may have
\* ended, or was delivered long after.
ScanWithinTrip ==
  \A e \in scans : e.trip # NULL =>
    /\ trip[e.trip].startedAt # NULL /\ trip[e.trip].startedAt <= e.at
    /\ trip[e.trip].endedAt # NULL => e.at <= trip[e.trip].endedAt

\* A scan made off line during a trip is recorded with that trip, however late it
\* is delivered.  It may be recorded with another only at the moment one begins or
\* ends, or if that other was cancelled under way: such a trip never ends.
OfflineScanAttributed ==
  \A s \in DeviceScans :
    /\ device[s].pc \in {"resolved", "done"}
    /\ device[s].on # NULL
    => /\ device[s].trip # NULL
       /\ device[s].trip # device[s].on =>
            \/ trip[device[s].trip].status = "CANCELLED"
            \/ device[s].at \in {trip[device[s].trip].startedAt,
                                 trip[device[s].trip].endedAt}

\* Administrators who act one at a time never schedule a driver twice on a day:
\* of two trips that were not called off, one has been started.
OneScheduledPerDay ==
  \A t, u \in TripIds :
    /\ trip[t].status = "SCHEDULED" /\ trip[u].status = "SCHEDULED"
    /\ trip[t].driver = trip[u].driver /\ trip[t].day = trip[u].day
    => t = u
================================================================================
