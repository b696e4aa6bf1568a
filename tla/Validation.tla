------------------------------- MODULE Validation -------------------------------
(***************************************************************************)
(* ValidationService.validateTicket: one online scan.  The handler reads   *)
(* the ticket, checks it against that copy and the clock, claims it with a *)
(* conditional update and logs a scan event, each its own statement.       *)
(*                                                                         *)
(* Whether the driver has an active trip is left open (NoActiveTrip).  The *)
(* anomaly audit, dispatched after the answer, writes no row of this store.*)
(***************************************************************************)
EXTENDS TicketStore

CONSTANT OnlineScans    \* ids of POST /tickets/validate requests

VARIABLE scan           \* the local state of each request

ScanIdle == [pc |-> "idle", driver |-> NULL, ticket |-> NULL, at |-> 0,
             inspection |-> FALSE, status |-> "NONE", result |-> NULL]

ScanPcs == {"fetch", "check", "claim", "log"}

ScanLocal ==
  [pc: {"idle", "done", "crashed"} \cup ScanPcs,
   driver: Drivers \cup {NULL}, ticket: Tickets \cup {NULL}, at: Times,
   inspection: BOOLEAN, status: TicketStatus, result: ScanResult \cup {NULL}]

ScanTypeOK == scan \in [OnlineScans -> ScanLocal]

ValidationInit == scan = [s \in OnlineScans |-> ScanIdle]

\* The request arrives with a genuine QR code; scannedAt is the server's clock.
StartValidation(s, d, t, inspection) ==
  /\ scan[s].pc = "idle"
  /\ Issued(t)
  /\ scan' = [scan EXCEPT ![s] =
       [ScanIdle EXCEPT !.pc = "fetch", !.driver = d, !.ticket = t,
                        !.at = now, !.inspection = inspection]]
  /\ UNCHANGED store

\* The signature does not verify: the attempt is logged before any read.
RejectForged(s, d, t) ==
  /\ scan[s].pc = "idle"
  /\ Issued(t)
  /\ scan' = [scan EXCEPT ![s] = [@ EXCEPT !.pc = "done",
                                           !.result = "INVALID_SIGNATURE"]]
  /\ InsertScanEvent(s, d, t, now, "INVALID_SIGNATURE", FALSE)
  /\ UNCHANGED <<now, ticket, rowLock, balance, ledger>>

FetchTicket(s) ==
  /\ scan[s].pc = "fetch"
  /\ scan' = [scan EXCEPT ![s] = [@ EXCEPT !.pc = "check",
                                           !.status = ticket[scan[s].ticket].status]]
  /\ UNCHANGED store

\* getActiveTrip found nothing: 404.
NoActiveTrip(s) ==
  /\ scan[s].pc = "check"
  /\ scan' = [scan EXCEPT ![s] = [@ EXCEPT !.pc = "done", !.status = "NONE"]]
  /\ UNCHANGED store

\* The handler has its result and goes on to log it.
ToLog(s, result) ==
  scan' = [scan EXCEPT ![s] = [@ EXCEPT !.pc = "log", !.result = result,
                                        !.status = "NONE"]]

RejectExpired(s) ==
  /\ scan[s].pc = "check"
  /\ Expired(scan[s].ticket, now)
  /\ ToLog(s, "EXPIRED")
  /\ UNCHANGED store

RejectUsed(s) ==
  /\ scan[s].pc = "check"
  /\ ~Expired(scan[s].ticket, now)
  /\ ~scan[s].inspection
  /\ scan[s].status = "USED"
  /\ ToLog(s, "ALREADY_USED")
  /\ UNCHANGED store

Inspect(s) ==
  /\ scan[s].pc = "check"
  /\ ~Expired(scan[s].ticket, now)
  /\ scan[s].inspection
  /\ ToLog(s, "INSPECTION_ONLY")
  /\ UNCHANGED store

\* Mutant: the expiry check is left out.
PassExpired(s) ==
  /\ scan[s].pc = "check"
  /\ ~scan[s].inspection
  /\ scan[s].status # "USED"
  /\ scan' = [scan EXCEPT ![s] = [@ EXCEPT !.pc = "claim", !.status = "NONE"]]
  /\ UNCHANGED store

PassChecks(s) ==
  /\ scan[s].pc = "check"
  /\ ~Expired(scan[s].ticket, now)
  /\ ~scan[s].inspection
  /\ scan[s].status # "USED"
  /\ scan' = [scan EXCEPT ![s] = [@ EXCEPT !.pc = "claim", !.status = "NONE"]]
  /\ UNCHANGED store

\* Mutant: the ticket is updated by id, whatever its status is by now.
ClaimById(s) ==
  LET t == scan[s].ticket IN
  /\ scan[s].pc = "claim"
  /\ Unlocked(t)
  /\ ticket' = [ticket EXCEPT ![t] = [@ EXCEPT !.status = "USED",
                                               !.usedAt = scan[s].at]]
  /\ ToLog(s, "VALID")
  /\ UNCHANGED <<now, rowLock, balance, ledger, scanEvents>>

\* Mutant: an admitted passenger is answered before the scan is logged.
ClaimAndReturn(s) ==
  LET t == scan[s].ticket IN
  /\ scan[s].pc = "claim"
  /\ Unlocked(t)
  /\ \/ /\ ticket[t].status = "ACTIVE"
        /\ ticket' = [ticket EXCEPT ![t] = [@ EXCEPT !.status = "USED",
                                                     !.usedAt = scan[s].at]]
        /\ scan' = [scan EXCEPT ![s] = [@ EXCEPT !.pc = "done", !.result = "VALID"]]
     \/ /\ ticket[t].status # "ACTIVE"
        /\ ToLog(s, "ALREADY_USED")
        /\ UNCHANGED ticket
  /\ UNCHANGED <<now, rowLock, balance, ledger, scanEvents>>

\* updateMany ... where status = ACTIVE: it waits for the row, then decides on
\* the committed status.
ClaimTicket(s) ==
  LET t == scan[s].ticket IN
  /\ scan[s].pc = "claim"
  /\ Unlocked(t)
  /\ \/ /\ ticket[t].status = "ACTIVE"
        /\ ticket' = [ticket EXCEPT ![t] = [@ EXCEPT !.status = "USED",
                                                     !.usedAt = scan[s].at]]
        /\ ToLog(s, "VALID")
     \/ /\ ticket[t].status # "ACTIVE"
        /\ ToLog(s, "ALREADY_USED")
        /\ UNCHANGED ticket
  /\ UNCHANGED <<now, rowLock, balance, ledger, scanEvents>>

LogScan(s) ==
  /\ scan[s].pc = "log"
  /\ scan' = [scan EXCEPT ![s].pc = "done"]
  /\ InsertScanEvent(s, scan[s].driver, scan[s].ticket, scan[s].at,
                     scan[s].result, FALSE)
  /\ UNCHANGED <<now, ticket, rowLock, balance, ledger>>

\* The handler dies between two statements: what it committed stays.
CrashScan(s) ==
  /\ scan[s].pc \in ScanPcs
  /\ scan' = [scan EXCEPT ![s] = [@ EXCEPT !.pc = "crashed", !.status = "NONE"]]
  /\ UNCHANGED store

ValidationStep(s) ==
  \/ FetchTicket(s)   \/ NoActiveTrip(s) \/ RejectExpired(s) \/ RejectUsed(s)
  \/ Inspect(s)       \/ PassChecks(s)   \/ ClaimTicket(s)   \/ LogScan(s)
  \/ CrashScan(s)

\* A request at work has its driver and its ticket, one about to log its result.
ScanLocalsOK ==
  \A s \in OnlineScans :
    /\ scan[s].pc \in ScanPcs =>
         scan[s].driver \in Drivers /\ scan[s].ticket \in Tickets
    /\ scan[s].pc = "log" => scan[s].result \in ScanResult

ScanInFlight == {s \in OnlineScans : scan[s].pc \in ScanPcs}

\* The scan let its passenger board: its conditional update found the ticket
\* ACTIVE.  (It may die before it says so.)
Admitted(s) == scan[s].result = "VALID"
================================================================================
