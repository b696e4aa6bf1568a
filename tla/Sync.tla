---------------------------------- MODULE Sync ----------------------------------
(***************************************************************************)
(* SyncService.processScan: one scan of a POST /sync/validations batch.    *)
(* reconcile processes a batch one scan after the other, and a batch that  *)
(* fails half way is sent again: both are interleavings of single scans.   *)
(* The handler reads the ticket, looks for the row an earlier delivery of  *)
(* the scan left, decides on its copy of the ticket, updates the ticket by *)
(* id and then inserts the scan event.                                     *)
(*                                                                         *)
(* A device scans an issued ticket after its purchase, its clock is right. *)
(***************************************************************************)
EXTENDS TicketStore

CONSTANT OfflineScans   \* ids of scans delivered to the server

VARIABLE syn            \* the local state of each of them

SyncIdle == [pc |-> "idle", driver |-> NULL, ticket |-> NULL, at |-> 0,
             inspection |-> FALSE, status |-> "NONE", usedAt |-> NULL,
             result |-> NULL]

SyncPcs == {"fetch", "decide", "moveUsedAt", "markUsed", "reverse", "log"}

SyncLocal ==
  [pc: {"idle", "done", "skipped", "crashed"} \cup SyncPcs,
   driver: Drivers \cup {NULL}, ticket: Tickets \cup {NULL}, at: Times,
   inspection: BOOLEAN, status: TicketStatus, usedAt: Times \cup {NULL},
   result: ScanResult \cup {NULL}]

SyncTypeOK == syn \in [OfflineScans -> SyncLocal]

SyncInit == syn = [o \in OfflineScans |-> SyncIdle]

StartSync(o, d, t, at, inspection) ==
  /\ syn[o].pc = "idle"
  /\ Issued(t)
  /\ at \in (ticket[t].expiresAt - TicketTTL)..now
  /\ syn' = [syn EXCEPT ![o] =
       [SyncIdle EXCEPT !.pc = "fetch", !.driver = d, !.ticket = t,
                        !.at = at, !.inspection = inspection]]
  /\ UNCHANGED store

\* The signature does not verify, or the payload names no ticket: the item is
\* reported INVALID and nothing is written.
RejectUnverified(o) ==
  /\ syn[o].pc = "idle"
  /\ syn' = [syn EXCEPT ![o] = [@ EXCEPT !.pc = "done",
                                         !.result = "INVALID_SIGNATURE"]]
  /\ UNCHANGED store

FetchForSync(o) ==
  LET t == syn[o].ticket IN
  /\ syn[o].pc = "fetch"
  /\ syn' = [syn EXCEPT ![o] = [@ EXCEPT !.pc = "decide",
                                         !.status = ticket[t].status,
                                         !.usedAt = ticket[t].usedAt]]
  /\ UNCHANGED store

\* Mutant: it is the online rows that are looked through.
ProcessedOnline(o) ==
  {e \in scanEvents : /\ ~e.offline
                      /\ e.ticket = syn[o].ticket
                      /\ e.driver = syn[o].driver
                      /\ e.at = syn[o].at}

\* The offline rows with this scan's ticket, driver and scannedAt.
Processed(o) ==
  {e \in scanEvents : /\ e.offline
                      /\ e.ticket = syn[o].ticket
                      /\ e.driver = syn[o].driver
                      /\ e.at = syn[o].at}

\* Re-sync idempotency: the item is answered with the stored result.
SkipProcessed(o) ==
  /\ syn[o].pc = "decide"
  /\ \E e \in Processed(o) :
       syn' = [syn EXCEPT ![o] = [@ EXCEPT !.pc = "skipped",
                                           !.result = e.result,
                                           !.status = "NONE", !.usedAt = NULL]]
  /\ UNCHANGED store

\* Mutant: the look for an earlier delivery is left out.
NewUnchecked(o) == syn[o].pc = "decide"

\* The scan is new: the first check that applies says where the handler goes.
New(o) == syn[o].pc = "decide" /\ Processed(o) = {}

Decide(o, pc, result) ==
  /\ syn' = [syn EXCEPT ![o] = [@ EXCEPT !.pc = pc, !.result = result,
                                         !.status = "NONE", !.usedAt = NULL]]
  /\ UNCHANGED store

Late(o) == Expired(syn[o].ticket, syn[o].at)

UsedOnServer(o) == syn[o].status = "USED" /\ syn[o].usedAt # NULL

LateScan(o) == New(o) /\ Late(o) /\ Decide(o, "log", "EXPIRED")

ServerWins(o) ==
  /\ New(o) /\ ~Late(o) /\ UsedOnServer(o)
  /\ syn[o].usedAt <= syn[o].at
  /\ Decide(o, "log", "ALREADY_USED")

\* Mutant: the comparison is the wrong way round.
LaterWins(o) ==
  /\ New(o) /\ ~Late(o) /\ UsedOnServer(o)
  /\ syn[o].usedAt < syn[o].at
  /\ IF syn[o].inspection THEN Decide(o, "log", "INSPECTION_ONLY")
                          ELSE Decide(o, "moveUsedAt", NULL)

OfflineWins(o) ==
  /\ New(o) /\ ~Late(o) /\ UsedOnServer(o)
  /\ syn[o].usedAt > syn[o].at
  /\ IF syn[o].inspection THEN Decide(o, "log", "INSPECTION_ONLY")
                          ELSE Decide(o, "moveUsedAt", NULL)

OfflineInspection(o) ==
  /\ New(o) /\ ~Late(o) /\ ~UsedOnServer(o) /\ syn[o].inspection
  /\ Decide(o, "log", "INSPECTION_ONLY")

\* Mutant: a refunded ticket is used like any other.
FirstUseUnreversed(o) ==
  /\ New(o) /\ ~Late(o) /\ ~UsedOnServer(o) /\ ~syn[o].inspection
  /\ Decide(o, "markUsed", NULL)

FirstUse(o) ==
  /\ New(o) /\ ~Late(o) /\ ~UsedOnServer(o) /\ ~syn[o].inspection
  /\ Decide(o, IF syn[o].status = "REFUNDED" THEN "reverse" ELSE "markUsed",
            NULL)

\* The ticket is written by id; the scan will be logged VALID.
Write(o, pc) ==
  /\ syn[o].pc = pc
  /\ Unlocked(syn[o].ticket)
  /\ syn' = [syn EXCEPT ![o] = [@ EXCEPT !.pc = "log", !.result = "VALID"]]
  /\ UNCHANGED <<now, rowLock, scanEvents>>

MoveUsedAt(o) ==
  /\ Write(o, "moveUsedAt")
  /\ ticket' = [ticket EXCEPT ![syn[o].ticket].usedAt = syn[o].at]
  /\ UNCHANGED <<balance, ledger>>

MarkUsed(o) ==
  LET t == syn[o].ticket IN
  /\ Write(o, "markUsed")
  /\ ticket' = [ticket EXCEPT ![t] = [@ EXCEPT !.status = "USED",
                                              !.usedAt = syn[o].at]]
  /\ UNCHANGED <<balance, ledger>>

\* The passenger boarded before the expiry job ran: one transaction takes the
\* refund back, with an atomic decrement that checks no balance.
ReverseRefund(o) ==
  LET t == syn[o].ticket IN
  /\ Write(o, "reverse")
  /\ ticket' = [ticket EXCEPT ![t] = [@ EXCEPT !.status = "USED",
                                               !.usedAt = syn[o].at,
                                               !.refundedAt = NULL]]
  /\ balance' = [balance EXCEPT ![Owner[t]] = @ - Fare[t]]
  /\ ledger' = [ledger EXCEPT ![t].reversals = @ + 1]

LogOffline(o) ==
  /\ syn[o].pc = "log"
  /\ syn' = [syn EXCEPT ![o].pc = "done"]
  /\ InsertScanEvent(o, syn[o].driver, syn[o].ticket, syn[o].at,
                     syn[o].result, TRUE)
  /\ UNCHANGED <<now, ticket, rowLock, balance, ledger>>

CrashSync(o) ==
  /\ syn[o].pc \in SyncPcs
  /\ syn' = [syn EXCEPT ![o] = [@ EXCEPT !.pc = "crashed", !.status = "NONE",
                                         !.usedAt = NULL]]
  /\ UNCHANGED store

SyncStep(o) ==
  \/ FetchForSync(o) \/ SkipProcessed(o)
  \/ LateScan(o) \/ ServerWins(o) \/ OfflineWins(o) \/ OfflineInspection(o)
  \/ FirstUse(o)
  \/ MoveUsedAt(o) \/ MarkUsed(o) \/ ReverseRefund(o)
  \/ LogOffline(o) \/ CrashSync(o)

SyncLocalsOK ==
  \A o \in OfflineScans :
    /\ syn[o].pc \in SyncPcs =>
         syn[o].driver \in Drivers /\ syn[o].ticket \in Tickets
    /\ syn[o].pc = "log" => syn[o].result \in ScanResult

SyncInFlight == {o \in OfflineScans : syn[o].pc \in SyncPcs}
================================================================================
