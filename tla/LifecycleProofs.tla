----------------------------- MODULE LifecycleProofs -----------------------------
(***************************************************************************)
(* Proofs of the safety properties of TicketLifecycle that hold however    *)
(* many handlers overlap, for every value of the constants: type           *)
(* correctness; single admission, use in time and refund after expiry;     *)
(* what the wallet transactions and the scan events of a ticket say of it; *)
(* and that all reports see of the handlers are the steps of ScanLog.      *)
(***************************************************************************)
EXTENDS TicketLifecycle, TLAPS

-----------------------------------------------------------------------------
(* Type correctness.  TypeOK is not inductive by itself: a handler that logs *)
(* a scan event needs its driver, ticket and result to be there.             *)

TypeInv == TypeOK /\ LocalsOK

LEMMA InitType == Init => TypeInv
  BY StoreAssumption, JobAssumption
  DEF Init, StoreInit, PurchaseInit, ValidationInit, SyncInit, JobInit, TypeInv,
      TypeOK, StoreTypeOK, BuyTypeOK, ScanTypeOK, SyncTypeOK, RunTypeOK, LocalsOK, ScanLocal, SyncLocal, RunLocal, TicketRow, LedgerRow,
      ScanLocalsOK, SyncLocalsOK, RunLocalsOK, BuyIdle, ScanIdle, SyncIdle,
      RunIdle, NoTicket, TicketStatus, ScanPcs, SyncPcs, Times

\* What a step leaves alone keeps its type.
LEMMA BuyFrame == ASSUME BuyTypeOK, UNCHANGED buy PROVE BuyTypeOK'
  BY DEF BuyTypeOK

LEMMA ScanFrame ==
  ASSUME ScanTypeOK, ScanLocalsOK, UNCHANGED scan
  PROVE  ScanTypeOK' /\ ScanLocalsOK'
  BY DEF ScanTypeOK, ScanLocalsOK

LEMMA SyncFrame ==
  ASSUME SyncTypeOK, SyncLocalsOK, UNCHANGED syn
  PROVE  SyncTypeOK' /\ SyncLocalsOK'
  BY DEF SyncTypeOK, SyncLocalsOK

LEMMA RunFrame ==
  ASSUME RunTypeOK, RunLocalsOK, UNCHANGED run
  PROVE  RunTypeOK' /\ RunLocalsOK'
  BY DEF RunTypeOK, RunLocalsOK

\* The rows of the store, in one formula.
RowsOK ==
  /\ StoreTypeOK
  /\ rowLock \in [Tickets -> Runs \cup {NULL}]
  /\ scanEvents \subseteq
       [by: OnlineScans \cup OfflineScans, driver: Drivers, ticket: Tickets,
        at: Times, result: ScanResult, offline: BOOLEAN]

LEMMA RowsFrame == ASSUME RowsOK, UNCHANGED store PROVE RowsOK'
  BY DEF RowsOK, StoreTypeOK, store

LEMMA TypeInvParts ==
  TypeInv <=> /\ RowsOK /\ BuyTypeOK /\ ScanTypeOK /\ ScanLocalsOK
              /\ SyncTypeOK /\ SyncLocalsOK /\ RunTypeOK /\ RunLocalsOK
  BY DEF TypeInv, TypeOK, LocalsOK, RowsOK

LEMMA TypeInvPartsNext ==
  TypeInv' <=> /\ RowsOK' /\ BuyTypeOK' /\ ScanTypeOK' /\ ScanLocalsOK'
               /\ SyncTypeOK' /\ SyncLocalsOK' /\ RunTypeOK' /\ RunLocalsOK'
  BY DEF TypeInv, TypeOK, LocalsOK, RowsOK

\* The literals the handlers write.
LEMMA Literals ==
  /\ {"NONE", "ACTIVE", "USED", "REFUNDED"} \subseteq TicketStatus
  /\ {"VALID", "ALREADY_USED", "EXPIRED", "INSPECTION_ONLY",
      "INVALID_SIGNATURE"} \subseteq ScanResult
  BY DEF TicketStatus, ScanResult

\* Purchase steps keep the types.
LEMMA PurchaseType ==
  ASSUME TypeInv, NEW t \in Tickets, StartPurchase(t) \/ PurchaseStep(t)
  PROVE  RowsOK' /\ BuyTypeOK'
<1> USE TypeInvParts
<1>1. CASE StartPurchase(t)
  <2>1. BuyTypeOK' BY <1>1 DEF StartPurchase, BuyTypeOK, RowsOK, StoreTypeOK
  <2>2. QED BY <1>1, <2>1, RowsFrame DEF StartPurchase
<1>2. CASE RejectInsufficient(t)
  <2>1. BuyTypeOK' BY <1>2 DEF RejectInsufficient, BuyTypeOK
  <2>2. QED BY <1>2, <2>1, RowsFrame DEF RejectInsufficient
<1>3. CASE ReadWallet(t)
  <2>1. balance[Owner[t]] \in Int
    BY StoreAssumption DEF RowsOK, StoreTypeOK
  <2>2. BuyTypeOK' BY <1>3, <2>1 DEF ReadWallet, BuyTypeOK
  <2>3. QED BY <1>3, <2>2, RowsFrame DEF ReadWallet
<1>4. CASE CommitPurchase(t)
  <2>1. BuyTypeOK' BY <1>4 DEF CommitPurchase, BuyTypeOK
  <2>2. buy[t].at \in Nat /\ buy[t].read \in Int
    BY DEF BuyTypeOK, Times
  <2>3. balance' \in [Passengers -> Int]
    <3>1. Fare[t] \in Nat BY StoreAssumption
    <3>2. buy[t].read - Fare[t] \in Int BY <2>2, <3>1
    <3>3. QED BY <1>4, <3>2 DEF CommitPurchase, RowsOK, StoreTypeOK
  <2>4. ledger' \in [Tickets -> LedgerRow]
    BY <1>4 DEF CommitPurchase, RowsOK, StoreTypeOK, LedgerRow
  <2>5. ticket' \in [Tickets -> TicketRow]
    BY <1>4, <2>2, StoreAssumption
    DEF CommitPurchase, RowsOK, StoreTypeOK, TicketRow, TicketStatus
  <2>6. QED BY <1>4, <2>1, <2>3, <2>4, <2>5 DEF CommitPurchase, RowsOK, StoreTypeOK
<1>5. CASE AbortPurchase(t)
  <2>1. BuyTypeOK' BY <1>5 DEF AbortPurchase, BuyTypeOK
  <2>2. QED BY <1>5, <2>1, RowsFrame DEF AbortPurchase
<1>6. QED BY <1>1, <1>2, <1>3, <1>4, <1>5 DEF PurchaseStep

\* A row added to scan_events by a request of this system is well typed.
LEMMA EventType ==
  ASSUME RowsOK, UNCHANGED <<now, ticket, rowLock, balance, ledger>>,
         NEW by \in OnlineScans \cup OfflineScans, NEW d \in Drivers,
         NEW t \in Tickets, NEW at \in Times, NEW result \in ScanResult,
         NEW isOffline \in BOOLEAN,
         InsertScanEvent(by, d, t, at, result, isOffline)
  PROVE  RowsOK'
  BY DEF RowsOK, StoreTypeOK, InsertScanEvent

\* A request moves to well typed locals.
LEMMA ScanMove ==
  ASSUME ScanTypeOK, ScanLocalsOK, NEW s \in OnlineScans, NEW r \in ScanLocal,
         scan' = [scan EXCEPT ![s] = r],
         r.pc \in ScanPcs => r.driver \in Drivers /\ r.ticket \in Tickets,
         r.pc = "log" => r.result \in ScanResult
  PROVE  ScanTypeOK' /\ ScanLocalsOK'
  BY DEF ScanTypeOK, ScanLocalsOK

LEMMA SyncMove ==
  ASSUME SyncTypeOK, SyncLocalsOK, NEW o \in OfflineScans, NEW r \in SyncLocal,
         syn' = [syn EXCEPT ![o] = r],
         r.pc \in SyncPcs => r.driver \in Drivers /\ r.ticket \in Tickets,
         r.pc = "log" => r.result \in ScanResult
  PROVE  SyncTypeOK' /\ SyncLocalsOK'
  BY DEF SyncTypeOK, SyncLocalsOK

\* Online scans keep the types.
LEMMA ValidationType ==
  ASSUME TypeInv, NEW s \in OnlineScans,
         \/ ValidationStep(s)
         \/ \E d \in Drivers, t \in Tickets :
              \/ \E inspection \in BOOLEAN : StartValidation(s, d, t, inspection)
              \/ RejectForged(s, d, t)
  PROVE  RowsOK' /\ ScanTypeOK' /\ ScanLocalsOK'
<1> USE TypeInvParts, Literals
<1> DEFINE Moved == ScanTypeOK' /\ ScanLocalsOK'
<1>1. ASSUME NEW d \in Drivers, NEW t \in Tickets, NEW inspection \in BOOLEAN,
             StartValidation(s, d, t, inspection)
      PROVE  RowsOK' /\ Moved
  <2> DEFINE r == [ScanIdle EXCEPT !.pc = "fetch", !.driver = d, !.ticket = t,
                                   !.at = now, !.inspection = inspection]
  <2>1. now \in Times BY DEF RowsOK, StoreTypeOK
  <2>2. /\ "NONE" \in TicketStatus /\ "fetch" \in ScanPcs
        /\ NULL \in ScanResult \cup {NULL}
    BY DEF TicketStatus, ScanPcs
  <2>3. /\ r \in ScanLocal /\ r.pc = "fetch"
        /\ r.driver \in Drivers /\ r.ticket \in Tickets
    BY <2>1, <2>2 DEF ScanIdle, ScanLocal
  <2>4. Moved
    <3>1. scan' = [scan EXCEPT ![s] = r] BY <1>1 DEF StartValidation
    <3> HIDE DEF r
    <3>2. QED BY <2>3, <3>1, ScanMove
  <2>5. QED BY <1>1, <2>4, RowsFrame DEF StartValidation
<1>2. ASSUME NEW d \in Drivers, NEW t \in Tickets, RejectForged(s, d, t)
      PROVE  RowsOK' /\ Moved
  <2> DEFINE r == [scan[s] EXCEPT !.pc = "done", !.result = "INVALID_SIGNATURE"]
  <2>1. Moved
    <3>1. r \in ScanLocal /\ r.pc = "done" BY DEF ScanTypeOK, ScanLocal
    <3>2. r.pc \notin ScanPcs BY <3>1 DEF ScanPcs
    <3>3. scan' = [scan EXCEPT ![s] = r] BY <1>2 DEF RejectForged
    <3> HIDE DEF r
    <3>4. QED BY <3>1, <3>2, <3>3, ScanMove
  <2>2. "INVALID_SIGNATURE" \in ScanResult /\ now \in Times
    BY DEF RowsOK, StoreTypeOK
  <2>3. QED BY <1>2, <2>1, <2>2, EventType DEF RejectForged
<1>3. CASE FetchTicket(s)
  <2>1. ticket[scan[s].ticket].status \in TicketStatus
    BY <1>3 DEF FetchTicket, ScanLocalsOK, ScanPcs, RowsOK, StoreTypeOK, TicketRow
  <2> DEFINE r == [scan[s] EXCEPT !.pc = "check",
                                  !.status = ticket[scan[s].ticket].status]
  <2>2. Moved
    <3>1. /\ r \in ScanLocal /\ r.pc = "check"
          /\ r.driver = scan[s].driver /\ r.ticket = scan[s].ticket
      BY <2>1 DEF ScanTypeOK, ScanLocal, ScanPcs
    <3>2. scan[s].driver \in Drivers /\ scan[s].ticket \in Tickets
      BY <1>3 DEF FetchTicket, ScanLocalsOK, ScanPcs
    <3>3. scan' = [scan EXCEPT ![s] = r] BY <1>3 DEF FetchTicket
    <3> HIDE DEF r
    <3>4. QED BY <3>1, <3>2, <3>3, ScanMove
  <2>3. QED BY <1>3, <2>2, RowsFrame DEF FetchTicket
<1>4. CASE NoActiveTrip(s)
  <2> DEFINE r == [scan[s] EXCEPT !.pc = "done", !.status = "NONE"]
  <2>1. Moved
    <3>1. r \in ScanLocal /\ r.pc = "done" BY DEF ScanTypeOK, ScanLocal
    <3>2. r.pc \notin ScanPcs BY <3>1 DEF ScanPcs
    <3>3. scan' = [scan EXCEPT ![s] = r] BY <1>4 DEF NoActiveTrip
    <3> HIDE DEF r
    <3>4. QED BY <3>1, <3>2, <3>3, ScanMove
  <2>2. QED BY <1>4, <2>1, RowsFrame DEF NoActiveTrip
<1>5. ASSUME NEW result \in ScanResult, ToLog(s, result), scan[s].pc \in ScanPcs
      PROVE  Moved
  <2> DEFINE r == [scan[s] EXCEPT !.pc = "log", !.result = result,
                                  !.status = "NONE"]
  <2>1. /\ r \in ScanLocal /\ r.result = result
        /\ r.driver = scan[s].driver /\ r.ticket = scan[s].ticket
    BY DEF ScanTypeOK, ScanLocal, ScanPcs
  <2>2. scan[s].driver \in Drivers /\ scan[s].ticket \in Tickets
    BY <1>5 DEF ScanLocalsOK
  <2>3. scan' = [scan EXCEPT ![s] = r] BY <1>5 DEF ToLog
  <2> HIDE DEF r
  <2>4. QED BY <2>1, <2>2, <2>3, ScanMove
<1>6. CASE RejectExpired(s) \/ RejectUsed(s) \/ Inspect(s)
  BY <1>5, <1>6, RowsFrame
  DEF RejectExpired, RejectUsed, Inspect, ScanPcs, ScanResult
<1>7. CASE PassChecks(s)
  <2> DEFINE r == [scan[s] EXCEPT !.pc = "claim", !.status = "NONE"]
  <2>1. Moved
    <3>1. /\ r \in ScanLocal /\ r.pc = "claim"
          /\ r.driver = scan[s].driver /\ r.ticket = scan[s].ticket
      BY DEF ScanTypeOK, ScanLocal, ScanPcs
    <3>2. scan[s].driver \in Drivers /\ scan[s].ticket \in Tickets
      BY <1>7 DEF PassChecks, ScanLocalsOK, ScanPcs
    <3>3. scan' = [scan EXCEPT ![s] = r] BY <1>7 DEF PassChecks
    <3> HIDE DEF r
    <3>4. QED BY <3>1, <3>2, <3>3, ScanMove
  <2>2. QED BY <1>7, <2>1, RowsFrame DEF PassChecks
<1>8. CASE ClaimTicket(s)
  <2>1. Moved
    BY <1>5, <1>8 DEF ClaimTicket, ScanPcs
  <2>2. scan[s].ticket \in Tickets /\ scan[s].at \in Times
    BY <1>8 DEF ClaimTicket, ScanTypeOK, ScanLocal, ScanLocalsOK, ScanPcs
  <2>3. RowsOK'
    <3>1. CASE UNCHANGED ticket
      BY <1>8, <3>1 DEF ClaimTicket, RowsOK, StoreTypeOK
    <3>2. CASE ticket' = [ticket EXCEPT ![scan[s].ticket] =
                           [@ EXCEPT !.status = "USED", !.usedAt = scan[s].at]]
      <4>1. ticket' \in [Tickets -> TicketRow]
        BY <2>2, <3>2 DEF RowsOK, StoreTypeOK, TicketRow
      <4>2. QED BY <1>8, <4>1 DEF ClaimTicket, RowsOK, StoreTypeOK
    <3>3. QED BY <1>8, <3>1, <3>2 DEF ClaimTicket
  <2>4. QED BY <2>1, <2>3
<1>9. CASE LogScan(s)
  <2> DEFINE r == [scan[s] EXCEPT !.pc = "done"]
  <2>1. Moved
    <3>1. r \in ScanLocal /\ r.pc = "done" BY DEF ScanTypeOK, ScanLocal
    <3>2. r.pc \notin ScanPcs BY <3>1 DEF ScanPcs
    <3>3. scan' = [scan EXCEPT ![s] = r] BY <1>9 DEF LogScan
    <3> HIDE DEF r
    <3>4. QED BY <3>1, <3>2, <3>3, ScanMove
  <2>2. /\ scan[s].driver \in Drivers /\ scan[s].ticket \in Tickets
        /\ scan[s].at \in Times /\ scan[s].result \in ScanResult
    BY <1>9 DEF LogScan, ScanTypeOK, ScanLocal, ScanLocalsOK, ScanPcs
  <2>3. QED BY <1>9, <2>1, <2>2, EventType DEF LogScan
<1>10. CASE CrashScan(s)
  <2> DEFINE r == [scan[s] EXCEPT !.pc = "crashed", !.status = "NONE"]
  <2>1. Moved
    <3>1. r \in ScanLocal /\ r.pc = "crashed" BY DEF ScanTypeOK, ScanLocal
    <3>2. r.pc \notin ScanPcs BY <3>1 DEF ScanPcs
    <3>3. scan' = [scan EXCEPT ![s] = r] BY <1>10 DEF CrashScan
    <3> HIDE DEF r
    <3>4. QED BY <3>1, <3>2, <3>3, ScanMove
  <2>2. QED BY <1>10, <2>1, RowsFrame DEF CrashScan
<1>11. QED
  BY <1>1, <1>2, <1>3, <1>4, <1>6, <1>7, <1>8, <1>9, <1>10 DEF ValidationStep

\* Deliveries of offline scans keep the types.
LEMMA SyncType ==
  ASSUME TypeInv, NEW o \in OfflineScans,
         \/ SyncStep(o) \/ RejectUnverified(o)
         \/ \E d \in Drivers, t \in Tickets, at \in Times,
              inspection \in BOOLEAN : StartSync(o, d, t, at, inspection)
  PROVE  RowsOK' /\ SyncTypeOK' /\ SyncLocalsOK'
<1> USE TypeInvParts, Literals
<1> DEFINE Moved == SyncTypeOK' /\ SyncLocalsOK'
<1>1. ASSUME NEW d \in Drivers, NEW t \in Tickets, NEW at \in Times,
             NEW inspection \in BOOLEAN, StartSync(o, d, t, at, inspection)
      PROVE  RowsOK' /\ Moved
  <2> DEFINE r == [SyncIdle EXCEPT !.pc = "fetch", !.driver = d, !.ticket = t,
                                   !.at = at, !.inspection = inspection]
  <2>1. /\ r \in SyncLocal /\ r.pc = "fetch"
        /\ r.driver \in Drivers /\ r.ticket \in Tickets
    BY DEF SyncIdle, SyncLocal, SyncPcs
  <2>2. Moved
    <3>1. syn' = [syn EXCEPT ![o] = r] BY <1>1 DEF StartSync
    <3> HIDE DEF r
    <3>2. QED BY <2>1, <3>1, SyncMove
  <2>3. QED BY <1>1, <2>2, RowsFrame DEF StartSync
<1>2. CASE RejectUnverified(o)
  <2> DEFINE r == [syn[o] EXCEPT !.pc = "done", !.result = "INVALID_SIGNATURE"]
  <2>1. r \in SyncLocal /\ r.pc = "done" BY DEF SyncTypeOK, SyncLocal
  <2>2. r.pc \notin SyncPcs BY <2>1 DEF SyncPcs
  <2>3. Moved
    <3>1. syn' = [syn EXCEPT ![o] = r] BY <1>2 DEF RejectUnverified
    <3> HIDE DEF r
    <3>2. QED BY <2>1, <2>2, <3>1, SyncMove
  <2>4. QED BY <1>2, <2>3, RowsFrame DEF RejectUnverified
<1>3. CASE FetchForSync(o)
  <2>1. /\ ticket[syn[o].ticket].status \in TicketStatus
        /\ ticket[syn[o].ticket].usedAt \in Times \cup {NULL}
    BY <1>3 DEF FetchForSync, SyncLocalsOK, SyncPcs, RowsOK, StoreTypeOK, TicketRow
  <2> DEFINE r == [syn[o] EXCEPT !.pc = "decide",
                                 !.status = ticket[syn[o].ticket].status,
                                 !.usedAt = ticket[syn[o].ticket].usedAt]
  <2>2. Moved
    <3>1. /\ r \in SyncLocal /\ r.pc = "decide"
          /\ r.driver = syn[o].driver /\ r.ticket = syn[o].ticket
      BY <2>1 DEF SyncTypeOK, SyncLocal, SyncPcs
    <3>2. syn[o].driver \in Drivers /\ syn[o].ticket \in Tickets
      BY <1>3 DEF FetchForSync, SyncLocalsOK, SyncPcs
    <3>3. syn' = [syn EXCEPT ![o] = r] BY <1>3 DEF FetchForSync
    <3> HIDE DEF r
    <3>4. QED BY <3>1, <3>2, <3>3, SyncMove
  <2>3. QED BY <1>3, <2>2, RowsFrame DEF FetchForSync
<1>4. CASE SkipProcessed(o)
  <2>1. PICK e \in Processed(o) :
          syn' = [syn EXCEPT ![o] = [@ EXCEPT !.pc = "skipped",
                                              !.result = e.result,
                                              !.status = "NONE",
                                              !.usedAt = NULL]]
    BY <1>4 DEF SkipProcessed
  <2>2. e.result \in ScanResult BY DEF Processed, RowsOK
  <2> DEFINE r == [syn[o] EXCEPT !.pc = "skipped", !.result = e.result,
                                 !.status = "NONE", !.usedAt = NULL]
  <2>3. r \in SyncLocal /\ r.pc = "skipped"
    BY <2>2 DEF SyncTypeOK, SyncLocal
  <2>4. r.pc \notin SyncPcs BY <2>3 DEF SyncPcs
  <2>5. Moved
    <3> HIDE DEF r
    <3>1. syn' = [syn EXCEPT ![o] = r] BY <2>1 DEF r
    <3>2. QED BY <2>3, <2>4, <3>1, SyncMove
  <2>6. QED BY <1>4, <2>5, RowsFrame DEF SkipProcessed
<1>5. ASSUME NEW pc \in SyncPcs, NEW result \in ScanResult \cup {NULL},
             pc = "log" => result \in ScanResult, New(o), Decide(o, pc, result)
      PROVE  RowsOK' /\ Moved
  <2> DEFINE r == [syn[o] EXCEPT !.pc = pc, !.result = result,
                                 !.status = "NONE", !.usedAt = NULL]
  <2>1. Moved
    <3>1. r \in SyncLocal /\ r.pc = pc /\ r.result = result
      BY <1>5 DEF SyncTypeOK, SyncLocal
    <3>2. r.driver = syn[o].driver /\ r.ticket = syn[o].ticket
      BY DEF SyncTypeOK, SyncLocal
    <3>3. syn[o].driver \in Drivers /\ syn[o].ticket \in Tickets
      BY <1>5 DEF New, SyncLocalsOK, SyncPcs
    <3>4. syn' = [syn EXCEPT ![o] = r] BY <1>5 DEF Decide
    <3> HIDE DEF r
    <3>5. QED BY <1>5, <3>1, <3>2, <3>3, <3>4, SyncMove
  <2>2. QED BY <1>5, <2>1, RowsFrame DEF Decide
<1>6. CASE LateScan(o) \/ ServerWins(o) \/ OfflineInspection(o)
  <2>1. "log" \in SyncPcs BY DEF SyncPcs
  <2>2. QED BY <1>5, <1>6, <2>1 DEF LateScan, ServerWins, OfflineInspection
<1>7. CASE OfflineWins(o) \/ FirstUse(o)
  <2>1. {"log", "moveUsedAt", "reverse", "markUsed"} \subseteq SyncPcs
    BY DEF SyncPcs
  <2>2. CASE OfflineWins(o) BY <1>5, <2>1, <2>2 DEF OfflineWins
  <2>3. CASE FirstUse(o) BY <1>5, <2>1, <2>3 DEF FirstUse
  <2>4. QED BY <1>7, <2>2, <2>3
<1>8. ASSUME NEW pc \in {"moveUsedAt", "markUsed", "reverse"}, Write(o, pc)
      PROVE  /\ Moved
             /\ syn[o].ticket \in Tickets /\ syn[o].at \in Times
  <2> DEFINE r == [syn[o] EXCEPT !.pc = "log", !.result = "VALID"]
  <2>1. /\ r \in SyncLocal /\ r.result = "VALID"
        /\ r.driver = syn[o].driver /\ r.ticket = syn[o].ticket
    BY DEF SyncTypeOK, SyncLocal, SyncPcs
  <2>2. /\ syn[o].driver \in Drivers /\ syn[o].ticket \in Tickets
        /\ syn[o].at \in Times
    BY <1>8 DEF Write, SyncTypeOK, SyncLocal, SyncLocalsOK, SyncPcs
  <2>3. syn' = [syn EXCEPT ![o] = r] BY <1>8 DEF Write
  <2> HIDE DEF r
  <2>4. QED BY <2>1, <2>2, <2>3, SyncMove
<1>9. CASE MoveUsedAt(o)
  <2>1. Moved /\ syn[o].ticket \in Tickets /\ syn[o].at \in Times
    BY <1>8, <1>9 DEF MoveUsedAt
  <2>2. RowsOK' BY <1>9, <2>1 DEF MoveUsedAt, Write, RowsOK, StoreTypeOK, TicketRow
  <2>3. QED BY <2>1, <2>2
<1>10. CASE MarkUsed(o)
  <2>1. Moved /\ syn[o].ticket \in Tickets /\ syn[o].at \in Times
    BY <1>8, <1>10 DEF MarkUsed
  <2>2. RowsOK' BY <1>10, <2>1 DEF MarkUsed, Write, RowsOK, StoreTypeOK, TicketRow
  <2>3. QED BY <2>1, <2>2
<1>11. CASE ReverseRefund(o)
  <2> DEFINE t == syn[o].ticket
  <2>1. Moved /\ t \in Tickets /\ syn[o].at \in Times
    BY <1>8, <1>11 DEF ReverseRefund
  <2>2. ticket' \in [Tickets -> TicketRow]
    BY <1>11, <2>1 DEF ReverseRefund, RowsOK, StoreTypeOK, TicketRow
  <2>3. balance' \in [Passengers -> Int]
    <3>1. Owner[t] \in Passengers /\ Fare[t] \in Nat BY <2>1, StoreAssumption
    <3>2. QED BY <1>11, <3>1 DEF ReverseRefund, RowsOK, StoreTypeOK
  <2>4. ledger' \in [Tickets -> LedgerRow]
    <3>1. ASSUME NEW u \in Tickets,
                 ledger' = [ledger EXCEPT ![u].reversals = @ + 1]
          PROVE  ledger' \in [Tickets -> LedgerRow]
      BY <3>1 DEF RowsOK, StoreTypeOK, LedgerRow
    <3>2. QED BY <1>11, <2>1, <3>1 DEF ReverseRefund
  <2>5. QED
    BY <1>11, <2>1, <2>2, <2>3, <2>4
    DEF ReverseRefund, Write, RowsOK, StoreTypeOK
<1>12. CASE LogOffline(o)
  <2> DEFINE r == [syn[o] EXCEPT !.pc = "done"]
  <2>1. Moved
    <3>1. r \in SyncLocal /\ r.pc = "done" BY DEF SyncTypeOK, SyncLocal
    <3>2. r.pc \notin SyncPcs BY <3>1 DEF SyncPcs
    <3>3. syn' = [syn EXCEPT ![o] = r] BY <1>12 DEF LogOffline
    <3> HIDE DEF r
    <3>4. QED BY <3>1, <3>2, <3>3, SyncMove
  <2>2. /\ syn[o].driver \in Drivers /\ syn[o].ticket \in Tickets
        /\ syn[o].at \in Times /\ syn[o].result \in ScanResult
    BY <1>12 DEF LogOffline, SyncTypeOK, SyncLocal, SyncLocalsOK, SyncPcs
  <2>3. QED BY <1>12, <2>1, <2>2, EventType DEF LogOffline
<1>13. CASE CrashSync(o)
  <2> DEFINE r == [syn[o] EXCEPT !.pc = "crashed", !.status = "NONE",
                                 !.usedAt = NULL]
  <2>1. Moved
    <3>1. r \in SyncLocal /\ r.pc = "crashed" BY DEF SyncTypeOK, SyncLocal
    <3>2. r.pc \notin SyncPcs BY <3>1 DEF SyncPcs
    <3>3. syn' = [syn EXCEPT ![o] = r] BY <1>13 DEF CrashSync
    <3> HIDE DEF r
    <3>4. QED BY <3>1, <3>2, <3>3, SyncMove
  <2>2. QED BY <1>13, <2>1, RowsFrame DEF CrashSync
<1>14. QED
  BY <1>1, <1>2, <1>3, <1>4, <1>6, <1>7, <1>9, <1>10, <1>11, <1>12, <1>13
  DEF SyncStep

\* Runs of the job keep the types.
LEMMA RunMove ==
  ASSUME RunTypeOK, RunLocalsOK, NEW j \in Runs, NEW r \in RunLocal,
         run' = [run EXCEPT ![j] = r],
         r.pc \in {"readWallet", "commit"} => r.cur \in r.todo
  PROVE  RunTypeOK' /\ RunLocalsOK'
  BY DEF RunTypeOK, RunLocalsOK

LEMMA RunRecords ==
  /\ RunIdle \in RunLocal /\ RunIdle.pc = "idle"
  /\ [RunIdle EXCEPT !.pc = "again"] \in RunLocal
  /\ [RunIdle EXCEPT !.pc = "again"].pc = "again"
  /\ \A B \in SUBSET Tickets, full \in BOOLEAN :
       LET r == [RunIdle EXCEPT !.pc = "next", !.todo = B, !.full = full]
       IN  r \in RunLocal /\ r.pc = "next"
<1>1. RunIdle \in RunLocal /\ RunIdle.pc = "idle" BY DEF RunIdle, RunLocal
<1>2. QED BY <1>1 DEF RunLocal

LEMMA JobType ==
  ASSUME TypeInv, NEW j \in Runs, FindExpired(j) \/ JobStep(j)
  PROVE  RowsOK' /\ RunTypeOK' /\ RunLocalsOK'
<1> USE TypeInvParts
<1> DEFINE Moved == RunTypeOK' /\ RunLocalsOK'
<1>1. CASE FindExpired(j)
  <2>1. ASSUME NEW B \in SUBSET Tickets
        PROVE  LET r == [RunIdle EXCEPT !.pc = "next", !.todo = B,
                                        !.full = (Cardinality(B) = BatchSize)]
               IN  r \in RunLocal /\ r.pc = "next"
    BY RunRecords
  <2>2. \A B \in Batches : B \in SUBSET Tickets BY DEF Batches, Expirable
  <2>3. PICK B \in Batches :
          run' = [run EXCEPT ![j] = IF B = {} THEN RunIdle ELSE
                    [RunIdle EXCEPT !.pc = "next", !.todo = B,
                                    !.full = (Cardinality(B) = BatchSize)]]
    BY <1>1 DEF FindExpired
  <2>4. Moved BY <2>1, <2>2, <2>3, RunMove, RunRecords
  <2>5. QED BY <1>1, <2>4, RowsFrame DEF FindExpired
<1>2. ASSUME NEW t \in Tickets, ExpireTicket(j, t)
      PROVE  RowsOK' /\ Moved
  <2> DEFINE r == [run[j] EXCEPT !.pc = "readWallet", !.cur = t]
  <2>1. r \in RunLocal /\ r.cur = t /\ r.todo = run[j].todo
    BY DEF RunTypeOK, RunLocal
  <2>2. Moved
    <3>1. run' = [run EXCEPT ![j] = r] BY <1>2 DEF ExpireTicket
    <3>2. t \in run[j].todo BY <1>2 DEF ExpireTicket
    <3> HIDE DEF r
    <3>3. QED BY <2>1, <3>1, <3>2, RunMove
  <2>3. RowsOK' BY <1>2 DEF ExpireTicket, RowsOK, StoreTypeOK
  <2>4. QED BY <2>2, <2>3
<1>3. CASE ReadWalletForCredit(j)
  <2> DEFINE r == [run[j] EXCEPT !.pc = "commit",
                                 !.read = balance[Owner[run[j].cur]]]
  <2>1. run[j].cur \in run[j].todo /\ run[j].cur \in Tickets
    BY <1>3 DEF ReadWalletForCredit, RunLocalsOK, RunTypeOK, RunLocal
  <2>2. balance[Owner[run[j].cur]] \in Int
    BY <2>1, StoreAssumption DEF RowsOK, StoreTypeOK
  <2>3. r \in RunLocal /\ r.cur = run[j].cur /\ r.todo = run[j].todo
    BY <2>2 DEF RunTypeOK, RunLocal
  <2>4. Moved
    <3>1. run' = [run EXCEPT ![j] = r] BY <1>3 DEF ReadWalletForCredit
    <3> HIDE DEF r
    <3>2. QED BY <2>1, <2>3, <3>1, RunMove
  <2>5. QED BY <1>3, <2>4, RowsFrame DEF ReadWalletForCredit
<1>4. ASSUME Release(j), run[j].cur \in Tickets
      PROVE  Moved /\ rowLock' \in [Tickets -> Runs \cup {NULL}]
  <2> DEFINE r == [run[j] EXCEPT !.pc = "next",
                                 !.todo = run[j].todo \ {run[j].cur},
                                 !.cur = NULL, !.read = 0]
  <2>1. r \in RunLocal /\ r.pc = "next"
    <3>1. ASSUME NEW l \in RunLocal, NEW T \in SUBSET Tickets,
                 NEW c \in Tickets \cup {NULL}, NEW n \in Int
          PROVE  LET q == [l EXCEPT !.pc = "next", !.todo = T, !.cur = c, !.read = n]
                 IN  q \in RunLocal /\ q.pc = "next"
      BY DEF RunLocal
    <3>2. run[j] \in RunLocal BY DEF RunTypeOK
    <3>3. run[j].todo \ {run[j].cur} \in SUBSET Tickets
      BY <3>2 DEF RunLocal
    <3>4. NULL \in Tickets \cup {NULL} /\ 0 \in Int OBVIOUS
    <3>5. QED BY <3>1, <3>2, <3>3, <3>4
  <2>2. Moved
    <3>1. run' = [run EXCEPT ![j] = r] BY <1>4 DEF Release
    <3> HIDE DEF r
    <3>2. QED BY <2>1, <3>1, RunMove
  <2>3. QED BY <1>4, <2>2 DEF Release, RowsOK
<1>5. CASE CommitRefund(j)
  <2>1. run[j].cur \in Tickets /\ run[j].read \in Int
    BY <1>5 DEF CommitRefund, RunLocalsOK, RunTypeOK, RunLocal
  <2>2. Moved /\ rowLock' \in [Tickets -> Runs \cup {NULL}]
    BY <1>4, <1>5, <2>1 DEF CommitRefund
  <2>3. ASSUME NEW t \in Tickets, t = run[j].cur PROVE RowsOK'
    <3>1. balance' \in [Passengers -> Int]
      <4>1. Fare[t] \in Nat /\ run[j].read + Fare[t] \in Int
        BY <2>1, StoreAssumption
      <4>2. QED BY <1>5, <2>3, <4>1 DEF CommitRefund, RowsOK, StoreTypeOK
    <3>2. ledger' \in [Tickets -> LedgerRow]
      BY <1>5, <2>3 DEF CommitRefund, RowsOK, StoreTypeOK, LedgerRow
    <3>3. ticket' \in [Tickets -> TicketRow]
      BY <1>5, <2>3, Literals DEF CommitRefund, RowsOK, StoreTypeOK, TicketRow
    <3>4. QED BY <1>5, <2>2, <3>1, <3>2, <3>3 DEF CommitRefund, RowsOK, StoreTypeOK
  <2>4. QED BY <2>1, <2>2, <2>3
<1>6. CASE RollbackRefund(j)
  <2>1. run[j].cur \in Tickets
    BY <1>6 DEF RollbackRefund, RunLocalsOK, RunTypeOK, RunLocal
  <2>2. QED BY <1>4, <1>6, <2>1 DEF RollbackRefund, RowsOK, StoreTypeOK
<1>7. CASE EndBatch(j)
  <2>1. Moved BY <1>7, RunRecords, RunMove DEF EndBatch
  <2>2. QED BY <1>7, <2>1, RowsFrame DEF EndBatch
<1>8. CASE CrashRun(j)
  <2>1. Moved BY <1>8, RunRecords, RunMove DEF CrashRun
  <2>2. QED BY <1>8, <2>1 DEF CrashRun, RowsOK, StoreTypeOK
<1>9. QED
  BY <1>1, <1>2, <1>3, <1>5, <1>6, <1>7, <1>8 DEF JobStep

LEMMA NextType == TypeInv /\ [Next]_vars => TypeInv'
<1> SUFFICES ASSUME TypeInv, [Next]_vars PROVE TypeInv'
  OBVIOUS
<1> USE TypeInvParts, TypeInvPartsNext, BuyFrame, ScanFrame, SyncFrame, RunFrame
<1>1. CASE PurchaseArrives
  BY <1>1, PurchaseType DEF PurchaseArrives
<1>2. CASE ScanArrives
  BY <1>2, ValidationType DEF ScanArrives
<1>3. CASE SyncArrives
  BY <1>3, SyncType DEF SyncArrives
<1>4. CASE RunFires
  BY <1>4, JobType DEF RunFires
<1>5. CASE (\E t \in Tickets : PurchaseStep(t)) /\ UNCHANGED <<scan, syn, run>>
  BY <1>5, PurchaseType
<1>6. CASE (\E s \in OnlineScans : ValidationStep(s)) /\ UNCHANGED <<buy, syn, run>>
  BY <1>6, ValidationType
<1>7. CASE (\E o \in OfflineScans : SyncStep(o)) /\ UNCHANGED <<buy, scan, run>>
  BY <1>7, SyncType
<1>8. CASE /\ \E j \in Runs : JobStep(j) \/ (run[j].pc = "again" /\ FindExpired(j))
           /\ UNCHANGED <<buy, scan, syn>>
  BY <1>8, JobType
<1>9. CASE Tick /\ UNCHANGED <<buy, scan, syn, run>>
  <2>1. RowsOK' BY <1>9, StoreAssumption DEF Tick, RowsOK, StoreTypeOK, Times
  <2>2. QED BY <1>9, <2>1
<1>10. CASE UNCHANGED vars
  BY <1>10, RowsFrame DEF vars
<1>11. QED
  BY <1>1, <1>2, <1>3, <1>4, <1>5, <1>6, <1>7, <1>8, <1>9, <1>10
  DEF Next, Arrivals, Handlers

\* Every row and local variable stays in its domain, and every handler at work
\* has the driver, ticket and result it is about to use.
THEOREM TypeCorrect == Spec => [](TypeOK /\ LocalsOK)
<1>1. Spec => []TypeInv BY InitType, NextType, PTL DEF Spec
<1>2. QED BY <1>1, PTL DEF TypeInv

-----------------------------------------------------------------------------
(* Single admission, use in time and refund after expiry.                    *)
(*                                                                           *)
(* The properties speak of rows; what makes them inductive speaks of the     *)
(* handlers at work: whatever a handler carries from one statement to a      *)
(* later one (a ticket it saw, a time it checked) must still be true when    *)
(* it is used.  It is, because rows only move forward: an issued ticket      *)
(* stays issued, keeps its expiresAt, and never becomes ACTIVE again.        *)

Settled(t) == ticket[t].status \in {"USED", "REFUNDED"}

\* The ticket exists once its purchase has committed.
IssuedWhenBought == \A t \in Tickets : Issued(t) <=> buy[t].pc = "bought"

ScanInv ==
  \A s \in OnlineScans :
    /\ scan[s].pc \in ScanPcs => Issued(scan[s].ticket) /\ scan[s].at <= now
    /\ scan[s].pc = "claim" => scan[s].at <= ticket[scan[s].ticket].expiresAt
    /\ Admitted(s) => scan[s].ticket \in Tickets /\ Settled(scan[s].ticket)

SyncInv ==
  \A o \in OfflineScans :
    /\ syn[o].pc \in SyncPcs => Issued(syn[o].ticket)
    /\ syn[o].pc \in {"moveUsedAt", "markUsed", "reverse"} =>
         syn[o].at <= ticket[syn[o].ticket].expiresAt

RunInv ==
  \A j \in Runs : \A t \in run[j].todo : Issued(t) /\ Expired(t, now)

RowInv ==
  \A t \in Tickets :
    /\ ticket[t].usedAt # NULL => Issued(t) /\ ticket[t].usedAt <= ticket[t].expiresAt
    /\ ledger[t].refunds > 0 => Issued(t) /\ Expired(t, now)

SafetyInv ==
  /\ IssuedWhenBought /\ ScanInv /\ SyncInv /\ RunInv /\ RowInv
  /\ SingleAdmission

-----------------------------------------------------------------------------
(* Rows move forward.                                                        *)

Forward(t) ==
  /\ Issued(t) => Issued(t)' /\ ticket'[t].expiresAt = ticket[t].expiresAt
  /\ Settled(t) => Settled(t)'

\* The statements that write a ticket row.
LEMMA TicketWriters ==
  ASSUME [Next]_vars
  PROVE  \/ UNCHANGED ticket
         \/ \E t \in Tickets : CommitPurchase(t)
         \/ \E s \in OnlineScans : ClaimTicket(s)
         \/ \E o \in OfflineScans : MoveUsedAt(o) \/ MarkUsed(o) \/ ReverseRefund(o)
         \/ \E j \in Runs : CommitRefund(j)
<1>1. CASE Arrivals
  BY <1>1
  DEF Arrivals, PurchaseArrives, ScanArrives, SyncArrives, RunFires, StartPurchase,
      StartValidation, RejectForged, StartSync, RejectUnverified, FindExpired, store
<1>2. ASSUME NEW t \in Tickets, PurchaseStep(t)
      PROVE  UNCHANGED ticket \/ CommitPurchase(t)
  BY <1>2 DEF PurchaseStep, RejectInsufficient, ReadWallet, AbortPurchase, store
<1>3. ASSUME NEW s \in OnlineScans, ValidationStep(s)
      PROVE  UNCHANGED ticket \/ ClaimTicket(s)
  BY <1>3
  DEF ValidationStep, FetchTicket, NoActiveTrip, RejectExpired, RejectUsed, Inspect,
      PassChecks, LogScan, CrashScan, store
<1>4. ASSUME NEW o \in OfflineScans, SyncStep(o)
      PROVE  UNCHANGED ticket \/ MoveUsedAt(o) \/ MarkUsed(o) \/ ReverseRefund(o)
  BY <1>4
  DEF SyncStep, FetchForSync, SkipProcessed, LateScan, ServerWins, OfflineWins,
      OfflineInspection, FirstUse, Decide, LogOffline, CrashSync, store
<1>5. ASSUME NEW j \in Runs, JobStep(j) \/ FindExpired(j)
      PROVE  UNCHANGED ticket \/ CommitRefund(j)
  BY <1>5
  DEF JobStep, FindExpired, ExpireTicket, ReadWalletForCredit, RollbackRefund,
      EndBatch, CrashRun, store
<1>6. CASE Handlers BY <1>2, <1>3, <1>4, <1>5, <1>6 DEF Handlers
<1>7. CASE Tick \/ UNCHANGED vars BY <1>7 DEF Tick, vars, store
<1>8. QED BY <1>1, <1>6, <1>7 DEF Next

\* The statements that write a wallet or a wallet transaction of a ticket.
LEMMA LedgerWriters ==
  ASSUME [Next]_vars
  PROVE  \/ UNCHANGED <<balance, ledger>>
         \/ \E t \in Tickets : CommitPurchase(t)
         \/ \E o \in OfflineScans : ReverseRefund(o)
         \/ \E j \in Runs : CommitRefund(j)
<1>1. CASE Arrivals
  BY <1>1
  DEF Arrivals, PurchaseArrives, ScanArrives, SyncArrives, RunFires, StartPurchase,
      StartValidation, RejectForged, StartSync, RejectUnverified, FindExpired, store
<1>2. ASSUME NEW t \in Tickets, PurchaseStep(t)
      PROVE  UNCHANGED <<balance, ledger>> \/ CommitPurchase(t)
  BY <1>2 DEF PurchaseStep, RejectInsufficient, ReadWallet, AbortPurchase, store
<1>3. ASSUME NEW s \in OnlineScans, ValidationStep(s)
      PROVE  UNCHANGED <<balance, ledger>>
  BY <1>3
  DEF ValidationStep, FetchTicket, NoActiveTrip, RejectExpired, RejectUsed, Inspect,
      PassChecks, ClaimTicket, LogScan, CrashScan, store
<1>4. ASSUME NEW o \in OfflineScans, SyncStep(o)
      PROVE  UNCHANGED <<balance, ledger>> \/ ReverseRefund(o)
  BY <1>4
  DEF SyncStep, FetchForSync, SkipProcessed, LateScan, ServerWins, OfflineWins,
      OfflineInspection, FirstUse, Decide, MoveUsedAt, MarkUsed, Write, LogOffline,
      CrashSync, store
<1>5. ASSUME NEW j \in Runs, JobStep(j) \/ FindExpired(j)
      PROVE  UNCHANGED <<balance, ledger>> \/ CommitRefund(j)
  BY <1>5
  DEF JobStep, FindExpired, ExpireTicket, ReadWalletForCredit, RollbackRefund,
      EndBatch, CrashRun, store
<1>6. CASE Handlers BY <1>2, <1>3, <1>4, <1>5, <1>6 DEF Handlers
<1>7. CASE Tick \/ UNCHANGED vars BY <1>7 DEF Tick, vars, store
<1>8. QED BY <1>1, <1>6, <1>7 DEF Next

LEMMA RowsMoveForward ==
  ASSUME TypeInv, SafetyInv, [Next]_vars, NEW t \in Tickets
  PROVE  Forward(t)
<1> USE TypeInvParts DEF Forward, Issued, Settled
<1>0. /\ ticket \in [Tickets -> TicketRow]
      /\ DOMAIN ticket[t] = {"status", "expiresAt", "usedAt", "refundedAt"}
  BY DEF RowsOK, StoreTypeOK, TicketRow
<1>1. CASE UNCHANGED ticket BY <1>1
<1>2. ASSUME NEW u \in Tickets, CommitPurchase(u) PROVE Forward(t)
  <2>1. ~Issued(u) BY <1>2 DEF CommitPurchase, SafetyInv, IssuedWhenBought
  <2>2. t # u => ticket'[t] = ticket[t]
    BY <1>2 DEF CommitPurchase, RowsOK, StoreTypeOK
  <2>3. QED BY <2>1, <2>2
<1>3. ASSUME NEW s \in OnlineScans, ClaimTicket(s) PROVE Forward(t)
  <2>1. CASE UNCHANGED ticket BY <2>1
  <2>2. CASE ticket' = [ticket EXCEPT ![scan[s].ticket] =
                         [@ EXCEPT !.status = "USED", !.usedAt = scan[s].at]]
    BY <2>2, <1>0
  <2>3. QED BY <1>3, <2>1, <2>2 DEF ClaimTicket
<1>4. ASSUME NEW o \in OfflineScans, MoveUsedAt(o) \/ MarkUsed(o) \/ ReverseRefund(o)
      PROVE  Forward(t)
  <2>1. CASE MoveUsedAt(o) BY <1>0, <2>1 DEF MoveUsedAt
  <2>2. CASE MarkUsed(o) BY <1>0, <2>2 DEF MarkUsed
  <2>3. CASE ReverseRefund(o) BY <1>0, <2>3 DEF ReverseRefund
  <2>4. QED BY <1>4, <2>1, <2>2, <2>3
<1>5. ASSUME NEW j \in Runs, CommitRefund(j) PROVE Forward(t)
  BY <1>5 DEF CommitRefund, RowsOK, StoreTypeOK, TicketRow
<1>6. QED BY <1>1, <1>2, <1>3, <1>4, <1>5, TicketWriters

\* Nothing but Tick moves the clock, and it moves forward.
LEMMA ClockMovesForward ==
  ASSUME TypeInv, [Next]_vars
  PROVE  now' >= now /\ now \in Int /\ now' \in Int
<1>1. now \in Int /\ now' \in Int
  BY NextType DEF TypeInv, TypeOK, StoreTypeOK, Times
<1>2. now' = now \/ now' = now + 1
  <2>1. CASE Arrivals
    BY <2>1
    DEF Arrivals, PurchaseArrives, ScanArrives, SyncArrives, RunFires, StartPurchase,
        StartValidation, RejectForged, StartSync, RejectUnverified, FindExpired, store
  <2>2. ASSUME NEW t \in Tickets, PurchaseStep(t) PROVE now' = now
    BY <2>2 DEF PurchaseStep, RejectInsufficient, ReadWallet, CommitPurchase,
                AbortPurchase, store
  <2>3. ASSUME NEW s \in OnlineScans, ValidationStep(s) PROVE now' = now
    BY <2>3
    DEF ValidationStep, FetchTicket, NoActiveTrip, RejectExpired, RejectUsed, Inspect,
        PassChecks, ClaimTicket, LogScan, CrashScan, store
  <2>4. ASSUME NEW o \in OfflineScans, SyncStep(o) PROVE now' = now
    BY <2>4
    DEF SyncStep, FetchForSync, SkipProcessed, LateScan, ServerWins, OfflineWins,
        OfflineInspection, FirstUse, Decide, MoveUsedAt, MarkUsed, ReverseRefund,
        Write, LogOffline, CrashSync, store
  <2>5. ASSUME NEW j \in Runs, JobStep(j) \/ FindExpired(j) PROVE now' = now
    BY <2>5
    DEF JobStep, FindExpired, ExpireTicket, ReadWalletForCredit, CommitRefund,
        RollbackRefund, EndBatch, CrashRun, store
  <2>6. CASE Handlers BY <2>2, <2>3, <2>4, <2>5, <2>6 DEF Handlers
  <2>7. CASE Tick \/ UNCHANGED vars BY <2>7 DEF Tick, vars, store
  <2>8. QED BY <2>1, <2>6, <2>7 DEF Next
<1>3. QED BY <1>1, <1>2

-----------------------------------------------------------------------------
(* One lemma for each part of the invariant.                                 *)

\* A step of one component is a step of no other.
LEMMA Components ==
  ASSUME [Next]_vars
  PROVE  /\ \/ UNCHANGED buy
            \/ \E t \in Tickets : StartPurchase(t) \/ PurchaseStep(t)
         /\ \/ UNCHANGED scan
            \/ \E s \in OnlineScans : ValidationStep(s)
            \/ \E s \in OnlineScans, d \in Drivers, t \in Tickets :
                 \/ \E inspection \in BOOLEAN : StartValidation(s, d, t, inspection)
                 \/ RejectForged(s, d, t)
         /\ \/ UNCHANGED syn
            \/ \E o \in OfflineScans : SyncStep(o) \/ RejectUnverified(o)
            \/ \E o \in OfflineScans, d \in Drivers, t \in Tickets, at \in Times,
                  inspection \in BOOLEAN : StartSync(o, d, t, at, inspection)
         /\ \/ UNCHANGED run
            \/ \E j \in Runs : FindExpired(j) \/ JobStep(j)
  BY DEF Next, Arrivals, Handlers, PurchaseArrives, ScanArrives, SyncArrives,
         RunFires, vars

\* The only statement that makes a purchase `bought' is its commit.
LEMMA OnlyCommitBuys ==
  ASSUME TypeInv, [Next]_vars, NEW t \in Tickets
  PROVE  /\ buy[t].pc = "bought" => buy'[t].pc = "bought"
         /\ buy'[t].pc = "bought" /\ buy[t].pc # "bought" => CommitPurchase(t)
<1>0. buy \in [Tickets -> [pc: {"idle", "readWallet", "write", "bought", "rejected",
                               "failed"}, at: Times, read: Int]]
  BY DEF TypeInv, TypeOK, BuyTypeOK
<1>1. CASE UNCHANGED buy BY <1>1
<1>2. ASSUME NEW u \in Tickets, StartPurchase(u) \/ PurchaseStep(u)
      PROVE  /\ buy[t].pc = "bought" => buy'[t].pc = "bought"
             /\ buy'[t].pc = "bought" /\ buy[t].pc # "bought" => CommitPurchase(t)
  <2>1. CASE StartPurchase(u) BY <1>0, <2>1 DEF StartPurchase
  <2>2. CASE RejectInsufficient(u) BY <1>0, <2>2 DEF RejectInsufficient
  <2>3. CASE ReadWallet(u) BY <1>0, <2>3 DEF ReadWallet
  <2>4. CASE CommitPurchase(u)
    <3>1. t # u => buy'[t] = buy[t] BY <1>0, <2>4 DEF CommitPurchase
    <3>2. buy[u].pc = "write" BY <2>4 DEF CommitPurchase
    <3>3. QED BY <2>4, <3>1, <3>2
  <2>5. CASE AbortPurchase(u) BY <1>0, <2>5 DEF AbortPurchase
  <2>6. QED BY <1>2, <2>1, <2>2, <2>3, <2>4, <2>5 DEF PurchaseStep
<1>3. QED BY <1>1, <1>2, Components

LEMMA OnlyCommitIssues ==
  ASSUME TypeInv, SafetyInv, [Next]_vars, NEW t \in Tickets, ~Issued(t), Issued(t)'
  PROVE  CommitPurchase(t)
<1> USE DEF Issued
<1>0. ticket \in [Tickets -> TicketRow]
  BY TypeInvParts DEF RowsOK, StoreTypeOK
<1>1. ASSUME NEW u \in Tickets, CommitPurchase(u) PROVE u = t
  BY <1>0, <1>1 DEF CommitPurchase
<1>2. ASSUME NEW s \in OnlineScans, ClaimTicket(s) PROVE FALSE
  BY <1>0, <1>2 DEF ClaimTicket
<1>3. ASSUME NEW o \in OfflineScans, MoveUsedAt(o) \/ MarkUsed(o) \/ ReverseRefund(o)
      PROVE  FALSE
  <2>1. syn[o].ticket # t
    BY <1>3 DEF MoveUsedAt, MarkUsed, ReverseRefund, Write, SafetyInv, SyncInv, SyncPcs
  <2>2. ticket'[t] = ticket[t]
    BY <1>0, <1>3, <2>1 DEF MoveUsedAt, MarkUsed, ReverseRefund
  <2>3. QED BY <2>2
<1>4. ASSUME NEW j \in Runs, CommitRefund(j) PROVE FALSE
  <2>1. run[j].cur # t
    BY <1>4, TypeInvParts DEF CommitRefund, RunLocalsOK, SafetyInv, RunInv
  <2>2. ticket'[t] = ticket[t] BY <1>0, <1>4, <2>1 DEF CommitRefund
  <2>3. QED BY <2>2
<1>5. QED BY <1>1, <1>2, <1>3, <1>4, TicketWriters

LEMMA NextIssuedWhenBought ==
  ASSUME TypeInv, SafetyInv, [Next]_vars PROVE IssuedWhenBought'
<1> SUFFICES ASSUME NEW t \in Tickets PROVE Issued(t)' <=> buy'[t].pc = "bought"
  BY DEF IssuedWhenBought
<1>1. Issued(t) <=> buy[t].pc = "bought" BY DEF SafetyInv, IssuedWhenBought
<1>2. CommitPurchase(t) => Issued(t)' /\ buy'[t].pc = "bought"
  <2>1. ticket \in [Tickets -> TicketRow] /\ DOMAIN buy = Tickets
        /\ DOMAIN buy[t] = {"pc", "at", "read"}
    BY TypeInvParts DEF RowsOK, StoreTypeOK, BuyTypeOK
  <2>2. QED BY <2>1 DEF CommitPurchase, Issued
<1>3. QED
  BY <1>1, <1>2, RowsMoveForward, OnlyCommitBuys, OnlyCommitIssues DEF Forward

\* What ScanInv says of one request.
ScanOK(s) ==
  /\ scan[s].pc \in ScanPcs => Issued(scan[s].ticket) /\ scan[s].at <= now
  /\ scan[s].pc = "claim" => scan[s].at <= ticket[scan[s].ticket].expiresAt
  /\ Admitted(s) => scan[s].ticket \in Tickets /\ Settled(scan[s].ticket)

\* A request that does not move keeps it, since rows and clock move forward.
LEMMA ScanStays ==
  ASSUME TypeInv, SafetyInv, [Next]_vars, NEW s \in OnlineScans,
         scan'[s] = scan[s]
  PROVE  ScanOK(s)'
<1>1. ScanOK(s) BY DEF ScanOK, SafetyInv, ScanInv
<1>2. scan[s].at \in Int BY TypeInvParts DEF ScanTypeOK, ScanLocal, Times
<1>3. scan[s].pc \in ScanPcs => scan[s].ticket \in Tickets
  BY TypeInvParts DEF ScanLocalsOK
<1>4. scan[s].pc \in ScanPcs => Issued(scan[s].ticket)' /\ scan[s].at <= now'
  BY <1>1, <1>2, <1>3, RowsMoveForward, ClockMovesForward DEF ScanOK, Forward
<1>5. scan[s].pc = "claim" =>
        scan[s].at <= ticket'[scan[s].ticket].expiresAt
  BY <1>1, <1>3, RowsMoveForward DEF ScanOK, Forward, ScanPcs
<1>6. Admitted(s) => scan[s].ticket \in Tickets /\ Settled(scan[s].ticket)'
  BY <1>1, RowsMoveForward DEF ScanOK, Forward
<1>7. QED BY <1>4, <1>5, <1>6 DEF ScanOK, Admitted, Issued, Settled

\* What a handler's statement does to its own request and to the others.
LEMMA ScanStep ==
  ASSUME TypeInv, NEW s \in OnlineScans, ValidationStep(s)
  PROVE  /\ \A x \in OnlineScans : x # s => scan'[x] = scan[x]
         /\ scan[s].pc \in ScanPcs
         /\ scan'[s].ticket = scan[s].ticket /\ scan'[s].at = scan[s].at
         /\ scan'[s].pc = "claim" => ~Expired(scan[s].ticket, now)
         /\ Admitted(s)' =>
              \/ Admitted(s)
              \/ ClaimTicket(s) /\ ticket[scan[s].ticket].status = "ACTIVE"
<1> DEFINE Goal ==
      /\ \A x \in OnlineScans : x # s => scan'[x] = scan[x]
      /\ scan[s].pc \in ScanPcs
      /\ scan'[s].ticket = scan[s].ticket /\ scan'[s].at = scan[s].at
      /\ scan'[s].pc = "claim" => ~Expired(scan[s].ticket, now)
      /\ scan'[s].result = "VALID" =>
           \/ scan[s].result = "VALID"
           \/ ClaimTicket(s) /\ ticket[scan[s].ticket].status = "ACTIVE"
<1> SUFFICES Goal BY DEF Admitted
<1>0. /\ scan \in [OnlineScans -> ScanLocal] /\ DOMAIN scan = OnlineScans
      /\ DOMAIN scan[s] = {"pc", "driver", "ticket", "at", "inspection", "status",
                           "result"}
  BY TypeInvParts DEF ScanTypeOK, ScanLocal
<1> USE <1>0 DEF ScanPcs
<1>1. CASE FetchTicket(s) BY <1>1 DEF FetchTicket
<1>2. CASE NoActiveTrip(s) BY <1>2 DEF NoActiveTrip
<1>3. CASE RejectExpired(s) BY <1>3 DEF RejectExpired, ToLog
<1>4. CASE RejectUsed(s) BY <1>4 DEF RejectUsed, ToLog
<1>5. CASE Inspect(s) BY <1>5 DEF Inspect, ToLog
<1>6. CASE PassChecks(s) BY <1>6 DEF PassChecks
<1>7. CASE ClaimTicket(s)
  <2>1. scan[s].pc = "claim" BY <1>7 DEF ClaimTicket
  <2>2. CASE ticket[scan[s].ticket].status = "ACTIVE" /\ ToLog(s, "VALID")
    BY <1>7, <2>1, <2>2 DEF ToLog
  <2>3. CASE ToLog(s, "ALREADY_USED") BY <2>1, <2>3 DEF ToLog
  <2>4. QED BY <1>7, <2>2, <2>3 DEF ClaimTicket
<1>8. CASE LogScan(s) BY <1>8 DEF LogScan
<1>9. CASE CrashScan(s) BY <1>9 DEF CrashScan
<1>10. QED
  BY <1>1, <1>2, <1>3, <1>4, <1>5, <1>6, <1>7, <1>8, <1>9 DEF ValidationStep

LEMMA NextScanInv ==
  ASSUME TypeInv, SafetyInv, [Next]_vars PROVE ScanInv'
<1> SUFFICES ASSUME NEW x \in OnlineScans PROVE ScanOK(x)'
  BY DEF ScanInv, ScanOK
<1>0. /\ scan \in [OnlineScans -> ScanLocal]
      /\ ticket \in [Tickets -> TicketRow]
      /\ DOMAIN scan[x] = {"pc", "driver", "ticket", "at", "inspection", "status",
                           "result"}
      /\ now \in Int /\ now' \in Int /\ now <= now'
  BY TypeInvParts, ClockMovesForward
  DEF ScanTypeOK, RowsOK, StoreTypeOK, ScanLocal
<1>1. CASE UNCHANGED scan BY <1>1, ScanStays
<1>2. ASSUME NEW s \in OnlineScans, NEW d \in Drivers, NEW t \in Tickets,
             NEW inspection \in BOOLEAN, StartValidation(s, d, t, inspection)
      PROVE  ScanOK(x)'
  <2>1. CASE x = s
    <3>1. scan'[x].pc = "fetch" /\ scan'[x].ticket = t /\ scan'[x].at = now
          /\ scan'[x].result = NULL
      BY <1>0, <1>2, <2>1 DEF StartValidation, ScanIdle
    <3>2. Issued(t)' BY <1>2 DEF StartValidation, Issued, store
    <3>3. ~Admitted(x)' BY <3>1, StoreAssumption DEF Admitted, ScanResult
    <3>4. QED BY <1>0, <3>1, <3>2, <3>3 DEF ScanOK, Issued
  <2>2. CASE x # s
    BY <1>0, <1>2, <2>2, ScanStays DEF StartValidation
  <2>3. QED BY <2>1, <2>2
<1>3. ASSUME NEW s \in OnlineScans, NEW d \in Drivers, NEW t \in Tickets,
             RejectForged(s, d, t)
      PROVE  ScanOK(x)'
  <2>1. CASE x = s
    <3>1. scan'[x].pc = "done" /\ scan'[x].result = "INVALID_SIGNATURE"
      BY <1>0, <1>3, <2>1 DEF RejectForged
    <3>2. QED BY <3>1 DEF ScanOK, Admitted, ScanPcs
  <2>2. CASE x # s BY <1>0, <1>3, <2>2, ScanStays DEF RejectForged
  <2>3. QED BY <2>1, <2>2
<1>4. ASSUME NEW s \in OnlineScans, ValidationStep(s)
      PROVE  ScanOK(x)'
  <2>1. CASE x # s BY <1>4, <2>1, ScanStep, ScanStays
  <2>2. CASE x = s
    <3>1. /\ ScanOK(x) /\ scan[x].pc \in ScanPcs /\ scan[x].ticket \in Tickets
          /\ scan[x].at \in Int
      <4>1. ScanOK(x) /\ scan[x].pc \in ScanPcs
        BY <1>4, <2>2, ScanStep DEF SafetyInv, ScanInv, ScanOK
      <4>2. QED BY <1>0, <4>1, TypeInvParts DEF ScanLocalsOK, ScanLocal, Times
    <3> SUFFICES ASSUME NEW t \in Tickets, t = scan[x].ticket
                 PROVE  ScanOK(x)'
      BY <3>1
    <3>2. /\ Issued(t) /\ Issued(t)' /\ ticket'[t].expiresAt = ticket[t].expiresAt
          /\ scan[x].at <= now /\ scan[x].at <= now'
          /\ ticket[t].expiresAt \in Int
      <4>1. ticket[t].expiresAt \in Int BY <1>0 DEF TicketRow
      <4>2. Issued(t) /\ scan[x].at <= now BY <3>1 DEF ScanOK
      <4>3. QED BY <1>0, <3>1, <4>1, <4>2, RowsMoveForward DEF Forward
    <3>3. scan'[x].ticket = t /\ scan'[x].at = scan[x].at
      BY <1>4, <2>2, ScanStep
    <3>4. scan'[x].pc = "claim" => scan[x].at <= ticket[t].expiresAt
      BY <1>0, <1>4, <2>2, <3>1, <3>2, ScanStep DEF Expired
    <3>5. Admitted(x)' => Settled(t)'
      <4>1. CASE ClaimTicket(x) /\ ticket[t].status = "ACTIVE"
        <5>1. ticket' = [ticket EXCEPT ![t] = [@ EXCEPT !.status = "USED",
                                                        !.usedAt = scan[x].at]]
          BY <4>1 DEF ClaimTicket
        <5>2. DOMAIN ticket[t] = {"status", "expiresAt", "usedAt", "refundedAt"}
          BY <1>0 DEF TicketRow
        <5>3. QED BY <1>0, <5>1, <5>2 DEF Settled
      <4>2. CASE Admitted(x)
        BY <3>1, <4>2, RowsMoveForward DEF ScanOK, Forward
      <4>3. QED BY <1>4, <2>2, <4>1, <4>2, ScanStep
    <3>6. QED
      BY <3>2, <3>3, <3>4, <3>5 DEF ScanOK, Issued, Settled, Admitted
  <2>3. QED BY <2>1, <2>2
<1>5. QED BY <1>1, <1>2, <1>3, <1>4, Components

\* What SyncInv says of one delivered scan.
SyncOK(o) ==
  /\ syn[o].pc \in SyncPcs => Issued(syn[o].ticket)
  /\ syn[o].pc \in {"moveUsedAt", "markUsed", "reverse"} =>
       syn[o].at <= ticket[syn[o].ticket].expiresAt

LEMMA SyncStays ==
  ASSUME TypeInv, SafetyInv, [Next]_vars, NEW o \in OfflineScans, syn'[o] = syn[o]
  PROVE  SyncOK(o)'
<1>1. SyncOK(o) BY DEF SyncOK, SafetyInv, SyncInv
<1>2. syn[o].pc \in SyncPcs => syn[o].ticket \in Tickets
  BY TypeInvParts DEF SyncLocalsOK
<1>3. syn[o].pc \in SyncPcs =>
        /\ Issued(syn[o].ticket)'
        /\ ticket'[syn[o].ticket].expiresAt = ticket[syn[o].ticket].expiresAt
  BY <1>1, <1>2, RowsMoveForward DEF SyncOK, Forward
<1>4. QED BY <1>1, <1>3 DEF SyncOK, SyncPcs, Issued

LEMMA SyncStepMoves ==
  ASSUME TypeInv, NEW o \in OfflineScans, SyncStep(o)
  PROVE  /\ \A x \in OfflineScans : x # o => syn'[x] = syn[x]
         /\ syn[o].pc \in SyncPcs
         /\ syn'[o].ticket = syn[o].ticket /\ syn'[o].at = syn[o].at
         /\ syn'[o].pc \in {"moveUsedAt", "markUsed", "reverse"} => ~Late(o)
<1>0. /\ syn \in [OfflineScans -> SyncLocal] /\ DOMAIN syn = OfflineScans
      /\ DOMAIN syn[o] = {"pc", "driver", "ticket", "at", "inspection", "status",
                          "usedAt", "result"}
  BY TypeInvParts DEF SyncTypeOK, SyncLocal
<1> USE <1>0 DEF SyncPcs
<1>1. CASE FetchForSync(o) BY <1>1 DEF FetchForSync
<1>2. CASE SkipProcessed(o) BY <1>2 DEF SkipProcessed
<1>3. ASSUME NEW pc \in {"log", "moveUsedAt", "markUsed", "reverse"}, NEW result,
             New(o), Decide(o, pc, result), pc # "log" => ~Late(o)
      PROVE  /\ \A x \in OfflineScans : x # o => syn'[x] = syn[x]
             /\ syn[o].pc \in SyncPcs
             /\ syn'[o].ticket = syn[o].ticket /\ syn'[o].at = syn[o].at
             /\ syn'[o].pc \in {"moveUsedAt", "markUsed", "reverse"} => ~Late(o)
  BY <1>3 DEF New, Decide
<1>4. CASE LateScan(o) BY <1>3, <1>4 DEF LateScan
<1>5. CASE ServerWins(o) BY <1>3, <1>5 DEF ServerWins
<1>6. CASE OfflineWins(o) BY <1>3, <1>6 DEF OfflineWins
<1>7. CASE OfflineInspection(o) BY <1>3, <1>7 DEF OfflineInspection
<1>8. CASE FirstUse(o) BY <1>3, <1>8 DEF FirstUse
<1>9. CASE MoveUsedAt(o) BY <1>9 DEF MoveUsedAt, Write
<1>10. CASE MarkUsed(o) BY <1>10 DEF MarkUsed, Write
<1>11. CASE ReverseRefund(o) BY <1>11 DEF ReverseRefund, Write
<1>12. CASE LogOffline(o) BY <1>12 DEF LogOffline
<1>13. CASE CrashSync(o) BY <1>13 DEF CrashSync
<1>14. QED
  BY <1>1, <1>2, <1>4, <1>5, <1>6, <1>7, <1>8, <1>9, <1>10, <1>11, <1>12, <1>13
  DEF SyncStep

LEMMA NextSyncInv ==
  ASSUME TypeInv, SafetyInv, [Next]_vars PROVE SyncInv'
<1> SUFFICES ASSUME NEW x \in OfflineScans PROVE SyncOK(x)'
  BY DEF SyncInv, SyncOK
<1>0. /\ syn \in [OfflineScans -> SyncLocal] /\ ticket \in [Tickets -> TicketRow]
      /\ DOMAIN SyncIdle = {"pc", "driver", "ticket", "at", "inspection", "status",
                            "usedAt", "result"}
      /\ DOMAIN syn[x] = {"pc", "driver", "ticket", "at", "inspection", "status",
                          "usedAt", "result"}
  BY TypeInvParts DEF SyncTypeOK, RowsOK, StoreTypeOK, SyncLocal, SyncIdle
<1>1. CASE UNCHANGED syn BY <1>1, SyncStays
<1>2. ASSUME NEW o \in OfflineScans, NEW d \in Drivers, NEW t \in Tickets,
             NEW at \in Times, NEW inspection \in BOOLEAN,
             StartSync(o, d, t, at, inspection)
      PROVE  SyncOK(x)'
  <2>1. CASE x = o
    <3>1. syn'[x].pc = "fetch" /\ syn'[x].ticket = t
      BY <1>0, <1>2, <2>1 DEF StartSync
    <3>2. Issued(t)' BY <1>2 DEF StartSync, Issued, store
    <3>3. QED BY <3>1, <3>2 DEF SyncOK, Issued
  <2>2. CASE x # o BY <1>0, <1>2, <2>2, SyncStays DEF StartSync
  <2>3. QED BY <2>1, <2>2
<1>3. ASSUME NEW o \in OfflineScans, RejectUnverified(o) PROVE SyncOK(x)'
  <2>1. CASE x = o
    <3>1. syn'[x].pc = "done" BY <1>0, <1>3, <2>1 DEF RejectUnverified
    <3>2. QED BY <3>1 DEF SyncOK, SyncPcs
  <2>2. CASE x # o BY <1>0, <1>3, <2>2, SyncStays DEF RejectUnverified
  <2>3. QED BY <2>1, <2>2
<1>4. ASSUME NEW o \in OfflineScans, SyncStep(o) PROVE SyncOK(x)'
  <2>1. CASE x # o BY <1>4, <2>1, SyncStepMoves, SyncStays
  <2>2. CASE x = o
    <3>1. /\ SyncOK(x) /\ syn[x].pc \in SyncPcs /\ syn[x].ticket \in Tickets
          /\ syn[x].at \in Int
      <4>1. SyncOK(x) /\ syn[x].pc \in SyncPcs
        BY <1>4, <2>2, SyncStepMoves DEF SafetyInv, SyncInv, SyncOK
      <4>2. QED BY <1>0, <4>1, TypeInvParts DEF SyncLocalsOK, SyncLocal, Times
    <3>2. /\ ticket'[syn[x].ticket].status # "NONE"
          /\ ticket'[syn[x].ticket].expiresAt = ticket[syn[x].ticket].expiresAt
          /\ ticket[syn[x].ticket].expiresAt \in Int
      <4>1. ticket[syn[x].ticket].expiresAt \in Int BY <1>0, <3>1 DEF TicketRow
      <4>2. QED BY <3>1, <4>1, RowsMoveForward DEF SyncOK, Forward, Issued
    <3>3. /\ syn'[x].ticket = syn[x].ticket /\ syn'[x].at = syn[x].at
          /\ syn'[x].pc \in {"moveUsedAt", "markUsed", "reverse"} =>
               syn[x].at <= ticket[syn[x].ticket].expiresAt
      <4>1. /\ syn'[x].ticket = syn[x].ticket /\ syn'[x].at = syn[x].at
            /\ syn'[x].pc \in {"moveUsedAt", "markUsed", "reverse"} => ~Late(x)
        BY <1>4, <2>2, SyncStepMoves
      <4>2. ~Late(x) => syn[x].at <= ticket[syn[x].ticket].expiresAt
        BY <3>1, <3>2 DEF Late, Expired
      <4>3. QED BY <4>1, <4>2
    <3>4. QED BY <3>2, <3>3 DEF SyncOK, Issued
  <2>3. QED BY <2>1, <2>2
<1>5. QED BY <1>1, <1>2, <1>3, <1>4, Components

\* A run's list only grows by what the query of findMany returns.
LEMMA TodoGrows ==
  ASSUME TypeInv, [Next]_vars, NEW x \in Runs
  PROVE  run'[x].todo \subseteq run[x].todo \cup Expirable
<1>0. /\ run \in [Runs -> RunLocal] /\ DOMAIN run = Runs
      /\ \A j \in Runs : DOMAIN run[j] = {"pc", "todo", "full", "cur", "read"}
      /\ DOMAIN RunIdle = {"pc", "todo", "full", "cur", "read"}
      /\ RunIdle.todo = {}
  BY TypeInvParts DEF RunTypeOK, RunLocal, RunIdle
<1>1. CASE UNCHANGED run BY <1>1
<1>2. ASSUME NEW j \in Runs, FindExpired(j)
      PROVE  run'[x].todo \subseteq run[x].todo \cup Expirable
  <2>1. PICK B \in Batches :
          run' = [run EXCEPT ![j] = IF B = {} THEN RunIdle ELSE
                 [RunIdle EXCEPT !.pc = "next", !.todo = B,
                                 !.full = (Cardinality(B) = BatchSize)]]
    BY <1>2 DEF FindExpired
  <2>2. B \subseteq Expirable BY DEF Batches
  <2>3. CASE x # j BY <1>0, <2>1, <2>3
  <2>4. CASE x = j /\ B = {} BY <1>0, <2>1, <2>4
  <2>5. CASE x = j /\ B # {}
    <3>1. run'[x].todo = B BY <1>0, <2>1, <2>5
    <3>2. QED BY <2>2, <3>1
  <2>6. QED BY <2>3, <2>4, <2>5
<1>3. ASSUME NEW j \in Runs, JobStep(j) PROVE run'[x].todo \subseteq run[x].todo
  <2>1. CASE \E u \in Tickets : ExpireTicket(j, u)
    BY <1>0, <2>1 DEF ExpireTicket
  <2>2. CASE ReadWalletForCredit(j) BY <1>0, <2>2 DEF ReadWalletForCredit
  <2>3. CASE CommitRefund(j) BY <1>0, <2>3 DEF CommitRefund, Release
  <2>4. CASE RollbackRefund(j) BY <1>0, <2>4 DEF RollbackRefund, Release
  <2>5. CASE EndBatch(j) BY <1>0, <2>5 DEF EndBatch
  <2>6. CASE CrashRun(j) BY <1>0, <2>6 DEF CrashRun
  <2>7. QED BY <1>3, <2>1, <2>2, <2>3, <2>4, <2>5, <2>6 DEF JobStep
<1>4. QED BY <1>1, <1>2, <1>3, Components

\* A run only ever works on tickets it found expired.
LEMMA NextRunInv ==
  ASSUME TypeInv, SafetyInv, [Next]_vars PROVE RunInv'
<1> SUFFICES ASSUME NEW x \in Runs, NEW t \in Tickets, t \in run'[x].todo
             PROVE  Issued(t)' /\ Expired(t, now)'
  <2>1. RunTypeOK' BY NextType, TypeInvPartsNext
  <2>2. \A x \in Runs : run'[x].todo \subseteq Tickets
    BY <2>1 DEF RunTypeOK, RunLocal
  <2>3. QED BY <2>2 DEF RunInv
<1>1. /\ now \in Int /\ now' \in Int /\ now <= now'
      /\ ticket[t].expiresAt \in Int
  BY TypeInvParts, ClockMovesForward DEF RowsOK, StoreTypeOK, TicketRow
<1>2. Issued(t) /\ Expired(t, now)
  BY TodoGrows DEF Expirable, Issued, SafetyInv, RunInv
<1>3. ticket'[t].expiresAt = ticket[t].expiresAt /\ Issued(t)'
  BY <1>2, RowsMoveForward DEF Forward
<1>4. QED BY <1>1, <1>2, <1>3 DEF Expired

\* The only statement that counts a refund is the job's commit.
LEMMA RefundWriters ==
  ASSUME TypeInv, [Next]_vars, NEW t \in Tickets
  PROVE  \/ ledger'[t].refunds = ledger[t].refunds
         \/ \E j \in Runs : CommitRefund(j) /\ run[j].cur = t
<1>0. /\ ledger \in [Tickets -> LedgerRow]
      /\ DOMAIN ledger[t] = {"debits", "refunds", "reversals"}
  BY TypeInvParts DEF RowsOK, StoreTypeOK, LedgerRow
<1>1. ASSUME NEW u \in Tickets, CommitPurchase(u)
      PROVE  ledger'[t].refunds = ledger[t].refunds
  BY <1>0, <1>1 DEF CommitPurchase
<1>2. ASSUME NEW o \in OfflineScans, ReverseRefund(o)
      PROVE  ledger'[t].refunds = ledger[t].refunds
  BY <1>0, <1>2 DEF ReverseRefund
<1>3. ASSUME NEW j \in Runs, CommitRefund(j)
      PROVE  ledger'[t].refunds = ledger[t].refunds \/ run[j].cur = t
  BY <1>0, <1>3 DEF CommitRefund
<1>4. QED BY <1>1, <1>2, <1>3, LedgerWriters

\* usedAt and the refund count of a row are written by the statements below.
LEMMA NextRowInv ==
  ASSUME TypeInv, SafetyInv, [Next]_vars PROVE RowInv'
<1> SUFFICES ASSUME NEW t \in Tickets
             PROVE  /\ ticket'[t].usedAt # NULL =>
                         Issued(t)' /\ ticket'[t].usedAt <= ticket'[t].expiresAt
                    /\ ledger'[t].refunds > 0 => Issued(t)' /\ Expired(t, now)'
  BY DEF RowInv, Issued
<1>0. /\ ticket \in [Tickets -> TicketRow] /\ ledger \in [Tickets -> LedgerRow]
      /\ now \in Int /\ now' \in Int /\ now <= now'
      /\ ticket[t].expiresAt \in Int
      /\ DOMAIN ticket[t] = {"status", "expiresAt", "usedAt", "refundedAt"}
      /\ DOMAIN ledger[t] = {"debits", "refunds", "reversals"}
      /\ ledger[t].refunds \in Int
  BY TypeInvParts, ClockMovesForward
  DEF RowsOK, StoreTypeOK, TicketRow, LedgerRow
<1>1. /\ ticket[t].usedAt # NULL =>
           Issued(t) /\ ticket[t].usedAt <= ticket[t].expiresAt
      /\ ledger[t].refunds > 0 => Issued(t) /\ Expired(t, now)
  BY DEF SafetyInv, RowInv
<1>2. Issued(t) => Issued(t)' /\ ticket'[t].expiresAt = ticket[t].expiresAt
  BY RowsMoveForward DEF Forward
<1>3. ticket'[t].usedAt # NULL =>
        Issued(t)' /\ ticket'[t].usedAt <= ticket'[t].expiresAt
  <2>1. CASE ticket'[t].usedAt = ticket[t].usedAt BY <1>1, <1>2, <2>1
  <2>2. CASE ticket'[t].usedAt = NULL BY <2>2
  <2>3. ASSUME NEW s \in OnlineScans, ClaimTicket(s)
        PROVE  \/ ticket'[t].usedAt = ticket[t].usedAt
               \/ Issued(t) /\ ticket'[t].usedAt <= ticket[t].expiresAt
    <3>1. /\ scan[s].pc = "claim" /\ Issued(scan[s].ticket)
          /\ scan[s].at <= ticket[scan[s].ticket].expiresAt
      BY <2>3 DEF ClaimTicket, SafetyInv, ScanInv, ScanPcs
    <3>2. QED BY <1>0, <2>3, <3>1 DEF ClaimTicket
  <2>4. ASSUME NEW o \in OfflineScans, MoveUsedAt(o) \/ MarkUsed(o) \/ ReverseRefund(o)
        PROVE  \/ ticket'[t].usedAt = ticket[t].usedAt
               \/ Issued(t) /\ ticket'[t].usedAt <= ticket[t].expiresAt
    <3>1. /\ Issued(syn[o].ticket)
          /\ syn[o].at <= ticket[syn[o].ticket].expiresAt
      BY <2>4
      DEF MoveUsedAt, MarkUsed, ReverseRefund, Write, SafetyInv, SyncInv, SyncPcs
    <3>2. CASE MoveUsedAt(o) BY <1>0, <3>1, <3>2 DEF MoveUsedAt
    <3>3. CASE MarkUsed(o) BY <1>0, <3>1, <3>3 DEF MarkUsed
    <3>4. CASE ReverseRefund(o) BY <1>0, <3>1, <3>4 DEF ReverseRefund
    <3>5. QED BY <2>4, <3>2, <3>3, <3>4
  <2>5. ASSUME NEW u \in Tickets, CommitPurchase(u)
        PROVE  ticket'[t].usedAt \in {NULL, ticket[t].usedAt}
    BY <1>0, <2>5 DEF CommitPurchase
  <2>6. ASSUME NEW j \in Runs, CommitRefund(j)
        PROVE  ticket'[t].usedAt = ticket[t].usedAt
    BY <1>0, <2>6 DEF CommitRefund
  <2>7. CASE UNCHANGED ticket BY <2>1, <2>7
  <2>8. QED
    BY <1>2, <2>1, <2>2, <2>3, <2>4, <2>5, <2>6, <2>7, TicketWriters
<1>4. ledger'[t].refunds > 0 => Issued(t)' /\ Expired(t, now)'
  <2>1. CASE ledger'[t].refunds = ledger[t].refunds
    BY <1>0, <1>1, <1>2, <2>1 DEF Expired
  <2>2. ASSUME NEW j \in Runs, CommitRefund(j), run[j].cur = t
        PROVE  Issued(t)' /\ Expired(t, now)'
    <3>1. Issued(t) /\ Expired(t, now)
      BY <2>2, TypeInvParts DEF CommitRefund, RunLocalsOK, SafetyInv, RunInv
    <3>2. QED BY <1>0, <1>2, <3>1 DEF Expired
  <2>3. \/ ledger'[t].refunds = ledger[t].refunds
        \/ \E j \in Runs : CommitRefund(j) /\ run[j].cur = t
    BY <1>0, RefundWriters
  <2>4. QED BY <2>1, <2>2, <2>3
<1>5. QED BY <1>3, <1>4

\* A request is admitted only by claiming a ticket that was still ACTIVE, and
\* whoever was admitted before had settled its ticket.
LEMMA NextSingleAdmission ==
  ASSUME TypeInv, SafetyInv, [Next]_vars PROVE SingleAdmission'
<1> DEFINE Newly(s) == /\ ClaimTicket(s)
                       /\ ticket[scan[s].ticket].status = "ACTIVE"
<1>1. ASSUME NEW s \in OnlineScans, Admitted(s)'
      PROVE  /\ scan'[s].ticket = scan[s].ticket
             /\ Admitted(s) \/ Newly(s)
  <2>0. /\ DOMAIN scan = OnlineScans
        /\ \A x \in OnlineScans :
             DOMAIN scan[x] = {"pc", "driver", "ticket", "at", "inspection",
                               "status", "result"}
        /\ DOMAIN ScanIdle = {"pc", "driver", "ticket", "at", "inspection",
                              "status", "result"}
        /\ ScanIdle.result # "VALID"
    BY TypeInvParts, StoreAssumption
    DEF ScanTypeOK, ScanLocal, ScanIdle, ScanResult
  <2>1. CASE scan'[s] = scan[s] BY <1>1, <2>1 DEF Admitted
  <2>2. ASSUME NEW x \in OnlineScans, ValidationStep(x)
        PROVE  scan'[s] = scan[s] \/ x = s
    BY <2>2, ScanStep
  <2>3. CASE ValidationStep(s) BY <1>1, <2>3, ScanStep
  <2>4. ASSUME NEW x \in OnlineScans, NEW d \in Drivers, NEW t \in Tickets,
               NEW inspection \in BOOLEAN, StartValidation(x, d, t, inspection)
        PROVE  scan'[s] = scan[s]
    <3>1. x # s BY <1>1, <2>0, <2>4 DEF StartValidation, Admitted
    <3>2. QED BY <2>0, <2>4, <3>1 DEF StartValidation
  <2>5. ASSUME NEW x \in OnlineScans, NEW d \in Drivers, NEW t \in Tickets,
               RejectForged(x, d, t)
        PROVE  scan'[s] = scan[s]
    <3>1. x # s BY <1>1, <2>0, <2>5 DEF RejectForged, Admitted
    <3>2. QED BY <2>0, <2>5, <3>1 DEF RejectForged
  <2>6. CASE UNCHANGED scan BY <2>1, <2>6
  <2>7. QED BY <2>1, <2>2, <2>3, <2>4, <2>5, <2>6, Components
<1>2. ASSUME NEW s \in OnlineScans, Newly(s)
      PROVE  /\ \A x \in OnlineScans : x # s => scan'[x] = scan[x]
             /\ ~Settled(scan[s].ticket)
  <2>1. ValidationStep(s) BY <1>2 DEF ValidationStep
  <2>2. QED BY <1>2, <2>1, ScanStep DEF Settled
<1>3. SUFFICES ASSUME NEW s1 \in OnlineScans, NEW s2 \in OnlineScans,
                      Admitted(s1)', Admitted(s2)',
                      scan'[s1].ticket = scan'[s2].ticket
               PROVE  s1 = s2
  BY DEF SingleAdmission
<1>4. scan[s1].ticket = scan[s2].ticket BY <1>1, <1>3
<1>5. \A s \in OnlineScans : Admitted(s) => Settled(scan[s].ticket)
  BY DEF SafetyInv, ScanInv
<1>6. CASE Admitted(s1) /\ Admitted(s2)
  BY <1>4, <1>6 DEF SafetyInv, SingleAdmission
<1>7. CASE Newly(s1) /\ Admitted(s2) BY <1>2, <1>4, <1>5, <1>7
<1>8. CASE Newly(s2) /\ Admitted(s1) BY <1>2, <1>4, <1>5, <1>8
<1>9. CASE Newly(s1) /\ Newly(s2)
  <2>1. s1 # s2 => scan'[s2] = scan[s2] BY <1>2, <1>9
  <2>2. scan[s2].pc = "claim" /\ scan'[s2].pc = "log"
    <3>1. /\ DOMAIN scan = OnlineScans
          /\ DOMAIN scan[s2] = {"pc", "driver", "ticket", "at", "inspection",
                                "status", "result"}
      BY TypeInvParts DEF ScanTypeOK, ScanLocal
    <3>2. scan[s2].pc = "claim" BY <1>9 DEF ClaimTicket
    <3>3. \E result \in ScanResult : ToLog(s2, result)
      BY <1>9, Literals DEF ClaimTicket
    <3>4. QED BY <3>1, <3>2, <3>3 DEF ToLog
  <2>3. QED BY <2>1, <2>2
<1>10. QED BY <1>1, <1>3, <1>6, <1>7, <1>8, <1>9

-----------------------------------------------------------------------------
LEMMA InitSafety == Init => SafetyInv
<1> SUFFICES ASSUME Init PROVE SafetyInv OBVIOUS
<1>1. NULL # "VALID" BY StoreAssumption DEF ScanResult
<1>2. /\ ticket = [t \in Tickets |-> NoTicket]
      /\ ledger = [t \in Tickets |-> [debits |-> 0, refunds |-> 0, reversals |-> 0]]
      /\ buy = [t \in Tickets |-> BuyIdle]
      /\ scan = [s \in OnlineScans |-> ScanIdle]
      /\ syn = [o \in OfflineScans |-> SyncIdle]
      /\ run = [j \in Runs |-> RunIdle]
  BY DEF Init, StoreInit, PurchaseInit, ValidationInit, SyncInit, JobInit
<1>3. \A s \in OnlineScans : scan[s].pc = "idle" /\ ~Admitted(s)
  BY <1>1, <1>2 DEF ScanIdle, Admitted
<1>4. \A o \in OfflineScans : syn[o].pc = "idle" BY <1>2 DEF SyncIdle
<1>5. \A j \in Runs : run[j].todo = {} BY <1>2 DEF RunIdle
<1>6. \A t \in Tickets : /\ ~Issued(t) /\ buy[t].pc = "idle"
                         /\ ticket[t].usedAt = NULL /\ ledger[t].refunds = 0
  BY <1>2 DEF Issued, NoTicket, BuyIdle
<1>7. QED
  BY <1>3, <1>4, <1>5, <1>6
  DEF SafetyInv, IssuedWhenBought, ScanInv, SyncInv, RunInv, RowInv, SingleAdmission,
      ScanPcs, SyncPcs

\* The inductive invariant, for every run of the system.
THEOREM Safety == Spec => [](TypeInv /\ SafetyInv)
<1>1. TypeInv /\ SafetyInv /\ [Next]_vars => SafetyInv'
  BY NextIssuedWhenBought, NextScanInv, NextSyncInv, NextRunInv, NextRowInv,
     NextSingleAdmission
  DEF SafetyInv
<1>2. TypeInv /\ [Next]_vars => TypeInv' BY NextType
<1>3. QED BY <1>1, <1>2, InitType, InitSafety, PTL DEF Spec

\* validateTicket lets a ticket in once: the conditional update of the ticket is
\* the only thing that admits, and no handler makes a used or refunded ticket
\* ACTIVE again.
THEOREM AdmitsOnce == Spec => []SingleAdmission
<1>1. TypeInv /\ SafetyInv => SingleAdmission BY DEF SafetyInv
<1>2. QED BY <1>1, Safety, PTL

\* The check against expiresAt and the write of usedAt are different statements
\* of validateTicket and of processScan, and the row may change between them; the
\* usedAt that is written is in time all the same.
THEOREM UsedInTimeAlways == Spec => []UsedInTime
<1>1. TypeInv /\ SafetyInv => UsedInTime
  BY DEF SafetyInv, RowInv, UsedInTime
<1>2. QED BY <1>1, Safety, PTL

-----------------------------------------------------------------------------
(* Paid exactly once.                                                        *)

\* Only the commit of a ticket's own purchase counts a debit.
LEMMA DebitWriters ==
  ASSUME TypeInv, [Next]_vars, NEW t \in Tickets
  PROVE  \/ ledger'[t].debits = ledger[t].debits
         \/ CommitPurchase(t) /\ ledger'[t].debits = ledger[t].debits + 1
<1>0. /\ ledger \in [Tickets -> LedgerRow]
      /\ DOMAIN ledger[t] = {"debits", "refunds", "reversals"}
  BY TypeInvParts DEF RowsOK, StoreTypeOK, LedgerRow
<1>1. ASSUME NEW u \in Tickets, CommitPurchase(u), u # t
      PROVE  ledger'[t].debits = ledger[t].debits
  BY <1>0, <1>1 DEF CommitPurchase
<1>2. CommitPurchase(t) => ledger'[t].debits = ledger[t].debits + 1
  BY <1>0 DEF CommitPurchase
<1>3. ASSUME NEW o \in OfflineScans, ReverseRefund(o)
      PROVE  ledger'[t].debits = ledger[t].debits
  BY <1>0, <1>3 DEF ReverseRefund
<1>4. ASSUME NEW j \in Runs, CommitRefund(j)
      PROVE  ledger'[t].debits = ledger[t].debits
  BY <1>0, <1>4 DEF CommitRefund
<1>5. QED BY <1>1, <1>2, <1>3, <1>4, LedgerWriters

\* The commit that counts the debit is the one that issues the ticket, and the
\* purchase it ends does not commit again.
LEMMA NextPaid ==
  ASSUME TypeInv, SafetyInv, PaidExactlyOnce, [Next]_vars
  PROVE  PaidExactlyOnce'
<1> SUFFICES ASSUME NEW t \in Tickets
             PROVE  ledger'[t].debits = IF Issued(t)' THEN 1 ELSE 0
  BY DEF PaidExactlyOnce, Issued
<1>1. CASE CommitPurchase(t)
  <2>1. ~Issued(t)
    BY <1>1 DEF CommitPurchase, SafetyInv, IssuedWhenBought
  <2>2. Issued(t)'
    BY <1>1, TypeInvParts DEF CommitPurchase, Issued, RowsOK, StoreTypeOK
  <2>3. ledger'[t].debits = ledger[t].debits + 1
    BY <1>1, TypeInvParts DEF CommitPurchase, RowsOK, StoreTypeOK, LedgerRow
  <2>4. QED BY <2>1, <2>2, <2>3 DEF PaidExactlyOnce
<1>2. CASE ~CommitPurchase(t)
  <2>1. Issued(t)' <=> Issued(t)
    BY <1>2, RowsMoveForward, OnlyCommitIssues DEF Forward
  <2>2. QED BY <1>2, <2>1, DebitWriters DEF PaidExactlyOnce
<1>3. QED BY <1>1, <1>2

\* purchase and debit: the fare of a ticket is debited by the transaction that
\* issues it, however purchases, refunds and reversals of one wallet overlap and
\* whichever of them are rolled back.
THEOREM PaidExactlyOnceAlways == Spec => []PaidExactlyOnce
<1>1. Init => PaidExactlyOnce
  BY DEF Init, StoreInit, PaidExactlyOnce, Issued, NoTicket
<1>2. (TypeInv /\ SafetyInv) /\ PaidExactlyOnce /\ [Next]_vars => PaidExactlyOnce'
  BY NextPaid
<1>3. QED BY <1>1, <1>2, Safety, PTL DEF Spec

-----------------------------------------------------------------------------
(* At most one refund.                                                       *)

\* A ticket on a run's list has not been refunded: it was ACTIVE when the run
\* found it, and only the run itself refunds it.
RefundInv ==
  \A t \in Tickets :
    /\ ledger[t].refunds \in {0, 1}
    /\ ledger[t].refunds = 1 => Settled(t)
    /\ \A j \in Runs : t \in run[j].todo => ledger[t].refunds = 0

\* The runs of the job do not overlap.
OneRun == \A i, j \in Runs : i = j

LEMMA NextRefundInv ==
  ASSUME OneRun, TypeInv, SafetyInv, RefundInv, [Next]_vars
  PROVE  RefundInv'
<1> SUFFICES ASSUME NEW t \in Tickets
             PROVE  /\ ledger'[t].refunds \in {0, 1}
                    /\ ledger'[t].refunds = 1 => Settled(t)'
                    /\ \A j \in Runs : t \in run'[j].todo => ledger'[t].refunds = 0
  BY DEF RefundInv, Settled
<1>1. CASE ledger'[t].refunds = ledger[t].refunds
  <2>1. ASSUME NEW j \in Runs, t \in run'[j].todo PROVE ledger[t].refunds = 0
    <3>1. CASE t \in run[j].todo BY <3>1 DEF RefundInv
    <3>2. CASE t \in Expirable BY <3>2 DEF Expirable, RefundInv, Settled
    <3>3. QED BY <2>1, <3>1, <3>2, TodoGrows
  <2>2. Settled(t) => Settled(t)' BY RowsMoveForward DEF Forward
  <2>3. QED BY <1>1, <2>1, <2>2 DEF RefundInv
<1>2. ASSUME NEW j \in Runs, CommitRefund(j), run[j].cur = t
      PROVE  /\ ledger'[t].refunds = 1 /\ Settled(t)'
             /\ t \notin run'[j].todo
  <2>1. ledger[t].refunds = 0
    BY <1>2, TypeInvParts DEF CommitRefund, RunLocalsOK, RefundInv
  <2>2. ledger'[t].refunds = 1
    BY <1>2, <2>1, TypeInvParts DEF CommitRefund, RowsOK, StoreTypeOK, LedgerRow
  <2>3. Settled(t)'
    BY <1>2, TypeInvParts DEF CommitRefund, Settled, RowsOK, StoreTypeOK, TicketRow
  <2>4. run'[j].todo = run[j].todo \ {t}
    BY <1>2, TypeInvParts DEF CommitRefund, Release, RunTypeOK, RunLocal
  <2>5. QED BY <2>2, <2>3, <2>4
<1>3. QED BY <1>1, <1>2, RefundWriters DEF OneRun

\* handleTicketExpiry, one run after the other: a run that dies between finding a
\* ticket and refunding it leaves it for the next, and the transaction, which sets
\* the status by id, still refunds no ticket twice.
THEOREM AtMostOneRefundAlways ==
  ASSUME OneRun PROVE Spec => []AtMostOneRefund
<1>1. Init => RefundInv
  BY DEF Init, StoreInit, JobInit, RefundInv, RunIdle
<1>2. (TypeInv /\ SafetyInv) /\ RefundInv /\ [Next]_vars => RefundInv'
  BY NextRefundInv
<1>3. RefundInv => AtMostOneRefund BY DEF RefundInv, AtMostOneRefund
<1>4. QED BY <1>1, <1>2, <1>3, Safety, PTL DEF Spec

-----------------------------------------------------------------------------
(* Overdrawn only by a reversal.                                             *)

\* A refund of one of the passenger's tickets was taken back.
Reversed(p) == \E t \in Tickets : Owner[t] = p /\ ledger[t].reversals > 0

\* What a purchase read before its debit covers the fare, and what a refund read
\* before its credit is negative only if a reversal made it so.
CoverInv ==
  /\ \A t \in Tickets : buy[t].pc = "write" => buy[t].read >= Fare[t]
  /\ \A j \in Runs :
       run[j].pc = "commit" /\ run[j].read < 0 => Reversed(Owner[run[j].cur])
  /\ OverdrawnOnlyByReversal

\* Reversals stay on the ledger.
LEMMA ReversalsStay ==
  ASSUME TypeInv, [Next]_vars, NEW p \in Passengers, Reversed(p)
  PROVE  Reversed(p)'
<1>0. /\ ledger \in [Tickets -> LedgerRow]
      /\ \A t \in Tickets : /\ DOMAIN ledger[t] = {"debits", "refunds", "reversals"}
                            /\ ledger[t].reversals \in Nat
  BY TypeInvParts DEF RowsOK, StoreTypeOK, LedgerRow
<1>1. SUFFICES ASSUME NEW t \in Tickets
               PROVE  ledger'[t].reversals >= ledger[t].reversals
  <2>1. PICK t \in Tickets : Owner[t] = p /\ ledger[t].reversals > 0
    BY DEF Reversed
  <2>2. ledger'[t].reversals >= ledger[t].reversals BY <1>1
  <2>3. ledger'[t].reversals \in Nat
    BY NextType, TypeInvPartsNext DEF RowsOK, StoreTypeOK, LedgerRow
  <2>4. QED BY <1>0, <2>1, <2>2, <2>3 DEF Reversed
<1>2. ASSUME NEW u \in Tickets, CommitPurchase(u)
      PROVE  ledger'[t].reversals = ledger[t].reversals
  BY <1>0, <1>2 DEF CommitPurchase
<1>3. ASSUME NEW o \in OfflineScans, ReverseRefund(o)
      PROVE  ledger'[t].reversals \in {ledger[t].reversals, ledger[t].reversals + 1}
  BY <1>0, <1>3 DEF ReverseRefund
<1>4. ASSUME NEW j \in Runs, CommitRefund(j)
      PROVE  ledger'[t].reversals = ledger[t].reversals
  BY <1>0, <1>4 DEF CommitRefund
<1>5. QED BY <1>0, <1>2, <1>3, <1>4, LedgerWriters

\* debit compares the balance it reads with the fare.
LEMMA NextCovered ==
  ASSUME TypeInv, CoverInv, [Next]_vars, NEW t \in Tickets, buy'[t].pc = "write"
  PROVE  buy'[t].read >= Fare[t]
<1>0. /\ DOMAIN buy = Tickets
      /\ \A u \in Tickets : DOMAIN buy[u] = {"pc", "at", "read"}
  BY TypeInvParts DEF BuyTypeOK
<1>1. CASE buy'[t] = buy[t] BY <1>1 DEF CoverInv
<1>2. ASSUME NEW u \in Tickets, StartPurchase(u) \/ PurchaseStep(u)
      PROVE  buy'[t] = buy[t] \/ buy'[t].read >= Fare[t]
  <2>1. CASE StartPurchase(u) BY <1>0, <2>1 DEF StartPurchase
  <2>2. CASE RejectInsufficient(u) BY <1>0, <2>2 DEF RejectInsufficient
  <2>3. CASE ReadWallet(u) BY <1>0, <2>3 DEF ReadWallet
  <2>4. CASE CommitPurchase(u) BY <1>0, <2>4 DEF CommitPurchase
  <2>5. CASE AbortPurchase(u) BY <1>0, <2>5 DEF AbortPurchase
  <2>6. QED BY <1>2, <2>1, <2>2, <2>3, <2>4, <2>5 DEF PurchaseStep
<1>3. QED BY <1>1, <1>2, Components

\* credit adds to the balance it reads.
LEMMA NextCredited ==
  ASSUME TypeInv, CoverInv, [Next]_vars, NEW x \in Runs,
         run'[x].pc = "commit", run'[x].read < 0,
         NEW p \in Passengers, p = Owner[run'[x].cur]
  PROVE  Reversed(p)'
<1>0. /\ run \in [Runs -> RunLocal] /\ DOMAIN run = Runs
      /\ \A j \in Runs : DOMAIN run[j] = {"pc", "todo", "full", "cur", "read"}
      /\ DOMAIN RunIdle = {"pc", "todo", "full", "cur", "read"}
      /\ RunIdle.pc = "idle"
  BY TypeInvParts DEF RunTypeOK, RunLocal, RunIdle
<1>1. CASE run'[x] = run[x]
  <2>1. Reversed(p) BY <1>1 DEF CoverInv
  <2>2. QED BY <2>1, ReversalsStay
<1>2. CASE ReadWalletForCredit(x)
  <2>1. /\ run'[x].cur = run[x].cur
        /\ run'[x].read = balance[Owner[run[x].cur]]
    BY <1>0, <1>2 DEF ReadWalletForCredit
  <2>2. Reversed(p)
    BY <2>1 DEF CoverInv, OverdrawnOnlyByReversal, Reversed
  <2>3. QED BY <2>2, ReversalsStay
<1>3. ASSUME NEW j \in Runs, FindExpired(j) \/ JobStep(j)
      PROVE  \/ run'[x] = run[x]
             \/ run'[x].pc # "commit"
             \/ ReadWalletForCredit(x)
  <2>1. CASE FindExpired(j)
    <3>1. PICK B \in Batches :
            run' = [run EXCEPT ![j] = IF B = {} THEN RunIdle ELSE
                   [RunIdle EXCEPT !.pc = "next", !.todo = B,
                                   !.full = (Cardinality(B) = BatchSize)]]
      BY <2>1 DEF FindExpired
    <3>2. CASE B = {} BY <1>0, <3>1, <3>2
    <3>3. CASE B # {}
      <4>1. CASE x # j BY <1>0, <3>1, <4>1
      <4>2. CASE x = j
        <5>1. run'[x].pc = "next" BY <1>0, <3>1, <3>3, <4>2
        <5>2. QED BY <5>1
      <4>3. QED BY <4>1, <4>2
    <3>4. QED BY <3>2, <3>3
  <2>2. CASE \E u \in Tickets : ExpireTicket(j, u)
    BY <1>0, <2>2 DEF ExpireTicket
  <2>3. CASE ReadWalletForCredit(j) BY <1>0, <2>3 DEF ReadWalletForCredit
  <2>4. CASE CommitRefund(j) BY <1>0, <2>4 DEF CommitRefund, Release
  <2>5. CASE RollbackRefund(j) BY <1>0, <2>5 DEF RollbackRefund, Release
  <2>6. CASE EndBatch(j) BY <1>0, <2>6 DEF EndBatch
  <2>7. CASE CrashRun(j) BY <1>0, <2>7 DEF CrashRun
  <2>8. QED BY <1>3, <2>1, <2>2, <2>3, <2>4, <2>5, <2>6, <2>7 DEF JobStep
<1>4. QED BY <1>1, <1>2, <1>3, Components

\* A balance is written by a debit that is covered, by a reversal, or by a credit.
LEMMA NextOverdrawn ==
  ASSUME TypeInv, CoverInv, [Next]_vars, NEW p \in Passengers, balance'[p] < 0
  PROVE  Reversed(p)'
<1>0. /\ balance \in [Passengers -> Int] /\ ledger \in [Tickets -> LedgerRow]
      /\ \A t \in Tickets : /\ DOMAIN ledger[t] = {"debits", "refunds", "reversals"}
                            /\ ledger[t].reversals \in Nat
                            /\ Owner[t] \in Passengers /\ Fare[t] \in Nat
  BY TypeInvParts, StoreAssumption DEF RowsOK, StoreTypeOK, LedgerRow
<1>1. CASE balance'[p] = balance[p]
  <2>1. Reversed(p)
    BY <1>1 DEF CoverInv, OverdrawnOnlyByReversal, Reversed
  <2>2. QED BY <2>1, ReversalsStay
<1>2. ASSUME NEW t \in Tickets, CommitPurchase(t) PROVE balance'[p] = balance[p]
  <2>1. buy[t].read \in Int /\ buy[t].read >= Fare[t]
    BY <1>2, TypeInvParts DEF CommitPurchase, CoverInv, BuyTypeOK
  <2>2. ~(buy[t].read - Fare[t] < 0)
    <3>1. Fare[t] \in Int BY <1>0
    <3>2. QED BY <2>1, <3>1
  <2>3. balance' = [balance EXCEPT ![Owner[t]] = buy[t].read - Fare[t]]
    BY <1>2 DEF CommitPurchase
  <2>4. CASE Owner[t] = p
    <3>1. balance'[p] = buy[t].read - Fare[t] BY <1>0, <2>3, <2>4
    <3>2. QED BY <2>2, <3>1
  <2>5. CASE Owner[t] # p BY <1>0, <2>3, <2>5
  <2>6. QED BY <2>4, <2>5
<1>3. ASSUME NEW o \in OfflineScans, ReverseRefund(o), balance'[p] # balance[p]
      PROVE  Reversed(p)'
  <2>1. PICK t \in Tickets : t = syn[o].ticket
    BY <1>3, TypeInvParts DEF ReverseRefund, Write, SyncLocalsOK, SyncPcs
  <2>2. Owner[t] = p BY <1>0, <1>3, <2>1 DEF ReverseRefund
  <2>3. ledger'[t].reversals = ledger[t].reversals + 1
    BY <1>0, <1>3, <2>1 DEF ReverseRefund
  <2>4. QED BY <1>0, <2>2, <2>3 DEF Reversed
<1>4. ASSUME NEW j \in Runs, CommitRefund(j), balance'[p] # balance[p]
      PROVE  Reversed(p)'
  <2>1. PICK t \in Tickets : t = run[j].cur
    BY <1>4, TypeInvParts DEF CommitRefund, RunLocalsOK, RunTypeOK, RunLocal
  <2>2. Owner[t] = p /\ balance'[p] = run[j].read + Fare[t]
    BY <1>0, <1>4, <2>1 DEF CommitRefund
  <2>3. run[j].read \in Int BY TypeInvParts DEF RunTypeOK, RunLocal
  <2>4. run[j].read < 0 BY <1>0, <2>2, <2>3
  <2>5. Reversed(p) BY <1>4, <2>1, <2>2, <2>4 DEF CommitRefund, CoverInv
  <2>6. QED BY <2>5, ReversalsStay
<1>5. QED BY <1>1, <1>2, <1>3, <1>4, LedgerWriters

\* debit, credit and the reversal of processScan: however often purchases and
\* refunds of one wallet overwrite each other's balance, a wallet is below zero
\* only if one of its passenger's refunds was taken back.
THEOREM OverdrawnOnlyByReversalAlways == Spec => []OverdrawnOnlyByReversal
<1>1. Init => CoverInv
  <2> SUFFICES ASSUME Init PROVE CoverInv OBVIOUS
  <2>1. /\ \A t \in Tickets : buy[t].pc = "idle"
        /\ \A j \in Runs : run[j].pc = "idle"
        /\ \A p \in Passengers : ~(balance[p] < 0)
    BY StoreAssumption
    DEF Init, StoreInit, PurchaseInit, JobInit, BuyIdle, RunIdle
  <2>2. QED BY <2>1 DEF CoverInv, OverdrawnOnlyByReversal
<1>2. TypeInv /\ CoverInv /\ [Next]_vars => CoverInv'
  <2> SUFFICES ASSUME TypeInv, CoverInv, [Next]_vars PROVE CoverInv' OBVIOUS
  <2>1. \A p \in Passengers : balance'[p] < 0 => Reversed(p)' BY NextOverdrawn
  <2>2. OverdrawnOnlyByReversal'
    BY <2>1 DEF OverdrawnOnlyByReversal, Reversed
  <2>3. ASSUME NEW j \in Runs, run'[j].pc = "commit", run'[j].read < 0
        PROVE  \E t \in Tickets : /\ Owner[t] = Owner[run'[j].cur]
                                  /\ ledger'[t].reversals > 0
    <3>1. Owner[run'[j].cur] \in Passengers
      BY <2>3, NextType, TypeInvPartsNext, StoreAssumption
      DEF RunTypeOK, RunLocal, RunLocalsOK
    <3>2. PICK p \in Passengers : p = Owner[run'[j].cur] BY <3>1
    <3>3. Reversed(p)' BY <2>3, <3>2, NextCredited
    <3>4. QED BY <3>2, <3>3 DEF Reversed
  <2>4. QED BY <2>2, <2>3, NextCovered DEF CoverInv, Reversed
<1>3. CoverInv => OverdrawnOnlyByReversal BY DEF CoverInv
<1>4. QED BY <1>1, <1>2, <1>3, Safety, PTL DEF Spec

-----------------------------------------------------------------------------
(* A used ticket is accounted for.                                           *)

\* The statements that append to scan_events.
LEMMA EventWriters ==
  ASSUME [Next]_vars
  PROVE  \/ UNCHANGED scanEvents
         \/ \E s \in OnlineScans, d \in Drivers, t \in Tickets : RejectForged(s, d, t)
         \/ \E s \in OnlineScans : LogScan(s)
         \/ \E o \in OfflineScans : LogOffline(o)
<1>1. CASE Arrivals
  BY <1>1
  DEF Arrivals, PurchaseArrives, ScanArrives, SyncArrives, RunFires, StartPurchase,
      StartValidation, StartSync, RejectUnverified, FindExpired, store
<1>2. ASSUME NEW t \in Tickets, PurchaseStep(t) PROVE UNCHANGED scanEvents
  BY <1>2 DEF PurchaseStep, RejectInsufficient, ReadWallet, CommitPurchase,
              AbortPurchase, store
<1>3. ASSUME NEW s \in OnlineScans, ValidationStep(s)
      PROVE  UNCHANGED scanEvents \/ LogScan(s)
  BY <1>3
  DEF ValidationStep, FetchTicket, NoActiveTrip, RejectExpired, RejectUsed, Inspect,
      PassChecks, ClaimTicket, CrashScan, store
<1>4. ASSUME NEW o \in OfflineScans, SyncStep(o)
      PROVE  UNCHANGED scanEvents \/ LogOffline(o)
  BY <1>4
  DEF SyncStep, FetchForSync, SkipProcessed, LateScan, ServerWins, OfflineWins,
      OfflineInspection, FirstUse, Decide, MoveUsedAt, MarkUsed, ReverseRefund, Write,
      CrashSync, store
<1>5. ASSUME NEW j \in Runs, JobStep(j) \/ FindExpired(j) PROVE UNCHANGED scanEvents
  BY <1>5
  DEF JobStep, FindExpired, ExpireTicket, ReadWalletForCredit, CommitRefund,
      RollbackRefund, EndBatch, CrashRun, store
<1>6. CASE Handlers BY <1>2, <1>3, <1>4, <1>5, <1>6 DEF Handlers
<1>7. CASE Tick \/ UNCHANGED vars BY <1>7 DEF Tick, vars, store
<1>8. QED BY <1>1, <1>6, <1>7 DEF Next

LEMMA EventsStay == ASSUME [Next]_vars PROVE scanEvents \subseteq scanEvents'
  BY EventWriters DEF RejectForged, LogScan, LogOffline, InsertScanEvent

\* A scan event says that the ticket was used at this moment.
OnRecord(t, at) ==
  \E e \in scanEvents : e.ticket = t /\ e.result = "VALID" /\ e.at = at

\* An online scan used it then and is about to say so, or died first.
ByScan(s, t, at) ==
  /\ Admitted(s) /\ scan[s].ticket = t /\ scan[s].at = at
  /\ scan[s].pc \in {"log", "crashed"}

\* So did a delivered one.
BySync(o, t, at) ==
  /\ Took(o) /\ syn[o].ticket = t /\ syn[o].at = at
  /\ syn[o].pc \in {"log", "crashed"}

Accounted(t, at) ==
  \/ OnRecord(t, at)
  \/ \E s \in OnlineScans : ByScan(s, t, at)
  \/ \E o \in OfflineScans : BySync(o, t, at)

\* A request that used a ticket stays as it is until it logs the fact or dies.
LEMMA ScanKeepsAccount ==
  ASSUME TypeInv, [Next]_vars, NEW s \in OnlineScans, NEW t, NEW at, ByScan(s, t, at)
  PROVE  OnRecord(t, at)' \/ ByScan(s, t, at)'
<1> USE DEF ByScan, Admitted
<1>0. /\ DOMAIN scan = OnlineScans
      /\ DOMAIN scan[s] = {"pc", "driver", "ticket", "at", "inspection", "status",
                           "result"}
  BY TypeInvParts DEF ScanTypeOK, ScanLocal
<1>1. CASE scan'[s] = scan[s] BY <1>1
<1>2. ASSUME NEW x \in OnlineScans, NEW d \in Drivers, NEW u \in Tickets,
             \/ \E inspection \in BOOLEAN : StartValidation(x, d, u, inspection)
             \/ RejectForged(x, d, u)
      PROVE  scan'[s] = scan[s]
  BY <1>0, <1>2 DEF StartValidation, RejectForged
<1>3. ASSUME NEW x \in OnlineScans, ValidationStep(x), x # s
      PROVE  scan'[s] = scan[s]
  BY <1>3, ScanStep
<1>4. CASE LogScan(s)
  <2> DEFINE e == [by |-> s, driver |-> scan[s].driver, ticket |-> scan[s].ticket,
                   at |-> scan[s].at, result |-> scan[s].result, offline |-> FALSE]
  <2>1. e \in scanEvents' BY <1>4 DEF LogScan, InsertScanEvent
  <2>2. e.ticket = t /\ e.result = "VALID" /\ e.at = at OBVIOUS
  <2> HIDE DEF e
  <2>3. QED BY <2>1, <2>2 DEF OnRecord
<1>5. CASE CrashScan(s) BY <1>0, <1>5 DEF CrashScan
<1>6. CASE ValidationStep(s)
  <2>1. scan[s].pc \in {"log", "crashed"} OBVIOUS
  <2>2. LogScan(s) \/ CrashScan(s)
    <3> USE <2>1
    <3>1. ~FetchTicket(s) /\ ~NoActiveTrip(s) /\ ~RejectExpired(s)
      BY DEF FetchTicket, NoActiveTrip, RejectExpired
    <3>2. ~RejectUsed(s) /\ ~Inspect(s) /\ ~PassChecks(s) /\ ~ClaimTicket(s)
      BY DEF RejectUsed, Inspect, PassChecks, ClaimTicket
    <3>3. QED BY <1>6, <3>1, <3>2 DEF ValidationStep
  <2>3. QED BY <1>4, <1>5, <2>2
<1>7. QED BY <1>1, <1>2, <1>3, <1>6, Components

LEMMA SyncKeepsAccount ==
  ASSUME TypeInv, [Next]_vars, NEW o \in OfflineScans, NEW t, NEW at, BySync(o, t, at)
  PROVE  OnRecord(t, at)' \/ BySync(o, t, at)'
<1> USE DEF BySync, Took
<1>0. /\ DOMAIN syn = OfflineScans
      /\ DOMAIN syn[o] = {"pc", "driver", "ticket", "at", "inspection", "status",
                          "usedAt", "result"}
  BY TypeInvParts DEF SyncTypeOK, SyncLocal
<1>1. CASE syn'[o] = syn[o] BY <1>1
<1>2. ASSUME NEW x \in OfflineScans, NEW d \in Drivers, NEW u \in Tickets,
             NEW a \in Times, NEW inspection \in BOOLEAN,
             StartSync(x, d, u, a, inspection)
      PROVE  syn'[o] = syn[o]
  BY <1>0, <1>2 DEF StartSync
<1>3. ASSUME NEW x \in OfflineScans, RejectUnverified(x) PROVE syn'[o] = syn[o]
  BY <1>0, <1>3 DEF RejectUnverified
<1>4. ASSUME NEW x \in OfflineScans, SyncStep(x), x # o PROVE syn'[o] = syn[o]
  BY <1>4, SyncStepMoves
<1>5. CASE LogOffline(o)
  <2> DEFINE e == [by |-> o, driver |-> syn[o].driver, ticket |-> syn[o].ticket,
                   at |-> syn[o].at, result |-> syn[o].result, offline |-> TRUE]
  <2>1. e \in scanEvents' BY <1>5 DEF LogOffline, InsertScanEvent
  <2>2. e.ticket = t /\ e.result = "VALID" /\ e.at = at OBVIOUS
  <2> HIDE DEF e
  <2>3. QED BY <2>1, <2>2 DEF OnRecord
<1>6. CASE CrashSync(o) BY <1>0, <1>6 DEF CrashSync
<1>7. CASE SyncStep(o)
  <2>1. syn[o].pc \in {"log", "crashed"} OBVIOUS
  <2>2. LogOffline(o) \/ CrashSync(o)
    <3> USE <2>1
    <3>1. ~FetchForSync(o) /\ ~SkipProcessed(o) /\ ~New(o)
      BY DEF FetchForSync, SkipProcessed, New
    <3>2. ~MoveUsedAt(o) /\ ~MarkUsed(o) /\ ~ReverseRefund(o)
      BY DEF MoveUsedAt, MarkUsed, ReverseRefund, Write
    <3>3. QED
      BY <1>7, <3>1, <3>2
      DEF SyncStep, LateScan, ServerWins, OfflineWins, OfflineInspection, FirstUse
  <2>3. QED BY <1>5, <1>6, <2>2
<1>8. QED BY <1>1, <1>2, <1>3, <1>4, <1>7, Components

LEMMA AccountStays ==
  ASSUME TypeInv, [Next]_vars, NEW t, NEW at, Accounted(t, at)
  PROVE  Accounted(t, at)'
<1>1. OnRecord(t, at) => OnRecord(t, at)' BY EventsStay DEF OnRecord
<1>2. QED BY <1>1, ScanKeepsAccount, SyncKeepsAccount DEF Accounted

\* Whoever writes usedAt becomes the one that accounts for it.
LEMMA NextUsedIsLogged ==
  ASSUME TypeInv, UsedIsLogged, [Next]_vars
  PROVE  UsedIsLogged'
<1> SUFFICES ASSUME NEW t \in Tickets, ticket'[t].status = "USED",
                    NEW at, at = ticket'[t].usedAt
             PROVE  Accounted(t, at)'
  BY DEF UsedIsLogged, Accounted, OnRecord, ByScan, BySync
<1>0. /\ ticket \in [Tickets -> TicketRow]
      /\ DOMAIN ticket[t] = {"status", "expiresAt", "usedAt", "refundedAt"}
      /\ DOMAIN scan = OnlineScans /\ DOMAIN syn = OfflineScans
      /\ \A s \in OnlineScans :
           DOMAIN scan[s] = {"pc", "driver", "ticket", "at", "inspection", "status",
                             "result"}
      /\ \A o \in OfflineScans :
           DOMAIN syn[o] = {"pc", "driver", "ticket", "at", "inspection", "status",
                            "usedAt", "result"}
  BY TypeInvParts
  DEF RowsOK, StoreTypeOK, TicketRow, ScanTypeOK, ScanLocal, SyncTypeOK, SyncLocal
<1>1. CASE ticket'[t] = ticket[t]
  <2>1. Accounted(t, at)
    BY <1>1 DEF UsedIsLogged, Accounted, OnRecord, ByScan, BySync
  <2>2. QED BY <2>1, AccountStays
<1>2. ASSUME NEW u \in Tickets, CommitPurchase(u) PROVE ticket'[t] = ticket[t]
  BY <1>0, <1>2 DEF CommitPurchase
<1>3. ASSUME NEW j \in Runs, CommitRefund(j) PROVE ticket'[t] = ticket[t]
  BY <1>0, <1>3 DEF CommitRefund
<1>4. ASSUME NEW s \in OnlineScans, ClaimTicket(s)
      PROVE  ticket'[t] = ticket[t] \/ ByScan(s, t, at)'
  <2>1. CASE UNCHANGED ticket BY <2>1
  <2>2. CASE /\ ToLog(s, "VALID")
             /\ ticket' = [ticket EXCEPT ![scan[s].ticket] =
                            [@ EXCEPT !.status = "USED", !.usedAt = scan[s].at]]
    <3>1. CASE scan[s].ticket # t BY <1>0, <2>2, <3>1
    <3>2. CASE scan[s].ticket = t
      <4>1. at = scan[s].at BY <1>0, <2>2, <3>2
      <4>2. /\ scan'[s].ticket = t /\ scan'[s].at = scan[s].at
            /\ scan'[s].pc = "log" /\ scan'[s].result = "VALID"
        BY <1>0, <2>2, <3>2 DEF ToLog
      <4>3. QED BY <4>1, <4>2 DEF ByScan, Admitted
    <3>3. QED BY <3>1, <3>2
  <2>3. QED BY <1>4, <2>1, <2>2 DEF ClaimTicket
<1>5. ASSUME NEW o \in OfflineScans, MoveUsedAt(o) \/ MarkUsed(o) \/ ReverseRefund(o)
      PROVE  ticket'[t] = ticket[t] \/ BySync(o, t, at)'
  <2>1. CASE syn[o].ticket # t
    BY <1>0, <1>5, <2>1 DEF MoveUsedAt, MarkUsed, ReverseRefund
  <2>2. CASE syn[o].ticket = t
    <3>1. at = syn[o].at
      <4>1. CASE MoveUsedAt(o) BY <1>0, <2>2, <4>1 DEF MoveUsedAt
      <4>2. CASE MarkUsed(o) BY <1>0, <2>2, <4>2 DEF MarkUsed
      <4>3. CASE ReverseRefund(o) BY <1>0, <2>2, <4>3 DEF ReverseRefund
      <4>4. QED BY <1>5, <4>1, <4>2, <4>3
    <3>2. /\ syn'[o].ticket = t /\ syn'[o].at = syn[o].at
          /\ syn'[o].pc = "log" /\ syn'[o].result = "VALID"
      <4>1. syn' = [syn EXCEPT ![o] = [@ EXCEPT !.pc = "log", !.result = "VALID"]]
        BY <1>5 DEF MoveUsedAt, MarkUsed, ReverseRefund, Write
      <4>2. QED BY <1>0, <2>2, <4>1
    <3>3. QED BY <3>1, <3>2 DEF BySync, Took
  <2>3. QED BY <2>1, <2>2
<1>6. QED
  BY <1>1, <1>2, <1>3, <1>4, <1>5, TicketWriters DEF Accounted

\* validateTicket and processScan write the ticket first and the scan event after:
\* whichever scan overwrites which, the usedAt of a used ticket is the time of a
\* VALID event, of a handler about to write one, or of one that died in between.
THEOREM UsedIsLoggedAlways == Spec => []UsedIsLogged
<1>1. Init => UsedIsLogged
  BY DEF Init, StoreInit, UsedIsLogged, NoTicket
<1>2. TypeInv /\ UsedIsLogged /\ [Next]_vars => UsedIsLogged'
  BY NextUsedIsLogged
<1>3. QED BY <1>1, <1>2, Safety, PTL DEF Spec

-----------------------------------------------------------------------------
(* What reports see of the handlers, see ScanLog.                            *)
(*                                                                           *)
(* ScanLog states each step by the rows and the clock at the commit.  What a *)
(* handler writes was computed earlier, so the mapping rests on what stays   *)
(* true of it meanwhile: the times it carries are past and lie within the    *)
(* life of the ticket (LogInv, with SafetyInv), a run's list still holds the *)
(* ticket it refunds (RunLocalsOK), and a request logs once.                 *)

LoggedBy(e) ==
  \/ e.by \in OnlineScans /\ scan[e.by].pc = "done"
  \/ e.by \in OfflineScans /\ syn[e.by].pc = "done"

LogInv ==
  /\ \A t \in Tickets : buy[t].at <= now
  /\ \A o \in OfflineScans : syn[o].pc \in SyncPcs =>
       /\ ticket[syn[o].ticket].expiresAt - TicketTTL <= syn[o].at
       /\ syn[o].at <= now
  /\ \A e \in scanEvents : LoggedBy(e)

\* A purchase takes its time from a clock that only moves forward.
LEMMA NextBuyPast ==
  ASSUME TypeInv, [Next]_vars, NEW t \in Tickets, buy[t].at <= now
  PROVE  buy'[t].at <= now'
<1>0. /\ buy \in [Tickets -> [pc: {"idle", "readWallet", "write", "bought", "rejected",
                                  "failed"}, at: Times, read: Int]]
      /\ \A u \in Tickets : DOMAIN buy[u] = {"pc", "at", "read"}
      /\ now \in Int /\ now' \in Int /\ now <= now' /\ buy[t].at \in Int
  BY ClockMovesForward DEF TypeInv, TypeOK, BuyTypeOK, Times
<1>1. CASE UNCHANGED buy BY <1>0, <1>1
<1>2. ASSUME NEW u \in Tickets, StartPurchase(u) \/ PurchaseStep(u)
      PROVE  buy'[t].at = buy[t].at \/ buy'[t].at = now
  <2>1. CASE StartPurchase(u) BY <1>0, <2>1 DEF StartPurchase
  <2>2. CASE RejectInsufficient(u) BY <1>0, <2>2 DEF RejectInsufficient
  <2>3. CASE ReadWallet(u) BY <1>0, <2>3 DEF ReadWallet
  <2>4. CASE CommitPurchase(u) BY <1>0, <2>4 DEF CommitPurchase
  <2>5. CASE AbortPurchase(u) BY <1>0, <2>5 DEF AbortPurchase
  <2>6. QED BY <1>2, <2>1, <2>2, <2>3, <2>4, <2>5 DEF PurchaseStep
<1>3. QED BY <1>0, <1>1, <1>2, Components

\* What LogInv says of one delivered scan: it was scanned while its ticket was there.
SyncInLife(o) ==
  syn[o].pc \in SyncPcs =>
    /\ ticket[syn[o].ticket].expiresAt - TicketTTL <= syn[o].at
    /\ syn[o].at <= now

LEMMA NextSyncInLife ==
  ASSUME TypeInv, SafetyInv, [Next]_vars, NEW x \in OfflineScans, SyncInLife(x)
  PROVE  SyncInLife(x)'
<1>0. /\ syn \in [OfflineScans -> SyncLocal]
      /\ DOMAIN syn[x] = {"pc", "driver", "ticket", "at", "inspection", "status",
                          "usedAt", "result"}
      /\ DOMAIN SyncIdle = {"pc", "driver", "ticket", "at", "inspection", "status",
                            "usedAt", "result"}
      /\ now \in Int /\ now' \in Int /\ now <= now' /\ syn[x].at \in Int
  BY TypeInvParts, ClockMovesForward DEF SyncTypeOK, SyncLocal, SyncIdle, Times
<1>1. ASSUME syn'[x].pc \in SyncPcs => syn[x].pc \in SyncPcs,
             syn'[x].ticket = syn[x].ticket, syn'[x].at = syn[x].at
      PROVE  SyncInLife(x)'
  <2> SUFFICES ASSUME syn[x].pc \in SyncPcs
               PROVE  /\ ticket'[syn[x].ticket].expiresAt - TicketTTL <= syn[x].at
                      /\ syn[x].at <= now'
    BY <1>1 DEF SyncInLife
  <2>1. PICK t \in Tickets : t = syn[x].ticket BY TypeInvParts DEF SyncLocalsOK
  <2>2. Issued(t) BY <2>1 DEF SafetyInv, SyncInv
  <2>3. ticket'[t].expiresAt = ticket[t].expiresAt
    BY <2>2, RowsMoveForward DEF Forward
  <2>4. QED BY <1>0, <2>1, <2>3 DEF SyncInLife
<1>2. CASE syn'[x] = syn[x] BY <1>1, <1>2
<1>3. ASSUME NEW o \in OfflineScans, SyncStep(o) PROVE SyncInLife(x)'
  BY <1>1, <1>2, <1>3, SyncStepMoves
<1>4. ASSUME NEW o \in OfflineScans, RejectUnverified(o) PROVE SyncInLife(x)'
  <2>1. CASE x = o
    <3>1. syn'[x].pc = "done" BY <1>0, <1>4, <2>1 DEF RejectUnverified
    <3>2. QED BY <3>1 DEF SyncInLife, SyncPcs
  <2>2. CASE x # o BY <1>0, <1>2, <1>4, <2>2 DEF RejectUnverified
  <2>3. QED BY <2>1, <2>2
<1>5. ASSUME NEW o \in OfflineScans, NEW d \in Drivers, NEW t \in Tickets,
             NEW at \in Times, NEW inspection \in BOOLEAN,
             StartSync(o, d, t, at, inspection)
      PROVE  SyncInLife(x)'
  <2>1. CASE x = o
    <3>1. syn'[x].ticket = t /\ syn'[x].at = at BY <1>0, <1>5, <2>1 DEF StartSync
    <3>2. UNCHANGED <<ticket, now>> BY <1>5 DEF StartSync, store
    <3>3. at \in (ticket[t].expiresAt - TicketTTL)..now /\ ticket[t].expiresAt \in Int
      BY <1>5, TypeInvParts DEF StartSync, RowsOK, StoreTypeOK, TicketRow
    <3>4. QED BY <1>0, <3>1, <3>2, <3>3, StoreAssumption DEF SyncInLife
  <2>2. CASE x # o BY <1>0, <1>2, <1>5, <2>2 DEF StartSync
  <2>3. QED BY <2>1, <2>2
<1>6. CASE UNCHANGED syn BY <1>2, <1>6
<1>7. QED BY <1>3, <1>4, <1>5, <1>6, Components

\* A request that is done stays done.
LEMMA DoneStays ==
  ASSUME TypeInv, [Next]_vars
  PROVE  /\ \A s \in OnlineScans : scan[s].pc = "done" => scan'[s].pc = "done"
         /\ \A o \in OfflineScans : syn[o].pc = "done" => syn'[o].pc = "done"
<1>0. /\ DOMAIN scan = OnlineScans /\ DOMAIN syn = OfflineScans
  BY TypeInvParts DEF ScanTypeOK, SyncTypeOK
<1>1. ASSUME NEW s \in OnlineScans, scan[s].pc = "done" PROVE scan'[s] = scan[s]
  <2>1. ASSUME NEW x \in OnlineScans, ValidationStep(x) PROVE scan'[s] = scan[s]
    BY <1>1, <2>1, ScanStep DEF ScanPcs
  <2>2. ASSUME NEW x \in OnlineScans, NEW d \in Drivers, NEW t \in Tickets,
               \/ \E inspection \in BOOLEAN : StartValidation(x, d, t, inspection)
               \/ RejectForged(x, d, t)
        PROVE  scan'[s] = scan[s]
    BY <1>0, <1>1, <2>2 DEF StartValidation, RejectForged
  <2>3. QED BY <2>1, <2>2, Components
<1>2. ASSUME NEW o \in OfflineScans, syn[o].pc = "done" PROVE syn'[o] = syn[o]
  <2>1. ASSUME NEW x \in OfflineScans, SyncStep(x) PROVE syn'[o] = syn[o]
    BY <1>2, <2>1, SyncStepMoves DEF SyncPcs
  <2>2. ASSUME NEW x \in OfflineScans, RejectUnverified(x) PROVE syn'[o] = syn[o]
    BY <1>0, <1>2, <2>2 DEF RejectUnverified
  <2>3. ASSUME NEW x \in OfflineScans, NEW d \in Drivers, NEW t \in Tickets,
               NEW at \in Times, NEW inspection \in BOOLEAN,
               StartSync(x, d, t, at, inspection)
        PROVE  syn'[o] = syn[o]
    BY <1>0, <1>2, <2>3 DEF StartSync
  <2>4. QED BY <2>1, <2>2, <2>3, Components
<1>3. QED BY <1>1, <1>2

LEMMA NextLoggedBy ==
  ASSUME TypeInv, LogInv, [Next]_vars, NEW e \in scanEvents'
  PROVE  LoggedBy(e)'
<1>0. /\ DOMAIN scan = OnlineScans /\ DOMAIN syn = OfflineScans
      /\ \A s \in OnlineScans : "pc" \in DOMAIN scan[s]
      /\ \A o \in OfflineScans : "pc" \in DOMAIN syn[o]
  BY TypeInvParts DEF ScanTypeOK, SyncTypeOK, ScanLocal, SyncLocal
<1>1. CASE e \in scanEvents
  <2>1. LoggedBy(e) BY <1>1 DEF LogInv
  <2>2. QED BY <2>1, DoneStays DEF LoggedBy
<1>2. ASSUME NEW s \in OnlineScans, NEW d \in Drivers, NEW t \in Tickets,
             RejectForged(s, d, t), e \notin scanEvents
      PROVE  LoggedBy(e)'
  <2>1. e.by = s BY <1>2 DEF RejectForged, InsertScanEvent
  <2>2. scan'[s].pc = "done" BY <1>0, <1>2 DEF RejectForged
  <2>3. QED BY <2>1, <2>2 DEF LoggedBy
<1>3. ASSUME NEW s \in OnlineScans, LogScan(s), e \notin scanEvents
      PROVE  LoggedBy(e)'
  <2>1. e.by = s BY <1>3 DEF LogScan, InsertScanEvent
  <2>2. scan'[s].pc = "done" BY <1>0, <1>3 DEF LogScan
  <2>3. QED BY <2>1, <2>2 DEF LoggedBy
<1>4. ASSUME NEW o \in OfflineScans, LogOffline(o), e \notin scanEvents
      PROVE  LoggedBy(e)'
  <2>1. e.by = o BY <1>4 DEF LogOffline, InsertScanEvent
  <2>2. syn'[o].pc = "done" BY <1>0, <1>4 DEF LogOffline
  <2>3. QED BY <2>1, <2>2 DEF LoggedBy
<1>5. QED BY <1>1, <1>2, <1>3, <1>4, EventWriters

LEMMA NextLogInv ==
  ASSUME TypeInv, SafetyInv, LogInv, [Next]_vars PROVE LogInv'
<1>1. \A t \in Tickets : buy'[t].at <= now' BY NextBuyPast DEF LogInv
<1>2. \A o \in OfflineScans : SyncInLife(o)'
  BY NextSyncInLife DEF LogInv, SyncInLife
<1>3. \A e \in scanEvents' : LoggedBy(e)' BY NextLoggedBy
<1>4. QED BY <1>1, <1>2, <1>3 DEF LogInv, SyncInLife

LEMMA InitLog == Init => LogInv
<1> SUFFICES ASSUME Init PROVE LogInv OBVIOUS
<1>1. /\ \A t \in Tickets : buy[t].at = 0
      /\ \A o \in OfflineScans : syn[o].pc = "idle"
      /\ now = 0 /\ scanEvents = {}
  BY DEF Init, StoreInit, PurchaseInit, SyncInit, BuyIdle, SyncIdle
<1>2. QED BY <1>1 DEF LogInv, SyncPcs

-----------------------------------------------------------------------------
(* The rows and lists as ScanLog has them.                                   *)

Phase == [t \in Tickets |-> ticket[t].status]
BoughtAt ==
  [t \in Tickets |-> IF Issued(t) THEN ticket[t].expiresAt - TicketTTL ELSE NULL]
UseTime == [t \in Tickets |-> ticket[t].usedAt]
Listed == [j \in Runs |-> run[j].todo]

\* A row that is written shows in its status and its times.
LEMMA RowShows ==
  ASSUME ticket \in [Tickets -> TicketRow], NEW t \in Tickets, NEW r \in TicketRow,
         ticket' = [ticket EXCEPT ![t] = r], r.status # "NONE"
  PROVE  /\ Phase' = [Phase EXCEPT ![t] = r.status]
         /\ UseTime' = [UseTime EXCEPT ![t] = r.usedAt]
         /\ BoughtAt' = [BoughtAt EXCEPT ![t] = r.expiresAt - TicketTTL]
<1>1. /\ ticket'[t] = r
      /\ \A u \in Tickets : u # t => ticket'[u] = ticket[u]
  OBVIOUS
<1>2. Phase' = [Phase EXCEPT ![t] = r.status] BY <1>1 DEF Phase
<1>3. UseTime' = [UseTime EXCEPT ![t] = r.usedAt] BY <1>1 DEF UseTime
<1>4. BoughtAt' = [BoughtAt EXCEPT ![t] = r.expiresAt - TicketTTL]
  BY <1>1 DEF BoughtAt, Issued
<1>5. QED BY <1>2, <1>3, <1>4

\* The row of a ticket that was issued keeps the time of its purchase.
LEMMA IssuedRowShows ==
  ASSUME ticket \in [Tickets -> TicketRow], NEW t \in Tickets, NEW r \in TicketRow,
         ticket' = [ticket EXCEPT ![t] = r], Issued(t), r.status # "NONE",
         r.expiresAt = ticket[t].expiresAt
  PROVE  /\ Phase' = [Phase EXCEPT ![t] = r.status]
         /\ UseTime' = [UseTime EXCEPT ![t] = r.usedAt]
         /\ UNCHANGED BoughtAt
         /\ BoughtAt[t] = ticket[t].expiresAt - TicketTTL
         /\ BoughtAt[t] + TicketTTL = ticket[t].expiresAt
<1>1. /\ Phase' = [Phase EXCEPT ![t] = r.status]
      /\ UseTime' = [UseTime EXCEPT ![t] = r.usedAt]
      /\ BoughtAt' = [BoughtAt EXCEPT ![t] = r.expiresAt - TicketTTL]
  BY RowShows
<1>2. BoughtAt[t] = ticket[t].expiresAt - TicketTTL BY DEF BoughtAt
<1>3. UNCHANGED BoughtAt BY <1>1, <1>2 DEF BoughtAt
<1>4. BoughtAt[t] + TicketTTL = ticket[t].expiresAt
  <2>1. ticket[t].expiresAt \in Int /\ TicketTTL \in Int
    BY StoreAssumption DEF TicketRow
  <2>2. QED BY <1>2, <2>1
<1>5. QED BY <1>1, <1>2, <1>3, <1>4

LEMMA PurchaseIsLogged ==
  ASSUME TypeInv, SafetyInv, LogInv, NEW t \in Tickets, CommitPurchase(t),
         UNCHANGED run
  PROVE  \E at \in Times : Logged!Buy(t, at)
<1> PICK at \in Times : at = buy[t].at BY TypeInvParts DEF BuyTypeOK
<1>0. /\ ticket \in [Tickets -> TicketRow] /\ at \in Nat /\ TicketTTL \in Nat
      /\ at = buy[t].at /\ at <= now
  BY TypeInvParts, StoreAssumption DEF RowsOK, StoreTypeOK, BuyTypeOK, Times, LogInv
<1>1. PICK r : r = [status |-> "ACTIVE", expiresAt |-> at + TicketTTL,
                    usedAt |-> NULL, refundedAt |-> NULL]
  OBVIOUS
<1>2. r \in TicketRow BY <1>0, <1>1 DEF TicketRow, TicketStatus
<1>3. ~Issued(t) BY DEF CommitPurchase, SafetyInv, IssuedWhenBought
<1>4. /\ Phase' = [Phase EXCEPT ![t] = "ACTIVE"]
      /\ UseTime' = [UseTime EXCEPT ![t] = NULL]
      /\ BoughtAt' = [BoughtAt EXCEPT ![t] = at]
  <2>1. ticket' = [ticket EXCEPT ![t] = r] BY <1>0, <1>1 DEF CommitPurchase
  <2>2. r.status = "ACTIVE" /\ r.usedAt = NULL /\ r.expiresAt - TicketTTL = at
    BY <1>0, <1>1
  <2>3. /\ Phase' = [Phase EXCEPT ![t] = r.status]
        /\ UseTime' = [UseTime EXCEPT ![t] = r.usedAt]
        /\ BoughtAt' = [BoughtAt EXCEPT ![t] = r.expiresAt - TicketTTL]
    <3>1. r.status # "NONE" BY <2>2
    <3>2. QED BY <1>0, <1>2, <2>1, <3>1, RowShows
  <2>4. QED BY <2>2, <2>3
<1>5. UNCHANGED UseTime
  <2>1. UseTime[t] = NULL BY <1>3 DEF UseTime, SafetyInv, RowInv
  <2>2. QED BY <1>4, <2>1 DEF UseTime
<1>6. UNCHANGED <<now, scanEvents, Listed>> BY DEF CommitPurchase, Listed
<1>7. t \notin Logged!Sold BY <1>3 DEF Logged!Sold, Issued
<1>8. QED
  BY <1>0, <1>4, <1>5, <1>6, <1>7 DEF Logged!Buy, Phase, UseTime, BoughtAt, Listed

LEMMA ClaimIsLogged ==
  ASSUME TypeInv, SafetyInv, NEW s \in OnlineScans, ClaimTicket(s), UNCHANGED run
  PROVE  \/ UNCHANGED ticket
         \/ \E t \in Tickets, at \in Times : Logged!Use(t, at)
<1>0. PICK t \in Tickets, at \in Times : t = scan[s].ticket /\ at = scan[s].at
  BY TypeInvParts DEF ClaimTicket, ScanLocalsOK, ScanPcs, ScanTypeOK, ScanLocal
<1>1. /\ ticket \in [Tickets -> TicketRow] /\ ticket[t] \in TicketRow
  BY TypeInvParts DEF RowsOK, StoreTypeOK
<1> SUFFICES ASSUME ticket[t].status = "ACTIVE",
                    ticket' = [ticket EXCEPT ![t] =
                      [@ EXCEPT !.status = "USED", !.usedAt = at]]
             PROVE  Logged!Use(t, at)
  BY <1>0 DEF ClaimTicket
<1>2. PICK r : r = [ticket[t] EXCEPT !.status = "USED", !.usedAt = at] OBVIOUS
<1>3. /\ r \in TicketRow /\ r.status = "USED" /\ r.usedAt = at
      /\ r.expiresAt = ticket[t].expiresAt
  BY <1>1, <1>2 DEF TicketRow, TicketStatus
<1>4. at <= now /\ at <= ticket[t].expiresAt
  BY <1>0 DEF ClaimTicket, SafetyInv, ScanInv, ScanPcs
<1>5. /\ Phase' = [Phase EXCEPT ![t] = "USED"]
      /\ UseTime' = [UseTime EXCEPT ![t] = at]
      /\ UNCHANGED BoughtAt /\ at <= BoughtAt[t] + TicketTTL
  <2>1. ticket' = [ticket EXCEPT ![t] = r] BY <1>2
  <2>2. Issued(t) BY DEF Issued
  <2>3. /\ Phase' = [Phase EXCEPT ![t] = r.status]
        /\ UseTime' = [UseTime EXCEPT ![t] = r.usedAt]
        /\ UNCHANGED BoughtAt /\ BoughtAt[t] + TicketTTL = ticket[t].expiresAt
    <3>1. r.status # "NONE" BY <1>3
    <3>2. QED BY <1>1, <1>3, <2>1, <2>2, <3>1, IssuedRowShows
  <2>4. QED BY <1>3, <1>4, <2>3
<1>6. Phase[t] = "ACTIVE" BY DEF Phase
<1>7. UNCHANGED <<now, scanEvents, Listed>> BY DEF ClaimTicket, Listed
<1>8. QED
  BY <1>4, <1>5, <1>6, <1>7
  DEF Logged!Use, Logged!ExpiresAt, Phase, UseTime, BoughtAt, Listed

LEMMA DeliveryIsLogged ==
  ASSUME TypeInv, SafetyInv, LogInv, NEW o \in OfflineScans,
         MoveUsedAt(o) \/ MarkUsed(o) \/ ReverseRefund(o), UNCHANGED run
  PROVE  \E t \in Tickets, at \in Times : Logged!Deliver(t, at)
<1>0. PICK t \in Tickets, at \in Times : t = syn[o].ticket /\ at = syn[o].at
  BY TypeInvParts
  DEF MoveUsedAt, MarkUsed, ReverseRefund, Write, SyncLocalsOK, SyncPcs, SyncTypeOK,
      SyncLocal
<1>1. /\ ticket \in [Tickets -> TicketRow] /\ ticket[t] \in TicketRow
  BY TypeInvParts DEF RowsOK, StoreTypeOK
<1>2. /\ Issued(t) /\ ticket[t].expiresAt - TicketTTL <= at
      /\ at <= ticket[t].expiresAt /\ at <= now
  BY <1>0
  DEF MoveUsedAt, MarkUsed, ReverseRefund, Write, SafetyInv, SyncInv, LogInv, SyncPcs
<1>3. PICK r \in TicketRow :
        /\ ticket' = [ticket EXCEPT ![t] = r]
        /\ r.status \in {"USED", ticket[t].status} /\ r.usedAt = at
        /\ r.expiresAt = ticket[t].expiresAt
  <2>1. CASE MoveUsedAt(o)
    <3>1. PICK r : r = [ticket[t] EXCEPT !.usedAt = at] OBVIOUS
    <3>2. /\ r \in TicketRow /\ r.status = ticket[t].status /\ r.usedAt = at
          /\ r.expiresAt = ticket[t].expiresAt
      BY <1>1, <3>1 DEF TicketRow
    <3>3. ticket' = [ticket EXCEPT ![t] = r] BY <1>0, <1>1, <2>1, <3>1 DEF MoveUsedAt
    <3>4. QED BY <3>2, <3>3
  <2>2. CASE MarkUsed(o)
    <3>1. PICK r : r = [ticket[t] EXCEPT !.status = "USED", !.usedAt = at] OBVIOUS
    <3>2. /\ r \in TicketRow /\ r.status = "USED" /\ r.usedAt = at
          /\ r.expiresAt = ticket[t].expiresAt
      BY <1>1, <3>1 DEF TicketRow, TicketStatus
    <3>3. ticket' = [ticket EXCEPT ![t] = r] BY <1>0, <1>1, <2>2, <3>1 DEF MarkUsed
    <3>4. QED BY <3>2, <3>3
  <2>3. CASE ReverseRefund(o)
    <3>1. PICK r : r = [ticket[t] EXCEPT !.status = "USED", !.usedAt = at,
                                         !.refundedAt = NULL]
      OBVIOUS
    <3>2. /\ r \in TicketRow /\ r.status = "USED" /\ r.usedAt = at
          /\ r.expiresAt = ticket[t].expiresAt
      BY <1>1, <3>1 DEF TicketRow, TicketStatus
    <3>3. ticket' = [ticket EXCEPT ![t] = r]
      BY <1>0, <1>1, <2>3, <3>1 DEF ReverseRefund
    <3>4. QED BY <3>2, <3>3
  <2>4. QED BY <2>1, <2>2, <2>3
<1>4. /\ Phase' = [Phase EXCEPT ![t] = r.status]
      /\ UseTime' = [UseTime EXCEPT ![t] = at]
      /\ UNCHANGED BoughtAt /\ BoughtAt[t] <= at /\ at <= BoughtAt[t] + TicketTTL
  <2>1. r.status # "NONE" BY <1>2, <1>3 DEF Issued
  <2>2. QED BY <1>1, <1>2, <1>3, <2>1, IssuedRowShows
<1>5. Phase' \in {Phase, [Phase EXCEPT ![t] = "USED"]}
  <2>1. CASE r.status = "USED" BY <1>4, <2>1
  <2>2. CASE r.status = ticket[t].status BY <1>4, <2>2 DEF Phase
  <2>3. QED BY <1>3, <2>1, <2>2
<1>6. UNCHANGED <<now, scanEvents, Listed>>
  BY DEF MoveUsedAt, MarkUsed, ReverseRefund, Write, Listed
<1>7. t \in Logged!Sold BY <1>2 DEF Logged!Sold, Issued
<1>8. Logged!Deliver(t, at)
  BY <1>2, <1>4, <1>5, <1>6, <1>7
  DEF Logged!Deliver, Logged!ExpiresAt, Phase, UseTime, BoughtAt, Listed
<1>9. QED BY <1>8

\* A step that writes no ticket, no log and no list is none that reports see.
LEMMA QuietStep ==
  ASSUME UNCHANGED <<now, ticket, scanEvents, Listed>>
  PROVE  UNCHANGED Logged!lvars
<1>1. UNCHANGED <<Phase, BoughtAt, UseTime>> BY DEF Phase, BoughtAt, UseTime, Issued
<1>2. QED BY <1>1 DEF Logged!lvars, Phase, BoughtAt, UseTime, Listed

\* A row of scan_events is written once by a request, with a time that is past.
LEMMA EventIsLogged ==
  ASSUME TypeInv, LogInv, UNCHANGED <<now, ticket, run>>,
         NEW by \in OnlineScans \cup OfflineScans, NEW d \in Drivers,
         NEW t \in Tickets, NEW at \in Times, NEW result \in ScanResult,
         NEW isOffline \in BOOLEAN,
         InsertScanEvent(by, d, t, at, result, isOffline),
         by \in OnlineScans => scan[by].pc # "done",
         by \in OfflineScans => syn[by].pc # "done",
         Issued(t), at <= now
  PROVE  Logged!Log(by, d, t, at, result, isOffline)
<1>1. \A e \in scanEvents : e.by # by BY DEF LogInv, LoggedBy
<1>2. t \in Logged!Sold BY DEF Logged!Sold, Issued
<1>3. UNCHANGED <<Phase, BoughtAt, UseTime, Listed>>
  BY DEF Phase, BoughtAt, UseTime, Listed, Issued
<1>4. QED
  BY <1>1, <1>2, <1>3
  DEF Logged!Log, InsertScanEvent, Phase, BoughtAt, UseTime, Listed

LoggedRow ==
  \E s \in OnlineScans \cup OfflineScans, d \in Drivers, t \in Tickets, at \in Times,
     result \in ScanResult, isOffline \in BOOLEAN :
    Logged!Log(s, d, t, at, result, isOffline)

LEMMA RejectionIsLogged ==
  ASSUME TypeInv, LogInv, NEW s \in OnlineScans, NEW d \in Drivers, NEW t \in Tickets,
         RejectForged(s, d, t), UNCHANGED run
  PROVE  LoggedRow
<1>1. PICK at \in Times : at = now BY TypeInvParts DEF RowsOK, StoreTypeOK
<1>2. /\ InsertScanEvent(s, d, t, at, "INVALID_SIGNATURE", FALSE)
      /\ scan[s].pc # "done" /\ Issued(t) /\ at <= now
      /\ UNCHANGED <<now, ticket, run>>
  BY <1>1 DEF RejectForged, InsertScanEvent, Times
<1>3. s \notin OfflineScans BY LifecycleAssumption
<1>4. Logged!Log(s, d, t, at, "INVALID_SIGNATURE", FALSE)
  BY <1>2, <1>3, Literals, EventIsLogged
<1>5. QED BY <1>4, Literals DEF LoggedRow

LEMMA ScanIsLogged ==
  ASSUME TypeInv, SafetyInv, LogInv, NEW s \in OnlineScans, LogScan(s), UNCHANGED run
  PROVE  LoggedRow
<1>1. PICK d \in Drivers, t \in Tickets, at \in Times, result \in ScanResult :
        /\ d = scan[s].driver /\ t = scan[s].ticket /\ at = scan[s].at
        /\ result = scan[s].result
  BY TypeInvParts DEF LogScan, ScanLocalsOK, ScanPcs, ScanTypeOK, ScanLocal
<1>2. InsertScanEvent(s, d, t, at, result, FALSE) BY <1>1 DEF LogScan
<1>3. /\ scan[s].pc # "done" /\ Issued(t) /\ at <= now
      /\ UNCHANGED <<now, ticket, run>>
  BY <1>1 DEF LogScan, ScanPcs, SafetyInv, ScanInv
<1>4. s \notin OfflineScans BY LifecycleAssumption
<1>5. Logged!Log(s, d, t, at, result, FALSE) BY <1>2, <1>3, <1>4, EventIsLogged
<1>6. QED BY <1>5 DEF LoggedRow

LEMMA OfflineIsLogged ==
  ASSUME TypeInv, SafetyInv, LogInv, NEW o \in OfflineScans, LogOffline(o),
         UNCHANGED run
  PROVE  LoggedRow
<1>1. PICK d \in Drivers, t \in Tickets, at \in Times, result \in ScanResult :
        /\ d = syn[o].driver /\ t = syn[o].ticket /\ at = syn[o].at
        /\ result = syn[o].result
  BY TypeInvParts DEF LogOffline, SyncLocalsOK, SyncPcs, SyncTypeOK, SyncLocal
<1>2. InsertScanEvent(o, d, t, at, result, TRUE) BY <1>1 DEF LogOffline
<1>3. /\ syn[o].pc # "done" /\ Issued(t) /\ at <= now
      /\ UNCHANGED <<now, ticket, run>>
  BY <1>1 DEF LogOffline, SyncPcs, SafetyInv, SyncInv, LogInv
<1>4. o \notin OnlineScans BY LifecycleAssumption
<1>5. Logged!Log(o, d, t, at, result, TRUE) BY <1>2, <1>3, <1>4, EventIsLogged
<1>6. QED BY <1>5 DEF LoggedRow

\* The steps of the job: a list is made of tickets found unused after their hour,
\* and only shrinks, with a refund or without.
LEMMA FindIsLogged ==
  ASSUME TypeInv, SafetyInv, NEW j \in Runs, FindExpired(j)
  PROVE  Logged!Find(j)
<1>0. /\ run \in [Runs -> RunLocal] /\ ticket \in [Tickets -> TicketRow]
      /\ DOMAIN RunIdle = {"pc", "todo", "full", "cur", "read"} /\ RunIdle.todo = {}
      /\ TicketTTL \in Int /\ \A t \in Tickets : ticket[t].expiresAt \in Int
  BY TypeInvParts, StoreAssumption
  DEF RunTypeOK, RunIdle, RowsOK, StoreTypeOK, TicketRow
<1>1. PICK B \in Batches :
        run' = [run EXCEPT ![j] = IF B = {} THEN RunIdle ELSE
               [RunIdle EXCEPT !.pc = "next", !.todo = B,
                               !.full = (Cardinality(B) = BatchSize)]]
  BY DEF FindExpired
<1>2. run'[j].todo = B /\ \A i \in Runs : i # j => run'[i] = run[i]
  <2>1. CASE B = {} BY <1>0, <1>1, <2>1
  <2>2. CASE B # {} BY <1>0, <1>1, <2>2
  <2>3. QED BY <2>1, <2>2
<1>3. Listed' = [Listed EXCEPT ![j] = B] BY <1>2 DEF Listed
<1>4. B \subseteq Logged!Expirable
  <2>1. SUFFICES ASSUME NEW t \in Expirable PROVE t \in Logged!Expirable
    BY DEF Batches
  <2>2. t \in Tickets /\ Phase[t] = "ACTIVE" /\ Issued(t)
    BY DEF Expirable, Phase, Issued
  <2>3. BoughtAt[t] + TicketTTL = ticket[t].expiresAt BY <1>0, <2>2 DEF BoughtAt
  <2>4. now > BoughtAt[t] + TicketTTL BY <2>3 DEF Expirable, Expired
  <2>5. QED
    BY <2>2, <2>4 DEF Logged!Expirable, Logged!ExpiresAt, Phase, BoughtAt
<1>5. UNCHANGED <<now, scanEvents, Phase, BoughtAt, UseTime>>
  BY DEF FindExpired, store, Phase, BoughtAt, UseTime, Issued
<1>6. QED
  BY <1>3, <1>4, <1>5 DEF Logged!Find, Phase, BoughtAt, UseTime, Listed

LEMMA ListShrinks ==
  ASSUME NEW j \in Runs, NEW rest \in SUBSET run[j].todo,
         Listed' = [Listed EXCEPT ![j] = rest], UNCHANGED <<now, ticket, scanEvents>>
  PROVE  Logged!Drop(j)
<1>1. rest \in SUBSET Listed[j] BY DEF Listed
<1>2. UNCHANGED <<Phase, BoughtAt, UseTime>> BY DEF Phase, BoughtAt, UseTime, Issued
<1>3. QED BY <1>1, <1>2 DEF Logged!Drop, Phase, BoughtAt, UseTime, Listed

LEMMA RefundIsLogged ==
  ASSUME TypeInv, SafetyInv, NEW j \in Runs, CommitRefund(j)
  PROVE  \E t \in Tickets : Logged!Refund(j, t)
<1>0. /\ run \in [Runs -> RunLocal] /\ ticket \in [Tickets -> TicketRow]
      /\ DOMAIN run[j] = {"pc", "todo", "full", "cur", "read"}
      /\ now \in Times
  BY TypeInvParts DEF RunTypeOK, RunLocal, RowsOK, StoreTypeOK
<1>1. PICK t \in Tickets : t = run[j].cur /\ t \in run[j].todo
  BY TypeInvParts DEF CommitRefund, RunLocalsOK, RunTypeOK, RunLocal
<1>2. PICK r : r = [ticket[t] EXCEPT !.status = "REFUNDED", !.refundedAt = now]
  OBVIOUS
<1>3. /\ r \in TicketRow /\ r.status = "REFUNDED" /\ r.usedAt = ticket[t].usedAt
      /\ r.expiresAt = ticket[t].expiresAt
  <2>1. ticket[t] \in TicketRow BY <1>0
  <2>2. QED BY <1>0, <1>2, <2>1 DEF TicketRow, TicketStatus
<1>4. /\ Phase' = [Phase EXCEPT ![t] = "REFUNDED"]
      /\ UNCHANGED <<BoughtAt, UseTime>>
  <2>1. ticket' = [ticket EXCEPT ![t] = r] BY <1>1, <1>2 DEF CommitRefund
  <2>2. Issued(t) BY <1>1 DEF SafetyInv, RunInv
  <2>3. /\ Phase' = [Phase EXCEPT ![t] = r.status]
        /\ UseTime' = [UseTime EXCEPT ![t] = r.usedAt]
        /\ UNCHANGED BoughtAt
    <3>1. r.status # "NONE" BY <1>3
    <3>2. QED BY <1>0, <1>3, <2>1, <2>2, <3>1, IssuedRowShows
  <2>4. UseTime' = UseTime BY <1>3, <2>3 DEF UseTime
  <2>5. QED BY <1>3, <2>3, <2>4
<1>5. Listed' = [Listed EXCEPT ![j] = @ \ {t}]
  <2>1. run'[j].todo = run[j].todo \ {t} /\ \A i \in Runs : i # j => run'[i] = run[i]
    BY <1>0, <1>1 DEF CommitRefund, Release
  <2>2. QED BY <2>1 DEF Listed
<1>6. t \in Listed[j] BY <1>1 DEF Listed
<1>7. UNCHANGED <<now, scanEvents>> BY DEF CommitRefund
<1>8. Logged!Refund(j, t)
  BY <1>4, <1>5, <1>6, <1>7 DEF Logged!Refund, Phase, BoughtAt, UseTime, Listed
<1>9. QED BY <1>8

LEMMA JobIsLogged ==
  ASSUME TypeInv, SafetyInv, NEW j \in Runs, JobStep(j)
  PROVE  \/ UNCHANGED <<now, ticket, scanEvents, Listed>>
         \/ Logged!Drop(j)
         \/ \E t \in Tickets : Logged!Refund(j, t)
<1>0. /\ run \in [Runs -> RunLocal] /\ DOMAIN run = Runs
      /\ DOMAIN run[j] = {"pc", "todo", "full", "cur", "read"}
      /\ DOMAIN RunIdle = {"pc", "todo", "full", "cur", "read"} /\ RunIdle.todo = {}
  BY TypeInvParts DEF RunTypeOK, RunLocal, RunIdle
<1>1. ASSUME NEW t \in Tickets, ExpireTicket(j, t)
      PROVE  UNCHANGED <<now, ticket, scanEvents, Listed>>
  <2>1. \A i \in Runs : run'[i].todo = run[i].todo BY <1>0, <1>1 DEF ExpireTicket
  <2>2. QED BY <1>1, <2>1 DEF ExpireTicket, Listed
<1>2. CASE ReadWalletForCredit(j)
  <2>1. \A i \in Runs : run'[i].todo = run[i].todo
    BY <1>0, <1>2 DEF ReadWalletForCredit
  <2>2. QED BY <1>2, <2>1 DEF ReadWalletForCredit, store, Listed
<1>3. CASE CommitRefund(j) BY <1>3, RefundIsLogged
<1>4. CASE RollbackRefund(j)
  <2>1. PICK rest : rest = run[j].todo \ {run[j].cur} OBVIOUS
  <2>2. run'[j].todo = rest /\ \A i \in Runs : i # j => run'[i] = run[i]
    BY <1>0, <1>4, <2>1 DEF RollbackRefund, Release
  <2>3. Listed' = [Listed EXCEPT ![j] = rest] BY <2>2 DEF Listed
  <2>4. UNCHANGED <<now, ticket, scanEvents>> BY <1>4 DEF RollbackRefund
  <2>5. QED BY <2>1, <2>3, <2>4, ListShrinks
<1>5. CASE EndBatch(j) \/ CrashRun(j)
  <2>1. run'[j].todo = {} /\ \A i \in Runs : i # j => run'[i] = run[i]
    <3>1. CASE EndBatch(j) BY <1>0, <3>1 DEF EndBatch
    <3>2. CASE CrashRun(j) BY <1>0, <3>2 DEF CrashRun
    <3>3. QED BY <1>5, <3>1, <3>2
  <2>2. Listed' = [Listed EXCEPT ![j] = {}] BY <2>1 DEF Listed
  <2>3. UNCHANGED <<now, ticket, scanEvents>> BY <1>5 DEF EndBatch, CrashRun, store
  <2>4. QED BY <2>2, <2>3, ListShrinks
<1>6. QED BY <1>1, <1>2, <1>3, <1>4, <1>5 DEF JobStep

-----------------------------------------------------------------------------
\* Each statement of a handler is a step of ScanLog, or none that reports see.
LEMMA PurchaseStepIsLogged ==
  ASSUME TypeInv, SafetyInv, LogInv, NEW t \in Tickets, PurchaseStep(t), UNCHANGED run
  PROVE  [Logged!LogNext]_(Logged!lvars)
<1>1. CASE CommitPurchase(t)
  BY <1>1, PurchaseIsLogged DEF Logged!LogNext, Logged!Going, Times
<1>2. CASE ~CommitPurchase(t)
  <2>1. UNCHANGED <<now, ticket, scanEvents, Listed>>
    BY <1>2 DEF PurchaseStep, RejectInsufficient, ReadWallet, AbortPurchase, store,
                Listed
  <2>2. QED BY <2>1, QuietStep
<1>3. QED BY <1>1, <1>2

LEMMA ValidationStepIsLogged ==
  ASSUME TypeInv, SafetyInv, LogInv, NEW s \in OnlineScans, ValidationStep(s),
         UNCHANGED run
  PROVE  [Logged!LogNext]_(Logged!lvars)
<1>1. CASE ClaimTicket(s)
  <2>1. CASE UNCHANGED ticket
    <3>1. UNCHANGED <<now, ticket, scanEvents, Listed>>
      BY <1>1, <2>1 DEF ClaimTicket, Listed
    <3>2. QED BY <3>1, QuietStep
  <2>2. CASE \E t \in Tickets, at \in Times : Logged!Use(t, at)
    BY <2>2 DEF Logged!LogNext, Logged!Going, Times
  <2>3. QED BY <1>1, <2>1, <2>2, ClaimIsLogged
<1>2. CASE LogScan(s)
  BY <1>2, ScanIsLogged DEF LoggedRow, Logged!LogNext, Logged!Going, Times,
                            ScanResult, Logged!ScanResult
<1>3. CASE ~ClaimTicket(s) /\ ~LogScan(s)
  <2>1. UNCHANGED <<now, ticket, scanEvents, Listed>>
    BY <1>3
    DEF ValidationStep, FetchTicket, NoActiveTrip, RejectExpired, RejectUsed, Inspect,
        PassChecks, CrashScan, store, Listed
  <2>2. QED BY <2>1, QuietStep
<1>4. QED BY <1>1, <1>2, <1>3

LEMMA SyncStepIsLogged ==
  ASSUME TypeInv, SafetyInv, LogInv, NEW o \in OfflineScans, SyncStep(o),
         UNCHANGED run
  PROVE  [Logged!LogNext]_(Logged!lvars)
<1>1. CASE MoveUsedAt(o) \/ MarkUsed(o) \/ ReverseRefund(o)
  BY <1>1, DeliveryIsLogged DEF Logged!LogNext, Logged!Going, Times
<1>2. CASE LogOffline(o)
  BY <1>2, OfflineIsLogged DEF LoggedRow, Logged!LogNext, Logged!Going, Times,
                               ScanResult, Logged!ScanResult
<1>3. CASE /\ ~MoveUsedAt(o) /\ ~MarkUsed(o) /\ ~ReverseRefund(o)
           /\ ~LogOffline(o)
  <2>1. UNCHANGED <<now, ticket, scanEvents, Listed>>
    BY <1>3
    DEF SyncStep, FetchForSync, SkipProcessed, LateScan, ServerWins, OfflineWins,
        OfflineInspection, FirstUse, Decide, CrashSync, store, Listed
  <2>2. QED BY <2>1, QuietStep
<1>4. QED BY <1>1, <1>2, <1>3

LEMMA NextIsLogged ==
  ASSUME TypeInv, SafetyInv, LogInv, [Next]_vars
  PROVE  [Logged!LogNext]_(Logged!lvars)
<1>1. CASE PurchaseArrives \/ SyncArrives \/ UNCHANGED vars
  <2>1. UNCHANGED <<now, ticket, scanEvents, Listed>>
    BY <1>1 DEF PurchaseArrives, StartPurchase, SyncArrives, StartSync,
                RejectUnverified, vars, store, Listed
  <2>2. QED BY <2>1, QuietStep
<1>2. CASE ScanArrives
  <2>1. ASSUME NEW s \in OnlineScans, NEW d \in Drivers, NEW t \in Tickets,
               NEW inspection \in BOOLEAN, StartValidation(s, d, t, inspection)
        PROVE  UNCHANGED <<now, ticket, scanEvents, Listed>>
    BY <1>2, <2>1 DEF ScanArrives, StartValidation, store, Listed
  <2>2. ASSUME NEW s \in OnlineScans, NEW d \in Drivers, NEW t \in Tickets,
               RejectForged(s, d, t)
        PROVE  LoggedRow
    BY <1>2, <2>2, RejectionIsLogged DEF ScanArrives
  <2>3. UNCHANGED <<now, ticket, scanEvents, Listed>> \/ LoggedRow
    BY <1>2, <2>1, <2>2 DEF ScanArrives
  <2>4. LoggedRow => Logged!LogNext
    BY DEF LoggedRow, Logged!LogNext, Logged!Going, Times, ScanResult,
           Logged!ScanResult
  <2>5. QED BY <2>3, <2>4, QuietStep
<1>3. CASE RunFires
  BY <1>3, FindIsLogged DEF RunFires, Logged!LogNext, Logged!Going
<1>4. CASE Handlers
  <2>1. ASSUME NEW j \in Runs, JobStep(j) PROVE [Logged!LogNext]_(Logged!lvars)
    <3>1. CASE UNCHANGED <<now, ticket, scanEvents, Listed>> BY <3>1, QuietStep
    <3>2. CASE Logged!Drop(j) BY <3>2 DEF Logged!LogNext, Logged!Going
    <3>3. CASE \E t \in Tickets : Logged!Refund(j, t) BY <3>3 DEF Logged!LogNext
    <3>4. QED BY <2>1, <3>1, <3>2, <3>3, JobIsLogged
  <2>2. ASSUME NEW j \in Runs, FindExpired(j) PROVE Logged!LogNext
    BY <2>2, FindIsLogged DEF Logged!LogNext, Logged!Going
  <2>3. QED
    BY <1>4, <2>1, <2>2, PurchaseStepIsLogged, ValidationStepIsLogged, SyncStepIsLogged
    DEF Handlers
<1>5. CASE Tick /\ UNCHANGED <<buy, scan, syn, run>>
  <2>1. UNCHANGED <<Phase, BoughtAt, UseTime, Listed>>
    BY <1>5 DEF Tick, Phase, BoughtAt, UseTime, Listed, Issued
  <2>2. Logged!Tick
    BY <1>5, <2>1 DEF Tick, Logged!Tick, Phase, BoughtAt, UseTime, Listed
  <2>3. QED BY <2>2 DEF Logged!LogNext, Logged!Going
<1>6. QED BY <1>1, <1>2, <1>3, <1>4, <1>5 DEF Next, Arrivals

LEMMA InitIsLogged == Init => Logged!LogInit
<1> SUFFICES ASSUME Init PROVE Logged!LogInit OBVIOUS
<1>1. /\ ticket = [t \in Tickets |-> NoTicket] /\ run = [j \in Runs |-> RunIdle]
      /\ now = 0 /\ scanEvents = {}
  BY DEF Init, StoreInit, JobInit
<1>2. /\ \A t \in Tickets : ~Issued(t) /\ ticket[t].usedAt = NULL
      /\ \A j \in Runs : run[j].todo = {}
  BY <1>1 DEF Issued, NoTicket, RunIdle
<1>3. /\ Phase = [t \in Tickets |-> "NONE"] /\ UseTime = [t \in Tickets |-> NULL]
      /\ BoughtAt = [t \in Tickets |-> NULL] /\ Listed = [j \in Runs |-> {}]
  BY <1>2 DEF Phase, BoughtAt, UseTime, Listed, Issued
<1>4. QED BY <1>1, <1>3 DEF Logged!LogInit, Phase, BoughtAt, UseTime, Listed

\* purchase, validateTicket, processScan and handleTicketExpiry commit what they
\* read and decided earlier: however they overlap and wherever they die, what the
\* reports then read has changed by a step of ScanLog, or not at all.
THEOREM KeepsLogAlways == Spec => KeepsLog
<1>1. Init => LogInv /\ Logged!LogInit BY InitLog, InitIsLogged
<1>2. (TypeInv /\ SafetyInv) /\ LogInv /\ [Next]_vars
        => LogInv' /\ [Logged!LogNext]_(Logged!lvars)
  BY NextLogInv, NextIsLogged
<1>3. QED BY <1>1, <1>2, Safety, PTL DEF Spec, KeepsLog, Logged!LogSpec
================================================================================
