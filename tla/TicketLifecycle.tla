---------------------------- MODULE TicketLifecycle ----------------------------
(***************************************************************************)
(* The life of a ticket: purchases, online scans, offline scans delivered  *)
(* later and runs of the expiry job, interleaved statement by statement    *)
(* over the rows of TicketStore.                                           *)
(***************************************************************************)
EXTENDS Purchase, Validation, Sync, ExpiryJob, FiniteSetsExt

CONSTANTS
  MaxInFlight,      \* bound on the handlers that run at the same time
  ScanModes         \* the kinds of scan that occur

ASSUME LifecycleAssumption ==
  /\ MaxInFlight \in Nat \ {0}
  /\ ScanModes \subseteq {"boarding", "inspection", "forged"}
  /\ OnlineScans \cap OfflineScans = {}    \* they name the rows of scan_events

vars == <<store, buy, scan, syn, run>>

Init == StoreInit /\ PurchaseInit /\ ValidationInit /\ SyncInit /\ JobInit

InFlight ==
  Cardinality(BuyInFlight) + Cardinality(ScanInFlight)
    + Cardinality(SyncInFlight) + Cardinality(RunInFlight)

PurchaseArrives ==
  /\ \E t \in Tickets : StartPurchase(t)
  /\ UNCHANGED <<scan, syn, run>>

ScanArrives ==
  /\ \E s \in OnlineScans, d \in Drivers, t \in Tickets, mode \in ScanModes :
       \/ mode # "forged" /\ StartValidation(s, d, t, mode = "inspection")
       \/ mode = "forged" /\ RejectForged(s, d, t)
  /\ UNCHANGED <<buy, syn, run>>

SyncArrives ==
  /\ \E o \in OfflineScans, mode \in ScanModes :
       \/ \E d \in Drivers, t \in Tickets, at \in Times :
            mode # "forged" /\ StartSync(o, d, t, at, mode = "inspection")
       \/ mode = "forged" /\ RejectUnverified(o)
  /\ UNCHANGED <<buy, scan, run>>

RunFires ==
  /\ \E j \in Runs : run[j].pc = "idle" /\ FindExpired(j)
  /\ UNCHANGED <<buy, scan, syn>>

Arrivals == PurchaseArrives \/ ScanArrives \/ SyncArrives \/ RunFires

\* The handlers already running.
Handlers ==
  \/ (\E t \in Tickets : PurchaseStep(t)) /\ UNCHANGED <<scan, syn, run>>
  \/ (\E s \in OnlineScans : ValidationStep(s)) /\ UNCHANGED <<buy, syn, run>>
  \/ (\E o \in OfflineScans : SyncStep(o)) /\ UNCHANGED <<buy, scan, run>>
  \/ /\ \E j \in Runs : JobStep(j) \/ (run[j].pc = "again" /\ FindExpired(j))
     /\ UNCHANGED <<buy, scan, syn>>

Next ==
  \/ InFlight < MaxInFlight /\ Arrivals
  \/ Handlers
  \/ Tick /\ UNCHANGED <<buy, scan, syn, run>>

Spec == Init /\ [][Next]_vars

-----------------------------------------------------------------------------
\* Every row and every local variable stays in the domain it is declared with.
TypeOK ==
  /\ StoreTypeOK /\ BuyTypeOK /\ ScanTypeOK /\ SyncTypeOK /\ RunTypeOK
  /\ rowLock \in [Tickets -> Runs \cup {NULL}]
  /\ scanEvents \subseteq
       [by: OnlineScans \cup OfflineScans, driver: Drivers, ticket: Tickets,
        at: Times, result: ScanResult, offline: BOOLEAN]

\* What a handler at work knows is there.
LocalsOK == ScanLocalsOK /\ SyncLocalsOK /\ RunLocalsOK

\* However many drivers scan a ticket at once, and whatever offline scans and
\* expiry runs do to it meanwhile, at most one online scan admits a passenger.
SingleAdmission ==
  \A s1, s2 \in OnlineScans :
    Admitted(s1) /\ Admitted(s2) /\ scan[s1].ticket = scan[s2].ticket
      => s1 = s2

\* A ticket counts as used only at a moment it was valid, although the check
\* against expiresAt and the write of usedAt are different statements.
UsedInTime ==
  \A t \in Tickets :
    ticket[t].usedAt # NULL => ticket[t].usedAt <= ticket[t].expiresAt

\* A ticket exists exactly when its fare was debited, and exactly once.
PaidExactlyOnce ==
  \A t \in Tickets : ledger[t].debits = IF Issued(t) THEN 1 ELSE 0

\* As long as the runs of the job do not overlap, a ticket is refunded at most
\* once, although the transaction overwrites whatever status it finds and a run
\* may die after any of its statements.
AtMostOneRefund == \A t \in Tickets : ledger[t].refunds <= 1

\* Concurrent purchases and refunds may overwrite each other's balance, yet only
\* the reversal of a refund, a decrement that checks nothing, can take a wallet
\* below zero.
OverdrawnOnlyByReversal ==
  \A p \in Passengers :
    balance[p] < 0 => \E t \in Tickets : Owner[t] = p /\ ledger[t].reversals > 0

\* The scan o of a device used its ticket.
Took(o) == syn[o].result = "VALID"

\* Whoever overwrites whom, the usedAt of a used ticket is the time of a scan that
\* is logged as VALID, or is about to be; only a handler that dies between its
\* update and its insert leaves a used ticket that no scan event accounts for.
UsedIsLogged ==
  \A t \in Tickets : ticket[t].status = "USED" =>
    \/ \E e \in scanEvents :
         e.ticket = t /\ e.result = "VALID" /\ e.at = ticket[t].usedAt
    \/ \E s \in OnlineScans :
         /\ Admitted(s) /\ scan[s].ticket = t /\ scan[s].at = ticket[t].usedAt
         /\ scan[s].pc \in {"log", "crashed"}
    \/ \E o \in OfflineScans :
         /\ Took(o) /\ syn[o].ticket = t /\ syn[o].at = ticket[t].usedAt
         /\ syn[o].pc \in {"log", "crashed"}

\* The wallet is refunded when a ticket expires unused, says docs/srs.md.  A ticket
\* that a scan claims while it waits on the job's list is refunded all the same.
OnlyUnusedRefunded ==
  \A t \in Tickets : ticket[t].status = "REFUNDED" => ticket[t].usedAt = NULL

-----------------------------------------------------------------------------
(* What each handler keeps on its own (MaxInFlight = 1), crashes included.   *)

\* What the wallet transactions of a ticket add up to.
Charged(t) == ledger[t].debits - ledger[t].refunds + ledger[t].reversals

\* Conflicting scans of a ticket are resolved in favour of the earliest: no scan
\* that was accepted is older than the ticket's usedAt.
EarliestScanWins ==
  \A e \in scanEvents :
    e.result = "VALID" => /\ ticket[e.ticket].status = "USED"
                          /\ ticket[e.ticket].usedAt <= e.at

\* A scan that is delivered again leaves one row.
DeliveredOnce ==
  \A e, f \in scanEvents :
    /\ e.offline /\ f.offline
    /\ e.ticket = f.ticket /\ e.driver = f.driver /\ e.at = f.at
    => e = f

SameScan(o1, o2) ==
  /\ syn[o1].ticket = syn[o2].ticket
  /\ syn[o1].driver = syn[o2].driver
  /\ syn[o1].at = syn[o2].at

\* A scan that is delivered again is not told that its ticket was used already
\* because it used the ticket itself: it lost to another scan, or to a delivery
\* of its own that died before it was logged.
OutdoneByAnother ==
  \A o \in OfflineScans :
    syn[o].result = "ALREADY_USED" =>
      \/ \E s \in OnlineScans : Admitted(s) /\ scan[s].ticket = syn[o].ticket
      \/ \E x \in OfflineScans :
           /\ Took(x) /\ syn[x].ticket = syn[o].ticket
           /\ SameScan(x, o) => syn[x].pc = "crashed"

\* What the system promises of a ticket and its owner's money, see TicketPromise.
Promise == INSTANCE TicketPromise WITH
  phase  <- [t \in Tickets |-> ticket[t].status],
  over   <- {t \in Tickets : Issued(t) /\ Expired(t, now)},
  charged <- [t \in Tickets |-> Charged(t)],
  purse  <- balance

KeepsPromise == Promise!Spec

-----------------------------------------------------------------------------
(* The tickets and the log as reports see them, see ScanLog.                 *)

Logged == INSTANCE ScanLog WITH
  ScanIds <- OnlineScans \cup OfflineScans,
  phase <- [t \in Tickets |-> ticket[t].status],
  boughtAt <- [t \in Tickets |-> IF Issued(t) THEN ticket[t].expiresAt - TicketTTL ELSE NULL],
  usedAt <- [t \in Tickets |-> ticket[t].usedAt],
  listed <- [j \in Runs |-> run[j].todo]

\* However the handlers overlap and wherever they die, all that reports see of them
\* are the steps of ScanLog: a refund, for one, may overwrite any status, but only
\* that of a ticket that a run found unused after its hour.
KeepsLog == Logged!LogSpec

-----------------------------------------------------------------------------
(* Liveness.  The server keeps running its handlers and the cron; a process  *)
(* or a transaction may fail any number of times but not every time.         *)

Step(A) == A /\ UNCHANGED <<buy, scan, syn>>

JobFairness(j) ==
  /\ WF_vars(Step(FindExpired(j)))
  /\ WF_vars(Step(EndBatch(j)))
  /\ SF_vars(Step(\E t \in Tickets : ExpireTicket(j, t)))
  /\ SF_vars(Step(ReadWalletForCredit(j)))
  /\ SF_vars(Step(CommitRefund(j)))

\* The row lock is granted in the order it is asked for.
ScanFairness(s) ==
  /\ WF_vars((FetchTicket(s) \/ RejectExpired(s) \/ RejectUsed(s) \/ Inspect(s)
               \/ PassChecks(s) \/ LogScan(s)) /\ UNCHANGED <<buy, syn, run>>)
  /\ SF_vars(ClaimTicket(s) /\ UNCHANGED <<buy, syn, run>>)

Fairness ==
  /\ WF_vars(Tick /\ UNCHANGED <<buy, scan, syn, run>>)
  /\ \A j \in Runs : JobFairness(j)
  /\ \A s \in OnlineScans : ScanFairness(s)

FairSpec == Spec /\ Fairness

\* A ticket whose hour is over does not stay ACTIVE: a run finds it in one of its
\* batches, however small, and settles it.
ExpiredIsSettled ==
  \A t \in Tickets :
    ticket[t].status = "ACTIVE" /\ Expired(t, now)
      ~> ticket[t].status # "ACTIVE"

\* No scan waits for ever for the row the job holds.
ScansEnd ==
  \A s \in OnlineScans : s \in ScanInFlight ~> s \notin ScanInFlight

================================================================================
