----------------------------- MODULE LifecycleSerial -----------------------------
(***************************************************************************)
(* What each handler keeps on its own, crashes included, for every value   *)
(* of the other constants: with one handler at a time the earliest scan    *)
(* wins, a scan delivered again leaves one row and is told the truth, and  *)
(* the rows implement TicketPromise.                                       *)
(*                                                                         *)
(* The argument: a handler at work is alone, so what it read still holds   *)
(* when it writes.                                                         *)
(***************************************************************************)
EXTENDS LifecycleProofs, FiniteSetTheorems

\* One handler at a time.
Serial == MaxInFlight = 1

-----------------------------------------------------------------------------
(* The invariant.                                                            *)

Idle ==
  BuyInFlight = {} /\ ScanInFlight = {} /\ SyncInFlight = {} /\ RunInFlight = {}

OnlyBuy(t) ==
  BuyInFlight = {t} /\ ScanInFlight = {} /\ SyncInFlight = {} /\ RunInFlight = {}
OnlyScan(s) ==
  BuyInFlight = {} /\ ScanInFlight = {s} /\ SyncInFlight = {} /\ RunInFlight = {}
OnlySync(o) ==
  BuyInFlight = {} /\ ScanInFlight = {} /\ SyncInFlight = {o} /\ RunInFlight = {}
OnlyRun(j) ==
  BuyInFlight = {} /\ ScanInFlight = {} /\ SyncInFlight = {} /\ RunInFlight = {j}

Alone ==
  \/ Idle
  \/ \E t \in Tickets : OnlyBuy(t)
  \/ \E s \in OnlineScans : OnlyScan(s)
  \/ \E o \in OfflineScans : OnlySync(o)
  \/ \E j \in Runs : OnlyRun(j)

\* The balance a transaction read is still the wallet's.
BuyHolds(t) ==
  buy[t].pc = "write" =>
    buy[t].read = balance[Owner[t]] /\ balance[Owner[t]] >= Fare[t]

RunHolds(j) ==
  /\ run[j].pc = "idle" => run[j].todo = {}
  /\ \A t \in run[j].todo : ticket[t].status = "ACTIVE"
  /\ run[j].pc = "commit" => run[j].read = balance[Owner[run[j].cur]]

\* The ticket was used at the time of a scan.
UsedAt(t, at) == ticket[t].status = "USED" /\ ticket[t].usedAt = at

ScanHolds(s) ==
  /\ scan[s].pc \in {"idle", "fetch", "check", "claim"} => scan[s].result = NULL
  /\ scan[s].pc = "log" /\ Admitted(s) => UsedAt(scan[s].ticket, scan[s].at)

\* What a delivery saw of the ticket and of earlier deliveries still holds.
SyncHolds(o) ==
  LET t == syn[o].ticket IN
  /\ syn[o].pc \in {"idle", "fetch", "decide", "moveUsedAt", "markUsed", "reverse"} =>
       syn[o].result = NULL
  /\ syn[o].pc = "decide" =>
       syn[o].status = ticket[t].status /\ syn[o].usedAt = ticket[t].usedAt
  /\ syn[o].pc = "moveUsedAt" =>
       /\ ticket[t].status = "USED" /\ ticket[t].usedAt # NULL
       /\ ticket[t].usedAt > syn[o].at
  /\ syn[o].pc = "markUsed" => ticket[t].status = "ACTIVE"
  /\ syn[o].pc = "reverse" => ticket[t].status = "REFUNDED"
  /\ syn[o].pc = "log" /\ Took(o) => UsedAt(t, syn[o].at)
  /\ syn[o].pc \in {"moveUsedAt", "markUsed", "reverse", "log"} => Processed(o) = {}
  /\ syn[o].pc \in {"done", "skipped"} /\ Took(o) => Processed(o) # {}

\* A used ticket was used at some time, by some scan.
UseHolds(t) ==
  ticket[t].status = "USED" =>
    /\ ticket[t].usedAt # NULL
    /\ \/ \E s \in OnlineScans : Admitted(s) /\ scan[s].ticket = t
       \/ \E o \in OfflineScans : Took(o) /\ syn[o].ticket = t

\* An offline row tells what the delivery that wrote it was answered.
EventHolds(e) ==
  e.offline =>
    /\ e.by \in OfflineScans
    /\ syn[e.by].ticket = e.ticket /\ syn[e.by].driver = e.driver
    /\ syn[e.by].at = e.at /\ syn[e.by].result = e.result

SerialInv ==
  /\ Alone
  /\ \A t \in Tickets : BuyHolds(t) /\ UseHolds(t)
  /\ \A j \in Runs : RunHolds(j)
  /\ \A s \in OnlineScans : ScanHolds(s)
  /\ \A o \in OfflineScans : SyncHolds(o)
  /\ \A e \in scanEvents : EventHolds(e)
  /\ EarliestScanWins /\ DeliveredOnce /\ OutdoneByAnother

-----------------------------------------------------------------------------
(* A handler at work is alone.                                               *)

\* A handler that makes a step is in flight.
LEMMA AtWork ==
  ASSUME TypeInv
  PROVE  /\ \A t \in Tickets : PurchaseStep(t) => t \in BuyInFlight
         /\ \A s \in OnlineScans : ValidationStep(s) => s \in ScanInFlight
         /\ \A o \in OfflineScans : SyncStep(o) => o \in SyncInFlight
         /\ \A j \in Runs : JobStep(j) \/ run[j].pc = "again" => j \in RunInFlight
<1>1. ASSUME NEW t \in Tickets, PurchaseStep(t) PROVE t \in BuyInFlight
  BY <1>1 DEF PurchaseStep, RejectInsufficient, ReadWallet, CommitPurchase,
              AbortPurchase, BuyInFlight
<1>2. \A s \in OnlineScans : ValidationStep(s) => s \in ScanInFlight
  BY ScanStep DEF ScanInFlight
<1>3. \A o \in OfflineScans : SyncStep(o) => o \in SyncInFlight
  BY SyncStepMoves DEF SyncInFlight
<1>4. ASSUME NEW j \in Runs, JobStep(j) \/ run[j].pc = "again"
      PROVE  j \in RunInFlight
  BY <1>4
  DEF JobStep, ExpireTicket, ReadWalletForCredit, CommitRefund, RollbackRefund,
      EndBatch, CrashRun, RunInFlight
<1>5. QED BY <1>1, <1>2, <1>3, <1>4

\* A request is let in only when no handler runs.
LEMMA NothingInFlight == ASSUME Serial, Alone, InFlight < MaxInFlight PROVE Idle
<1>1. Cardinality({}) = 0 BY FS_EmptySet
<1>2. \A x : Cardinality({x}) = 1 BY FS_Singleton
<1>3. ASSUME \/ \E t \in Tickets : OnlyBuy(t)
             \/ \E s \in OnlineScans : OnlyScan(s)
             \/ \E o \in OfflineScans : OnlySync(o)
             \/ \E j \in Runs : OnlyRun(j)
      PROVE  InFlight = 1
  <2>1. ASSUME NEW t, OnlyBuy(t) PROVE InFlight = 1
    <3>1. Cardinality(BuyInFlight) = 1 BY <1>2, <2>1 DEF OnlyBuy
    <3>2. /\ Cardinality(ScanInFlight) = 0
          /\ Cardinality(SyncInFlight) = 0
          /\ Cardinality(RunInFlight) = 0
      BY <1>1, <2>1 DEF OnlyBuy
    <3>3. QED BY <3>1, <3>2 DEF InFlight
  <2>2. ASSUME NEW s, OnlyScan(s) PROVE InFlight = 1
    <3>1. Cardinality(ScanInFlight) = 1 BY <1>2, <2>2 DEF OnlyScan
    <3>2. /\ Cardinality(BuyInFlight) = 0
          /\ Cardinality(SyncInFlight) = 0
          /\ Cardinality(RunInFlight) = 0
      BY <1>1, <2>2 DEF OnlyScan
    <3>3. QED BY <3>1, <3>2 DEF InFlight
  <2>3. ASSUME NEW o, OnlySync(o) PROVE InFlight = 1
    <3>1. Cardinality(SyncInFlight) = 1 BY <1>2, <2>3 DEF OnlySync
    <3>2. /\ Cardinality(BuyInFlight) = 0
          /\ Cardinality(ScanInFlight) = 0
          /\ Cardinality(RunInFlight) = 0
      BY <1>1, <2>3 DEF OnlySync
    <3>3. QED BY <3>1, <3>2 DEF InFlight
  <2>4. ASSUME NEW j, OnlyRun(j) PROVE InFlight = 1
    <3>1. Cardinality(RunInFlight) = 1 BY <1>2, <2>4 DEF OnlyRun
    <3>2. /\ Cardinality(BuyInFlight) = 0
          /\ Cardinality(ScanInFlight) = 0
          /\ Cardinality(SyncInFlight) = 0
      BY <1>1, <2>4 DEF OnlyRun
    <3>3. QED BY <3>1, <3>2 DEF InFlight
  <2>5. QED BY <1>3, <2>1, <2>2, <2>3, <2>4
<1>4. QED BY <1>3 DEF Serial, Alone

\* No row and no handler moves.
Quiet == UNCHANGED <<ticket, balance, ledger, scanEvents, buy, scan, syn, run>>

LEMMA SerialSteps ==
  ASSUME Serial, TypeInv, Alone, [Next]_vars
  PROVE  \/ Idle /\ Arrivals
         \/ \E t \in Tickets :
              OnlyBuy(t) /\ PurchaseStep(t) /\ UNCHANGED <<scan, syn, run>>
         \/ \E s \in OnlineScans :
              OnlyScan(s) /\ ValidationStep(s) /\ UNCHANGED <<buy, syn, run>>
         \/ \E o \in OfflineScans :
              OnlySync(o) /\ SyncStep(o) /\ UNCHANGED <<buy, scan, run>>
         \/ \E j \in Runs :
              /\ OnlyRun(j) /\ (JobStep(j) \/ FindExpired(j))
              /\ UNCHANGED <<buy, scan, syn>>
         \/ Quiet
<1>1. CASE InFlight < MaxInFlight /\ Arrivals BY <1>1, NothingInFlight
<1>2. CASE (\E t \in Tickets : PurchaseStep(t)) /\ UNCHANGED <<scan, syn, run>>
  BY <1>2, AtWork DEF Alone, Idle, OnlyBuy, OnlyScan, OnlySync, OnlyRun
<1>3. CASE (\E s \in OnlineScans : ValidationStep(s)) /\ UNCHANGED <<buy, syn, run>>
  BY <1>3, AtWork DEF Alone, Idle, OnlyBuy, OnlyScan, OnlySync, OnlyRun
<1>4. CASE (\E o \in OfflineScans : SyncStep(o)) /\ UNCHANGED <<buy, scan, run>>
  BY <1>4, AtWork DEF Alone, Idle, OnlyBuy, OnlyScan, OnlySync, OnlyRun
<1>5. CASE /\ \E j \in Runs : JobStep(j) \/ (run[j].pc = "again" /\ FindExpired(j))
           /\ UNCHANGED <<buy, scan, syn>>
  BY <1>5, AtWork DEF Alone, Idle, OnlyBuy, OnlyScan, OnlySync, OnlyRun
<1>6. CASE Tick /\ UNCHANGED <<buy, scan, syn, run>> BY <1>6 DEF Tick, Quiet
<1>7. CASE UNCHANGED vars BY <1>7 DEF vars, store, Quiet
<1>8. QED BY <1>1, <1>2, <1>3, <1>4, <1>5, <1>6, <1>7 DEF Next, Handlers

\* A step touches the locals of its own handler only.
LEMMA OwnLocals ==
  ASSUME TypeInv
  PROVE  /\ \A t \in Tickets :
              StartPurchase(t) \/ PurchaseStep(t) =>
                \A u \in Tickets : u # t => buy'[u] = buy[u]
         /\ \A s \in OnlineScans :
              \/ ValidationStep(s)
              \/ \E d \in Drivers, t \in Tickets :
                   \/ \E inspection \in BOOLEAN : StartValidation(s, d, t, inspection)
                   \/ RejectForged(s, d, t)
              => \A x \in OnlineScans : x # s => scan'[x] = scan[x]
         /\ \A o \in OfflineScans :
              \/ SyncStep(o) \/ RejectUnverified(o)
              \/ \E d \in Drivers, t \in Tickets, at \in Times,
                   inspection \in BOOLEAN : StartSync(o, d, t, at, inspection)
              => \A x \in OfflineScans : x # o => syn'[x] = syn[x]
         /\ \A j \in Runs :
              JobStep(j) \/ FindExpired(j) =>
                \A x \in Runs : x # j => run'[x] = run[x]
<1>0. /\ DOMAIN buy = Tickets /\ DOMAIN scan = OnlineScans
      /\ DOMAIN syn = OfflineScans /\ DOMAIN run = Runs
  BY TypeInvParts DEF BuyTypeOK, ScanTypeOK, SyncTypeOK, RunTypeOK
<1>1. ASSUME NEW t \in Tickets, StartPurchase(t) \/ PurchaseStep(t),
             NEW u \in Tickets, u # t
      PROVE  buy'[u] = buy[u]
  BY <1>0, <1>1
  DEF StartPurchase, PurchaseStep, RejectInsufficient, ReadWallet, CommitPurchase,
      AbortPurchase
<1>2. ASSUME NEW s \in OnlineScans, NEW d \in Drivers, NEW t \in Tickets,
             \/ \E inspection \in BOOLEAN : StartValidation(s, d, t, inspection)
             \/ RejectForged(s, d, t),
             NEW x \in OnlineScans, x # s
      PROVE  scan'[x] = scan[x]
  BY <1>0, <1>2 DEF StartValidation, RejectForged
<1>3. ASSUME NEW o \in OfflineScans, RejectUnverified(o),
             NEW x \in OfflineScans, x # o
      PROVE  syn'[x] = syn[x]
  BY <1>0, <1>3 DEF RejectUnverified
<1>4. ASSUME NEW o \in OfflineScans, NEW d \in Drivers, NEW t \in Tickets,
             NEW at \in Times, NEW inspection \in BOOLEAN,
             StartSync(o, d, t, at, inspection),
             NEW x \in OfflineScans, x # o
      PROVE  syn'[x] = syn[x]
  BY <1>0, <1>4 DEF StartSync
<1>5. ASSUME NEW j \in Runs, JobStep(j) \/ FindExpired(j), NEW x \in Runs, x # j
      PROVE  run'[x] = run[x]
  BY <1>0, <1>5
  DEF JobStep, FindExpired, ExpireTicket, ReadWalletForCredit, CommitRefund,
      RollbackRefund, EndBatch, CrashRun, Release
<1>6. QED BY <1>1, <1>2, <1>3, <1>4, <1>5, ScanStep, SyncStepMoves

LEMMA NextAlone == ASSUME Serial, TypeInv, Alone, [Next]_vars PROVE Alone'
<1>1. ASSUME NEW t \in Tickets, Idle \/ OnlyBuy(t),
             StartPurchase(t) \/ PurchaseStep(t), UNCHANGED <<scan, syn, run>>
      PROVE  Alone'
  <2>1. BuyInFlight' \subseteq {t}
    BY <1>1, OwnLocals DEF Idle, OnlyBuy, BuyInFlight
  <2>2. ScanInFlight' = {} /\ SyncInFlight' = {} /\ RunInFlight' = {}
    BY <1>1 DEF Idle, OnlyBuy, ScanInFlight, SyncInFlight, RunInFlight
  <2>3. BuyInFlight' = {} \/ BuyInFlight' = {t} BY <2>1
  <2>4. QED BY <2>2, <2>3 DEF Alone, Idle, OnlyBuy
<1>2. ASSUME NEW s \in OnlineScans, Idle \/ OnlyScan(s),
             \/ ValidationStep(s)
             \/ \E d \in Drivers, t \in Tickets :
                  \/ \E inspection \in BOOLEAN : StartValidation(s, d, t, inspection)
                  \/ RejectForged(s, d, t),
             UNCHANGED <<buy, syn, run>>
      PROVE  Alone'
  <2>1. ScanInFlight' \subseteq {s}
    BY <1>2, OwnLocals DEF Idle, OnlyScan, ScanInFlight
  <2>2. BuyInFlight' = {} /\ SyncInFlight' = {} /\ RunInFlight' = {}
    BY <1>2 DEF Idle, OnlyScan, BuyInFlight, SyncInFlight, RunInFlight
  <2>3. ScanInFlight' = {} \/ ScanInFlight' = {s} BY <2>1
  <2>4. QED BY <2>2, <2>3 DEF Alone, Idle, OnlyScan
<1>3. ASSUME NEW o \in OfflineScans, Idle \/ OnlySync(o),
             \/ SyncStep(o) \/ RejectUnverified(o)
             \/ \E d \in Drivers, t \in Tickets, at \in Times,
                  inspection \in BOOLEAN : StartSync(o, d, t, at, inspection),
             UNCHANGED <<buy, scan, run>>
      PROVE  Alone'
  <2>1. SyncInFlight' \subseteq {o}
    BY <1>3, OwnLocals DEF Idle, OnlySync, SyncInFlight
  <2>2. BuyInFlight' = {} /\ ScanInFlight' = {} /\ RunInFlight' = {}
    BY <1>3 DEF Idle, OnlySync, BuyInFlight, ScanInFlight, RunInFlight
  <2>3. SyncInFlight' = {} \/ SyncInFlight' = {o} BY <2>1
  <2>4. QED BY <2>2, <2>3 DEF Alone, Idle, OnlySync
<1>4. ASSUME NEW j \in Runs, Idle \/ OnlyRun(j), JobStep(j) \/ FindExpired(j),
             UNCHANGED <<buy, scan, syn>>
      PROVE  Alone'
  <2>1. RunInFlight' \subseteq {j}
    BY <1>4, OwnLocals DEF Idle, OnlyRun, RunInFlight
  <2>2. BuyInFlight' = {} /\ ScanInFlight' = {} /\ SyncInFlight' = {}
    BY <1>4 DEF Idle, OnlyRun, BuyInFlight, ScanInFlight, SyncInFlight
  <2>3. RunInFlight' = {} \/ RunInFlight' = {j} BY <2>1
  <2>4. QED BY <2>2, <2>3 DEF Alone, Idle, OnlyRun
<1>5. CASE Quiet
  BY <1>5
  DEF Quiet, Alone, Idle, OnlyBuy, OnlyScan, OnlySync, OnlyRun, BuyInFlight,
      ScanInFlight, SyncInFlight, RunInFlight
<1>6. CASE Idle /\ Arrivals
  <2>1. CASE PurchaseArrives BY <1>1, <1>6, <2>1 DEF PurchaseArrives
  <2>2. CASE ScanArrives BY <1>2, <1>6, <2>2 DEF ScanArrives
  <2>3. CASE SyncArrives BY <1>3, <1>6, <2>3 DEF SyncArrives
  <2>4. CASE RunFires BY <1>4, <1>6, <2>4 DEF RunFires
  <2>5. QED BY <1>6, <2>1, <2>2, <2>3, <2>4 DEF Arrivals
<1>7. QED BY <1>1, <1>2, <1>3, <1>4, <1>5, <1>6, SerialSteps

\* While a handler is at work, nothing moves but itself and the clock.
LEMMA WorkerMoves ==
  ASSUME Serial, TypeInv, Alone, [Next]_vars
  PROVE  /\ \A t \in BuyInFlight : PurchaseStep(t) \/ Quiet
         /\ \A s \in ScanInFlight : ValidationStep(s) \/ Quiet
         /\ \A o \in SyncInFlight : SyncStep(o) \/ Quiet
         /\ \A j \in RunInFlight : JobStep(j) \/ FindExpired(j) \/ Quiet
  BY SerialSteps DEF Idle, OnlyBuy, OnlyScan, OnlySync, OnlyRun

\* A request that is not at work can only arrive.
LEMMA OthersRest ==
  ASSUME TypeInv, [Next]_vars
  PROVE  /\ \A t \in Tickets \ BuyInFlight : StartPurchase(t) \/ buy'[t] = buy[t]
         /\ \A s \in OnlineScans \ ScanInFlight :
              \/ scan'[s] = scan[s]
              \/ \E d \in Drivers, t \in Tickets :
                   \/ \E inspection \in BOOLEAN : StartValidation(s, d, t, inspection)
                   \/ RejectForged(s, d, t)
         /\ \A o \in OfflineScans \ SyncInFlight :
              \/ syn'[o] = syn[o] \/ RejectUnverified(o)
              \/ \E d \in Drivers, t \in Tickets, at \in Times,
                   inspection \in BOOLEAN : StartSync(o, d, t, at, inspection)
         /\ \A j \in Runs \ RunInFlight : run'[j] = run[j] \/ FindExpired(j)
<1>1. ASSUME NEW t \in Tickets, t \notin BuyInFlight
      PROVE  StartPurchase(t) \/ buy'[t] = buy[t]
  BY <1>1, Components, OwnLocals, AtWork
<1>2. ASSUME NEW s \in OnlineScans, s \notin ScanInFlight
      PROVE  \/ scan'[s] = scan[s]
             \/ \E d \in Drivers, t \in Tickets :
                  \/ \E inspection \in BOOLEAN : StartValidation(s, d, t, inspection)
                  \/ RejectForged(s, d, t)
  <2>1. CASE UNCHANGED scan BY <2>1
  <2>2. CASE \E x \in OnlineScans : ValidationStep(x)
    BY <1>2, <2>2, OwnLocals, AtWork
  <2>3. CASE \E x \in OnlineScans, d \in Drivers, t \in Tickets :
               \/ \E inspection \in BOOLEAN : StartValidation(x, d, t, inspection)
               \/ RejectForged(x, d, t)
    BY <2>3, OwnLocals
  <2>4. QED BY <2>1, <2>2, <2>3, Components
<1>3. ASSUME NEW o \in OfflineScans, o \notin SyncInFlight
      PROVE  \/ syn'[o] = syn[o] \/ RejectUnverified(o)
             \/ \E d \in Drivers, t \in Tickets, at \in Times,
                  inspection \in BOOLEAN : StartSync(o, d, t, at, inspection)
  <2>1. CASE UNCHANGED syn BY <2>1
  <2>2. CASE \E x \in OfflineScans : SyncStep(x)
    BY <1>3, <2>2, OwnLocals, AtWork
  <2>3. CASE \E x \in OfflineScans : RejectUnverified(x) BY <2>3, OwnLocals
  <2>4. CASE \E x \in OfflineScans, d \in Drivers, t \in Tickets, at \in Times,
               inspection \in BOOLEAN : StartSync(x, d, t, at, inspection)
    BY <2>4, OwnLocals
  <2>5. QED BY <2>1, <2>2, <2>3, <2>4, Components
<1>4. ASSUME NEW j \in Runs, j \notin RunInFlight
      PROVE  run'[j] = run[j] \/ FindExpired(j)
  BY <1>4, Components, OwnLocals, AtWork
<1>5. QED BY <1>1, <1>2, <1>3, <1>4

\* A request that has its answer keeps it, and everything the answer is about.
LEMMA ScanAnswerStays ==
  ASSUME Serial, TypeInv, SerialInv, [Next]_vars, NEW s \in OnlineScans,
         scan[s].result # NULL
  PROVE  /\ scan'[s].result = scan[s].result
         /\ scan'[s].ticket = scan[s].ticket /\ scan'[s].at = scan[s].at
<1>0. /\ DOMAIN scan = OnlineScans
      /\ DOMAIN scan[s] = {"pc", "driver", "ticket", "at", "inspection", "status",
                           "result"}
  BY TypeInvParts DEF ScanTypeOK, ScanLocal
<1>1. scan[s].pc \notin {"idle", "fetch", "check", "claim"}
  BY DEF SerialInv, ScanHolds
<1>2. CASE s \notin ScanInFlight
  BY <1>1, <1>2, OthersRest DEF StartValidation, RejectForged
<1>3. CASE s \in ScanInFlight
  <2>1. CASE Quiet BY <2>1 DEF Quiet
  <2>2. CASE ValidationStep(s)
    <3>1. CASE LogScan(s) BY <1>0, <3>1 DEF LogScan
    <3>2. CASE CrashScan(s) BY <1>0, <3>2 DEF CrashScan
    <3>3. ~FetchTicket(s) /\ ~NoActiveTrip(s) /\ ~RejectExpired(s)
      BY <1>1 DEF FetchTicket, NoActiveTrip, RejectExpired
    <3>4. ~RejectUsed(s) /\ ~Inspect(s) /\ ~PassChecks(s) /\ ~ClaimTicket(s)
      BY <1>1 DEF RejectUsed, Inspect, PassChecks, ClaimTicket
    <3>5. QED BY <2>2, <3>1, <3>2, <3>3, <3>4 DEF ValidationStep
  <2>3. QED BY <1>3, <2>1, <2>2, WorkerMoves DEF SerialInv
<1>4. QED BY <1>2, <1>3

LEMMA SyncAnswerStays ==
  ASSUME Serial, TypeInv, SerialInv, [Next]_vars, NEW o \in OfflineScans,
         syn[o].result # NULL
  PROVE  /\ syn'[o].result = syn[o].result
         /\ syn'[o].ticket = syn[o].ticket /\ syn'[o].driver = syn[o].driver
         /\ syn'[o].at = syn[o].at
         /\ \/ syn'[o] = syn[o]
            \/ LogOffline(o) /\ syn'[o].pc = "done"
            \/ CrashSync(o) /\ syn'[o].pc = "crashed" /\ syn[o].pc = "log"
<1>0. /\ DOMAIN syn = OfflineScans
      /\ DOMAIN syn[o] = {"pc", "driver", "ticket", "at", "inspection", "status",
                          "usedAt", "result"}
  BY TypeInvParts DEF SyncTypeOK, SyncLocal
<1>1. syn[o].pc \notin {"idle", "fetch", "decide", "moveUsedAt", "markUsed", "reverse"}
  BY DEF SerialInv, SyncHolds
<1>2. CASE o \notin SyncInFlight
  BY <1>1, <1>2, OthersRest DEF StartSync, RejectUnverified
<1>3. CASE o \in SyncInFlight
  <2>1. CASE Quiet BY <2>1 DEF Quiet
  <2>2. CASE SyncStep(o)
    <3>1. CASE LogOffline(o) BY <1>0, <3>1 DEF LogOffline
    <3>2. CASE CrashSync(o) BY <1>0, <1>1, <3>2 DEF CrashSync, SyncPcs
    <3>3. ~FetchForSync(o) /\ ~SkipProcessed(o) /\ ~New(o)
      BY <1>1 DEF FetchForSync, SkipProcessed, New
    <3>4. ~MoveUsedAt(o) /\ ~MarkUsed(o) /\ ~ReverseRefund(o)
      BY <1>1 DEF MoveUsedAt, MarkUsed, ReverseRefund, Write
    <3>5. QED
      BY <2>2, <3>1, <3>2, <3>3, <3>4
      DEF SyncStep, LateScan, ServerWins, OfflineWins, OfflineInspection, FirstUse
  <2>3. QED BY <1>3, <2>1, <2>2, WorkerMoves DEF SerialInv
<1>4. QED BY <1>2, <1>3

-----------------------------------------------------------------------------
(* What each handler carries still holds.                                    *)

LEMMA NextBuyHolds ==
  ASSUME Serial, TypeInv, SerialInv, [Next]_vars, NEW t \in Tickets
  PROVE  BuyHolds(t)'
<1>0. /\ DOMAIN buy = Tickets /\ DOMAIN buy[t] = {"pc", "at", "read"}
  BY TypeInvParts DEF BuyTypeOK
<1>1. CASE t \notin BuyInFlight
  <2>1. CASE StartPurchase(t)
    <3>1. buy'[t].pc = "readWallet" BY <1>0, <2>1 DEF StartPurchase
    <3>2. QED BY <3>1 DEF BuyHolds
  <2>2. CASE buy'[t] = buy[t] BY <1>1, <2>2 DEF BuyHolds, BuyInFlight
  <2>3. QED BY <1>1, <2>1, <2>2, OthersRest
<1>2. CASE t \in BuyInFlight
  <2>1. CASE Quiet BY <2>1 DEF Quiet, SerialInv, BuyHolds
  <2>2. CASE RejectInsufficient(t)
    BY <1>0, <2>2 DEF RejectInsufficient, BuyHolds
  <2>3. CASE ReadWallet(t)
    BY <1>0, <2>3 DEF ReadWallet, BuyHolds, store
  <2>4. CASE CommitPurchase(t)
    <3>1. buy'[t].pc = "bought" BY <1>0, <2>4 DEF CommitPurchase
    <3>2. QED BY <3>1 DEF BuyHolds
  <2>5. CASE AbortPurchase(t) BY <1>0, <2>5 DEF AbortPurchase, BuyHolds
  <2>6. QED
    BY <1>2, <2>1, <2>2, <2>3, <2>4, <2>5, WorkerMoves DEF PurchaseStep, SerialInv
<1>3. QED BY <1>1, <1>2

\* The query of a run puts ACTIVE tickets on its list.
LEMMA FoundActive ==
  ASSUME TypeInv, NEW j \in Runs, FindExpired(j)
  PROVE  RunHolds(j)'
<1>0. /\ DOMAIN run = Runs
      /\ DOMAIN RunIdle = {"pc", "todo", "full", "cur", "read"}
      /\ RunIdle.todo = {} /\ RunIdle.pc = "idle"
      /\ UNCHANGED ticket
  BY TypeInvParts DEF RunTypeOK, RunIdle, FindExpired, store
<1>1. PICK B \in Batches :
        run' = [run EXCEPT ![j] = IF B = {} THEN RunIdle ELSE
               [RunIdle EXCEPT !.pc = "next", !.todo = B,
                               !.full = (Cardinality(B) = BatchSize)]]
  BY DEF FindExpired
<1>2. \A t \in B : ticket[t].status = "ACTIVE" BY DEF Batches, Expirable
<1>3. CASE B = {}
  <2>1. run'[j] = RunIdle BY <1>0, <1>1, <1>3
  <2>2. QED BY <1>0, <2>1 DEF RunHolds
<1>4. CASE B # {}
  <2>1. run'[j].pc = "next" /\ run'[j].todo = B BY <1>0, <1>1, <1>4
  <2>2. QED BY <1>0, <1>2, <2>1 DEF RunHolds
<1>5. QED BY <1>3, <1>4

LEMMA NextRunHolds ==
  ASSUME Serial, TypeInv, SerialInv, [Next]_vars, NEW j \in Runs
  PROVE  RunHolds(j)'
<1>0. /\ DOMAIN run = Runs
      /\ DOMAIN run[j] = {"pc", "todo", "full", "cur", "read"}
      /\ DOMAIN RunIdle = {"pc", "todo", "full", "cur", "read"}
      /\ RunIdle.todo = {} /\ RunIdle.pc = "idle"
      /\ ticket \in [Tickets -> TicketRow] /\ run[j].todo \subseteq Tickets
      /\ RunHolds(j)
  BY TypeInvParts DEF RunTypeOK, RunLocal, RunIdle, RowsOK, StoreTypeOK, SerialInv
<1>1. CASE j \notin RunInFlight
  <2>1. CASE run'[j] = run[j]
    BY <1>0, <1>1, <2>1 DEF RunHolds, RunInFlight
  <2>2. QED BY <1>1, <2>1, FoundActive, OthersRest
<1>2. CASE j \in RunInFlight
  <2>1. CASE Quiet BY <1>0, <2>1 DEF Quiet, RunHolds
  <2>2. CASE \E t \in Tickets : ExpireTicket(j, t)
    BY <1>0, <2>2 DEF ExpireTicket, RunHolds
  <2>3. CASE ReadWalletForCredit(j)
    BY <1>0, <2>3 DEF ReadWalletForCredit, RunHolds, store
  <2>4. CASE CommitRefund(j)
    <3>1. run'[j].pc = "next" /\ run'[j].todo = run[j].todo \ {run[j].cur}
      BY <1>0, <2>4 DEF CommitRefund, Release
    <3>2. \A t \in run'[j].todo : ticket'[t] = ticket[t]
      BY <1>0, <2>4, <3>1 DEF CommitRefund
    <3>3. QED BY <1>0, <3>1, <3>2 DEF RunHolds
  <2>5. CASE RollbackRefund(j)
    BY <1>0, <2>5 DEF RollbackRefund, Release, RunHolds
  <2>6. CASE EndBatch(j) BY <1>0, <2>6 DEF EndBatch, RunHolds
  <2>7. CASE CrashRun(j) BY <1>0, <2>7 DEF CrashRun, RunHolds
  <2>8. QED
    BY <1>2, <2>1, <2>2, <2>3, <2>4, <2>5, <2>6, <2>7, FoundActive, WorkerMoves
    DEF JobStep, SerialInv
<1>3. QED BY <1>1, <1>2

LEMMA NextScanHolds ==
  ASSUME Serial, TypeInv, SerialInv, [Next]_vars, NEW s \in OnlineScans
  PROVE  ScanHolds(s)'
<1>0. /\ DOMAIN scan = OnlineScans
      /\ DOMAIN scan[s] = {"pc", "driver", "ticket", "at", "inspection", "status",
                           "result"}
      /\ DOMAIN ScanIdle = {"pc", "driver", "ticket", "at", "inspection", "status",
                            "result"}
      /\ ScanIdle.result = NULL
      /\ ticket \in [Tickets -> TicketRow] /\ ScanHolds(s)
      /\ NULL # "VALID"
  BY TypeInvParts, StoreAssumption
  DEF ScanTypeOK, ScanLocal, ScanIdle, RowsOK, StoreTypeOK, SerialInv, ScanResult
<1> USE DEF Admitted, UsedAt
<1>1. CASE s \notin ScanInFlight
  <2>1. CASE scan'[s] = scan[s]
    BY <1>0, <1>1, <2>1 DEF ScanHolds, ScanInFlight, ScanPcs
  <2>2. ASSUME NEW d \in Drivers, NEW t \in Tickets, NEW inspection \in BOOLEAN,
               StartValidation(s, d, t, inspection)
        PROVE  ScanHolds(s)'
    <3>1. scan'[s].pc = "fetch" /\ scan'[s].result = NULL
      BY <1>0, <2>2 DEF StartValidation
    <3>2. QED BY <3>1 DEF ScanHolds
  <2>3. ASSUME NEW d \in Drivers, NEW t \in Tickets, RejectForged(s, d, t)
        PROVE  ScanHolds(s)'
    <3>1. scan'[s].pc = "done" BY <1>0, <2>3 DEF RejectForged
    <3>2. QED BY <3>1 DEF ScanHolds
  <2>4. QED BY <1>1, <2>1, <2>2, <2>3, OthersRest
<1>2. CASE s \in ScanInFlight
  <2>1. CASE Quiet BY <1>0, <2>1 DEF Quiet, ScanHolds
  <2>2. CASE FetchTicket(s) BY <1>0, <2>2 DEF FetchTicket, ScanHolds
  <2>3. CASE NoActiveTrip(s) BY <1>0, <2>3 DEF NoActiveTrip, ScanHolds
  <2>4. ASSUME NEW result, ToLog(s, result), result # "VALID"
        PROVE  ScanHolds(s)'
    <3>1. scan'[s].pc = "log" /\ scan'[s].result = result
      BY <1>0, <2>4 DEF ToLog
    <3>2. QED BY <2>4, <3>1 DEF ScanHolds
  <2>5. CASE RejectExpired(s) \/ RejectUsed(s) \/ Inspect(s)
    BY <2>4, <2>5 DEF RejectExpired, RejectUsed, Inspect
  <2>6. CASE PassChecks(s) BY <1>0, <2>6 DEF PassChecks, ScanHolds
  <2>7. CASE ClaimTicket(s)
    <3>1. CASE ToLog(s, "ALREADY_USED") BY <2>4, <3>1
    <3>2. CASE /\ ToLog(s, "VALID")
               /\ ticket' = [ticket EXCEPT ![scan[s].ticket] =
                              [@ EXCEPT !.status = "USED", !.usedAt = scan[s].at]]
      <4>1. PICK t \in Tickets : t = scan[s].ticket
        BY <1>2, TypeInvParts DEF ScanInFlight, ScanLocalsOK
      <4>2. DOMAIN ticket[t] = {"status", "expiresAt", "usedAt", "refundedAt"}
        BY <1>0 DEF TicketRow
      <4>3. ticket'[t].status = "USED" /\ ticket'[t].usedAt = scan[s].at
        BY <1>0, <3>2, <4>1, <4>2
      <4>4. /\ scan'[s].pc = "log" /\ scan'[s].ticket = t
            /\ scan'[s].at = scan[s].at
        BY <1>0, <3>2, <4>1 DEF ToLog
      <4>5. QED BY <4>3, <4>4 DEF ScanHolds
    <3>3. QED BY <2>7, <3>1, <3>2 DEF ClaimTicket
  <2>8. CASE LogScan(s) BY <1>0, <2>8 DEF LogScan, ScanHolds
  <2>9. CASE CrashScan(s) BY <1>0, <2>9 DEF CrashScan, ScanHolds
  <2>10. QED
    BY <1>2, <2>1, <2>2, <2>3, <2>5, <2>6, <2>7, <2>8, <2>9, WorkerMoves
    DEF ValidationStep, SerialInv
<1>3. QED BY <1>1, <1>2

\* The earlier deliveries of a scan are those of its ticket, driver and time.
LEMMA SameProcessed ==
  ASSUME NEW o \in OfflineScans, UNCHANGED scanEvents,
         syn'[o].ticket = syn[o].ticket, syn'[o].driver = syn[o].driver,
         syn'[o].at = syn[o].at
  PROVE  Processed(o)' = Processed(o)
  BY DEF Processed

LEMMA ProcessedStays ==
  ASSUME NEW o \in OfflineScans, [Next]_vars, Processed(o) # {},
         syn'[o].ticket = syn[o].ticket, syn'[o].driver = syn[o].driver,
         syn'[o].at = syn[o].at
  PROVE  Processed(o)' # {}
<1>1. PICK e \in scanEvents : e \in Processed(o) BY DEF Processed
<1>2. e \in scanEvents' BY EventsStay
<1>3. e \in Processed(o)' BY <1>1, <1>2 DEF Processed
<1>4. QED BY <1>3

\* A delivery that has not been at work yet, or no longer is.
LEMMA SyncHoldsAtRest ==
  ASSUME TypeInv, SerialInv, [Next]_vars, NEW o \in OfflineScans,
         o \notin SyncInFlight
  PROVE  SyncHolds(o)'
<1>0. /\ DOMAIN syn = OfflineScans
      /\ DOMAIN syn[o] = {"pc", "driver", "ticket", "at", "inspection", "status",
                          "usedAt", "result"}
      /\ DOMAIN SyncIdle = {"pc", "driver", "ticket", "at", "inspection", "status",
                            "usedAt", "result"}
      /\ SyncIdle.result = NULL /\ SyncHolds(o)
  BY TypeInvParts DEF SyncTypeOK, SyncLocal, SyncIdle, SerialInv
<1>1. CASE syn'[o] = syn[o]
  <2>1. syn[o].pc \notin SyncPcs BY DEF SyncInFlight
  <2>2. Processed(o) # {} => Processed(o)' # {} BY <1>1, ProcessedStays
  <2>3. QED BY <1>0, <1>1, <2>1, <2>2 DEF SyncHolds, SyncPcs, Took
<1>2. CASE RejectUnverified(o)
  <2>1. syn'[o].pc = "done" /\ syn'[o].result = "INVALID_SIGNATURE"
    BY <1>0, <1>2 DEF RejectUnverified
  <2>2. QED BY <2>1 DEF SyncHolds, Took
<1>3. ASSUME NEW d \in Drivers, NEW t \in Tickets, NEW at \in Times,
             NEW inspection \in BOOLEAN, StartSync(o, d, t, at, inspection)
      PROVE  SyncHolds(o)'
  <2>1. syn'[o].pc = "fetch" /\ syn'[o].result = NULL
    BY <1>0, <1>3 DEF StartSync
  <2>2. QED BY <2>1 DEF SyncHolds
<1>4. QED BY <1>1, <1>2, <1>3, OthersRest

\* A decision: what it is based on was read before, and nothing has moved since.
LEMMA SyncHoldsDecided ==
  ASSUME TypeInv, SafetyInv, SerialInv, NEW o \in OfflineScans,
         \/ LateScan(o) \/ ServerWins(o) \/ OfflineWins(o)
         \/ OfflineInspection(o) \/ FirstUse(o)
  PROVE  SyncHolds(o)'
<1>0. /\ DOMAIN syn = OfflineScans
      /\ DOMAIN syn[o] = {"pc", "driver", "ticket", "at", "inspection", "status",
                          "usedAt", "result"}
      /\ syn[o].pc = "decide" /\ Processed(o) = {} /\ UNCHANGED <<ticket, scanEvents>>
      /\ SyncHolds(o)
  BY TypeInvParts
  DEF SyncTypeOK, SyncLocal, SerialInv, LateScan, ServerWins, OfflineWins,
      OfflineInspection, FirstUse, New, Decide, store
<1>1. PICK t \in Tickets : t = syn[o].ticket
  BY <1>0, TypeInvParts DEF SyncLocalsOK, SyncPcs
<1>2. /\ syn[o].status = ticket[t].status /\ syn[o].usedAt = ticket[t].usedAt
      /\ ticket[t].status \in {"ACTIVE", "USED", "REFUNDED"}
      /\ ticket[t].status = "USED" => ticket[t].usedAt # NULL
  <2>1. syn[o].status = ticket[t].status /\ syn[o].usedAt = ticket[t].usedAt
    BY <1>0, <1>1 DEF SyncHolds
  <2>2. Issued(t) BY <1>0, <1>1 DEF SafetyInv, SyncInv, SyncPcs
  <2>3. ticket[t].status \in {"ACTIVE", "USED", "REFUNDED"}
    BY <2>2, TypeInvParts DEF RowsOK, StoreTypeOK, TicketRow, TicketStatus, Issued
  <2>4. QED BY <2>1, <2>3 DEF SerialInv, UseHolds
<1>3. ASSUME NEW pc, NEW result, Decide(o, pc, result)
      PROVE  /\ syn'[o].pc = pc /\ syn'[o].result = result
             /\ syn'[o].ticket = t /\ syn'[o].at = syn[o].at
             /\ Processed(o)' = {}
  <2>1. /\ syn'[o].pc = pc /\ syn'[o].result = result
        /\ syn'[o].ticket = t /\ syn'[o].at = syn[o].at
        /\ syn'[o].driver = syn[o].driver
    BY <1>0, <1>1, <1>3 DEF Decide
  <2>2. QED BY <1>0, <1>1, <2>1, SameProcessed
<1>4. ASSUME NEW result, result # "VALID", Decide(o, "log", result)
      PROVE  SyncHolds(o)'
  <2>1. syn'[o].pc = "log" /\ syn'[o].result # "VALID" /\ Processed(o)' = {}
    BY <1>3, <1>4
  <2>2. QED BY <2>1 DEF SyncHolds, Took
<1>5. ASSUME NEW pc \in {"moveUsedAt", "markUsed", "reverse"}, Decide(o, pc, NULL),
             pc = "moveUsedAt" =>
               /\ ticket[t].status = "USED" /\ ticket[t].usedAt # NULL
               /\ ticket[t].usedAt > syn[o].at,
             pc = "markUsed" => ticket[t].status = "ACTIVE",
             pc = "reverse" => ticket[t].status = "REFUNDED"
      PROVE  SyncHolds(o)'
  <2>1. /\ syn'[o].pc = pc /\ syn'[o].result = NULL /\ syn'[o].ticket = t
        /\ syn'[o].at = syn[o].at /\ Processed(o)' = {} /\ UNCHANGED ticket
    BY <1>0, <1>3, <1>5
  <2>2. QED BY <1>5, <2>1 DEF SyncHolds
<1>6. CASE LateScan(o) BY <1>4, <1>6 DEF LateScan
<1>7. CASE ServerWins(o) BY <1>4, <1>7 DEF ServerWins
<1>8. CASE OfflineWins(o)
  BY <1>1, <1>2, <1>4, <1>5, <1>8 DEF OfflineWins, UsedOnServer
<1>9. CASE OfflineInspection(o) BY <1>4, <1>9 DEF OfflineInspection
<1>10. CASE FirstUse(o)
  <2>1. ticket[t].status # "USED" BY <1>2, <1>10 DEF FirstUse, UsedOnServer
  <2>2. QED BY <1>2, <1>5, <1>10, <2>1 DEF FirstUse
<1>11. QED BY <1>6, <1>7, <1>8, <1>9, <1>10

\* The three writes of the ticket by id.
LEMMA SyncHoldsWritten ==
  ASSUME TypeInv, SerialInv, NEW o \in OfflineScans,
         MoveUsedAt(o) \/ MarkUsed(o) \/ ReverseRefund(o)
  PROVE  /\ SyncHolds(o)'
         /\ syn'[o].result = "VALID" /\ syn'[o].ticket = syn[o].ticket
<1>0. /\ DOMAIN syn = OfflineScans
      /\ DOMAIN syn[o] = {"pc", "driver", "ticket", "at", "inspection", "status",
                          "usedAt", "result"}
      /\ ticket \in [Tickets -> TicketRow] /\ SyncHolds(o)
      /\ syn' = [syn EXCEPT ![o] = [@ EXCEPT !.pc = "log", !.result = "VALID"]]
      /\ syn[o].pc \in {"moveUsedAt", "markUsed", "reverse"}
      /\ UNCHANGED scanEvents
  BY TypeInvParts
  DEF SyncTypeOK, SyncLocal, RowsOK, StoreTypeOK, SerialInv, MoveUsedAt, MarkUsed,
      ReverseRefund, Write
<1>1. /\ syn'[o].pc = "log" /\ syn'[o].result = "VALID"
      /\ syn'[o].ticket = syn[o].ticket /\ syn'[o].at = syn[o].at
      /\ syn'[o].driver = syn[o].driver
  BY <1>0
<1>2. PICK t \in Tickets : t = syn[o].ticket
  BY <1>0, TypeInvParts DEF SyncLocalsOK, SyncPcs
<1>3. UsedAt(t, syn[o].at)'
  <2>0. DOMAIN ticket[t] = {"status", "expiresAt", "usedAt", "refundedAt"}
    BY <1>0 DEF TicketRow
  <2>1. CASE MoveUsedAt(o)
    <3>1. ticket[t].status = "USED"
      BY <1>0, <1>2, <2>1 DEF MoveUsedAt, Write, SyncHolds
    <3>2. ticket'[t].status = "USED" /\ ticket'[t].usedAt = syn[o].at
      BY <1>0, <1>2, <2>0, <2>1, <3>1 DEF MoveUsedAt
    <3>3. QED BY <1>0, <1>1, <3>2 DEF UsedAt
  <2>2. CASE MarkUsed(o)
    <3>1. ticket'[t].status = "USED" /\ ticket'[t].usedAt = syn[o].at
      BY <1>0, <1>2, <2>0, <2>2 DEF MarkUsed
    <3>2. QED BY <1>1, <3>1 DEF UsedAt
  <2>3. CASE ReverseRefund(o)
    <3>1. ticket'[t].status = "USED" /\ ticket'[t].usedAt = syn[o].at
      BY <1>0, <1>2, <2>0, <2>3 DEF ReverseRefund
    <3>2. QED BY <1>1, <3>1 DEF UsedAt
  <2>4. QED BY <2>1, <2>2, <2>3
<1>4. Processed(o)' = {}
  BY <1>0, <1>1, SameProcessed DEF SyncHolds
<1>5. QED BY <1>1, <1>2, <1>3, <1>4 DEF SyncHolds, UsedAt

LEMMA NextSyncHolds ==
  ASSUME Serial, TypeInv, SafetyInv, SerialInv, [Next]_vars, NEW o \in OfflineScans
  PROVE  SyncHolds(o)'
<1>0. /\ DOMAIN syn = OfflineScans
      /\ DOMAIN syn[o] = {"pc", "driver", "ticket", "at", "inspection", "status",
                          "usedAt", "result"}
      /\ SyncHolds(o)
  BY TypeInvParts DEF SyncTypeOK, SyncLocal, SerialInv
<1>1. CASE o \notin SyncInFlight BY <1>1, SyncHoldsAtRest
<1>2. CASE o \in SyncInFlight
  <2>1. CASE Quiet
    BY <1>0, <2>1 DEF Quiet, SyncHolds, Processed, Took, UsedAt
  <2>2. CASE FetchForSync(o)
    <3>1. /\ syn[o].result = NULL
          /\ UNCHANGED ticket
      BY <1>0, <2>2 DEF FetchForSync, SyncHolds, store
    <3>2. /\ syn'[o].pc = "decide" /\ syn'[o].result = NULL
          /\ syn'[o].ticket = syn[o].ticket
          /\ syn'[o].status = ticket[syn[o].ticket].status
          /\ syn'[o].usedAt = ticket[syn[o].ticket].usedAt
      BY <1>0, <2>2, <3>1 DEF FetchForSync
    <3>3. QED BY <3>1, <3>2 DEF SyncHolds
  <2>3. CASE SkipProcessed(o)
    <3>1. PICK e \in Processed(o) :
            syn' = [syn EXCEPT ![o] = [@ EXCEPT !.pc = "skipped", !.result = e.result,
                                               !.status = "NONE", !.usedAt = NULL]]
      BY <2>3 DEF SkipProcessed
    <3>2. /\ syn'[o].pc = "skipped"
          /\ syn'[o].ticket = syn[o].ticket /\ syn'[o].driver = syn[o].driver
          /\ syn'[o].at = syn[o].at
      BY <1>0, <3>1
    <3>3. Processed(o)' # {} BY <3>1, <3>2, ProcessedStays
    <3>4. QED BY <3>2, <3>3 DEF SyncHolds
  <2>4. CASE LogOffline(o)
    <3> DEFINE e == [by |-> o, driver |-> syn[o].driver, ticket |-> syn[o].ticket,
                     at |-> syn[o].at, result |-> syn[o].result, offline |-> TRUE]
    <3>1. e \in scanEvents' BY <2>4 DEF LogOffline, InsertScanEvent
    <3>2. /\ syn'[o].pc = "done"
          /\ syn'[o].ticket = syn[o].ticket /\ syn'[o].driver = syn[o].driver
          /\ syn'[o].at = syn[o].at
      BY <1>0, <2>4 DEF LogOffline
    <3>3. e \in Processed(o)' BY <3>1, <3>2 DEF Processed
    <3>4. QED BY <3>2, <3>3 DEF SyncHolds
  <2>5. CASE CrashSync(o)
    <3>1. syn'[o].pc = "crashed" BY <1>0, <2>5 DEF CrashSync
    <3>2. QED BY <3>1 DEF SyncHolds
  <2>6. QED
    BY <1>2, <2>1, <2>2, <2>3, <2>4, <2>5, SyncHoldsDecided, SyncHoldsWritten,
       WorkerMoves
    DEF SyncStep, SerialInv
<1>3. QED BY <1>1, <1>2

-----------------------------------------------------------------------------
(* Rows and scan events.                                                     *)

\* What a step makes of a ticket row: a ticket that is used is used by a scan that
\* knows it, and one that was used before is now used at an earlier time.
LEMMA RowMoves ==
  ASSUME TypeInv, SafetyInv, SerialInv, [Next]_vars, NEW t \in Tickets
  PROVE  \/ ticket'[t] = ticket[t]
         \/ ticket[t].status = "NONE" /\ ticket'[t].status = "ACTIVE"
         \/ ticket[t].status = "ACTIVE" /\ ticket'[t].status = "REFUNDED"
         \/ /\ ticket'[t].status = "USED" /\ ticket'[t].usedAt \in Times
            /\ ticket[t].status = "USED" =>
                 ticket[t].usedAt \in Times /\ ticket'[t].usedAt < ticket[t].usedAt
            /\ \/ \E s \in OnlineScans : Admitted(s)' /\ scan'[s].ticket = t
               \/ \E o \in OfflineScans : Took(o)' /\ syn'[o].ticket = t
<1>0. /\ ticket \in [Tickets -> TicketRow]
      /\ DOMAIN ticket[t] = {"status", "expiresAt", "usedAt", "refundedAt"}
      /\ ticket[t].usedAt \in Times \cup {NULL}
      /\ scan \in [OnlineScans -> ScanLocal] /\ syn \in [OfflineScans -> SyncLocal]
      /\ \A s \in OnlineScans : scan[s].at \in Times
      /\ \A o \in OfflineScans : syn[o].at \in Times
  BY TypeInvParts
  DEF RowsOK, StoreTypeOK, TicketRow, ScanTypeOK, ScanLocal, SyncTypeOK, SyncLocal
<1>1. ASSUME NEW u \in Tickets, CommitPurchase(u)
      PROVE  \/ ticket'[t] = ticket[t]
             \/ ticket[t].status = "NONE" /\ ticket'[t].status = "ACTIVE"
  <2>1. ~Issued(u) BY <1>1 DEF CommitPurchase, SafetyInv, IssuedWhenBought
  <2>2. QED BY <1>0, <1>1, <2>1 DEF CommitPurchase, Issued
<1>2. ASSUME NEW j \in Runs, CommitRefund(j)
      PROVE  \/ ticket'[t] = ticket[t]
             \/ ticket[t].status = "ACTIVE" /\ ticket'[t].status = "REFUNDED"
  <2>1. CASE run[j].cur # t BY <1>0, <1>2, <2>1 DEF CommitRefund
  <2>2. CASE run[j].cur = t
    <3>1. ticket[t].status = "ACTIVE"
      BY <1>2, <2>2, TypeInvParts DEF CommitRefund, RunLocalsOK, SerialInv, RunHolds
    <3>2. ticket'[t].status = "REFUNDED" BY <1>0, <1>2, <2>2 DEF CommitRefund
    <3>3. QED BY <3>1, <3>2
  <2>3. QED BY <2>1, <2>2
<1>3. ASSUME NEW s \in OnlineScans, ClaimTicket(s), ticket'[t] # ticket[t]
      PROVE  /\ ticket'[t].status = "USED" /\ ticket'[t].usedAt \in Times
             /\ ticket[t].status # "USED"
             /\ Admitted(s)' /\ scan'[s].ticket = t
  <2>1. /\ ToLog(s, "VALID") /\ ticket[scan[s].ticket].status = "ACTIVE"
        /\ ticket' = [ticket EXCEPT ![scan[s].ticket] =
                       [@ EXCEPT !.status = "USED", !.usedAt = scan[s].at]]
    BY <1>3 DEF ClaimTicket
  <2>2. scan[s].ticket = t BY <1>0, <1>3, <2>1
  <2>3. /\ ticket'[t].status = "USED" /\ ticket'[t].usedAt = scan[s].at
        /\ ticket[t].status # "USED"
    BY <1>0, <2>1, <2>2
  <2>4. scan'[s].result = "VALID" /\ scan'[s].ticket = t
    BY <1>0, <2>1, <2>2 DEF ToLog, ScanLocal
  <2>5. QED BY <1>0, <2>3, <2>4 DEF Admitted
<1>4. ASSUME NEW o \in OfflineScans, MoveUsedAt(o) \/ MarkUsed(o) \/ ReverseRefund(o),
             ticket'[t] # ticket[t]
      PROVE  /\ ticket'[t].status = "USED" /\ ticket'[t].usedAt \in Times
             /\ ticket[t].status = "USED" =>
                  ticket[t].usedAt \in Times /\ ticket'[t].usedAt < ticket[t].usedAt
             /\ Took(o)' /\ syn'[o].ticket = t
  <2>1. syn[o].ticket = t
    BY <1>0, <1>4 DEF MoveUsedAt, MarkUsed, ReverseRefund
  <2>2. Took(o)' /\ syn'[o].ticket = t
    BY <1>4, <2>1, SyncHoldsWritten DEF Took
  <2>3. SyncHolds(o) BY DEF SerialInv
  <2>4. CASE MoveUsedAt(o)
    <3>1. /\ ticket[t].status = "USED" /\ ticket[t].usedAt \in Times
          /\ ticket[t].usedAt > syn[o].at
      BY <1>0, <2>1, <2>3, <2>4 DEF MoveUsedAt, Write, SyncHolds
    <3>2. ticket'[t].status = "USED" /\ ticket'[t].usedAt = syn[o].at
      BY <1>0, <2>1, <2>4, <3>1 DEF MoveUsedAt
    <3>3. syn[o].at < ticket[t].usedAt BY <1>0, <3>1 DEF Times
    <3>4. QED BY <1>0, <2>2, <3>1, <3>2, <3>3
  <2>5. CASE MarkUsed(o)
    <3>1. ticket[t].status = "ACTIVE"
      BY <2>1, <2>3, <2>5 DEF MarkUsed, Write, SyncHolds
    <3>2. ticket'[t].status = "USED" /\ ticket'[t].usedAt = syn[o].at
      BY <1>0, <2>1, <2>5 DEF MarkUsed
    <3>3. QED BY <1>0, <2>2, <3>1, <3>2
  <2>6. CASE ReverseRefund(o)
    <3>1. ticket[t].status = "REFUNDED"
      BY <2>1, <2>3, <2>6 DEF ReverseRefund, Write, SyncHolds
    <3>2. ticket'[t].status = "USED" /\ ticket'[t].usedAt = syn[o].at
      BY <1>0, <2>1, <2>6 DEF ReverseRefund
    <3>3. QED BY <1>0, <2>2, <3>1, <3>2
  <2>7. QED BY <1>4, <2>4, <2>5, <2>6
<1>5. QED BY <1>1, <1>2, <1>3, <1>4, TicketWriters

LEMMA NextUseHolds ==
  ASSUME Serial, TypeInv, SafetyInv, SerialInv, [Next]_vars, NEW t \in Tickets
  PROVE  UseHolds(t)'
<1>0. NULL \notin Times /\ NULL # "VALID"
  BY StoreAssumption DEF Times, ScanResult
<1>1. ASSUME NEW s \in OnlineScans, Admitted(s), scan[s].ticket = t
      PROVE  Admitted(s)' /\ scan'[s].ticket = t
  BY <1>0, <1>1, ScanAnswerStays DEF Admitted
<1>2. ASSUME NEW o \in OfflineScans, Took(o), syn[o].ticket = t
      PROVE  Took(o)' /\ syn'[o].ticket = t
  BY <1>0, <1>2, SyncAnswerStays DEF Took
<1>3. CASE ticket'[t] = ticket[t]
  <2>1. UseHolds(t) BY DEF SerialInv
  <2>2. QED BY <1>1, <1>2, <1>3, <2>1 DEF UseHolds
<1>4. CASE ticket'[t].status # "USED" BY <1>4 DEF UseHolds
<1>5. CASE /\ ticket'[t].status = "USED" /\ ticket'[t].usedAt \in Times
           /\ \/ \E s \in OnlineScans : Admitted(s)' /\ scan'[s].ticket = t
              \/ \E o \in OfflineScans : Took(o)' /\ syn'[o].ticket = t
  BY <1>0, <1>5 DEF UseHolds
<1>6. QED BY <1>3, <1>4, <1>5, RowMoves

\* A row that is new in scan_events is the one its handler was about to write.
LEMMA NewEvents ==
  ASSUME TypeInv, SerialInv, [Next]_vars, NEW e \in scanEvents', e \notin scanEvents
  PROVE  \/ /\ ~e.offline /\ e.result # "VALID"
         \/ /\ ~e.offline /\ e.ticket \in Tickets /\ UNCHANGED ticket
            /\ e.result = "VALID" => UsedAt(e.ticket, e.at)
         \/ \E o \in OfflineScans :
              /\ LogOffline(o) /\ Processed(o) = {} /\ UNCHANGED ticket
              /\ e = [by |-> o, driver |-> syn[o].driver, ticket |-> syn[o].ticket,
                      at |-> syn[o].at, result |-> syn[o].result, offline |-> TRUE]
              /\ scanEvents' = scanEvents \cup {e}
              /\ e.ticket \in Tickets
              /\ e.result = "VALID" => UsedAt(e.ticket, e.at)
<1>1. ASSUME NEW s \in OnlineScans, NEW d \in Drivers, NEW t \in Tickets,
             RejectForged(s, d, t)
      PROVE  ~e.offline /\ e.result # "VALID"
  BY <1>1 DEF RejectForged, InsertScanEvent
<1>2. ASSUME NEW s \in OnlineScans, LogScan(s)
      PROVE  /\ ~e.offline /\ e.ticket \in Tickets /\ UNCHANGED ticket
             /\ e.result = "VALID" => UsedAt(e.ticket, e.at)
  <2>1. e = [by |-> s, driver |-> scan[s].driver, ticket |-> scan[s].ticket,
             at |-> scan[s].at, result |-> scan[s].result, offline |-> FALSE]
    BY <1>2 DEF LogScan, InsertScanEvent
  <2>2. scan[s].pc = "log" /\ ScanHolds(s) BY <1>2 DEF LogScan, SerialInv
  <2>3. scan[s].ticket \in Tickets
    BY <2>2, TypeInvParts DEF ScanLocalsOK, ScanPcs
  <2>4. QED BY <1>2, <2>1, <2>2, <2>3 DEF ScanHolds, Admitted, LogScan
<1>3. ASSUME NEW o \in OfflineScans, LogOffline(o)
      PROVE  /\ LogOffline(o) /\ Processed(o) = {} /\ UNCHANGED ticket
             /\ e = [by |-> o, driver |-> syn[o].driver, ticket |-> syn[o].ticket,
                     at |-> syn[o].at, result |-> syn[o].result, offline |-> TRUE]
             /\ scanEvents' = scanEvents \cup {e}
             /\ e.ticket \in Tickets
             /\ e.result = "VALID" => UsedAt(e.ticket, e.at)
  <2>1. e = [by |-> o, driver |-> syn[o].driver, ticket |-> syn[o].ticket,
             at |-> syn[o].at, result |-> syn[o].result, offline |-> TRUE]
        /\ scanEvents' = scanEvents \cup {e}
    BY <1>3 DEF LogOffline, InsertScanEvent
  <2>2. syn[o].pc = "log" /\ SyncHolds(o) BY <1>3 DEF LogOffline, SerialInv
  <2>3. syn[o].ticket \in Tickets
    BY <2>2, TypeInvParts DEF SyncLocalsOK, SyncPcs
  <2>4. QED BY <1>3, <2>1, <2>2, <2>3 DEF SyncHolds, Took, LogOffline
<1>4. QED BY <1>1, <1>2, <1>3, EventWriters

LEMMA EventTypes ==
  ASSUME TypeInv, NEW e \in scanEvents
  PROVE  /\ e.ticket \in Tickets /\ e.at \in Times
         /\ e.result \in ScanResult /\ e.result # NULL
  BY TypeInvParts, StoreAssumption DEF RowsOK

LEMMA NextEventHolds ==
  ASSUME Serial, TypeInv, SerialInv, [Next]_vars, NEW e \in scanEvents'
  PROVE  EventHolds(e)'
<1>1. CASE e \in scanEvents /\ e.offline
  <2>1. /\ e.by \in OfflineScans
        /\ syn[e.by].ticket = e.ticket /\ syn[e.by].driver = e.driver
        /\ syn[e.by].at = e.at /\ syn[e.by].result = e.result
    BY <1>1 DEF SerialInv, EventHolds
  <2>2. syn[e.by].result # NULL BY <1>1, <2>1, EventTypes
  <2>3. QED BY <2>1, <2>2, SyncAnswerStays DEF EventHolds
<1>2. CASE ~e.offline BY <1>2 DEF EventHolds
<1>3. ASSUME NEW o \in OfflineScans, LogOffline(o),
             e = [by |-> o, driver |-> syn[o].driver, ticket |-> syn[o].ticket,
                  at |-> syn[o].at, result |-> syn[o].result, offline |-> TRUE]
      PROVE  EventHolds(e)'
  <2>1. /\ syn'[o].ticket = syn[o].ticket /\ syn'[o].driver = syn[o].driver
        /\ syn'[o].at = syn[o].at /\ syn'[o].result = syn[o].result
    BY <1>3, TypeInvParts DEF LogOffline, SyncTypeOK, SyncLocal
  <2>2. QED BY <1>3, <2>1 DEF EventHolds
<1>4. QED BY <1>1, <1>2, <1>3, NewEvents

LEMMA NextEarliestScanWins ==
  ASSUME TypeInv, SafetyInv, SerialInv, [Next]_vars
  PROVE  EarliestScanWins'
<1> SUFFICES ASSUME NEW e \in scanEvents', e.result = "VALID"
             PROVE  /\ ticket'[e.ticket].status = "USED"
                    /\ ticket'[e.ticket].usedAt <= e.at
  BY DEF EarliestScanWins
<1>1. CASE e \in scanEvents
  <2>1. PICK t \in Tickets : t = e.ticket BY <1>1, EventTypes
  <2>2. ticket[t].status = "USED" /\ ticket[t].usedAt <= e.at
    BY <1>1, <2>1 DEF SerialInv, EarliestScanWins
  <2>3. CASE ticket'[t] = ticket[t] BY <2>1, <2>2, <2>3
  <2>4. CASE /\ ticket'[t].status = "USED" /\ ticket'[t].usedAt \in Times
             /\ ticket[t].usedAt \in Times
             /\ ticket'[t].usedAt < ticket[t].usedAt
    <3>1. e.at \in Times BY <1>1, EventTypes
    <3>2. ticket'[t].usedAt <= e.at BY <2>2, <2>4, <3>1 DEF Times
    <3>3. QED BY <2>1, <2>4, <3>2
  <2>5. QED BY <2>2, <2>3, <2>4, RowMoves
<1>2. CASE /\ e \notin scanEvents /\ e.ticket \in Tickets /\ UNCHANGED ticket
           /\ UsedAt(e.ticket, e.at)
  <2>1. e.at \in Int
    BY NextType, TypeInvPartsNext DEF RowsOK, Times
  <2>2. QED BY <1>2, <2>1 DEF UsedAt
<1>3. QED BY <1>1, <1>2, NewEvents

LEMMA NextDeliveredOnce ==
  ASSUME TypeInv, SerialInv, [Next]_vars
  PROVE  DeliveredOnce'
<1> SUFFICES ASSUME NEW e \in scanEvents', NEW f \in scanEvents',
                    e.offline, f.offline, e.ticket = f.ticket,
                    e.driver = f.driver, e.at = f.at
             PROVE  e = f
  BY DEF DeliveredOnce
<1>1. ASSUME NEW n \in scanEvents', n.offline, n \notin scanEvents,
             NEW g \in scanEvents', g.offline, g.ticket = n.ticket,
             g.driver = n.driver, g.at = n.at
      PROVE  g = n
  <2>1. PICK o \in OfflineScans :
          /\ Processed(o) = {}
          /\ n = [by |-> o, driver |-> syn[o].driver, ticket |-> syn[o].ticket,
                  at |-> syn[o].at, result |-> syn[o].result, offline |-> TRUE]
          /\ scanEvents' = scanEvents \cup {n}
    BY <1>1, NewEvents
  <2>2. g \in scanEvents => g \in Processed(o) BY <1>1, <2>1 DEF Processed
  <2>3. QED BY <1>1, <2>1, <2>2
<1>2. CASE e \in scanEvents /\ f \in scanEvents
  BY <1>2 DEF SerialInv, DeliveredOnce
<1>3. QED BY <1>1, <1>2

\* Another scan, or a delivery of this one that died, used the ticket before.
Beaten(o) ==
  \/ \E s \in OnlineScans : Admitted(s) /\ scan[s].ticket = syn[o].ticket
  \/ \E x \in OfflineScans :
       /\ Took(x) /\ syn[x].ticket = syn[o].ticket
       /\ SameScan(x, o) => syn[x].pc = "crashed"

LEMMA BeatenStays ==
  ASSUME Serial, TypeInv, SerialInv, [Next]_vars, NEW o \in OfflineScans, Beaten(o),
         syn'[o].ticket = syn[o].ticket, syn'[o].driver = syn[o].driver,
         syn'[o].at = syn[o].at
  PROVE  Beaten(o)'
<1>0. NULL # "VALID" BY StoreAssumption DEF ScanResult
<1>1. ASSUME NEW s \in OnlineScans, Admitted(s), scan[s].ticket = syn[o].ticket
      PROVE  Admitted(s)' /\ scan'[s].ticket = syn'[o].ticket
  BY <1>0, <1>1, ScanAnswerStays DEF Admitted
<1>2. ASSUME NEW x \in OfflineScans, Took(x), syn[x].ticket = syn[o].ticket,
             SameScan(x, o) => syn[x].pc = "crashed"
      PROVE  /\ Took(x)' /\ syn'[x].ticket = syn'[o].ticket
             /\ SameScan(x, o)' => syn'[x].pc = "crashed"
  <2>1. /\ syn'[x].result = "VALID"
        /\ syn'[x].ticket = syn[x].ticket /\ syn'[x].driver = syn[x].driver
        /\ syn'[x].at = syn[x].at
    BY <1>0, <1>2, SyncAnswerStays DEF Took
  <2>2. SameScan(x, o)' => SameScan(x, o) BY <2>1 DEF SameScan
  <2>3. syn[x].pc = "crashed" => syn'[x].pc = "crashed"
    BY <1>0, <1>2, SyncAnswerStays DEF Took, LogOffline
  <2>4. QED BY <1>2, <2>1, <2>2, <2>3 DEF Took
<1>3. QED BY <1>1, <1>2 DEF Beaten

\* The server answers ALREADY_USED to a scan that has not been delivered before.
LEMMA ServerWinsOverAnother ==
  ASSUME TypeInv, SerialInv, NEW o \in OfflineScans, ServerWins(o)
  PROVE  Beaten(o)
<1>1. /\ syn[o].pc = "decide" /\ Processed(o) = {} /\ syn[o].status = "USED"
      /\ SyncHolds(o) /\ syn[o].result = NULL
  BY DEF ServerWins, New, UsedOnServer, SerialInv, SyncHolds
<1>2. PICK t \in Tickets : t = syn[o].ticket
  BY <1>1, TypeInvParts DEF SyncLocalsOK, SyncPcs
<1>3. ticket[t].status = "USED" BY <1>1, <1>2 DEF SyncHolds
<1>4. ASSUME NEW x \in OfflineScans, Took(x), SameScan(x, o)
      PROVE  syn[x].pc = "crashed"
  <2>0. SyncHolds(x) /\ syn[x].result # NULL
    BY <1>4, StoreAssumption DEF SerialInv, Took, ScanResult
  <2>1. syn[x].pc # "log"
    <3>1. SUFFICES ASSUME syn[x].pc = "log" PROVE x = o
      BY <1>1, <2>0
    <3>2. x \in SyncInFlight /\ o \in SyncInFlight
      BY <1>1, <3>1 DEF SyncInFlight, SyncPcs
    <3>3. QED BY <3>2 DEF SerialInv, Alone, Idle, OnlyBuy, OnlyScan, OnlySync, OnlyRun
  <2>2. syn[x].pc \notin {"done", "skipped"}
    <3>1. Processed(x) = Processed(o) BY <1>4 DEF Processed, SameScan
    <3>2. QED BY <1>1, <1>4, <2>0, <3>1 DEF SyncHolds
  <2>3. syn[x].pc \in {"idle", "done", "skipped", "crashed"} \cup SyncPcs
    BY TypeInvParts DEF SyncTypeOK, SyncLocal
  <2>4. QED BY <2>0, <2>1, <2>2, <2>3 DEF SyncHolds, SyncPcs
<1>5. QED BY <1>2, <1>3, <1>4 DEF SerialInv, UseHolds, Beaten

\* The stored answer is passed on: whoever beat the earlier delivery beat this one.
LEMMA SkippedIsBeatenToo ==
  ASSUME TypeInv, SerialInv, NEW o \in OfflineScans, NEW e \in Processed(o),
         e.result = "ALREADY_USED"
  PROVE  Beaten(o)
<1>1. e \in scanEvents /\ e.offline /\ EventHolds(e)
  BY DEF Processed, SerialInv
<1>2. PICK y \in OfflineScans :
        /\ syn[y].ticket = syn[o].ticket /\ syn[y].driver = syn[o].driver
        /\ syn[y].at = syn[o].at /\ syn[y].result = "ALREADY_USED"
  BY <1>1 DEF EventHolds, Processed
<1>3. Beaten(y) BY <1>2 DEF SerialInv, OutdoneByAnother, Beaten
<1>4. \A x \in OfflineScans : SameScan(x, o) <=> SameScan(x, y)
  BY <1>2 DEF SameScan
<1>5. QED BY <1>2, <1>3, <1>4 DEF Beaten

LEMMA NextOutdoneByAnother ==
  ASSUME Serial, TypeInv, SerialInv, [Next]_vars
  PROVE  OutdoneByAnother'
<1> SUFFICES ASSUME NEW o \in OfflineScans, syn'[o].result = "ALREADY_USED"
             PROVE  Beaten(o)'
  BY DEF OutdoneByAnother, Beaten
<1>0. /\ DOMAIN syn = OfflineScans
      /\ DOMAIN syn[o] = {"pc", "driver", "ticket", "at", "inspection", "status",
                          "usedAt", "result"}
      /\ DOMAIN SyncIdle = {"pc", "driver", "ticket", "at", "inspection", "status",
                            "usedAt", "result"}
      /\ SyncIdle.result = NULL /\ NULL # "ALREADY_USED"
  BY TypeInvParts, StoreAssumption DEF SyncTypeOK, SyncLocal, SyncIdle, ScanResult
<1>1. CASE syn[o].result = "ALREADY_USED"
  <2>1. Beaten(o) BY <1>1 DEF SerialInv, OutdoneByAnother, Beaten
  <2>2. QED BY <1>0, <1>1, <2>1, SyncAnswerStays, BeatenStays
<1>2. CASE syn[o].result # "ALREADY_USED" /\ o \notin SyncInFlight
  <2>1. ~RejectUnverified(o) BY <1>0 DEF RejectUnverified
  <2>2. ASSUME NEW d \in Drivers, NEW t \in Tickets, NEW at \in Times,
               NEW inspection \in BOOLEAN, StartSync(o, d, t, at, inspection)
        PROVE  FALSE
    <3>1. syn'[o].result = NULL BY <1>0, <2>2 DEF StartSync
    <3>2. QED BY <1>0, <3>1
  <2>3. QED BY <1>2, <2>1, <2>2, OthersRest
<1>3. CASE syn[o].result # "ALREADY_USED" /\ o \in SyncInFlight
  <2>1. CASE Quiet BY <1>3, <2>1 DEF Quiet
  <2>2. CASE FetchForSync(o) BY <1>0, <1>3, <2>2 DEF FetchForSync
  <2>3. CASE SkipProcessed(o)
    <3>1. PICK e \in Processed(o) :
            syn' = [syn EXCEPT ![o] = [@ EXCEPT !.pc = "skipped", !.result = e.result,
                                               !.status = "NONE", !.usedAt = NULL]]
      BY <2>3 DEF SkipProcessed
    <3>2. /\ e.result = "ALREADY_USED"
          /\ syn'[o].ticket = syn[o].ticket /\ syn'[o].driver = syn[o].driver
          /\ syn'[o].at = syn[o].at
      BY <1>0, <3>1
    <3>3. QED BY <3>2, SkippedIsBeatenToo, BeatenStays
  <2>4. ASSUME NEW pc, NEW result, Decide(o, pc, result)
        PROVE  /\ result = "ALREADY_USED"
               /\ syn'[o].ticket = syn[o].ticket /\ syn'[o].driver = syn[o].driver
               /\ syn'[o].at = syn[o].at
    BY <1>0, <2>4 DEF Decide
  <2>5. CASE ServerWins(o)
    BY <2>4, <2>5, ServerWinsOverAnother, BeatenStays DEF ServerWins
  <2>6. CASE LateScan(o) \/ OfflineWins(o) \/ OfflineInspection(o) \/ FirstUse(o)
    BY <1>0, <2>4, <2>6 DEF LateScan, OfflineWins, OfflineInspection, FirstUse
  <2>7. CASE MoveUsedAt(o) \/ MarkUsed(o) \/ ReverseRefund(o)
    BY <2>7, SyncHoldsWritten
  <2>8. CASE LogOffline(o) BY <1>0, <1>3, <2>8 DEF LogOffline
  <2>9. CASE CrashSync(o) BY <1>0, <1>3, <2>9 DEF CrashSync
  <2>10. QED
    BY <1>3, <2>1, <2>2, <2>3, <2>5, <2>6, <2>7, <2>8, <2>9, WorkerMoves
    DEF SyncStep, SerialInv
<1>4. QED BY <1>1, <1>2, <1>3

-----------------------------------------------------------------------------
LEMMA InitSerial == Init => SerialInv
<1> SUFFICES ASSUME Init PROVE SerialInv OBVIOUS
<1>1. /\ ticket = [t \in Tickets |-> NoTicket] /\ scanEvents = {}
      /\ buy = [t \in Tickets |-> BuyIdle]
      /\ scan = [s \in OnlineScans |-> ScanIdle]
      /\ syn = [o \in OfflineScans |-> SyncIdle]
      /\ run = [j \in Runs |-> RunIdle]
  BY DEF Init, StoreInit, PurchaseInit, ValidationInit, SyncInit, JobInit
<1>2. /\ \A t \in Tickets : ticket[t].status = "NONE" /\ buy[t].pc = "idle"
      /\ \A s \in OnlineScans : scan[s].pc = "idle" /\ scan[s].result = NULL
      /\ \A o \in OfflineScans : syn[o].pc = "idle" /\ syn[o].result = NULL
      /\ \A j \in Runs : run[j].pc = "idle" /\ run[j].todo = {}
  BY <1>1 DEF NoTicket, BuyIdle, ScanIdle, SyncIdle, RunIdle
<1>3. NULL # "ALREADY_USED" BY StoreAssumption DEF ScanResult
<1>4. Idle
  BY <1>2 DEF Idle, BuyInFlight, ScanInFlight, SyncInFlight, RunInFlight, ScanPcs, SyncPcs
<1>5. /\ \A t \in Tickets : BuyHolds(t) /\ UseHolds(t)
      /\ \A j \in Runs : RunHolds(j)
      /\ \A s \in OnlineScans : ScanHolds(s)
      /\ \A o \in OfflineScans : SyncHolds(o)
  BY <1>2 DEF BuyHolds, UseHolds, RunHolds, ScanHolds, SyncHolds
<1>6. EarliestScanWins /\ DeliveredOnce /\ OutdoneByAnother
  BY <1>1, <1>2, <1>3 DEF EarliestScanWins, DeliveredOnce, OutdoneByAnother
<1>7. QED BY <1>1, <1>4, <1>5, <1>6 DEF SerialInv, Alone

LEMMA NextSerial ==
  ASSUME Serial, TypeInv, SafetyInv, SerialInv, [Next]_vars
  PROVE  SerialInv'
<1>1. Alone' BY NextAlone DEF SerialInv
<1>2. \A e \in scanEvents' : EventHolds(e)' BY NextEventHolds
<1>3. QED
  BY <1>1, <1>2, NextBuyHolds, NextUseHolds, NextRunHolds, NextScanHolds, NextSyncHolds,
     NextEarliestScanWins, NextDeliveredOnce, NextOutdoneByAnother
  DEF SerialInv

\* What a handler carries from one statement to the next still holds when it is
\* used: no other handler moves in between, and a crash writes nothing.
THEOREM SerialAlways ==
  ASSUME Serial PROVE Spec => [](TypeInv /\ SafetyInv /\ SerialInv)
<1>1. (TypeInv /\ SafetyInv) /\ SerialInv /\ [Next]_vars => SerialInv'
  BY NextSerial
<1>2. QED BY <1>1, InitSerial, Safety, PTL DEF Spec

\* processScan and validateTicket: conflicting scans of a ticket are resolved in
\* favour of the earliest, so no accepted scan is older than the ticket's usedAt.
THEOREM EarliestScanWinsAlways == ASSUME Serial PROVE Spec => []EarliestScanWins
<1>1. SerialInv => EarliestScanWins BY DEF SerialInv
<1>2. QED BY <1>1, SerialAlways, PTL

\* processScan looks for the row of an earlier delivery before it does anything: a
\* scan that is delivered again, even after a crash, leaves one row.
THEOREM DeliveredOnceAlways == ASSUME Serial PROVE Spec => []DeliveredOnce
<1>1. SerialInv => DeliveredOnce BY DEF SerialInv
<1>2. QED BY <1>1, SerialAlways, PTL

\* A scan that is delivered again is not told that its ticket was used already
\* because it used the ticket itself.
THEOREM OutdoneByAnotherAlways == ASSUME Serial PROVE Spec => []OutdoneByAnother
<1>1. SerialInv => OutdoneByAnother BY DEF SerialInv
<1>2. QED BY <1>1, SerialAlways, PTL

-----------------------------------------------------------------------------
(* Refinement of TicketPromise.                                              *)

\* Tickets whose hour is over.
Over == {t \in Tickets : Issued(t) /\ Expired(t, now)}

\* One ticket moves, its owner pays n fares, and every other ticket stays.
LEMMA OneMoves ==
  ASSUME TypeInv, NEW t \in Tickets, NEW from, NEW to, NEW n \in {-1, 0, 1},
         ticket[t].status = from, ticket'[t].status = to,
         \A u \in Tickets : u # t => /\ ticket'[u].status = ticket[u].status
                                     /\ ledger'[u] = ledger[u],
         Charged(t)' = Charged(t) + n,
         balance' = [balance EXCEPT ![Owner[t]] = @ - n * Fare[t]]
  PROVE  Promise!Move(t, from, to, n)
<1> DEFINE phase == [u \in Tickets |-> ticket[u].status]
           charged == [u \in Tickets |-> Charged(u)]
<1>1. phase[t] = from OBVIOUS
<1>2. phase' = [phase EXCEPT ![t] = to] OBVIOUS
<1>3. charged' = [charged EXCEPT ![t] = @ + n]
  <2>1. \A u \in Tickets : u # t => Charged(u)' = Charged(u) BY DEF Charged
  <2>2. QED BY <2>1
<1>4. QED BY <1>1, <1>2, <1>3 DEF Promise!Move

\* No hour begins or ends in a step that issues no ticket and takes no time.
LEMMA OverStays ==
  ASSUME TypeInv, SafetyInv, [Next]_vars, UNCHANGED now,
         \A t \in Tickets : ticket[t].status = "NONE" => ticket'[t].status = "NONE"
  PROVE  Over' = Over
  BY RowsMoveForward DEF Over, Forward, Issued, Expired

\* A purchase debits the balance it checked.
LEMMA BuyKeepsPromise ==
  ASSUME TypeInv, SafetyInv, SerialInv, [Next]_vars, NEW t \in Tickets,
         CommitPurchase(t)
  PROVE  Promise!Buy(t)
<1>0. /\ DOMAIN ticket = Tickets /\ DOMAIN ledger = Tickets
      /\ DOMAIN ledger[t] = {"debits", "refunds", "reversals"}
      /\ ledger[t].debits \in Nat /\ ledger[t].refunds \in Nat
      /\ ledger[t].reversals \in Nat
      /\ balance \in [Passengers -> Int] /\ Owner[t] \in Passengers /\ Fare[t] \in Nat
  BY TypeInvParts, StoreAssumption DEF RowsOK, StoreTypeOK, LedgerRow
<1>1. buy[t].read = balance[Owner[t]] /\ balance[Owner[t]] >= Fare[t]
  BY DEF CommitPurchase, SerialInv, BuyHolds
<1>2. ticket[t].status = "NONE"
  BY DEF CommitPurchase, SafetyInv, IssuedWhenBought, Issued
<1>3. ticket'[t].status = "ACTIVE" BY <1>0 DEF CommitPurchase
<1>4. \A u \in Tickets : u # t => ticket'[u] = ticket[u] /\ ledger'[u] = ledger[u]
  BY <1>0 DEF CommitPurchase
<1>5. Charged(t)' = Charged(t) + 1
  <2>1. /\ ledger'[t].debits = ledger[t].debits + 1
        /\ ledger'[t].refunds = ledger[t].refunds
        /\ ledger'[t].reversals = ledger[t].reversals
    BY <1>0 DEF CommitPurchase
  <2>2. QED BY <1>0, <2>1 DEF Charged
<1>6. balance' = [balance EXCEPT ![Owner[t]] = @ - 1 * Fare[t]]
  <2>1. balance[Owner[t]] - 1 * Fare[t] = buy[t].read - Fare[t] BY <1>0, <1>1
  <2>2. QED BY <2>1 DEF CommitPurchase
<1>7. Promise!Move(t, "NONE", "ACTIVE", 1)
  BY <1>2, <1>3, <1>4, <1>5, <1>6, OneMoves
<1>8. Over' \in {Over, Over \cup {t}}
  <2>1. now' = now BY DEF CommitPurchase
  <2>2. Over' \ {t} = Over
    BY <1>2, <1>4, <2>1 DEF Over, Issued, Expired
  <2>3. QED BY <2>2
<1>9. QED BY <1>1, <1>7, <1>8 DEF Promise!Buy, Over

\* Only an ACTIVE ticket is boarded on.
LEMMA BoardKeepsPromise ==
  ASSUME TypeInv, SafetyInv, [Next]_vars, NEW t \in Tickets,
         ticket[t].status = "ACTIVE", ticket'[t].status = "USED",
         \A u \in Tickets : u # t => ticket'[u] = ticket[u],
         UNCHANGED <<now, balance, ledger>>
  PROVE  Promise!Board(t)
<1>1. Charged(t)' = Charged(t) + 0
  BY TypeInvParts DEF Charged, RowsOK, StoreTypeOK, LedgerRow
<1>2. balance' = [balance EXCEPT ![Owner[t]] = @ - 0 * Fare[t]]
  BY TypeInvParts, StoreAssumption DEF RowsOK, StoreTypeOK
<1>3. Promise!Move(t, "ACTIVE", "USED", 0) BY <1>1, <1>2, OneMoves
<1>4. Over' = Over BY OverStays
<1>5. QED BY <1>3, <1>4 DEF Promise!Board, Over

\* A refund gives the fare back on top of the balance it read, for a ticket that
\* is over and still ACTIVE.
LEMMA RefundKeepsPromise ==
  ASSUME TypeInv, SafetyInv, SerialInv, [Next]_vars, NEW j \in Runs, CommitRefund(j)
  PROVE  \E t \in Tickets : Promise!Refund(t)
<1>0. PICK t \in Tickets : t = run[j].cur /\ t \in run[j].todo
  BY TypeInvParts DEF CommitRefund, RunLocalsOK, RunTypeOK, RunLocal
<1>1. /\ DOMAIN ticket = Tickets /\ DOMAIN ledger = Tickets
      /\ DOMAIN ticket[t] = {"status", "expiresAt", "usedAt", "refundedAt"}
      /\ DOMAIN ledger[t] = {"debits", "refunds", "reversals"}
      /\ ledger[t].debits \in Nat /\ ledger[t].refunds \in Nat
      /\ ledger[t].reversals \in Nat
      /\ balance \in [Passengers -> Int] /\ Owner[t] \in Passengers /\ Fare[t] \in Nat
  BY TypeInvParts, StoreAssumption DEF RowsOK, StoreTypeOK, TicketRow, LedgerRow
<1>2. ticket[t].status = "ACTIVE" /\ run[j].read = balance[Owner[t]]
  BY <1>0 DEF CommitRefund, SerialInv, RunHolds
<1>3. t \in Over BY <1>0 DEF SafetyInv, RunInv, Over
<1>4. ticket'[t].status = "REFUNDED" BY <1>0, <1>1 DEF CommitRefund
<1>5. \A u \in Tickets : u # t => ticket'[u] = ticket[u] /\ ledger'[u] = ledger[u]
  BY <1>0, <1>1 DEF CommitRefund
<1>6. Charged(t)' = Charged(t) + (-1)
  <2>1. /\ ledger'[t].debits = ledger[t].debits
        /\ ledger'[t].refunds = ledger[t].refunds + 1
        /\ ledger'[t].reversals = ledger[t].reversals
    BY <1>0, <1>1 DEF CommitRefund
  <2>2. QED BY <1>1, <2>1 DEF Charged
<1>7. balance' = [balance EXCEPT ![Owner[t]] = @ - (-1) * Fare[t]]
  <2>1. balance[Owner[t]] - (-1) * Fare[t] = run[j].read + Fare[t]
    BY <1>1, <1>2
  <2>2. QED BY <1>0, <2>1 DEF CommitRefund
<1>8. Promise!Move(t, "ACTIVE", "REFUNDED", -1)
  BY <1>2, <1>4, <1>5, <1>6, <1>7, OneMoves
<1>9. Over' = Over
  <2>1. now' = now BY DEF CommitRefund
  <2>2. QED BY <1>2, <1>5, <2>1, OverStays
<1>10. QED BY <1>3, <1>8, <1>9 DEF Promise!Refund, Over

\* A reversal takes the refund back.
LEMMA ReversalKeepsPromise ==
  ASSUME TypeInv, SafetyInv, SerialInv, [Next]_vars, NEW o \in OfflineScans,
         ReverseRefund(o)
  PROVE  \E t \in Tickets : Promise!BoardedAfterAll(t)
<1>0. PICK t \in Tickets : t = syn[o].ticket
  BY TypeInvParts DEF ReverseRefund, Write, SyncLocalsOK, SyncPcs
<1>1. /\ DOMAIN ticket = Tickets /\ DOMAIN ledger = Tickets
      /\ DOMAIN ticket[t] = {"status", "expiresAt", "usedAt", "refundedAt"}
      /\ DOMAIN ledger[t] = {"debits", "refunds", "reversals"}
      /\ ledger[t].debits \in Nat /\ ledger[t].refunds \in Nat
      /\ ledger[t].reversals \in Nat
      /\ balance \in [Passengers -> Int] /\ Owner[t] \in Passengers /\ Fare[t] \in Nat
  BY TypeInvParts, StoreAssumption DEF RowsOK, StoreTypeOK, TicketRow, LedgerRow
<1>2. ticket[t].status = "REFUNDED"
  BY <1>0 DEF ReverseRefund, Write, SerialInv, SyncHolds
<1>3. ticket'[t].status = "USED" BY <1>0, <1>1 DEF ReverseRefund
<1>4. \A u \in Tickets : u # t => ticket'[u] = ticket[u] /\ ledger'[u] = ledger[u]
  BY <1>0, <1>1 DEF ReverseRefund
<1>5. Charged(t)' = Charged(t) + 1
  <2>1. /\ ledger'[t].debits = ledger[t].debits
        /\ ledger'[t].refunds = ledger[t].refunds
        /\ ledger'[t].reversals = ledger[t].reversals + 1
    BY <1>0, <1>1 DEF ReverseRefund
  <2>2. QED BY <1>1, <2>1 DEF Charged
<1>6. balance' = [balance EXCEPT ![Owner[t]] = @ - 1 * Fare[t]]
  <2>1. balance[Owner[t]] - 1 * Fare[t] = balance[Owner[t]] - Fare[t] BY <1>1
  <2>2. QED BY <1>0, <2>1 DEF ReverseRefund
<1>7. Promise!Move(t, "REFUNDED", "USED", 1)
  BY <1>2, <1>3, <1>4, <1>5, <1>6, OneMoves
<1>8. Over' = Over
  <2>1. now' = now BY DEF ReverseRefund, Write
  <2>2. QED BY <1>2, <1>4, <2>1, OverStays
<1>9. QED BY <1>7, <1>8 DEF Promise!BoardedAfterAll, Over

\* The rows of the tickets and the wallets stay as they are; time may pass.
LEMMA RestKeepsPromise ==
  ASSUME TypeInv, SafetyInv, [Next]_vars, UNCHANGED <<ticket, balance, ledger>>
  PROVE  Promise!TimePasses
<1>1. Over \subseteq Over'
  BY ClockMovesForward, TypeInvParts
  DEF Over, Issued, Expired, RowsOK, StoreTypeOK, TicketRow
<1>2. Over' \in SUBSET {t \in Tickets : ticket[t].status # "NONE"}
  BY DEF Over, Issued
<1>3. Over' = Over \cup Over' BY <1>1
<1>4. /\ [t \in Tickets |-> ticket[t].status]' = [t \in Tickets |-> ticket[t].status]
      /\ [t \in Tickets |-> Charged(t)]' = [t \in Tickets |-> Charged(t)]
  BY DEF Charged
<1>5. QED BY <1>2, <1>3, <1>4 DEF Promise!TimePasses, Over

\* A ticket that is used already is used earlier: nothing the promise tells apart.
LEMMA MoveKeepsPromise ==
  ASSUME TypeInv, SafetyInv, SerialInv, [Next]_vars, NEW o \in OfflineScans,
         MoveUsedAt(o)
  PROVE  UNCHANGED Promise!pvars
<1>0. PICK t \in Tickets : t = syn[o].ticket
  BY TypeInvParts DEF MoveUsedAt, Write, SyncLocalsOK, SyncPcs
<1>1. /\ ticket \in [Tickets -> TicketRow]
      /\ \A u \in Tickets :
           DOMAIN ticket[u] = {"status", "expiresAt", "usedAt", "refundedAt"}
  BY TypeInvParts DEF RowsOK, StoreTypeOK, TicketRow
<1>2. \A u \in Tickets : ticket'[u].status = ticket[u].status
  BY <1>0, <1>1 DEF MoveUsedAt
<1>3. UNCHANGED <<now, balance, ledger>> BY DEF MoveUsedAt, Write
<1>4. Over' = Over BY <1>2, <1>3, OverStays
<1>5. /\ [u \in Tickets |-> ticket[u].status]' = [u \in Tickets |-> ticket[u].status]
      /\ [u \in Tickets |-> Charged(u)]' = [u \in Tickets |-> Charged(u)]
  BY <1>2, <1>3 DEF Charged
<1>6. QED BY <1>3, <1>4, <1>5 DEF Promise!pvars, Over

LEMMA NextKeepsPromise ==
  ASSUME TypeInv, SafetyInv, SerialInv, [Next]_vars
  PROVE  [Promise!Next]_(Promise!pvars)
<1>0. ticket \in [Tickets -> TicketRow]
  BY TypeInvParts DEF RowsOK, StoreTypeOK
<1>1. ASSUME NEW t \in Tickets, CommitPurchase(t)
      PROVE  Promise!Next
  BY <1>1, BuyKeepsPromise DEF Promise!Next
<1>2. ASSUME NEW s \in OnlineScans, ClaimTicket(s)
      PROVE  Promise!Next
  <2>0. PICK t \in Tickets : t = scan[s].ticket
    BY <1>2, TypeInvParts DEF ClaimTicket, ScanLocalsOK, ScanPcs
  <2>1. UNCHANGED <<now, balance, ledger>> BY <1>2 DEF ClaimTicket
  <2>2. CASE UNCHANGED ticket
    BY <2>1, <2>2, RestKeepsPromise DEF Promise!Next
  <2>3. CASE /\ ticket[t].status = "ACTIVE"
             /\ ticket' = [ticket EXCEPT ![t] = [@ EXCEPT !.status = "USED",
                                                         !.usedAt = scan[s].at]]
    <3>1. DOMAIN ticket[t] = {"status", "expiresAt", "usedAt", "refundedAt"}
      BY <1>0 DEF TicketRow
    <3>2. /\ ticket'[t].status = "USED"
          /\ \A u \in Tickets : u # t => ticket'[u] = ticket[u]
      BY <1>0, <2>3, <3>1
    <3>3. QED BY <2>1, <2>3, <3>2, BoardKeepsPromise DEF Promise!Next
  <2>4. QED BY <1>2, <2>0, <2>2, <2>3 DEF ClaimTicket
<1>3. ASSUME NEW o \in OfflineScans, MarkUsed(o)
      PROVE  Promise!Next
  <2>0. PICK t \in Tickets : t = syn[o].ticket
    BY <1>3, TypeInvParts DEF MarkUsed, Write, SyncLocalsOK, SyncPcs
  <2>1. UNCHANGED <<now, balance, ledger>> BY <1>3 DEF MarkUsed, Write
  <2>2. ticket[t].status = "ACTIVE"
    BY <1>3, <2>0 DEF MarkUsed, Write, SerialInv, SyncHolds
  <2>3. DOMAIN ticket[t] = {"status", "expiresAt", "usedAt", "refundedAt"}
    BY <1>0 DEF TicketRow
  <2>4. /\ ticket'[t].status = "USED"
        /\ \A u \in Tickets : u # t => ticket'[u] = ticket[u]
    BY <1>0, <1>3, <2>0, <2>3 DEF MarkUsed
  <2>5. QED BY <2>1, <2>2, <2>4, BoardKeepsPromise DEF Promise!Next
<1>4. ASSUME NEW o \in OfflineScans, MoveUsedAt(o)
      PROVE  UNCHANGED Promise!pvars
  BY <1>4, MoveKeepsPromise
<1>5. ASSUME NEW o \in OfflineScans, ReverseRefund(o)
      PROVE  Promise!Next
  BY <1>5, ReversalKeepsPromise DEF Promise!Next
<1>6. ASSUME NEW j \in Runs, CommitRefund(j)
      PROVE  Promise!Next
  BY <1>6, RefundKeepsPromise DEF Promise!Next
<1>7. CASE UNCHANGED <<ticket, balance, ledger>>
  BY <1>7, RestKeepsPromise DEF Promise!Next
<1>8. QED
  BY <1>1, <1>2, <1>3, <1>4, <1>5, <1>6, <1>7, TicketWriters, LedgerWriters

LEMMA InitKeepsPromise == Init => Promise!Init
<1> SUFFICES ASSUME Init PROVE Promise!Init OBVIOUS
<1>1. /\ ticket = [t \in Tickets |-> NoTicket] /\ balance = InitialBalance
      /\ ledger = [t \in Tickets |-> [debits |-> 0, refunds |-> 0, reversals |-> 0]]
  BY DEF Init, StoreInit
<1>2. \A t \in Tickets : ticket[t].status = "NONE" /\ Charged(t) = 0
  BY <1>1 DEF NoTicket, Charged
<1>3. Over = {} BY <1>2 DEF Over, Issued
<1>4. QED BY <1>1, <1>2, <1>3 DEF Promise!Init, Over

\* One handler at a time, with its crashes, late deliveries and rolled back
\* transactions, the rows keep what TicketPromise promises: every purchase, scan,
\* refund and reversal is one of its steps, taken by the statement that commits it.
THEOREM SerialKeepsPromise == ASSUME Serial PROVE Spec => KeepsPromise
<1>1. (TypeInv /\ SafetyInv /\ SerialInv) /\ [Next]_vars
        => [Promise!Next]_(Promise!pvars)
  BY NextKeepsPromise
<1>2. QED
  BY <1>1, InitKeepsPromise, SerialAlways, PTL
  DEF Spec, KeepsPromise, Promise!Spec
================================================================================
