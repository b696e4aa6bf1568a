------------------------------ MODULE TopupProofs ------------------------------
(***************************************************************************)
(* Proofs about WalletTopup, for any top-ups, wallets and amounts: what    *)
(* overlapping webhook calls leave intact, and that calls handled one at a *)
(* time implement TopupPromise.                                            *)
(***************************************************************************)
EXTENDS WalletTopup, TLAPS

\* A row exists only once initiateTopup has come to its end, and a checkout only
\* once it has begun.
RowOfAnswered ==
  \A u \in Topups :
    /\ topup[u] # "answered" => row[u] = "NONE"
    /\ topup[u] = "idle" => checkout[u] = "none"

\* A call reports what the provider has settled, and acts on what it reports.
ReportIsSettled ==
  \A c \in Calls : call[c].pc # "idle" =>
    /\ call[c].topup \in Topups
    /\ call[c].says = checkout[call[c].topup]
    /\ call[c].says \in {"paid", "refused"}

ActsOnReport ==
  \A c \in Calls :
    /\ call[c].pc \in {"credit", "write"} => call[c].says = "paid"
    /\ call[c].pc = "fail" => call[c].says # "paid"
    /\ call[c].pc \in {"credit", "write", "fail"} =>
         row[call[c].topup] # "NONE"

Inv ==
  TypeOK /\ RowOfAnswered /\ ReportIsSettled /\ ActsOnReport /\ CreditedIsCompleted

\* The local state of a call moves to a well typed one.
LEMMA CallMove ==
  ASSUME TypeOK, NEW c \in Calls, NEW x \in CallState,
         call' = [call EXCEPT ![c] = x]
  PROVE  /\ call' \in [Calls -> CallState]
         /\ call'[c] = x
         /\ \A d \in Calls \ {c} : call'[d] = call[d]
  BY DEF TypeOK

LEMMA InitInv == Init => Inv
<1> SUFFICES ASSUME Init PROVE Inv
  OBVIOUS
<1>1. CallIdle \in CallState /\ CallIdle.pc = "idle" BY DEF CallIdle, CallState
<1>2. TypeOK BY <1>1 DEF Init, TypeOK
<1>3. RowOfAnswered /\ CreditedIsCompleted
  BY DEF Init, RowOfAnswered, CreditedIsCompleted
<1>4. ReportIsSettled /\ ActsOnReport
  BY <1>1 DEF Init, ReportIsSettled, ActsOnReport
<1>5. QED BY <1>2, <1>3, <1>4 DEF Inv

LEMMA InitiateInv ==
  ASSUME Inv, NEW u \in Topups, TopupStep(u)
  PROVE  Inv'
<1> USE DEF Inv
<1>1. CASE AskProvider(u)
  <2>1. TypeOK' BY <1>1 DEF AskProvider, TypeOK
  <2>2. RowOfAnswered' BY <1>1 DEF AskProvider, TypeOK, RowOfAnswered
  <2>3. ReportIsSettled'
    BY <1>1 DEF AskProvider, TypeOK, RowOfAnswered, ReportIsSettled
  <2>4. ActsOnReport' BY <1>1 DEF AskProvider, ActsOnReport
  <2>5. CreditedIsCompleted'
    BY <1>1 DEF AskProvider, TypeOK, RowOfAnswered, CreditedIsCompleted
  <2>6. QED BY <2>1, <2>2, <2>3, <2>4, <2>5
<1>2. CASE RecordTopup(u)
  BY <1>2
  DEF RecordTopup, TypeOK, RowOfAnswered, ReportIsSettled, ActsOnReport,
      CreditedIsCompleted
<1>3. CASE LoseTopup(u)
  BY <1>3
  DEF LoseTopup, TypeOK, RowOfAnswered, ReportIsSettled, ActsOnReport,
      CreditedIsCompleted
<1>4. CASE Settle(u)
  BY <1>4
  DEF Settle, TypeOK, RowOfAnswered, ReportIsSettled, ActsOnReport,
      CreditedIsCompleted
<1>5. QED BY <1>1, <1>2, <1>3, <1>4 DEF TopupStep

\* Without reports of open payments a call says how its checkout is settled.
LEMMA CallInv ==
  ASSUME Inv, ~Interim, NEW c \in Calls, NEW u \in Topups, CallWebhook(c, u)
  PROVE  Inv'
<1> USE DEF Inv
<1> DEFINE x == [CallIdle EXCEPT !.pc = "find", !.topup = u, !.says = checkout[u]]
<1>1. checkout[u] \in {"paid", "refused"} BY DEF CallWebhook, Reports
<1>2. /\ x \in CallState
      /\ x.pc = "find" /\ x.topup = u /\ x.says = checkout[u]
  <2>1. CallIdle \in CallState BY DEF CallIdle, CallState
  <2>2. checkout[u] \in {"none", "open", "paid", "refused"} BY <1>1
  <2>3. QED BY <2>1, <2>2 DEF CallState
<1>3. call' = [call EXCEPT ![c] = x] BY DEF CallWebhook
<1> HIDE DEF x
<1>4. /\ call' \in [Calls -> CallState] /\ call'[c] = x
      /\ \A d \in Calls \ {c} : call'[d] = call[d]
  BY <1>2, <1>3, CallMove
<1>5. UNCHANGED <<topup, row, checkout, balance, credited, acked>>
  BY DEF CallWebhook
<1>6. TypeOK' BY <1>4, <1>5 DEF TypeOK
<1>7. RowOfAnswered' /\ CreditedIsCompleted'
  BY <1>5 DEF RowOfAnswered, CreditedIsCompleted
<1>8. ReportIsSettled' BY <1>1, <1>2, <1>4, <1>5 DEF ReportIsSettled
<1>9. ActsOnReport' BY <1>2, <1>4, <1>5 DEF ActsOnReport
<1>10. QED BY <1>6, <1>7, <1>8, <1>9

\* A call moves on, or ends, without touching a row.
LEMMA CallStays ==
  ASSUME Inv, NEW c \in Calls,
         \/ Ignore(c) \/ Find(c) \/ ReadWallet(c) \/ Acknowledge(c)
         \/ FailCall(c)
  PROVE  Inv'
<1> USE DEF Inv
<1>1. UNCHANGED <<topup, row, checkout, balance, credited>> /\ acked' \in SUBSET Topups
  BY DEF Ignore, Find, ReadWallet, Acknowledge, FailCall, TypeOK, ReportIsSettled
<1>2. ASSUME NEW x \in CallState, call' = [call EXCEPT ![c] = x],
             \/ x.pc = "idle"
             \/ /\ call[c].pc # "idle"
                /\ x.topup = call[c].topup /\ x.says = call[c].says
                /\ x.pc \in {"credit", "write"} => x.says = "paid"
                /\ x.pc = "fail" => x.says # "paid"
                /\ x.pc \in {"credit", "write", "fail"} => row[x.topup] # "NONE"
      PROVE  Inv'
  <2>1. /\ call' \in [Calls -> CallState] /\ call'[c] = x
        /\ \A d \in Calls \ {c} : call'[d] = call[d]
    BY <1>2, CallMove
  <2>2. TypeOK' BY <1>1, <2>1 DEF TypeOK
  <2>3. RowOfAnswered' /\ CreditedIsCompleted'
    BY <1>1 DEF RowOfAnswered, CreditedIsCompleted
  <2>4. ReportIsSettled' BY <1>1, <1>2, <2>1 DEF ReportIsSettled
  <2>5. ActsOnReport' BY <1>1, <1>2, <2>1 DEF ActsOnReport
  <2>6. QED BY <2>2, <2>3, <2>4, <2>5
<1>3. call[c] \in CallState BY DEF TypeOK
<1>4. CASE Ignore(c)
  <2> DEFINE x == [call[c] EXCEPT !.pc = "ok"]
  <2>1. /\ x \in CallState /\ x.pc = "ok" /\ call[c].pc # "idle"
        /\ x.topup = call[c].topup /\ x.says = call[c].says
    BY <1>3, <1>4 DEF Ignore, CallState
  <2>2. call' = [call EXCEPT ![c] = x] BY <1>4 DEF Ignore, Goto
  <2> HIDE DEF x
  <2>3. QED BY <1>2, <2>1, <2>2
<1>5. CASE Find(c)
  <2> DEFINE x == [call[c] EXCEPT !.pc = IF call[c].says = "paid" THEN "credit"
                                                                ELSE "fail"]
  <2>1. /\ x \in CallState /\ call[c].pc # "idle"
        /\ x.topup = call[c].topup /\ x.says = call[c].says
        /\ x.pc = IF x.says = "paid" THEN "credit" ELSE "fail"
    BY <1>3, <1>5 DEF Find, CallState
  <2>2. row[x.topup] # "NONE" BY <1>5, <2>1 DEF Find
  <2>3. call' = [call EXCEPT ![c] = x] BY <1>5 DEF Find, Goto
  <2> HIDE DEF x
  <2>4. QED BY <1>2, <2>1, <2>2, <2>3
<1>6. CASE ReadWallet(c)
  <2> DEFINE x == [call[c] EXCEPT !.pc = "write",
                                  !.read = balance[WalletOf[call[c].topup]]]
  <2>1. call[c].topup \in Topups /\ call[c].pc = "credit"
    BY <1>6 DEF ReadWallet, ReportIsSettled
  <2>2. balance[WalletOf[call[c].topup]] \in Int
    BY <2>1, TopupAssumption DEF TypeOK
  <2>3. /\ x \in CallState /\ x.pc = "write"
        /\ x.topup = call[c].topup /\ x.says = call[c].says
    BY <1>3, <2>2 DEF CallState
  <2>4. x.says = "paid" /\ row[x.topup] # "NONE" BY <2>1, <2>3 DEF ActsOnReport
  <2>5. call' = [call EXCEPT ![c] = x] BY <1>6 DEF ReadWallet
  <2> HIDE DEF x
  <2>6. QED BY <1>2, <2>1, <2>3, <2>4, <2>5
<1>7. CASE Acknowledge(c) \/ FailCall(c)
  <2>1. CallIdle \in CallState /\ CallIdle.pc = "idle" BY DEF CallIdle, CallState
  <2>2. call' = [call EXCEPT ![c] = CallIdle] BY <1>7 DEF Acknowledge, FailCall
  <2>3. QED BY <1>2, <2>1, <2>2
<1>8. QED BY <1>4, <1>5, <1>6, <1>7

\* A credit completes the row it credits, a failure never meets a credited one.
LEMMA CallWrites ==
  ASSUME Inv, NEW c \in Calls, Credit(c) \/ MarkFailed(c)
  PROVE  Inv'
<1> USE DEF Inv
<1> DEFINE u == call[c].topup
           x == [call[c] EXCEPT !.pc = "ok"]
<1>1. /\ u \in Topups /\ call[c] \in CallState /\ WalletOf[u] \in Wallets
      /\ row[u] # "NONE" /\ Amount[u] \in Nat
      /\ call[c].says = checkout[u] /\ checkout[u] \in {"paid", "refused"}
      /\ Credit(c) => call[c].says = "paid" /\ checkout[u] = "paid"
      /\ MarkFailed(c) => checkout[u] # "paid"
  BY TopupAssumption
  DEF Credit, MarkFailed, ReportIsSettled, ActsOnReport, TypeOK
<1>2. x \in CallState /\ x.pc = "ok" /\ x.topup = u /\ x.says = call[c].says
  BY <1>1 DEF CallState
<1>3. call' = [call EXCEPT ![c] = x] /\ UNCHANGED <<topup, checkout, acked>>
  BY DEF Credit, MarkFailed, Goto
<1>4. /\ row' \in [Topups -> {"NONE", "PENDING", "COMPLETED", "FAILED"}]
      /\ row'[u] = IF Credit(c) THEN "COMPLETED" ELSE "FAILED"
      /\ \A v \in Topups \ {u} : row'[v] = row[v]
  <2>1. CASE Credit(c) BY <1>1, <2>1 DEF Credit, TypeOK
  <2>2. CASE MarkFailed(c) /\ ~Credit(c) BY <1>1, <2>2 DEF MarkFailed, TypeOK
  <2>3. QED BY <2>1, <2>2
<1>5. /\ credited' \in [Topups -> Nat]
      /\ credited'[u] = IF Credit(c) THEN credited[u] + 1 ELSE credited[u]
      /\ \A v \in Topups \ {u} : credited'[v] = credited[v]
  <2>1. CASE Credit(c) BY <1>1, <2>1 DEF Credit, TypeOK
  <2>2. CASE MarkFailed(c) /\ ~Credit(c) BY <1>1, <2>2 DEF MarkFailed, TypeOK
  <2>3. QED BY <2>1, <2>2
<1>6. balance' \in [Wallets -> Int]
  BY <1>1 DEF Credit, MarkFailed, TypeOK, CallState
<1>7. u \in Topups /\ (Credit(c) <=> checkout[u] = "paid") BY <1>1
<1> HIDE DEF x
<1>8. /\ call' \in [Calls -> CallState] /\ call'[c] = x
      /\ \A d \in Calls \ {c} : call'[d] = call[d]
  BY <1>2, <1>3, CallMove
<1>9. TypeOK' BY <1>3, <1>4, <1>5, <1>6, <1>8 DEF TypeOK
<1>10. RowOfAnswered' BY <1>1, <1>3, <1>4 DEF RowOfAnswered
<1>11. ReportIsSettled'
  <2>1. x.topup \in Topups /\ x.says = checkout'[x.topup]
        /\ x.says \in {"paid", "refused"}
    BY <1>1, <1>2, <1>3
  <2> HIDE DEF u
  <2>2. QED BY <1>3, <1>8, <2>1 DEF ReportIsSettled
<1>12. ActsOnReport'
  <2>1. \A v \in Topups : row[v] # "NONE" => row'[v] # "NONE" BY <1>4
  <2>2. \A d \in Calls : call[d].pc # "idle" => call[d].topup \in Topups
    BY DEF ReportIsSettled
  <2> HIDE DEF u
  <2>3. QED BY <1>2, <1>8, <2>1, <2>2 DEF ActsOnReport
<1>13. CreditedIsCompleted'
  <2>1. credited[u] \in Nat BY <1>1 DEF TypeOK
  <2>2. credited'[u] > 0 <=> row'[u] = "COMPLETED"
    BY <1>4, <1>5, <1>7, <2>1 DEF CreditedIsCompleted
  <2>3. credited'[u] > 0 => checkout[u] = "paid"
    BY <1>4, <1>7, <2>2
  <2>4. QED BY <1>3, <1>4, <1>5, <2>2, <2>3 DEF CreditedIsCompleted
<1>14. QED BY <1>9, <1>10, <1>11, <1>12, <1>13

LEMMA NextInv == ~Interim /\ Inv /\ [Next]_vars => Inv'
<1> SUFFICES ASSUME ~Interim, Inv, [Next]_vars PROVE Inv'
  OBVIOUS
<1>1. CASE UNCHANGED vars
  BY <1>1
  DEF vars, Inv, TypeOK, RowOfAnswered, ReportIsSettled, ActsOnReport,
      CreditedIsCompleted
<1>2. CASE Next
  BY <1>2, InitiateInv, CallInv, CallStays, CallWrites DEF Next, WebhookStep
<1>3. QED BY <1>1, <1>2

\* However many calls overlap, are repeated or fail, a wallet is credited exactly
\* for the top-ups that are COMPLETED, and only for payments that were made, as
\* long as the provider reports nothing but outcomes.
THEOREM CreditedIsCompletedAlways ==
  ASSUME ~Interim
  PROVE  Spec => []CreditedIsCompleted
<1>1. Inv => CreditedIsCompleted BY DEF Inv
<1>2. Inv /\ [Next]_vars => Inv' BY NextInv
<1>3. QED BY <1>1, <1>2, InitInv, PTL DEF Spec

--------------------------------------------------------------------------------
\* One call at a time: what the handler found is still so when it writes.
CallFresh ==
  \A c \in Calls :
    /\ call[c].pc # "idle" => call[c].topup \in Topups
    /\ call[c].pc \in {"credit", "write", "fail"} =>
         row[call[c].topup] \in {"PENDING", "FAILED"}
    /\ call[c].pc = "write" => call[c].read = balance[WalletOf[call[c].topup]]

SerialInv == TypeOK /\ RowOfAnswered /\ CallFresh

Kept == SerialInv' /\ [Promise!Next]_<<row, balance>>

LEMMA SerialInit == Init => SerialInv /\ Promise!Init
<1> SUFFICES ASSUME Init PROVE SerialInv /\ Promise!Init
  OBVIOUS
<1>1. TypeOK /\ RowOfAnswered BY InitInv DEF Inv
<1>2. CallFresh BY DEF Init, CallFresh, CallIdle
<1>3. Promise!Init BY DEF Init, Promise!Init
<1>4. QED BY <1>1, <1>2, <1>3 DEF SerialInv

\* initiateTopup records a top-up or changes nothing the promise sees.
LEMMA SerialInitiate ==
  ASSUME SerialInv, NEW u \in Topups, TopupStep(u)
  PROVE  Kept
<1> USE DEF SerialInv, Kept
<1>1. CASE RecordTopup(u)
  <2>1. TypeOK' /\ RowOfAnswered'
    BY <1>1 DEF RecordTopup, TypeOK, RowOfAnswered
  <2>2. row[u] = "NONE" BY <1>1 DEF RecordTopup, RowOfAnswered
  <2>3. CallFresh' BY <1>1, <2>2 DEF RecordTopup, TypeOK, CallFresh
  <2>4. Promise!Record(u) BY <1>1, <2>2 DEF RecordTopup, Promise!Record
  <2>5. QED BY <2>1, <2>3, <2>4 DEF Promise!Next
<1>2. CASE AskProvider(u) \/ LoseTopup(u) \/ Settle(u)
  <2>1. UNCHANGED <<row, balance, call>>
    BY <1>2 DEF AskProvider, LoseTopup, Settle
  <2>2. TypeOK' BY <1>2 DEF AskProvider, LoseTopup, Settle, TypeOK
  <2>3. RowOfAnswered'
    BY <1>2 DEF AskProvider, LoseTopup, Settle, TypeOK, RowOfAnswered
  <2>4. CallFresh' BY <2>1 DEF CallFresh
  <2>5. QED BY <2>1, <2>2, <2>3, <2>4
<1>3. QED BY <1>1, <1>2 DEF TopupStep

\* A call that moves on without writing.
LEMMA SerialMove ==
  ASSUME SerialInv, NEW c \in Calls, NEW x \in CallState,
         call' = [call EXCEPT ![c] = x],
         UNCHANGED <<topup, row, checkout, balance, credited>>,
         acked' \in SUBSET Topups,
         x.pc # "idle" => x.topup \in Topups,
         x.pc \in {"credit", "write", "fail"} => row[x.topup] \in {"PENDING", "FAILED"},
         x.pc = "write" => x.read = balance[WalletOf[x.topup]]
  PROVE  Kept
<1> USE DEF SerialInv, Kept
<1>1. /\ call' \in [Calls -> CallState] /\ call'[c] = x
      /\ \A d \in Calls \ {c} : call'[d] = call[d]
  BY CallMove
<1>2. TypeOK' BY <1>1 DEF TypeOK
<1>3. RowOfAnswered' BY DEF RowOfAnswered
<1>4. CallFresh' BY <1>1 DEF CallFresh
<1>5. QED BY <1>2, <1>3, <1>4

LEMMA SerialCall ==
  ASSUME SerialInv, NEW c \in Calls,
         \/ \E u \in Topups : CallWebhook(c, u)
         \/ Ignore(c) \/ Find(c) \/ ReadWallet(c) \/ Acknowledge(c) \/ FailCall(c)
  PROVE  Kept
<1> USE DEF SerialInv
<1>1. /\ UNCHANGED <<topup, row, checkout, balance, credited>>
      /\ acked' \in SUBSET Topups
  BY DEF CallWebhook, Ignore, Find, ReadWallet, Acknowledge, FailCall, TypeOK, CallFresh
<1>2. call[c] \in CallState BY DEF TypeOK
<1>3. CallIdle \in CallState /\ CallIdle.pc = "idle" BY DEF CallIdle, CallState
<1>4. ASSUME NEW u \in Topups, CallWebhook(c, u) PROVE Kept
  <2> DEFINE x == [CallIdle EXCEPT !.pc = "find", !.topup = u, !.says = checkout[u]]
  <2>1. checkout[u] \in {"none", "open", "paid", "refused"} BY DEF TypeOK
  <2>2. x \in CallState BY <1>3, <2>1 DEF CallState
  <2>3. x.pc = "find" /\ x.topup = u BY DEF CallIdle
  <2>4. call' = [call EXCEPT ![c] = x] BY <1>4 DEF CallWebhook
  <2> HIDE DEF x
  <2>5. QED BY <1>1, <2>2, <2>3, <2>4, SerialMove
<1>5. CASE Ignore(c)
  <2> DEFINE x == [call[c] EXCEPT !.pc = "ok"]
  <2>1. x \in CallState /\ x.pc = "ok" /\ x.topup \in Topups
    BY <1>2, <1>5 DEF Ignore, CallState, CallFresh
  <2>2. call' = [call EXCEPT ![c] = x] BY <1>5 DEF Ignore, Goto
  <2> HIDE DEF x
  <2>3. QED BY <1>1, <2>1, <2>2, SerialMove
<1>6. CASE Find(c)
  <2> DEFINE x == [call[c] EXCEPT !.pc = IF call[c].says = "paid" THEN "credit"
                                                                ELSE "fail"]
  <2>1. /\ x \in CallState /\ x.pc \in {"credit", "fail"}
        /\ x.topup = call[c].topup /\ x.topup \in Topups
    BY <1>2, <1>6 DEF Find, CallState, CallFresh
  <2>2. row[x.topup] \in {"PENDING", "FAILED"} BY <1>6, <2>1 DEF Find
  <2>3. call' = [call EXCEPT ![c] = x] BY <1>6 DEF Find, Goto
  <2> HIDE DEF x
  <2>4. QED BY <1>1, <2>1, <2>2, <2>3, SerialMove
<1>7. CASE ReadWallet(c)
  <2> DEFINE x == [call[c] EXCEPT !.pc = "write",
                                  !.read = balance[WalletOf[call[c].topup]]]
  <2>1. /\ call[c].topup \in Topups
        /\ row[call[c].topup] \in {"PENDING", "FAILED"}
    BY <1>7 DEF ReadWallet, CallFresh
  <2>2. balance[WalletOf[call[c].topup]] \in Int
    BY <2>1, TopupAssumption DEF TypeOK
  <2>3. /\ x \in CallState /\ x.pc = "write" /\ x.topup = call[c].topup
        /\ x.read = balance[WalletOf[x.topup]]
    BY <1>2, <2>2 DEF CallState
  <2>4. call' = [call EXCEPT ![c] = x] BY <1>7 DEF ReadWallet
  <2> HIDE DEF x
  <2>5. QED BY <1>1, <2>1, <2>3, <2>4, SerialMove
<1>8. CASE Acknowledge(c) \/ FailCall(c)
  <2>1. call' = [call EXCEPT ![c] = CallIdle] BY <1>8 DEF Acknowledge, FailCall
  <2>2. QED BY <1>1, <1>3, <2>1, SerialMove
<1>9. QED BY <1>4, <1>5, <1>6, <1>7, <1>8

\* The only call in progress completes or fails the top-up it found.
LEMMA SerialWrite ==
  ASSUME NEW c, Calls = {c}, SerialInv, Credit(c) \/ MarkFailed(c)
  PROVE  Kept
<1> USE DEF SerialInv, Kept
<1> DEFINE u == call[c].topup
           x == [call[c] EXCEPT !.pc = "ok"]
<1>1. /\ u \in Topups /\ WalletOf[u] \in Wallets /\ Amount[u] \in Nat
      /\ row[u] \in {"PENDING", "FAILED"}
      /\ Credit(c) => call[c].read = balance[WalletOf[u]]
  BY TopupAssumption DEF Credit, MarkFailed, CallFresh
<1>2. x \in CallState /\ x.pc = "ok" /\ x.topup = u
  BY DEF TypeOK, CallState
<1>3. call' = [call EXCEPT ![c] = x] /\ UNCHANGED <<topup, checkout, acked>>
  BY DEF Credit, MarkFailed, Goto
<1>4. /\ call' \in [Calls -> CallState] /\ call'[c] = x
  <2> HIDE DEF x
  <2>1. QED BY <1>2, <1>3, CallMove
<1>5. topup[u] = "answered" BY <1>1 DEF RowOfAnswered
<1>6. CASE Credit(c)
  <2>1. /\ row' = [row EXCEPT ![u] = "COMPLETED"]
        /\ balance' = [balance EXCEPT ![WalletOf[u]] = @ + Amount[u]]
        /\ credited' = [credited EXCEPT ![u] = @ + 1]
    BY <1>1, <1>6 DEF Credit
  <2>2. /\ row' \in [Topups -> {"NONE", "PENDING", "COMPLETED", "FAILED"}]
        /\ balance' \in [Wallets -> Int] /\ credited' \in [Topups -> Nat]
    BY <1>1, <2>1 DEF TypeOK
  <2>3. TypeOK' BY <1>3, <1>4, <2>2 DEF TypeOK
  <2>4. RowOfAnswered' BY <1>3, <1>5, <2>1 DEF RowOfAnswered, TypeOK
  <2>5. CallFresh' BY <1>1, <1>2, <1>4 DEF CallFresh
  <2>6. Promise!Complete(u) BY <1>1, <2>1 DEF Promise!Complete
  <2>7. QED BY <1>1, <2>3, <2>4, <2>5, <2>6 DEF Promise!Next
<1>7. CASE MarkFailed(c)
  <2>1. /\ row' = [row EXCEPT ![u] = "FAILED"]
        /\ UNCHANGED <<balance, credited>>
    BY <1>7 DEF MarkFailed
  <2>2. TypeOK' BY <1>1, <1>3, <1>4, <2>1 DEF TypeOK
  <2>3. RowOfAnswered' BY <1>3, <1>5, <2>1 DEF RowOfAnswered, TypeOK
  <2>4. CallFresh' BY <1>1, <1>2, <1>4 DEF CallFresh
  <2>5. CASE row[u] = "PENDING"
    <3>1. Promise!Fail(u) BY <2>1, <2>5 DEF Promise!Fail
    <3>2. QED BY <1>1, <2>2, <2>3, <2>4, <3>1 DEF Promise!Next
  <2>6. CASE row[u] = "FAILED"
    <3>1. row' = row BY <1>1, <2>1, <2>6 DEF TypeOK
    <3>2. QED BY <2>1, <2>2, <2>3, <2>4, <3>1
  <2>7. QED BY <1>1, <2>5, <2>6
<1>8. QED BY <1>6, <1>7

\* Webhook calls that never overlap implement TopupPromise, whatever is lost,
\* repeated, reported early or late: a top-up is credited once, in the step that
\* completes it.
THEOREM SerialKeepsPromise ==
  ASSUME NEW c, Calls = {c}
  PROVE  Spec => KeepsPromise
<1>1. SerialInv /\ [Next]_vars => Kept
  <2> SUFFICES ASSUME SerialInv, [Next]_vars PROVE Kept
    OBVIOUS
  <2>1. CASE UNCHANGED vars
    BY <2>1 DEF vars, SerialInv, Kept, TypeOK, RowOfAnswered, CallFresh
  <2>2. CASE Next
    BY <2>2, SerialInitiate, SerialCall, SerialWrite DEF Next, WebhookStep
  <2>3. QED BY <2>1, <2>2
<1>2. QED
  BY <1>1, SerialInit, PTL DEF Spec, KeepsPromise, Promise!Spec, Kept
================================================================================
