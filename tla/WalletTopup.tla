------------------------------ MODULE WalletTopup ------------------------------
(***************************************************************************)
(* WalletService.initiateTopup and processWebhook: a checkout is opened at *)
(* the payment provider, then the PENDING transaction is inserted; when    *)
(* the customer has paid, the provider calls the webhook, which credits    *)
(* the wallet.                                                             *)
(*                                                                         *)
(* The provider is outside: it settles each checkout once, calls the       *)
(* webhook with the outcome at least until a call is answered 200, and may *)
(* call more often.  Before the outcome it may report the payment as still *)
(* open, which it does only if Interim.                                    *)
(***************************************************************************)
EXTENDS Integers, FiniteSetsExt

CONSTANTS
  Topups,       \* POST /wallet/topup requests, each with the reference it draws
  Wallets,      \* wallets
  WalletOf,     \* the wallet each top-up is for
  Amount,       \* the amount of each top-up
  Calls,        \* the webhook calls that can be handled at once
  Interim,      \* whether the provider also reports payments that are still open
  NULL          \* no top-up

ASSUME TopupAssumption ==
  /\ WalletOf \in [Topups -> Wallets]
  /\ Amount \in [Topups -> Nat \ {0}]
  /\ Interim \in BOOLEAN
  /\ NULL \notin Topups

VARIABLES
  topup,        \* the state of each initiateTopup
  row,          \* status of the TOPUP wallet transaction of each top-up
  checkout,     \* the provider's side of each top-up
  balance,      \* committed wallet balances
  credited,     \* how often each top-up has been credited
  call,         \* the local state of each POST /webhook/payment being handled
  acked         \* the top-ups of whose outcome the provider was told 200

vars == <<topup, row, checkout, balance, credited, call, acked>>

CallIdle == [pc |-> "idle", topup |-> NULL, says |-> "none", read |-> 0]

CallState ==
  [pc: {"idle", "find", "credit", "write", "fail", "ok"},
   topup: Topups \cup {NULL}, says: {"none", "open", "paid", "refused"},
   read: Int]

TypeOK ==
  /\ topup \in [Topups -> {"idle", "asked", "answered", "failed"}]
  /\ row \in [Topups -> {"NONE", "PENDING", "COMPLETED", "FAILED"}]
  /\ checkout \in [Topups -> {"none", "open", "paid", "refused"}]
  /\ balance \in [Wallets -> Int]
  /\ credited \in [Topups -> Nat]
  /\ call \in [Calls -> CallState]
  /\ acked \in SUBSET Topups

Init ==
  /\ topup = [u \in Topups |-> "idle"]
  /\ row = [u \in Topups |-> "NONE"]
  /\ checkout = [u \in Topups |-> "none"]
  /\ balance = [w \in Wallets |-> 0]
  /\ credited = [u \in Topups |-> 0]
  /\ call = [c \in Calls |-> CallIdle]
  /\ acked = {}

--------------------------------------------------------------------------------
\* initiateTopup.

\* payment.initiate: the provider opens a checkout, or cannot be reached (503).
\* Refusals before it change nothing.
AskProvider(u) ==
  /\ topup[u] = "idle"
  /\ \/ /\ topup' = [topup EXCEPT ![u] = "asked"]
        /\ checkout' = [checkout EXCEPT ![u] = "open"]
     \/ /\ topup' = [topup EXCEPT ![u] = "failed"]
        /\ UNCHANGED checkout
  /\ UNCHANGED <<row, balance, credited, call, acked>>

\* The PENDING transaction with the provider's reference is inserted.
RecordTopup(u) ==
  /\ topup[u] = "asked"
  /\ topup' = [topup EXCEPT ![u] = "answered"]
  /\ row' = [row EXCEPT ![u] = "PENDING"]
  /\ UNCHANGED <<checkout, balance, credited, call, acked>>

\* The answer of the provider is lost, the insert fails or the process dies.
LoseTopup(u) ==
  /\ topup[u] = "asked"
  /\ topup' = [topup EXCEPT ![u] = "failed"]
  /\ UNCHANGED <<row, checkout, balance, credited, call, acked>>

--------------------------------------------------------------------------------
\* The customer and the provider.

\* The customer pays or gives up; the checkout is open from the moment the
\* provider has it, whatever the server has recorded.
Settle(u) ==
  /\ checkout[u] = "open"
  /\ \E outcome \in {"paid", "refused"} :
       checkout' = [checkout EXCEPT ![u] = outcome]
  /\ UNCHANGED <<topup, row, balance, credited, call, acked>>

Reports == {"paid", "refused"} \cup (IF Interim THEN {"open"} ELSE {})

\* The provider calls the webhook and says how the checkout stands.
CallWebhook(c, u) ==
  /\ call[c].pc = "idle"
  /\ checkout[u] \in Reports
  /\ call' = [call EXCEPT ![c] =
       [CallIdle EXCEPT !.pc = "find", !.topup = u, !.says = checkout[u]]]
  /\ UNCHANGED <<topup, row, checkout, balance, credited, acked>>

--------------------------------------------------------------------------------
\* processWebhook, with a genuine signature.

Goto(c, pc) == call' = [call EXCEPT ![c].pc = pc]

\* Mutant: a transaction marked FAILED is settled for good.
IgnoreSettled(c) ==
  /\ call[c].pc = "find"
  /\ row[call[c].topup] # "PENDING"
  /\ Goto(c, "ok")
  /\ UNCHANGED <<topup, row, checkout, balance, credited, acked>>

\* The transaction is looked up by the provider's reference.  An unknown
\* reference and a completed transaction are answered 200 and nothing is done.
Ignore(c) ==
  /\ call[c].pc = "find"
  /\ row[call[c].topup] \in {"NONE", "COMPLETED"}
  /\ Goto(c, "ok")
  /\ UNCHANGED <<topup, row, checkout, balance, credited, acked>>

\* Mutant: a refused payment is taken for a paid one.
FindAsPaid(c) ==
  /\ call[c].pc = "find"
  /\ row[call[c].topup] \in {"PENDING", "FAILED"}
  /\ Goto(c, "credit")
  /\ UNCHANGED <<topup, row, checkout, balance, credited, acked>>

Find(c) ==
  /\ call[c].pc = "find"
  /\ row[call[c].topup] \in {"PENDING", "FAILED"}
  /\ Goto(c, IF call[c].says = "paid" THEN "credit" ELSE "fail")
  /\ UNCHANGED <<topup, row, checkout, balance, credited, acked>>

\* The crediting transaction reads the wallet.
ReadWallet(c) ==
  /\ call[c].pc = "credit"
  /\ call' = [call EXCEPT ![c] =
       [@ EXCEPT !.pc = "write", !.read = balance[WalletOf[call[c].topup]]]]
  /\ UNCHANGED <<topup, row, checkout, balance, credited, acked>>

\* Mutant: the status is written and the balance forgotten.
CreditStatusOnly(c) ==
  LET u == call[c].topup IN
  /\ call[c].pc = "write"
  /\ row' = [row EXCEPT ![u] = "COMPLETED"]
  /\ credited' = [credited EXCEPT ![u] = @ + 1]
  /\ Goto(c, "ok")
  /\ UNCHANGED <<topup, checkout, balance, acked>>

\* It writes the new balance and the status, by id, and commits.
Credit(c) ==
  LET u == call[c].topup IN
  /\ call[c].pc = "write"
  /\ balance' = [balance EXCEPT ![WalletOf[u]] = call[c].read + Amount[u]]
  /\ row' = [row EXCEPT ![u] = "COMPLETED"]
  /\ credited' = [credited EXCEPT ![u] = @ + 1]
  /\ Goto(c, "ok")
  /\ UNCHANGED <<topup, checkout, acked>>

\* Any status but success marks the transaction FAILED, by id.
MarkFailed(c) ==
  /\ call[c].pc = "fail"
  /\ row' = [row EXCEPT ![call[c].topup] = "FAILED"]
  /\ Goto(c, "ok")
  /\ UNCHANGED <<topup, checkout, balance, credited, acked>>

\* 200 reaches the provider, or is lost on the way.
Acknowledge(c) ==
  /\ call[c].pc = "ok"
  /\ call' = [call EXCEPT ![c] = CallIdle]
  /\ \/ call[c].says # "open" /\ acked' = acked \cup {call[c].topup}
     \/ UNCHANGED acked
  /\ UNCHANGED <<topup, row, checkout, balance, credited>>

\* A statement fails or the process dies: a transaction is rolled back, and
\* the provider is not told 200.
FailCall(c) ==
  /\ call[c].pc # "idle"
  /\ call' = [call EXCEPT ![c] = CallIdle]
  /\ UNCHANGED <<topup, row, checkout, balance, credited, acked>>

WebhookStep(c) ==
  Ignore(c) \/ Find(c) \/ ReadWallet(c) \/ Credit(c) \/ MarkFailed(c) \/ Acknowledge(c)

TopupStep(u) == AskProvider(u) \/ RecordTopup(u) \/ LoseTopup(u) \/ Settle(u)

Next ==
  \/ \E u \in Topups : TopupStep(u)
  \/ \E c \in Calls, u \in Topups : CallWebhook(c, u)
  \/ \E c \in Calls : WebhookStep(c) \/ FailCall(c)

Spec == Init /\ [][Next]_vars

\* The provider repeats a call until it is answered 200; a handler that has
\* started goes on; a statement that is tried again and again for one top-up
\* succeeds once.
Fairness ==
  /\ \A u \in Topups :
       /\ WF_vars(RecordTopup(u) \/ LoseTopup(u))
       /\ SF_vars(u \notin acked /\ \E c \in Calls : CallWebhook(c, u))
  /\ \A c \in Calls : WF_vars(WebhookStep(c))
  /\ \A c \in Calls, u \in Topups :
       /\ SF_vars(call[c].topup = u /\ Find(c))
       /\ SF_vars(call[c].topup = u /\ ReadWallet(c))
       /\ SF_vars(call[c].topup = u /\ Credit(c))

FairSpec == Spec /\ Fairness

--------------------------------------------------------------------------------
\* A wallet is credited for a top-up exactly when its transaction is COMPLETED,
\* and then its customer has paid: overlapping, repeated, failing or early calls
\* never credit a refused payment nor leave a credited one FAILED.
CreditedIsCompleted ==
  \A u \in Topups :
    /\ credited[u] > 0 <=> row[u] = "COMPLETED"
    /\ credited[u] > 0 => checkout[u] = "paid"

\* docs/usecase.md: a duplicate webhook is ignored.
CreditedOnce == \A u \in Topups : credited[u] <= 1

\* One call at a time, the webhook keeps the promise of TopupPromise.
Promise == INSTANCE TopupPromise WITH status <- row
KeepsPromise == Promise!Spec

\* A top-up that is recorded before its customer pays is credited in the end,
\* whatever calls fail, are lost or report too early.
RecordedIsCredited ==
  \A u \in Topups :
    [](row[u] # "NONE" /\ checkout[u] = "open"
         => <>(row[u] = "COMPLETED") \/ [](checkout[u] # "paid"))
================================================================================
