------------------------------ MODULE Idempotency ------------------------------
(***************************************************************************)
(* Idempotency-Key on POST /tickets/purchase and POST /wallet/topup: the   *)
(* IdempotencyGuard looks the key up, the handler runs, and the            *)
(* IdempotencyInterceptor hands the response on and stores it by a promise *)
(* nobody awaits.  Apart from that cache, the wallet transaction a handler *)
(* creates carries the key in a unique column.                             *)
(*                                                                         *)
(* A response is reduced to its status and the request whose work it       *)
(* reports.  Whether a handler is refused for its arguments or the balance *)
(* is left open.                                                           *)
(***************************************************************************)
EXTENDS Integers, FiniteSets

CONSTANTS
  Requests,     \* HTTP requests, retries of one client included
  Keys,         \* idempotency keys
  KeyOf,        \* the key in the header of each request
  Endpoint,     \* the endpoint each request is sent to
  KeyTTL,       \* app.idempotencyTtlMs
  MaxTime,      \* bound on the clock
  NULL          \* SQL NULL, or no answer yet

ASSUME KeyAssumption ==
  /\ KeyOf \in [Requests -> Keys]
  /\ Endpoint \in [Requests -> {"purchase", "topup"}]
  /\ KeyTTL \in Nat \ {0}
  /\ MaxTime \in Nat
  /\ NULL \notin Requests

VARIABLES
  now,          \* the server clock
  keyRow,       \* idempotency_keys: the stored response of each key
  charged,      \* the requests whose wallet transaction, with their key, is committed
  asked,        \* the requests for which the payment provider opened a checkout
  req,          \* the state of each request: where its handler is, and its answer
  saving        \* responses whose prisma.idempotencyKey.create is in flight

vars == <<now, keyRow, charged, asked, req, saving>>

\* Status codes of the answers that are not stored.
Failures == {402, 409, 500, 503}

Answer ==
  [status: {201}, of: Requests, at: 0..MaxTime]
    \cup [status: Failures]

Stored == [of: Requests, expiresAt: Nat]

ReqPcs == {"idle", "handler", "provider", "record", "respond", "lost"}

ReqState ==
  [pc: ReqPcs, answer: {NULL}] \cup [pc: {"answered"}, answer: Answer]

TypeOK ==
  /\ now \in 0..MaxTime
  /\ keyRow \in [Keys -> Stored \cup {NULL}]
  /\ charged \in SUBSET Requests
  /\ asked \in SUBSET Requests
  /\ req \in [Requests -> ReqState]
  /\ saving \in [Requests -> Stored \cup {NULL}]

Init ==
  /\ now = 0
  /\ keyRow = [k \in Keys |-> NULL]
  /\ charged = {}
  /\ asked = {}
  /\ req = [r \in Requests |-> [pc |-> "idle", answer |-> NULL]]
  /\ saving = [r \in Requests |-> NULL]

Goto(r, pc) == req' = [req EXCEPT ![r].pc = pc]

Reply(r, answer) ==
  req' = [req EXCEPT ![r] = [pc |-> "answered", answer |-> answer]]

Success(of) == [status |-> 201, of |-> of, at |-> now]

\* Mutant: the age of the stored response is not looked at.
CachedForEver(k) == keyRow[k] # NULL

Cached(k) == keyRow[k] # NULL /\ keyRow[k].expiresAt > now

\* canActivate, cache hit: the guard sends the stored body and the handler is
\* not called.
Replay(r) ==
  LET k == KeyOf[r] IN
  /\ req[r].pc = "idle"
  /\ Cached(k)
  /\ Reply(r, Success(keyRow[k].of))
  /\ UNCHANGED <<now, keyRow, charged, asked, saving>>

\* canActivate, cache miss: the handler runs.
Admit(r) ==
  /\ req[r].pc = "idle"
  /\ ~Cached(KeyOf[r])
  /\ Goto(r, "handler")
  /\ UNCHANGED <<now, keyRow, charged, asked, saving>>

\* The handler refuses the request or its transaction fails: an error, which
\* the interceptor does not store.
Refuse(r) ==
  /\ \/ Endpoint[r] = "purchase" /\ req[r].pc = "handler"
     \/ Endpoint[r] = "topup" /\ req[r].pc = "provider"
  /\ Reply(r, [status |-> 402])
  /\ UNCHANGED <<now, keyRow, charged, asked, saving>>

KeyUsed(r) == \E q \in charged : KeyOf[q] = KeyOf[r]

\* Mutant: the column of the key is not unique.
CreateTxnTwice(r) ==
  /\ charged' = charged \cup {r}
  /\ Goto(r, "respond")
  /\ UNCHANGED <<now, keyRow, asked, saving>>

\* Create the wallet transaction with the key, commit, and go on to respond.
CreateTxn(r) ==
  /\ ~KeyUsed(r)
  /\ charged' = charged \cup {r}
  /\ Goto(r, "respond")
  /\ UNCHANGED <<now, keyRow, asked, saving>>

\* Mutant: the refusal is taken for a duplicate and answered as a success.
SwallowViolation(r) ==
  /\ KeyUsed(r)
  /\ Reply(r, Success(r))
  /\ UNCHANGED <<now, keyRow, charged, asked, saving>>

\* The unique column refuses the row: the error is not an HttpException, so
\* the exception filter answers 500.
UniqueViolation(r) ==
  /\ KeyUsed(r)
  /\ Reply(r, [status |-> 500])
  /\ UNCHANGED <<now, keyRow, charged, asked, saving>>

\* purchase: debit and ticket in one transaction.
Purchase(r) ==
  /\ Endpoint[r] = "purchase"
  /\ req[r].pc = "handler"
  /\ CreateTxn(r) \/ UniqueViolation(r)

\* Mutant: it does not look.
CheckNothing(r) ==
  /\ Endpoint[r] = "topup"
  /\ req[r].pc = "handler"
  /\ Goto(r, "provider")
  /\ UNCHANGED <<now, keyRow, charged, asked, saving>>

\* initiateTopup looks for a transaction with the key first.
CheckExisting(r) ==
  /\ Endpoint[r] = "topup"
  /\ req[r].pc = "handler"
  /\ \/ KeyUsed(r) /\ Reply(r, [status |-> 409])
     \/ ~KeyUsed(r) /\ Goto(r, "provider")
  /\ UNCHANGED <<now, keyRow, charged, asked, saving>>

\* payment.initiate: the provider opens a checkout, or is unreachable.
AskProvider(r) ==
  /\ req[r].pc = "provider"
  /\ \/ Goto(r, "record") /\ asked' = asked \cup {r}
     \/ Reply(r, [status |-> 503]) /\ UNCHANGED asked
  /\ UNCHANGED <<now, keyRow, charged, saving>>

\* initiateTopup inserts the PENDING transaction.
RecordTopup(r) ==
  /\ req[r].pc = "record"
  /\ CreateTxn(r) \/ UniqueViolation(r)

\* intercept, tap next: the create is started, not awaited, and the response
\* goes out.
Respond(r) ==
  /\ req[r].pc = "respond"
  /\ Reply(r, Success(r))
  /\ saving' = [saving EXCEPT ![r] = [of |-> r, expiresAt |-> now + KeyTTL]]
  /\ UNCHANGED <<now, keyRow, charged, asked>>

\* The create reaches the database; key is unique, so it fails, with
\* a warning in the log, when a row, expired or not, is still there.
Save(r) ==
  /\ saving[r] # NULL
  /\ saving' = [saving EXCEPT ![r] = NULL]
  /\ IF keyRow[KeyOf[r]] = NULL
     THEN keyRow' = [keyRow EXCEPT ![KeyOf[r]] = saving[r]]
     ELSE UNCHANGED keyRow
  /\ UNCHANGED <<now, charged, asked, req>>

\* The create fails or the process dies before it: the log says so at most.
LoseSave(r) ==
  /\ saving[r] # NULL
  /\ saving' = [saving EXCEPT ![r] = NULL]
  /\ UNCHANGED <<now, keyRow, charged, asked, req>>

\* The process dies before it answers: an open transaction is rolled back.
Crash(r) ==
  /\ req[r].pc \in {"handler", "provider", "record", "respond"}
  /\ Goto(r, "lost")
  /\ UNCHANGED <<now, keyRow, charged, asked, saving>>

\* cleanupIdempotencyKeys, every hour.
Outdated == {k \in Keys : keyRow[k] # NULL /\ keyRow[k].expiresAt < now}

CleanupIdempotencyKeys ==
  /\ Outdated # {}
  /\ keyRow' = [k \in Keys |-> IF k \in Outdated THEN NULL ELSE keyRow[k]]
  /\ UNCHANGED <<now, charged, asked, req, saving>>

Tick ==
  /\ now < MaxTime
  /\ now' = now + 1
  /\ UNCHANGED <<keyRow, charged, asked, req, saving>>

Handle(r) ==
  \/ Refuse(r) \/ Purchase(r) \/ CheckExisting(r) \/ AskProvider(r)
  \/ RecordTopup(r) \/ Respond(r)

Next ==
  \/ \E r \in Requests : Replay(r) \/ Admit(r) \/ Handle(r) \/ Crash(r)
  \/ \E r \in Requests : Save(r) \/ LoseSave(r)
  \/ CleanupIdempotencyKeys
  \/ Tick

Spec == Init /\ [][Next]_vars

Answered(r, status) == req[r].pc = "answered" /\ req[r].answer.status = status

\* Requests with one key are charged once between them, whatever is cached, has
\* expired or was lost: however many of them pass the guard together.
ChargedOnce ==
  \A q, r \in charged : KeyOf[q] = KeyOf[r] => q = r

\* Every success a client ever gets for a key, fresh or replayed, reports the
\* same work, and that work is committed: no two tickets, no ticket of an aborted
\* transaction.
OneAnswerPerKey ==
  \A q, r \in Requests :
    Answered(q, 201) /\ Answered(r, 201) /\ KeyOf[q] = KeyOf[r] =>
      /\ req[q].answer.of = req[r].answer.of
      /\ req[q].answer.of \in charged

\* A response is replayed only within the TTL of the moment it was first sent,
\* however late the promise that stores it completes.
ReplayedInTime ==
  \A r \in Requests : Answered(r, 201) =>
    LET first == req[r].answer.of IN
    /\ Answered(first, 201)
    /\ req[first].answer.at <= req[r].answer.at
    /\ first # r => req[r].answer.at < req[first].answer.at + KeyTTL

\* The create the interceptor starts never meets a row of its key, so its only
\* failures are lost ones: a key that outlives its row is refused by the handler.
StoreNeverConflicts ==
  \A r \in Requests : saving[r] # NULL => keyRow[KeyOf[r]] = NULL

\* A top-up that arrives once its key is charged never opens a second checkout
\* at the payment provider, even when the stored response has expired.
ChargedNeverAsks ==
  \A r \in Requests : [](req[r].pc = "idle" /\ KeyUsed(r) => [](r \notin asked))
================================================================================
