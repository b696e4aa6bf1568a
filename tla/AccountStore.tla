------------------------------ MODULE AccountStore ------------------------------
(***************************************************************************)
(* The rows the account handlers share: users and their wallets, one-time  *)
(* codes, refresh tokens and login events; and the slots of the handlers.  *)
(*                                                                         *)
(* A handler is a chain of statements, each in a transaction of its own:    *)
(* a step is one statement.  Reads in a row that only decide together are  *)
(* one step.  A handler may fail or die before any of its statements.       *)
(*                                                                         *)
(* A phone stands for all that a person registers with and signs in by      *)
(* (phone, FID, email).  A password is the number of times it was changed, *)
(* a code the row that holds its hash.  An identifier is a phone and the    *)
(* way it is typed: capitals, or spaces around it, find an email all the    *)
(* same, but login events are kept under what was typed.                    *)
(***************************************************************************)
EXTENDS Integers, Sequences, FiniteSets

CONSTANTS
  Phones, UserIds, Tokens,
  Spellings,          \* the ways an identifier may be typed
  Trim,               \* what each of them is without the spaces around it
  Calls,              \* slots for the handlers at work
  MaxCodes,           \* bound on the codes ever created
  MaxRequests,        \* bound on the requests that arrive
  MaxTime,            \* bound on the clock
  ResendAfter,        \* app.otpResendSeconds
  CodeTTL,            \* app.otpTtlMinutes
  Skew,               \* app.authClockSkewSeconds
  MaxAttempts,        \* app.otpMaxAttempts
  CodesKept,          \* HOUR_MS: expired codes are kept so long
  StaleAge,           \* DAY_MS: an unverified account is stale after it
  TokenTTL,           \* JWT_REFRESH_EXPIRY
  TokensKept,         \* WEEK_MS: expired tokens are kept so long
  LockoutSteps,       \* LOCKOUT_STEPS_SECONDS
  EventWindow,        \* how many login events the guard looks at
  SequentialSessions, \* a client waits for the answer to its last request
  NULL

Handlers == {"register", "verify", "login", "refresh", "logout", "forgot", "reset",
             "createUser", "disable", "enable"}

ASSUME AccountAssumption ==
  /\ {MaxCodes, MaxRequests, MaxTime, ResendAfter, CodeTTL, Skew, MaxAttempts,
      CodesKept, StaleAge, TokenTTL, TokensKept, EventWindow} \subseteq Nat
  /\ MaxAttempts > 0
  /\ LockoutSteps \in Seq(Nat) /\ LockoutSteps # <<>>
  /\ EventWindow >= Len(LockoutSteps)
  /\ SequentialSessions \in BOOLEAN
  /\ Trim \in [Spellings -> Spellings]
  /\ NULL \notin Phones \cup Spellings \cup UserIds \cup Tokens \cup Nat

VARIABLES
  now,       \* the server clock
  user,      \* the rows of users
  wallets,   \* the users that have a wallet
  code,      \* the rows of otp_codes, in the order of their createdAt
  token,     \* the rows of refresh_tokens
  events,    \* auth_security_events, oldest first
  call,      \* the handlers at work
  job,       \* the clean-up of stale users
  requests   \* how many requests have arrived

vars == <<now, user, wallets, code, token, events, call, job, requests>>

Times == 0..MaxTime
CodeIds == 1..MaxCodes
Versions == 0..MaxRequests

\* NONE: the id is not drawn yet; GONE: the row was deleted.
UserStatus == {"NONE", "PENDING_VERIFICATION", "ACTIVE", "DISABLED", "GONE"}
OtpPurpose == {"REGISTRATION", "PASSWORD_RESET"}
AuthEventType == {"LOGIN_SUCCESS", "LOGIN_FAILURE", "LOCKOUT", "LOGOUT",
                  "PASSWORD_RESET"}

ASSUME PurposeAssumption == NULL \notin OtpPurpose

\* For the properties only: kept is set when the account was enabled in time,
\* barred tells how many requests had arrived when it was last disabled, warranted
\* whether an administrator or a code asked for before that enabled it, and settled
\* is the password of the last reset that ended.
UserRow ==
  [status: UserStatus, phone: Phones \cup {NULL}, createdAt: Times,
   password: Versions,
   kept: BOOLEAN, barred: 0..MaxRequests, warranted: BOOLEAN, settled: Versions]

NoUser == [status |-> "NONE", phone |-> NULL, createdAt |-> 0, password |-> 0,
           kept |-> FALSE, barred |-> 0, warranted |-> FALSE, settled |-> 0]

\* A row that was deleted keeps its purpose and nothing else.
\* delivered: the owner of the phone got the message.  sms is the status of the
\* notification row.  For the properties only: asked is the number of the request
\* that asked for the code, and alone counts the wrong codes that were tried while
\* no other request was at this row.
CodeRow ==
  [purpose: OtpPurpose \cup {NULL}, phone: Phones \cup {NULL},
   user: UserIds \cup {NULL}, createdAt: Times, attempts: 0..MaxRequests,
   consumed: BOOLEAN, delivered: BOOLEAN, sms: {"NONE", "SENT", "FAILED"},
   asked: 0..MaxRequests, alone: 0..MaxRequests]

NoCode == [purpose |-> NULL, phone |-> NULL, user |-> NULL, createdAt |-> 0,
           attempts |-> 0, consumed |-> FALSE, delivered |-> FALSE,
           sms |-> "NONE", asked |-> 0, alone |-> 0]

\* session is the token of the login the row goes back to, the same for all tokens
\* of one client; NULL: the id is not drawn yet.  For the properties only: password
\* is the one that login was let in by, and overtaken tells that one of the requests
\* it goes back to was past its check when the sessions were revoked.
TokenRow ==
  [user: UserIds \cup {NULL}, revoked: BOOLEAN, expiresAt: Nat,
   replacedBy: Tokens \cup {NULL},
   session: Tokens \cup {NULL}, password: Versions, overtaken: BOOLEAN]

NoToken == [user |-> NULL, revoked |-> FALSE, expiresAt |-> 0, replacedBy |-> NULL,
            session |-> NULL, password |-> 0, overtaken |-> FALSE]

\* typed: how the identifier was typed, for the events of logins.
\* since: how many events there were when the request passed the guard, at then.
Event == [type: AuthEventType, phone: Phones, typed: Spellings \cup {NULL}, at: Times,
          since: Nat, then: Times]

Pcs == {"idle", "create", "cooldown", "createCode", "send", "record", "wrong",
        "consume", "findUser", "activate", "setPassword", "revoke", "logReset",
        "lockout", "find", "logFailure", "logSuccess", "issue", "rotate",
        "revokeAll", "drop", "logLogout", "setStatus"}

\* For the properties only: overtaken tells that another request changed, or was
\* about to change, what this one had read.
Call == [pc: Pcs, op: Handlers \cup {NULL}, phone: Phones \cup {NULL},
         typed: Spellings \cup {NULL},
         user: UserIds \cup {NULL}, code: CodeIds \cup {NULL},
         token: Tokens \cup {NULL}, n: Nat, since: Nat, at: Times,
         overtaken: BOOLEAN]

Idle == [pc |-> "idle", op |-> NULL, phone |-> NULL, typed |-> NULL, user |-> NULL,
         code |-> NULL, token |-> NULL, n |-> 0, since |-> 0, at |-> 0,
         overtaken |-> FALSE]

Job == [pc: {"idle", "codes", "wallets", "users"}, ids: SUBSET UserIds]

NoJob == [pc |-> "idle", ids |-> {}]

TypeOK ==
  /\ now \in Times
  /\ user \in [UserIds -> UserRow]
  /\ wallets \subseteq UserIds
  /\ code \in [CodeIds -> CodeRow]
  /\ token \in [Tokens -> TokenRow]
  /\ events \in Seq(Event)
  /\ call \in [Calls -> Call]
  /\ job \in Job
  /\ requests \in 0..MaxRequests

\* A passenger of the seed data: verified, with a wallet.
Seeded(p) == [NoUser EXCEPT !.status = "ACTIVE", !.phone = p, !.kept = TRUE,
                            !.warranted = TRUE]

\* The token of a login of user u.
FirstToken(t, u, password) ==
  [NoToken EXCEPT !.user = u, !.expiresAt = now + TokenTTL, !.session = t,
                  !.password = password]

\* The database is empty, or holds the seed data, and the passenger may be signed
\* in already.
Init ==
  /\ now = 0
  /\ \/ /\ user = [u \in UserIds |-> NoUser]
        /\ wallets = {}
        /\ token = [t \in Tokens |-> NoToken]
     \/ \E u \in UserIds, p \in Phones, signedIn \in SUBSET Tokens :
          /\ Cardinality(signedIn) <= 1
          /\ user = [[v \in UserIds |-> NoUser] EXCEPT ![u] = Seeded(p)]
          /\ wallets = {u}
          /\ token = [t \in Tokens |->
                        IF t \in signedIn THEN FirstToken(t, u, 0) ELSE NoToken]
  /\ code = [i \in CodeIds |-> NoCode]
  /\ events = <<>>
  /\ call = [c \in Calls |-> Idle]
  /\ job = NoJob
  /\ requests = 0

-----------------------------------------------------------------------------
Exists(u) == user[u].status \notin {"NONE", "GONE"}

\* findAuthByIdentifier: the account of a phone, which is unique.
Account(p) == {u \in UserIds : Exists(u) /\ user[u].phone = p}

\* The row of a token that was deleted: its id is not drawn again.
Dropped(t) == [NoToken EXCEPT !.session = token[t].session]

Live(t) == token[t].user # NULL /\ ~token[t].revoked

Kept(i) == code[i].phone # NULL

Deleted(i) == [NoCode EXCEPT !.purpose = code[i].purpose]

CodesOf(p, purpose) ==
  {i \in CodeIds : code[i].phone = p /\ code[i].purpose = purpose}

Latest(ids) == CHOOSE i \in ids : \A j \in ids : j <= i

\* A request of handler op arrives and its handler starts as next.  One that is
\* refused at once changes nothing and is left out.
Arrive(c, op, next) ==
  /\ call[c].pc = "idle"
  /\ requests < MaxRequests
  /\ requests' = requests + 1
  /\ next # Idle
  /\ call' = [call EXCEPT ![c] = [next EXCEPT !.op = op]]

\* The handler goes on as next; Idle: it has answered.
Goto(c, next) ==
  /\ call' = [call EXCEPT ![c] = next]
  /\ UNCHANGED requests

\* logAuthEvent.
Log(c, type, p) ==
  events' = Append(events, [type |-> type, phone |-> p, typed |-> call[c].typed, at |-> now,
                            since |-> call[c].since, then |-> call[c].at])
================================================================================
