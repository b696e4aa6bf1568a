---------------------------------- MODULE Codes ----------------------------------
(***************************************************************************)
(* One-time codes: registration and its verification, the code of a        *)
(* forgotten password, the text message that carries a code, and the        *)
(* clean-up of expired codes and of accounts nobody verified.               *)
(***************************************************************************)
EXTENDS AccountStore

-----------------------------------------------------------------------------
(* register and forgotPassword *)

\* Mutant: only an ACTIVE account is refused another code.
RegisterAgain(c, p) ==
  /\ LET start == [Idle EXCEPT !.phone = p, !.since = requests + 1] IN
     \/ /\ Account(p) = {}
        /\ Arrive(c, "register", [start EXCEPT !.pc = "create"])
     \/ \E u \in Account(p) :
          /\ user[u].status # "ACTIVE"
          /\ Arrive(c, "register", [start EXCEPT !.pc = "cooldown", !.user = u])
  /\ UNCHANGED <<now, user, wallets, code, token, events, job>>

\* A phone with an account that is verified or disabled is refused (409), one with
\* an unverified account gets another code.
Register(c, p) ==
  /\ LET start == [Idle EXCEPT !.phone = p, !.since = requests + 1] IN
     \/ /\ Account(p) = {}
        /\ Arrive(c, "register", [start EXCEPT !.pc = "create"])
     \/ \E u \in Account(p) :
          /\ user[u].status = "PENDING_VERIFICATION"
          /\ Arrive(c, "register", [start EXCEPT !.pc = "cooldown", !.user = u])
  /\ UNCHANGED <<now, user, wallets, code, token, events, job>>

\* users.create: the account with its wallet, refused if the phone was taken.
Create(c) ==
  /\ call[c].pc = "create"
  /\ \/ /\ Account(call[c].phone) # {}
        /\ Goto(c, Idle)
        /\ UNCHANGED <<user, wallets>>
     \/ /\ Account(call[c].phone) = {}
        /\ \E u \in UserIds :
             /\ user[u].status = "NONE"
             /\ user' = [user EXCEPT ![u] =
                  [NoUser EXCEPT !.status = "PENDING_VERIFICATION",
                                 !.phone = call[c].phone, !.createdAt = now]]
             /\ wallets' = wallets \cup {u}
             /\ Goto(c, IF call[c].op = "createUser"
                          THEN [call[c] EXCEPT !.pc = "setStatus", !.user = u]
                          ELSE [call[c] EXCEPT !.pc = "createCode", !.user = u])
  /\ UNCHANGED <<now, code, token, events, job>>

\* The account of the phone, whatever its status.
ForgotPassword(c, p) ==
  /\ \E u \in Account(p) :
       Arrive(c, "forgot", [Idle EXCEPT !.pc = "cooldown", !.phone = p, !.user = u,
                                        !.since = requests + 1])
  /\ UNCHANGED <<now, user, wallets, code, token, events, job>>

Purpose(c) == IF call[c].op = "register" THEN "REGISTRATION" ELSE "PASSWORD_RESET"

\* assertNoOtpCooldown: the latest code, consumed or not, must be old enough.
Cooldown(c) ==
  LET sent == CodesOf(call[c].phone, Purpose(c)) IN
  /\ call[c].pc = "cooldown"
  /\ Goto(c, IF sent # {} /\ code[Latest(sent)].createdAt + ResendAfter > now
               THEN Idle
               ELSE [call[c] EXCEPT !.pc = "createCode"])
  /\ UNCHANGED <<now, user, wallets, code, token, events, job>>

\* createOtp; the insert fails when the account is gone.
CreateCode(c) ==
  /\ call[c].pc = "createCode"
  /\ \/ /\ ~Exists(call[c].user)
        /\ Goto(c, Idle)
        /\ UNCHANGED code
     \/ /\ Exists(call[c].user)
        /\ \E i \in CodeIds :
             /\ \A j \in CodeIds : code[j].purpose = NULL <=> j >= i
             /\ code' = [code EXCEPT ![i] =
                  [NoCode EXCEPT !.purpose = Purpose(c), !.phone = call[c].phone,
                                 !.user = call[c].user, !.createdAt = now,
                                 !.asked = call[c].since]]
             /\ Goto(c, [call[c] EXCEPT !.pc = "send", !.code = i])
  /\ UNCHANGED <<now, user, wallets, token, events, job>>

-----------------------------------------------------------------------------
(* NotificationsService.sendSms and the provider *)

\* The account of the phone is looked up and the provider called, which may
\* refuse the message, or take it and deliver it.
SendSms(c) ==
  /\ call[c].pc = "send"
  /\ \/ /\ Account(call[c].phone) = {}
        /\ Goto(c, Idle)
        /\ UNCHANGED code
     \/ /\ Account(call[c].phone) # {}
        /\ \E delivered \in BOOLEAN, accepted \in {0, 1} :
             /\ delivered => accepted = 1
             /\ code' = IF Kept(call[c].code)
                          THEN [code EXCEPT ![call[c].code].delivered = delivered] ELSE code
             /\ Goto(c, [call[c] EXCEPT !.pc = "record", !.n = accepted])
  /\ UNCHANGED <<now, user, wallets, token, events, job>>

\* The message is recorded SENT; when that insert fails, or the provider refused,
\* it is recorded FAILED and the request answered 503.
RecordSms(c) ==
  /\ call[c].pc = "record"
  /\ \E sms \in {"SENT", "FAILED"} :
       /\ sms = "SENT" => call[c].n = 1
       /\ code' = IF Exists(call[c].user) /\ Kept(call[c].code)
                    THEN [code EXCEPT ![call[c].code].sms = sms] ELSE code
  /\ Goto(c, Idle)
  /\ UNCHANGED <<now, user, wallets, token, events, job>>

-----------------------------------------------------------------------------
(* consumeOtp, for verifyOtp and resetPassword *)

\* The codes of a phone that may still be tried.
Open(p, purpose) == {i \in CodesOf(p, purpose) : ~code[i].consumed}

\* The requests that have a wrong code to count on a row.
Tried(i) == {c \in Calls : call[c].pc = "wrong" /\ call[c].code = i}

\* A request presents the right code, if it was delivered, or a wrong one; only
\* the latest open code counts, and only until it expires.
PresentCode(c, op, purpose, p, right) ==
  LET open == Open(p, purpose)
      i == Latest(open) IN
  /\ open # {}
  /\ right => code[i].delivered
  /\ code[i].createdAt + CodeTTL + Skew >= now
  /\ Arrive(c, op,
       IF right
         THEN [Idle EXCEPT !.pc = "consume", !.phone = p, !.code = i]
         ELSE [Idle EXCEPT !.pc = "wrong", !.phone = p, !.code = i,
                           !.n = code[i].attempts + 1, !.overtaken = Tried(i) # {}])
  /\ UNCHANGED <<now, user, wallets, code, token, events, job>>

\* Mutant: the last attempt does not consume the code.
OneMoreAttempt(i, n) == [code[i] EXCEPT !.attempts = n, !.consumed = @ \/ n > MaxAttempts]

\* The row of a code after the nth wrong attempt.
Missed(i, n) == [code[i] EXCEPT !.attempts = n, !.consumed = @ \/ n >= MaxAttempts]

\* The attempts are written as they were read, plus one.
WrongCode(c) ==
  LET i == call[c].code
      alone == ~call[c].overtaken /\ Tried(i) = {c} IN
  /\ call[c].pc = "wrong"
  /\ code' = IF ~Kept(i) THEN code
             ELSE [code EXCEPT ![i] =
                    [Missed(i, call[c].n) EXCEPT !.alone = IF alone THEN @ + 1 ELSE @]]
  /\ call' = [d \in Calls |->
       IF d = c THEN Idle
       ELSE IF d \in Tried(i) THEN [call[d] EXCEPT !.overtaken = TRUE] ELSE call[d]]
  /\ UNCHANGED <<now, user, wallets, token, events, job, requests>>

\* verifyOtp with the purpose PASSWORD_RESET consumes the code and does no more.
Consume(c) ==
  LET i == call[c].code IN
  /\ call[c].pc = "consume"
  /\ \/ /\ ~Kept(i)
        /\ Goto(c, Idle)
        /\ UNCHANGED code
     \/ /\ Kept(i)
        /\ code' = [code EXCEPT ![i].consumed = TRUE]
        /\ Goto(c, IF call[c].op = "verify" /\ code[i].purpose = "PASSWORD_RESET"
                     THEN Idle ELSE [call[c] EXCEPT !.pc = "findUser", !.code = NULL,
                                                  !.n = code[i].asked])
  /\ UNCHANGED <<now, user, wallets, token, events, job>>

\* The account of the phone as it is by now; without one the request is refused.
FindUser(c) ==
  /\ call[c].pc = "findUser"
  /\ \/ /\ Account(call[c].phone) = {}
        /\ Goto(c, Idle)
     \/ \E u \in Account(call[c].phone) :
          Goto(c, [call[c] EXCEPT !.user = u,
                     !.pc = IF call[c].op = "verify" THEN "activate" ELSE "setPassword"])
  /\ UNCHANGED <<now, user, wallets, code, token, events, job>>

\* The row of an account that is made ACTIVE.
Enabled(u) == [user[u] EXCEPT !.status = "ACTIVE",
                              !.kept = @ \/ now <= user[u].createdAt + StaleAge]

\* verifyOtp updates the status by id, whatever it is by now.
Activate(c) ==
  LET u == call[c].user IN
  /\ call[c].pc = "activate"
  /\ user' = IF ~Exists(u) THEN user
             ELSE [user EXCEPT ![u] = [Enabled(u) EXCEPT !.warranted =
                     user[u].status = "DISABLED" => call[c].n <= user[u].barred]]
  /\ Goto(c, Idle)
  /\ UNCHANGED <<now, wallets, code, token, events, job>>

-----------------------------------------------------------------------------
(* CleanupJob: cleanupStaleUsers and cleanupExpiredOtps *)

\* Mutant: every unverified account is stale.
StaleAtOnce == {u \in UserIds : user[u].status = "PENDING_VERIFICATION"}

Stale == {u \in UserIds : /\ user[u].status = "PENDING_VERIFICATION"
                          /\ user[u].createdAt + StaleAge < now}

FindStale ==
  /\ job.pc = "idle"
  /\ Stale # {}
  /\ job' = [pc |-> "codes", ids |-> Stale]
  /\ UNCHANGED <<now, user, wallets, code, token, events, call, requests>>

DeleteCodes ==
  /\ job.pc = "codes"
  /\ code' = [i \in CodeIds |->
                IF code[i].user \in job.ids THEN Deleted(i) ELSE code[i]]
  /\ job' = [job EXCEPT !.pc = "wallets"]
  /\ UNCHANGED <<now, user, wallets, token, events, call, requests>>

DeleteWallets ==
  /\ job.pc = "wallets"
  /\ wallets' = wallets \ job.ids
  /\ job' = [job EXCEPT !.pc = "users"]
  /\ UNCHANGED <<now, user, code, token, events, call, requests>>

\* Whatever still refers to the accounts goes with them.
DeleteUsers ==
  /\ job.pc = "users"
  /\ user' = [u \in UserIds |-> IF u \in job.ids
                THEN [NoUser EXCEPT !.status = "GONE", !.kept = user[u].kept] ELSE user[u]]
  /\ wallets' = wallets \ job.ids
  /\ code' = [i \in CodeIds |->
                IF code[i].user \in job.ids THEN Deleted(i) ELSE code[i]]
  /\ token' = [t \in Tokens |->
                IF token[t].user \in job.ids THEN Dropped(t) ELSE token[t]]
  /\ job' = NoJob
  /\ UNCHANGED <<now, events, call, requests>>

\* The process dies, or a statement fails.
JobFails ==
  /\ job.pc # "idle"
  /\ job' = NoJob
  /\ UNCHANGED <<now, user, wallets, code, token, events, call, requests>>

CleanupOtps ==
  LET old == {i \in CodeIds : Kept(i)
                              /\ code[i].createdAt + CodeTTL + CodesKept < now} IN
  /\ old # {}
  /\ code' = [i \in CodeIds |-> IF i \in old THEN Deleted(i) ELSE code[i]]
  /\ UNCHANGED <<now, user, wallets, token, events, call, job, requests>>
================================================================================
