--------------------------------- MODULE Accounts ---------------------------------
(***************************************************************************)
(* Accounts as a whole: codes and sessions, together with what an           *)
(* administrator does to accounts: create, disable and enable them.         *)
(***************************************************************************)
EXTENDS Codes, Sessions

-----------------------------------------------------------------------------
(* AdminService: createUser, disableUser, enableUser *)

\* createUser: the account is created unverified and then set ACTIVE.
CreateUser(c, p) ==
  /\ Arrive(c, "createUser", [Idle EXCEPT !.pc = "create", !.phone = p])
  /\ UNCHANGED <<now, user, wallets, code, token, events, job>>

FindTarget(c, op, u) ==
  /\ Exists(u)
  /\ Arrive(c, op, [Idle EXCEPT !.pc = "setStatus", !.user = u])
  /\ UNCHANGED <<now, user, wallets, code, token, events, job>>

\* updateStatus, by id; it fails when the account is gone.
SetStatus(c) ==
  LET u == call[c].user IN
  /\ call[c].pc = "setStatus"
  /\ user' = IF ~Exists(u) THEN user
             ELSE [user EXCEPT ![u] =
                    IF call[c].op = "disable"
                      THEN [user[u] EXCEPT !.status = "DISABLED", !.barred = requests,
                                           !.warranted = FALSE]
                      ELSE [Enabled(u) EXCEPT !.warranted = TRUE]]
  /\ Goto(c, Idle)
  /\ UNCHANGED <<now, wallets, code, token, events, job>>

-----------------------------------------------------------------------------
\* The handler fails or dies before its next statement.
Fail(c) ==
  /\ call[c].pc # "idle"
  /\ Goto(c, Idle)
  /\ UNCHANGED <<now, user, wallets, code, token, events, job>>

Tick ==
  /\ now < MaxTime
  /\ now' = now + 1
  /\ UNCHANGED <<user, wallets, code, token, events, call, job, requests>>

Request(c) ==
  \/ \E p \in Phones :
       \/ Register(c, p) \/ ForgotPassword(c, p) \/ CreateUser(c, p)
       \/ \E typed \in Spellings : LoginArrives(c, p, typed)
       \/ \E right \in BOOLEAN :
            \/ \E purpose \in OtpPurpose : PresentCode(c, "verify", purpose, p, right)
            \/ PresentCode(c, "reset", "PASSWORD_RESET", p, right)
  \/ \E u \in UserIds, op \in {"disable", "enable"} : FindTarget(c, op, u)
  \/ \E t \in Tokens : Refresh(c, t) \/ Logout(c, t)

Continue(c) ==
  \/ Create(c) \/ Cooldown(c) \/ CreateCode(c) \/ SendSms(c) \/ RecordSms(c)
  \/ WrongCode(c) \/ Consume(c) \/ FindUser(c) \/ Activate(c)
  \/ LogLockout(c) \/ FindLogin(c) \/ LogFailure(c) \/ LogSuccess(c) \/ Issue(c)
  \/ RevokeAll(c) \/ Rotate(c) \/ Drop(c) \/ LogLogout(c)
  \/ SetPassword(c) \/ Revoke(c) \/ LogReset(c)
  \/ SetStatus(c) \/ Fail(c)

Cleanup ==
  \/ FindStale \/ DeleteCodes \/ DeleteWallets \/ DeleteUsers \/ JobFails
  \/ CleanupOtps \/ CleanupTokens

Next == (\E c \in Calls : Request(c) \/ Continue(c)) \/ Cleanup \/ Tick

Spec == Init /\ [][Next]_vars

-----------------------------------------------------------------------------
\* A session, the tokens that go back to one login, can only be continued with
\* the last of them: of any other the successor is on record.  So a client that
\* lost an answer and presents an older token is noticed, and a session one of
\* whose tokens was revoked for good is over.
OnlyLastIsLive ==
  \A t, s \in Tokens :
    /\ Live(t)
    /\ token[s].user # NULL /\ token[s].session = token[t].session
    /\ s # t
    => token[s].revoked /\ token[s].replacedBy # NULL

\* Once a password reset has been carried out to its end, a session of an older
\* password lives on only if a login or a refresh that was past its check when
\* the sessions were revoked opened or continued it.
ResetEndsSessions ==
  \A t \in Tokens :
    Live(t) /\ token[t].password < user[token[t].user].settled => token[t].overtaken

\* An account that was enabled before it was stale stays, with its wallet, however
\* slowly the clean-up of stale accounts works off its list.
EnabledInTimeIsKept ==
  \A u \in UserIds : user[u].kept => Exists(u) /\ u \in wallets

\* An account that was disabled is ACTIVE again only if an administrator enabled
\* it, or a registration code that had been asked for before it was disabled was
\* presented since: verifyOtp does not look at the status, so that nothing but the
\* refusal of further codes keeps the account disabled.
DisabledStaysDisabled ==
  \A u \in UserIds : user[u].status = "ACTIVE" => user[u].warranted

\* A code that can still be used was guessed wrong fewer times than is allowed,
\* the guesses aside that overlapped another guess of it.
GuessesBounded ==
  \A i \in CodeIds : Kept(i) /\ ~code[i].consumed => code[i].alone < MaxAttempts

\* Of the failures that a login found recorded under its identifier when it arrived,
\* those that no success followed, all of them and not only those the guard looks at,
\* had kept it out for the step of the table they call for.  However the login typed
\* its identifier, that is the one without the spaces around it; a failure recorded
\* with such spaces is found by no login and keeps none out.
LockoutHolds ==
  \A i \in DOMAIN events :
    events[i].type = "LOGIN_FAILURE" =>
      LET before == LoginEvents(events[i].phone, Trim[events[i].typed],
                                events[i].since) IN
      Failures(before) # {} =>
        events[i].then >= events[Max(before)].at
                            + LockoutSeconds(Cardinality(Failures(before)))
================================================================================
