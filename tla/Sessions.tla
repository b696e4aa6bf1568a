--------------------------------- MODULE Sessions ---------------------------------
(***************************************************************************)
(* Sessions: login behind the guard that locks an identifier out, rotation *)
(* of refresh tokens, logout, the end of a password reset, and the clean-up *)
(* of expired tokens.                                                       *)
(*                                                                         *)
(* Anyone may try to log in; a refresh token is only ever presented by the *)
(* client it was issued to, who may have lost the answer to any request.    *)
(***************************************************************************)
EXTENDS AccountStore, FiniteSetsExt

-----------------------------------------------------------------------------
(* AuthRateLimitGuard *)

\* The successes and failures of identifier p, typed so, among the first n events.
LoginEvents(p, typed, n) ==
  {i \in DOMAIN events : /\ i <= n /\ events[i].phone = p /\ events[i].typed = typed
                         /\ events[i].type \in {"LOGIN_SUCCESS", "LOGIN_FAILURE"}}

\* The latest of them, as many as the guard looks at.
Recent(ids) == {i \in ids : Cardinality({j \in ids : i <= j}) <= EventWindow}

\* countConsecutiveFailures: the failures that no success followed.
Failures(ids) ==
  {i \in ids : \A j \in ids : i <= j => events[j].type = "LOGIN_FAILURE"}

\* lockoutSecondsForFailures.
LockoutSeconds(n) == IF n = 0 THEN 0 ELSE LockoutSteps[Min({n, Len(LockoutSteps)})]

\* Mutant: the lockout runs from the first of the failures in a row.
LockedFromFirst(ids) ==
  IF Failures(ids) = {} THEN 0
  ELSE events[Min(Failures(ids))].at + LockoutSeconds(Cardinality(Failures(ids)))

\* The moment the lockout after these events ends; after no failure it has ended.
LockoutUntil(ids) ==
  IF Failures(ids) = {} THEN 0
  ELSE events[Max(ids)].at + LockoutSeconds(Cardinality(Failures(ids)))

-----------------------------------------------------------------------------
(* login *)

\* The guard refuses the request (429) and records that, or lets it pass.  It looks
\* the identifier up without the spaces around it; login records what was typed.
LoginArrives(c, p, typed) ==
  /\ Arrive(c, "login",
       IF LockoutUntil(Recent(LoginEvents(p, Trim[typed], Len(events)))) > now
         THEN [Idle EXCEPT !.pc = "lockout", !.phone = p, !.typed = Trim[typed]]
         ELSE [Idle EXCEPT !.pc = "find", !.phone = p, !.typed = typed,
                           !.since = Len(events), !.at = now])
  /\ UNCHANGED <<now, user, wallets, code, token, events, job>>

LogLockout(c) ==
  /\ call[c].pc = "lockout"
  /\ Log(c, "LOCKOUT", call[c].phone)
  /\ Goto(c, Idle)
  /\ UNCHANGED <<now, user, wallets, code, token, job>>

\* No account, one that is not ACTIVE or a wrong password fails.  The password
\* that was right is remembered in n.
FindLogin(c) ==
  /\ call[c].pc = "find"
  /\ \/ Goto(c, [call[c] EXCEPT !.pc = "logFailure"])
     \/ \E u \in Account(call[c].phone) :
          /\ user[u].status = "ACTIVE"
          /\ Goto(c, [call[c] EXCEPT !.pc = "logSuccess", !.user = u,
                                     !.n = user[u].password])
  /\ UNCHANGED <<now, user, wallets, code, token, events, job>>

LogFailure(c) ==
  /\ call[c].pc = "logFailure"
  /\ Log(c, "LOGIN_FAILURE", call[c].phone)
  /\ Goto(c, Idle)
  /\ UNCHANGED <<now, user, wallets, code, token, job>>

\* lastLoginAt is updated and the success recorded; both fail when the account is
\* gone.
LogSuccess(c) ==
  /\ call[c].pc = "logSuccess"
  /\ \/ /\ ~Exists(call[c].user)
        /\ Goto(c, Idle)
        /\ UNCHANGED events
     \/ /\ Exists(call[c].user)
        /\ Log(c, "LOGIN_SUCCESS", call[c].phone)
        /\ Goto(c, [call[c] EXCEPT !.pc = "issue", !.typed = NULL, !.since = 0,
                                   !.at = 0])
  /\ UNCHANGED <<now, user, wallets, code, token, job>>

NewTokens == {t \in Tokens : token[t].session = NULL}

\* issueTokens.
Issue(c) ==
  /\ call[c].pc = "issue"
  /\ \/ /\ ~Exists(call[c].user)
        /\ UNCHANGED token
     \/ /\ Exists(call[c].user)
        /\ \E t \in NewTokens :
             token' = [token EXCEPT ![t] =
               [FirstToken(t, call[c].user, call[c].n) EXCEPT
                  !.overtaken = call[c].overtaken]]
  /\ Goto(c, Idle)
  /\ UNCHANGED <<now, user, wallets, code, events, job>>

-----------------------------------------------------------------------------
(* refresh and logout *)

\* The requests at work for the session of a token.
AtWork(t) == {c \in Calls : call[c].token # NULL
                            /\ token[call[c].token].session = token[t].session}

SessionFree(t) == SequentialSessions => AtWork(t) = {}

\* A revoked token ends all sessions of its user, an expired one is refused, and
\* the status of the account is not looked at.
Refresh(c, t) ==
  /\ token[t].user # NULL /\ SessionFree(t)
  /\ Arrive(c, "refresh",
       IF token[t].revoked
         THEN [Idle EXCEPT !.pc = "revokeAll", !.token = t, !.user = token[t].user]
         ELSE IF token[t].expiresAt <= now THEN Idle
         ELSE [Idle EXCEPT !.pc = "rotate", !.token = t, !.user = token[t].user])
  /\ UNCHANGED <<now, user, wallets, code, token, events, job>>

\* All live tokens of user u are revoked.
RevokeTokens(u) ==
  token' = [t \in Tokens |-> IF token[t].user = u
              THEN [token[t] EXCEPT !.revoked = TRUE] ELSE token[t]]

RevokeAll(c) ==
  /\ call[c].pc = "revokeAll"
  /\ RevokeTokens(call[c].user)
  /\ Goto(c, Idle)
  /\ UNCHANGED <<now, user, wallets, code, events, job>>

\* Mutant: the new token is created and the old one is not revoked.
RotateLater(c) ==
  /\ call[c].pc = "rotate"
  /\ \E t \in NewTokens :
       token' = [token EXCEPT
         ![t] = [token[call[c].token] EXCEPT !.expiresAt = now + TokenTTL],
         ![call[c].token].replacedBy = t]
  /\ Goto(c, Idle)
  /\ UNCHANGED <<now, user, wallets, code, events, job>>

\* The transaction that revokes the token, creates the next and links them.  It
\* revokes a token that was revoked since it was read a second time, and fails
\* when the row is gone.
Rotate(c) ==
  LET old == call[c].token IN
  /\ call[c].pc = "rotate"
  /\ \/ /\ token[old].user = NULL
        /\ UNCHANGED token
     \/ /\ token[old].user # NULL
        /\ \E t \in NewTokens :
             token' = [token EXCEPT
               ![old].revoked = TRUE, ![old].replacedBy = t,
               ![t] = [token[old] EXCEPT
                         !.revoked = FALSE, !.expiresAt = now + TokenTTL,
                         !.replacedBy = NULL,
                         !.overtaken = @ \/ call[c].overtaken]]
  /\ Goto(c, Idle)
  /\ UNCHANGED <<now, user, wallets, code, events, job>>

Logout(c, t) ==
  /\ token[t].user # NULL /\ SessionFree(t)
  /\ Arrive(c, "logout", [Idle EXCEPT !.pc = "drop", !.token = t, !.user = token[t].user])
  /\ UNCHANGED <<now, user, wallets, code, token, events, job>>

Drop(c) ==
  /\ call[c].pc = "drop"
  /\ token' = [token EXCEPT ![call[c].token].revoked = @ \/ token[call[c].token].user # NULL]
  /\ Goto(c, [call[c] EXCEPT !.pc = "logLogout"])
  /\ UNCHANGED <<now, user, wallets, code, events, job>>

\* The event is about a user; without the row its insert fails.
LogFor(c, type) ==
  IF Exists(call[c].user) THEN Log(c, type, user[call[c].user].phone)
  ELSE UNCHANGED events

LogLogout(c) ==
  /\ call[c].pc = "logLogout"
  /\ LogFor(c, "LOGOUT")
  /\ Goto(c, Idle)
  /\ UNCHANGED <<now, user, wallets, code, token, job>>

-----------------------------------------------------------------------------
(* resetPassword, once its code is consumed and the account found *)

\* Mutant: the sessions are left to expire.
SetPasswordOnly(c) ==
  /\ call[c].pc = "setPassword"
  /\ user' = [user EXCEPT ![call[c].user].password = @ + 1]
  /\ Goto(c, [call[c] EXCEPT !.pc = "logReset", !.n = user[call[c].user].password + 1])
  /\ UNCHANGED <<now, wallets, code, token, events, job>>

\* updatePassword; it fails when the account is gone.
SetPassword(c) ==
  LET u == call[c].user IN
  /\ call[c].pc = "setPassword"
  /\ \/ /\ ~Exists(u)
        /\ Goto(c, Idle)
        /\ UNCHANGED user
     \/ /\ Exists(u)
        /\ user' = [user EXCEPT ![u].password = @ + 1]
        /\ Goto(c, [call[c] EXCEPT !.pc = "revoke", !.n = user[u].password + 1])
  /\ UNCHANGED <<now, wallets, code, token, events, job>>

\* The requests whose check of user u is behind them.
Checked(u) ==
  {c \in Calls : call[c].user = u /\ call[c].pc \in {"logSuccess", "issue", "rotate"}}

\* The requests past their check are marked, for the properties.
Revoke(c) ==
  /\ call[c].pc = "revoke"
  /\ RevokeTokens(call[c].user)
  /\ call' = [d \in Calls |->
       IF d = c THEN [call[c] EXCEPT !.pc = "logReset"]
       ELSE IF d \in Checked(call[c].user) THEN [call[d] EXCEPT !.overtaken = TRUE]
       ELSE call[d]]
  /\ UNCHANGED <<now, user, wallets, code, events, job, requests>>

LogReset(c) ==
  LET u == call[c].user IN
  /\ call[c].pc = "logReset"
  /\ LogFor(c, "PASSWORD_RESET")
  /\ user' = IF Exists(u)
               THEN [user EXCEPT ![u].settled = Max({@, call[c].n})] ELSE user
  /\ Goto(c, Idle)
  /\ UNCHANGED <<now, wallets, code, token, job>>

-----------------------------------------------------------------------------
(* CleanupJob: cleanupExpiredTokens *)

CleanupTokens ==
  LET old == {t \in Tokens : /\ token[t].user # NULL
                             /\ token[t].expiresAt + TokensKept < now} IN
  /\ old # {}
  /\ token' = [t \in Tokens |->
       IF t \in old THEN Dropped(t) ELSE token[t]]
  /\ UNCHANGED <<now, user, wallets, code, events, call, job, requests>>
================================================================================
