------------------------------ MODULE AccountProofs ------------------------------
(***************************************************************************)
(* Proofs about Accounts, for any number of people, tokens, codes and      *)
(* requests at work: a session can only be continued with its last token,  *)
(* as long as a client waits for the answer to its last request; and, for  *)
(* clients of any kind, what a clean-up, a disabling, a reset and a wrong  *)
(* code leave.                                                             *)
(***************************************************************************)
EXTENDS Accounts, FiniteSetTheorems, TLAPS

\* The rows and the handlers have their fields.
Shaped ==
  /\ DOMAIN token = Tokens /\ DOMAIN call = Calls
  /\ \A t \in Tokens : DOMAIN token[t] = DOMAIN NoToken
  /\ \A c \in Calls : DOMAIN call[c] = DOMAIN Idle

\* A row that was never a token belongs to no session and has none.
Drawn(t) == token[t].session # NULL

SessionsOK ==
  \A t \in Tokens :
    /\ token[t].session \in Tokens \cup {NULL}
    /\ ~Drawn(t) => token[t].user = NULL /\ \A s \in Tokens : token[s].session # t

\* Every other token of the session of t has a successor.
Tip(t) ==
  \A s \in Tokens :
    /\ s # t
    /\ token[s].user # NULL /\ token[s].session = token[t].session
    => token[s].revoked /\ token[s].replacedBy # NULL

\* A handler about to rotate a token holds the last of its session: the token was
\* live when it was read, and although it may have been revoked or deleted since
\* then, no other request could continue the session.
CallsOK ==
  \A c \in Calls :
    /\ call[c].token # NULL => call[c].token \in Tokens /\ Drawn(call[c].token)
    /\ call[c].pc = "rotate" => call[c].token # NULL /\ Tip(call[c].token)

\* A session has one request at work.
OneAtWork ==
  \A b, c \in Calls :
    /\ call[b].token # NULL /\ call[c].token # NULL
    /\ token[call[b].token].session = token[call[c].token].session
    => b = c

Inv == Shaped /\ SessionsOK /\ CallsOK /\ OneAtWork /\ OnlyLastIsLive

--------------------------------------------------------------------------------
\* What all but a few actions do: tokens are revoked or deleted at most, requests
\* go on with the token they had or with none.
Fade(t) ==
  /\ DOMAIN token'[t] = DOMAIN NoToken
  /\ token'[t].session = token[t].session
  /\ token'[t].user # NULL =>
       /\ token'[t].user = token[t].user
       /\ token'[t].replacedBy = token[t].replacedBy
       /\ token[t].revoked => token'[t].revoked

GoOn(c) ==
  /\ DOMAIN call'[c] = DOMAIN Idle
  /\ \/ call'[c].token = NULL /\ call'[c].pc # "rotate"
     \/ call'[c].token = call[c].token /\ (call'[c].pc = "rotate" => call[c].pc = "rotate")

Calm ==
  /\ DOMAIN token' = Tokens /\ DOMAIN call' = Calls
  /\ \A t \in Tokens : Fade(t)
  /\ \A c \in Calls : GoOn(c)

LEMMA CalmKeepsInv == Inv /\ Calm => Inv'
<1> SUFFICES ASSUME Inv, Calm PROVE Inv' OBVIOUS
<1>1. Shaped' BY DEF Calm, Fade, GoOn, Shaped
<1>2. SessionsOK' BY DEF Inv, SessionsOK, Drawn, Calm, Fade
<1>3. ASSUME NEW t \in Tokens, Tip(t) PROVE Tip(t)'
  BY <1>3 DEF Tip, Calm, Fade
<1>4. CallsOK' BY <1>3 DEF Inv, CallsOK, Drawn, Calm, Fade, GoOn
<1>5. OneAtWork' BY DEF Inv, CallsOK, OneAtWork, Calm, Fade, GoOn
<1>6. OnlyLastIsLive' BY DEF Inv, OnlyLastIsLive, Live, Calm, Fade
<1>7. QED BY <1>1, <1>2, <1>4, <1>5, <1>6 DEF Inv

--------------------------------------------------------------------------------
\* A request that brings no token starts, or a handler goes on.
LEMMA ArrivalIsCalm ==
  ASSUME Inv, NEW c \in Calls, NEW op, NEW next, Arrive(c, op, next), token' = token,
         DOMAIN next = DOMAIN Idle, next.token = NULL, next.pc # "rotate"
  PROVE  Calm
<1>1. \A t \in Tokens : Fade(t) BY DEF Inv, Shaped, Fade
<1>2. \A d \in Calls : GoOn(d) BY DEF Inv, Shaped, GoOn, Arrive, Idle
<1>3. QED BY <1>1, <1>2 DEF Inv, Shaped, Calm, Arrive

LEMMA GoingOnIsCalm ==
  ASSUME Inv, NEW c \in Calls, NEW next, Goto(c, next), \A t \in Tokens : Fade(t),
         DOMAIN token' = Tokens, DOMAIN next = DOMAIN Idle,
         next.token \in {NULL, call[c].token}, next.pc # "rotate"
  PROVE  Calm
<1>1. \A d \in Calls : GoOn(d) BY DEF Inv, Shaped, GoOn, Goto
<1>2. QED BY <1>1 DEF Inv, Shaped, Calm, Goto

LEMMA OneGoesOn ==
  ASSUME Inv, NEW c \in Calls, NEW next, Goto(c, next), token' = token, GoOn(c)
  PROVE  Inv'
<1>1. \A d \in Calls : GoOn(d) BY DEF Inv, Shaped, GoOn, Goto
<1>2. \A t \in Tokens : Fade(t) BY DEF Inv, Shaped, Fade
<1>3. Calm BY <1>1, <1>2 DEF Inv, Shaped, Calm, Goto
<1>4. QED BY <1>3, CalmKeepsInv

LEMMA OneArrives ==
  ASSUME Inv, NEW c \in Calls, NEW op, NEW next, Arrive(c, op, next), token' = token, GoOn(c)
  PROVE  Inv'
<1>1. \A d \in Calls : GoOn(d) BY DEF Inv, Shaped, GoOn, Arrive
<1>2. \A t \in Tokens : Fade(t) BY DEF Inv, Shaped, Fade
<1>3. Calm BY <1>1, <1>2 DEF Inv, Shaped, Calm, Arrive
<1>4. QED BY <1>3, CalmKeepsInv

LEMMA AnswerGoesOn == ASSUME Inv, NEW c \in Calls, Goto(c, Idle) PROVE GoOn(c)
BY DEF Goto, GoOn, Inv, Shaped, Idle

LEMMA SameTokensFade == Inv /\ token' = token => \A t \in Tokens : Fade(t)
BY DEF Inv, Shaped, Fade

LEMMA IdleFields ==
  /\ Idle.token = NULL /\ Idle.pc = "idle"
  /\ \A c \in Calls : Inv => DOMAIN call[c] = DOMAIN Idle
BY DEF Idle, Inv, Shaped

LEMMA RevokingFades ==
  ASSUME Inv, NEW u, RevokeTokens(u)
  PROVE  DOMAIN token' = Tokens /\ \A t \in Tokens : Fade(t)
BY DEF Inv, Shaped, Fade, RevokeTokens, NoToken

LEMMA DroppingFades ==
  ASSUME Inv, NEW old \in SUBSET Tokens,
         token' = [t \in Tokens |-> IF t \in old THEN Dropped(t) ELSE token[t]]
  PROVE  DOMAIN token' = Tokens /\ \A t \in Tokens : Fade(t)
<1>1. ASSUME NEW t \in Tokens PROVE Fade(t)
  <2>1. CASE t \in old
    <3>1. token'[t] = Dropped(t) BY <2>1
    <3>2. QED BY <3>1 DEF Inv, Shaped, Fade, Dropped, NoToken
  <2>2. CASE t \notin old
    BY <2>2 DEF Inv, Shaped, Fade
  <2>3. QED BY <2>1, <2>2
<1>2. QED BY <1>1

--------------------------------------------------------------------------------
\* A request brings a token of a session that has no other at work.  If it is to
\* rotate the token, that is live.
LEMMA BringingKeepsInv ==
  ASSUME Inv, SequentialSessions, NEW c \in Calls, NEW t \in Tokens, NEW op, NEW next,
         Arrive(c, op, next), token' = token, token[t].user # NULL, SessionFree(t),
         DOMAIN next = DOMAIN Idle, next.token = t, next.pc = "rotate" => Live(t)
  PROVE  Inv'
<1>1. Drawn(t) /\ t # NULL BY AccountAssumption DEF Inv, SessionsOK
<1>2. Live(t) => Tip(t) BY DEF Inv, OnlyLastIsLive, Tip
<1>3. call'[c].token = t /\ (call'[c].pc = "rotate" => Live(t)) /\ DOMAIN call'[c] = DOMAIN Idle
  BY DEF Inv, Shaped, Arrive, Idle
<1>4. \A d \in Calls \ {c} : call'[d] = call[d] BY DEF Arrive, Inv, Shaped
<1>5. Shaped' BY <1>3, <1>4 DEF Inv, Shaped, Arrive
<1>6. SessionsOK' /\ OnlyLastIsLive' BY DEF Inv, SessionsOK, OnlyLastIsLive, Live, Drawn
<1>7. CallsOK' BY <1>1, <1>2, <1>3, <1>4 DEF Inv, CallsOK, Drawn, Tip
<1>8. OneAtWork' BY <1>3, <1>4 DEF Inv, OneAtWork, SessionFree, AtWork
<1>9. QED BY <1>5, <1>6, <1>7, <1>8 DEF Inv

\* A login opens a session that nothing belongs to.
LEMMA IssueKeepsInv ==
  ASSUME Inv, NEW c \in Calls, Issue(c) PROVE Inv'
<1>1. CASE UNCHANGED token
  <2>1. Calm BY <1>1, GoingOnIsCalm, SameTokensFade, IdleFields DEF Issue, Inv, Shaped
  <2>2. QED BY <2>1, CalmKeepsInv
<1>2. ASSUME NEW t \in NewTokens,
             token' = [token EXCEPT ![t] =
               [FirstToken(t, call[c].user, call[c].n) EXCEPT !.overtaken = call[c].overtaken]]
      PROVE  Inv'
  <2>1. /\ t \in Tokens /\ t # NULL /\ ~Drawn(t)
        /\ \A s \in Tokens : token[s].session # t
    BY AccountAssumption DEF Inv, SessionsOK, NewTokens, Drawn
  <2>2. /\ DOMAIN token' = Tokens /\ DOMAIN token'[t] = DOMAIN NoToken
        /\ token'[t].session = t
        /\ \A s \in Tokens \ {t} : token'[s] = token[s]
    BY <1>2, <2>1 DEF Inv, Shaped, FirstToken, NoToken
  <2>3. \A d \in Calls : /\ DOMAIN call'[d] = DOMAIN Idle
                         /\ call'[d].token # NULL => call'[d].token = call[d].token
                         /\ call'[d].pc = "rotate" => call'[d] = call[d]
    BY IdleFields DEF Issue, Goto, Inv, Shaped
  <2>4. Shaped' BY <2>2, <2>3 DEF Inv, Shaped, Issue, Goto
  <2>5. SessionsOK' BY <2>1, <2>2 DEF Inv, SessionsOK, Drawn
  <2>6. \A s \in Tokens : Drawn(s) => s # t BY <2>1
  <2>7. ASSUME NEW s \in Tokens, Drawn(s), Tip(s) PROVE Tip(s)'
    BY <2>1, <2>2, <2>6, <2>7 DEF Tip, Inv, SessionsOK
  <2>8. CallsOK' BY <2>2, <2>3, <2>6, <2>7 DEF Inv, CallsOK, Drawn
  <2>9. OneAtWork' BY <2>2, <2>3, <2>6 DEF Inv, CallsOK, OneAtWork
  <2>10. OnlyLastIsLive' BY <2>1, <2>2 DEF Inv, OnlyLastIsLive, Live
  <2>11. QED BY <2>4, <2>5, <2>8, <2>9, <2>10 DEF Inv
<1>3. QED BY <1>1, <1>2 DEF Issue

\* A rotation replaces the last token of its session, which no other request has.
LEMMA RotateKeepsInv ==
  ASSUME Inv, NEW c \in Calls, Rotate(c) PROVE Inv'
<1> DEFINE old == call[c].token
<1>1. CASE UNCHANGED token
  <2>1. Calm BY <1>1, GoingOnIsCalm, SameTokensFade, IdleFields DEF Rotate, Inv, Shaped
  <2>2. QED BY <2>1, CalmKeepsInv
<1>2. ASSUME token[old].user # NULL, NEW t \in NewTokens,
             token' = [token EXCEPT
               ![old].revoked = TRUE, ![old].replacedBy = t,
               ![t] = [token[old] EXCEPT
                         !.revoked = FALSE, !.expiresAt = now + TokenTTL,
                         !.replacedBy = NULL,
                         !.overtaken = @ \/ call[c].overtaken]]
      PROVE  Inv'
  <2>1. /\ old # NULL /\ old \in Tokens /\ Drawn(old) /\ Tip(old)
    BY DEF Rotate, Inv, CallsOK
  <2>2. /\ t \in Tokens /\ t # NULL /\ ~Drawn(t) /\ t # old
        /\ \A s \in Tokens : token[s].session # t
    BY <2>1, AccountAssumption DEF Inv, SessionsOK, NewTokens, Drawn
  <2>3. /\ DOMAIN token' = Tokens
        /\ DOMAIN token'[t] = DOMAIN NoToken /\ DOMAIN token'[old] = DOMAIN NoToken
        /\ \A s \in Tokens \ {old, t} : token'[s] = token[s]
    BY <1>2, <2>1, <2>2 DEF Inv, Shaped, NoToken
  <2>4. /\ token'[old].session = token[old].session /\ token'[old].user = token[old].user
        /\ token'[old].revoked /\ token'[old].replacedBy = t
    BY <1>2, <2>1, <2>2 DEF Inv, Shaped, NoToken
  <2>5. token'[t].session = token[old].session /\ token'[t].user = token[old].user
    BY <1>2, <2>1, <2>2 DEF Inv, Shaped, NoToken
  <2>6. \A d \in Calls : /\ DOMAIN call'[d] = DOMAIN Idle
                         /\ d = c => call'[d].token = NULL /\ call'[d].pc # "rotate"
                         /\ d # c => call'[d] = call[d]
    BY IdleFields DEF Rotate, Goto, Inv, Shaped
  <2>7. Shaped' BY <2>3, <2>6 DEF Inv, Shaped, Rotate, Goto
  <2>8. SessionsOK'
    <3> SUFFICES ASSUME NEW s \in Tokens
                 PROVE  /\ token'[s].session \in Tokens \cup {NULL}
                        /\ token'[s].session = NULL =>
                             token'[s].user = NULL /\ \A u \in Tokens : token'[u].session # s
      BY DEF SessionsOK, Drawn
    <3>1. \A u \in Tokens : token'[u].session \in {token[u].session, token[old].session}
      BY <2>3, <2>4, <2>5
    <3>2. QED BY <3>1, <2>1, <2>3, <2>4, <2>5 DEF Inv, SessionsOK, Drawn
  <2>9. ASSUME NEW d \in Calls, d # c, call[d].pc = "rotate"
        PROVE  Tip(call[d].token)'
    <3>1. /\ call[d].token # NULL /\ call[d].token \in Tokens
          /\ Drawn(call[d].token) /\ Tip(call[d].token)
          /\ token[call[d].token].session # token[old].session
      BY <2>1, <2>9 DEF Inv, CallsOK, OneAtWork
    <3>2. call[d].token \notin {old, t} BY <2>2, <3>1
    <3>3. QED BY <2>3, <2>4, <2>5, <2>6, <2>9, <3>1, <3>2 DEF Tip
  <2>10. CallsOK' BY <2>1, <2>2, <2>3, <2>4, <2>6, <2>9 DEF Inv, CallsOK, Drawn
  <2>11. OneAtWork' BY <2>2, <2>3, <2>4, <2>6 DEF Inv, CallsOK, OneAtWork
  <2>12. OnlyLastIsLive'
    <3>1. \A s \in Tokens \ {t} :
            token'[s].user # NULL /\ token'[s].session = token[old].session
              => token'[s].revoked /\ token'[s].replacedBy # NULL
      BY <2>1, <2>2, <2>3, <2>4 DEF Tip
    <3> SUFFICES ASSUME NEW x \in Tokens, NEW s \in Tokens, Live(x)', s # x,
                        token'[s].user # NULL, token'[s].session = token'[x].session
                 PROVE  token'[s].revoked /\ token'[s].replacedBy # NULL
      BY DEF OnlyLastIsLive
    <3>2. CASE token'[x].session = token[old].session
      <4>1. x = t BY <3>1, <3>2 DEF Live
      <4>2. QED BY <3>1, <3>2, <4>1
    <3>3. CASE token'[x].session # token[old].session
      <4>1. x \notin {old, t} /\ s \notin {old, t} BY <2>4, <2>5, <3>3
      <4>2. token'[x] = token[x] /\ token'[s] = token[s] BY <2>3, <4>1
      <4>3. QED BY <4>2 DEF Inv, OnlyLastIsLive, Live
    <3>4. QED BY <3>2, <3>3
  <2>13. QED BY <2>7, <2>8, <2>10, <2>11, <2>12 DEF Inv
<1>3. QED BY <1>1, <1>2 DEF Rotate

--------------------------------------------------------------------------------
(* The actions *)

LEMMA CodesKeepInv ==
  ASSUME Inv, NEW c \in Calls,
         \/ Create(c) \/ Cooldown(c) \/ CreateCode(c) \/ SendSms(c) \/ RecordSms(c)
         \/ WrongCode(c) \/ Consume(c) \/ FindUser(c) \/ Activate(c)
  PROVE  Inv'
<1> USE SameTokensFade, IdleFields
<1>1. CASE Create(c)
  <2>1. \/ Goto(c, Idle)
        \/ \E u \in UserIds : Goto(c, [call[c] EXCEPT !.pc = "setStatus", !.user = u])
        \/ \E u \in UserIds : Goto(c, [call[c] EXCEPT !.pc = "createCode", !.user = u])
    BY <1>1 DEF Create
  <2>2. Goto(c, Idle) => GoOn(c) BY AnswerGoesOn
  <2>3. ASSUME NEW u, Goto(c, [call[c] EXCEPT !.pc = "setStatus", !.user = u])
        PROVE  GoOn(c)
    BY <2>3 DEF Goto, GoOn, Inv, Shaped, Idle
  <2>4. ASSUME NEW u, Goto(c, [call[c] EXCEPT !.pc = "createCode", !.user = u])
        PROVE  GoOn(c)
    BY <2>4 DEF Goto, GoOn, Inv, Shaped, Idle
  <2>5. GoOn(c) BY <2>1, <2>2, <2>3, <2>4
  <2>6. QED BY <1>1, <2>1, <2>5, OneGoesOn DEF Create
<1>2. CASE Cooldown(c)
  <2>1. \A d \in Calls : GoOn(d)
    BY <1>2 DEF Cooldown, Goto, GoOn, Inv, Shaped, Idle
  <2>2. Calm BY <1>2, <2>1 DEF Cooldown, Goto, Calm, Inv, Shaped
  <2>3. QED BY <2>2, CalmKeepsInv
<1>3. CASE CreateCode(c)
  <2>1. \/ Goto(c, Idle)
        \/ \E i \in CodeIds : Goto(c, [call[c] EXCEPT !.pc = "send", !.code = i])
    BY <1>3 DEF CreateCode
  <2>2. Goto(c, Idle) => GoOn(c) BY AnswerGoesOn
  <2>3. ASSUME NEW i, Goto(c, [call[c] EXCEPT !.pc = "send", !.code = i])
        PROVE  GoOn(c)
    BY <2>3 DEF Goto, GoOn, Inv, Shaped, Idle
  <2>4. GoOn(c) BY <2>1, <2>2, <2>3
  <2>5. QED BY <1>3, <2>1, <2>4, OneGoesOn DEF CreateCode
<1>4. CASE SendSms(c)
  <2>1. \/ Goto(c, Idle)
        \/ \E n \in {0, 1} : Goto(c, [call[c] EXCEPT !.pc = "record", !.n = n])
    BY <1>4 DEF SendSms
  <2>2. Goto(c, Idle) => GoOn(c) BY AnswerGoesOn
  <2>3. ASSUME NEW n, Goto(c, [call[c] EXCEPT !.pc = "record", !.n = n])
        PROVE  GoOn(c)
    BY <2>3 DEF Goto, GoOn, Inv, Shaped, Idle
  <2>4. GoOn(c) BY <2>1, <2>2, <2>3
  <2>5. QED BY <1>4, <2>1, <2>4, OneGoesOn DEF SendSms
<1>5. CASE RecordSms(c)
  <2>1. \A d \in Calls : GoOn(d)
    BY <1>5 DEF RecordSms, Goto, GoOn, Inv, Shaped, Idle
  <2>2. Calm BY <1>5, <2>1 DEF RecordSms, Goto, Calm, Inv, Shaped
  <2>3. QED BY <2>2, CalmKeepsInv
<1>6. CASE WrongCode(c)
  <2>1. \A d \in Calls : GoOn(d)
    BY <1>6 DEF WrongCode, GoOn, Inv, Shaped, Idle
  <2>2. Calm BY <1>6, <2>1 DEF WrongCode, Calm, Inv, Shaped
  <2>3. QED BY <2>2, CalmKeepsInv
<1>7. CASE Consume(c)
  <2>1. \/ Goto(c, Idle)
        \/ \E n : Goto(c, [call[c] EXCEPT !.pc = "findUser", !.code = NULL, !.n = n])
    BY <1>7 DEF Consume
  <2>2. Goto(c, Idle) => GoOn(c) BY AnswerGoesOn
  <2>3. ASSUME NEW n, Goto(c, [call[c] EXCEPT !.pc = "findUser", !.code = NULL, !.n = n])
        PROVE  GoOn(c)
    BY <2>3 DEF Goto, GoOn, Inv, Shaped, Idle
  <2>4. GoOn(c) BY <2>1, <2>2, <2>3
  <2>5. QED BY <1>7, <2>1, <2>4, OneGoesOn DEF Consume
<1>8. CASE FindUser(c)
  <2>1. \/ Goto(c, Idle)
        \/ \E u : Goto(c, [call[c] EXCEPT !.user = u, !.pc = "activate"])
        \/ \E u : Goto(c, [call[c] EXCEPT !.user = u, !.pc = "setPassword"])
    BY <1>8 DEF FindUser
  <2>2. Goto(c, Idle) => GoOn(c) BY AnswerGoesOn
  <2>3. ASSUME NEW u, Goto(c, [call[c] EXCEPT !.user = u, !.pc = "activate"])
        PROVE  GoOn(c)
    BY <2>3 DEF Goto, GoOn, Inv, Shaped, Idle
  <2>4. ASSUME NEW u, Goto(c, [call[c] EXCEPT !.user = u, !.pc = "setPassword"])
        PROVE  GoOn(c)
    BY <2>4 DEF Goto, GoOn, Inv, Shaped, Idle
  <2>5. GoOn(c) BY <2>1, <2>2, <2>3, <2>4
  <2>6. QED BY <1>8, <2>1, <2>5, OneGoesOn DEF FindUser
<1>9. CASE Activate(c)
  <2>1. Calm BY <1>9, GoingOnIsCalm DEF Activate, Inv, Shaped
  <2>2. QED BY <2>1, CalmKeepsInv
<1>10. QED BY <1>1, <1>2, <1>3, <1>4, <1>5, <1>6, <1>7, <1>8, <1>9

LEMMA SessionsKeepInv ==
  ASSUME Inv, NEW c \in Calls,
         \/ LogLockout(c) \/ FindLogin(c) \/ LogFailure(c) \/ LogSuccess(c)
         \/ RevokeAll(c) \/ Drop(c) \/ LogLogout(c)
         \/ SetPassword(c) \/ Revoke(c) \/ LogReset(c) \/ SetStatus(c) \/ Fail(c)
  PROVE  Inv'
<1>1. CASE LogLockout(c) \/ LogFailure(c) \/ LogLogout(c) \/ LogReset(c) \/ SetStatus(c) \/ Fail(c)
  <2>1. Goto(c, Idle) /\ token' = token
    BY <1>1 DEF LogLockout, LogFailure, LogLogout, LogReset, SetStatus, Fail
  <2>2. QED BY <2>1, AnswerGoesOn, OneGoesOn
<1>2. CASE FindLogin(c)
  <2>1. token' = token
    BY <1>2 DEF FindLogin
  <2>2. \/ Goto(c, [call[c] EXCEPT !.pc = "logFailure"])
        \/ \E u, n : Goto(c, [call[c] EXCEPT !.pc = "logSuccess", !.user = u, !.n = n])
    BY <1>2 DEF FindLogin
  <2>3. ASSUME Goto(c, [call[c] EXCEPT !.pc = "logFailure"])
        PROVE  GoOn(c)
    BY <2>3 DEF Goto, GoOn, Inv, Shaped, Idle
  <2>4. ASSUME NEW u, NEW n, Goto(c, [call[c] EXCEPT !.pc = "logSuccess", !.user = u, !.n = n])
        PROVE  GoOn(c)
    BY <2>4 DEF Goto, GoOn, Inv, Shaped, Idle
  <2>5. GoOn(c) BY <2>2, <2>3, <2>4
  <2>6. QED BY <2>1, <2>2, <2>5, OneGoesOn
<1>3. CASE LogSuccess(c)
  <2>1. token' = token
    BY <1>3 DEF LogSuccess
  <2>2. \/ Goto(c, Idle)
        \/ Goto(c, [call[c] EXCEPT !.pc = "issue", !.typed = NULL, !.since = 0,
                                  !.at = 0])
    BY <1>3 DEF LogSuccess
  <2>3. ASSUME Goto(c, [call[c] EXCEPT !.pc = "issue", !.typed = NULL, !.since = 0,
                                  !.at = 0])
        PROVE  GoOn(c)
    BY <2>3 DEF Goto, GoOn, Inv, Shaped, Idle
  <2>4. GoOn(c) BY <2>2, <2>3, AnswerGoesOn
  <2>5. QED BY <2>1, <2>2, <2>4, OneGoesOn
<1>4. CASE RevokeAll(c)
  <2>1. Calm BY <1>4, RevokingFades, GoingOnIsCalm, IdleFields DEF RevokeAll
  <2>2. QED BY <2>1, CalmKeepsInv
<1>5. CASE Drop(c)
  <2>1. DOMAIN token' = Tokens /\ \A t \in Tokens : Fade(t)
    BY <1>5 DEF Drop, Inv, Shaped, Fade, NoToken
  <2>2. Goto(c, [call[c] EXCEPT !.pc = "logLogout"])
    BY <1>5 DEF Drop
  <2>3. \A d \in Calls : GoOn(d) BY <2>2 DEF Goto, GoOn, Inv, Shaped, Idle
  <2>4. Calm BY <2>1, <2>2, <2>3 DEF Calm, Goto, Inv, Shaped
  <2>5. QED BY <2>4, CalmKeepsInv
<1>6. CASE SetPassword(c)
  <2>1. token' = token
    BY <1>6 DEF SetPassword
  <2>2. \/ Goto(c, Idle)
        \/ \E n : Goto(c, [call[c] EXCEPT !.pc = "revoke", !.n = n])
    BY <1>6 DEF SetPassword
  <2>3. ASSUME NEW n, Goto(c, [call[c] EXCEPT !.pc = "revoke", !.n = n])
        PROVE  GoOn(c)
    BY <2>3 DEF Goto, GoOn, Inv, Shaped, Idle
  <2>4. GoOn(c) BY <2>2, <2>3, AnswerGoesOn
  <2>5. QED BY <2>1, <2>2, <2>4, OneGoesOn
<1>7. CASE Revoke(c)
  <2>1. DOMAIN token' = Tokens /\ \A t \in Tokens : Fade(t)
    BY <1>7, RevokingFades DEF Revoke
  <2>2. DOMAIN call' = Calls /\ \A d \in Calls : GoOn(d)
    BY <1>7 DEF Revoke, GoOn, Inv, Shaped, Idle
  <2>3. QED BY <2>1, <2>2, CalmKeepsInv DEF Calm
<1>8. QED BY <1>1, <1>2, <1>3, <1>4, <1>5, <1>6, <1>7

LEMMA RequestsKeepInv ==
  ASSUME Inv, SequentialSessions, NEW c \in Calls, Request(c) PROVE Inv'
<1>1. ASSUME NEW p \in Phones, Register(c, p) PROVE Inv'
  <2> DEFINE start == [Idle EXCEPT !.phone = p, !.since = requests + 1]
  <2>1. DOMAIN start = DOMAIN Idle /\ start.token = NULL BY DEF Idle
  <2> HIDE DEF start
  <2>2. ASSUME Arrive(c, "register", [start EXCEPT !.pc = "create"]) PROVE GoOn(c)
    BY <2>1, <2>2 DEF Arrive, GoOn, Inv, Shaped, Idle
  <2>3. ASSUME NEW u, Arrive(c, "register", [start EXCEPT !.pc = "cooldown", !.user = u])
        PROVE  GoOn(c)
    BY <2>1, <2>3 DEF Arrive, GoOn, Inv, Shaped, Idle
  <2>4. GoOn(c) BY <1>1, <2>2, <2>3 DEF Register, start
  <2>5. QED BY <1>1, <2>4, OneArrives DEF Register
<1>2. ASSUME NEW p \in Phones, ForgotPassword(c, p) PROVE Inv'
  <2>1. GoOn(c) BY <1>2 DEF ForgotPassword, Arrive, GoOn, Inv, Shaped, Idle
  <2>2. QED BY <1>2, <2>1, OneArrives DEF ForgotPassword
<1>3. ASSUME NEW p \in Phones, NEW typed \in Spellings, LoginArrives(c, p, typed)
      PROVE  Inv'
  <2>1. GoOn(c) BY <1>3 DEF LoginArrives, Arrive, GoOn, Inv, Shaped, Idle
  <2>2. QED BY <1>3, <2>1, OneArrives DEF LoginArrives
<1>4. ASSUME NEW p \in Phones, CreateUser(c, p) PROVE Inv'
  <2>1. GoOn(c) BY <1>4 DEF CreateUser, Arrive, GoOn, Inv, Shaped, Idle
  <2>2. QED BY <1>4, <2>1, OneArrives DEF CreateUser
<1>5. ASSUME NEW p \in Phones, NEW op, NEW purpose, NEW right \in BOOLEAN,
             PresentCode(c, op, purpose, p, right)
      PROVE  Inv'
  <2>1. GoOn(c) BY <1>5 DEF PresentCode, Arrive, GoOn, Inv, Shaped, Idle
  <2>2. QED BY <1>5, <2>1, OneArrives DEF PresentCode
<1>6. ASSUME NEW u \in UserIds, NEW op, FindTarget(c, op, u) PROVE Inv'
  <2>1. GoOn(c) BY <1>6 DEF FindTarget, Arrive, GoOn, Inv, Shaped, Idle
  <2>2. QED BY <1>6, <2>1, OneArrives DEF FindTarget
<1>7. ASSUME NEW t \in Tokens, Refresh(c, t) PROVE Inv'
  <2>1. token' = token /\ token[t].user # NULL /\ SessionFree(t)
    BY <1>7 DEF Refresh
  <2>2. CASE token[t].revoked
    <3> DEFINE next == [Idle EXCEPT !.pc = "revokeAll", !.token = t, !.user = token[t].user]
    <3>1. Arrive(c, "refresh", next) BY <1>7, <2>2 DEF Refresh
    <3>2. DOMAIN next = DOMAIN Idle /\ next.token = t /\ next.pc = "revokeAll" BY DEF Idle
    <3>3. QED BY <2>1, <3>1, <3>2, BringingKeepsInv
  <2>3. CASE ~token[t].revoked /\ token[t].expiresAt <= now
    <3>1. Arrive(c, "refresh", Idle) BY <1>7, <2>3 DEF Refresh
    <3>2. QED BY <2>1, <3>1, ArrivalIsCalm, CalmKeepsInv, IdleFields
  <2>4. CASE ~token[t].revoked /\ ~(token[t].expiresAt <= now)
    <3> DEFINE next == [Idle EXCEPT !.pc = "rotate", !.token = t, !.user = token[t].user]
    <3>1. Arrive(c, "refresh", next) BY <1>7, <2>4 DEF Refresh
    <3>2. DOMAIN next = DOMAIN Idle /\ next.token = t /\ Live(t) BY <2>1, <2>4 DEF Idle, Live
    <3>3. QED BY <2>1, <3>1, <3>2, BringingKeepsInv
  <2>5. QED BY <2>2, <2>3, <2>4
<1>8. ASSUME NEW t \in Tokens, Logout(c, t) PROVE Inv'
  <2> DEFINE next == [Idle EXCEPT !.pc = "drop", !.token = t, !.user = token[t].user]
  <2>1. token' = token /\ token[t].user # NULL /\ SessionFree(t) /\ Arrive(c, "logout", next)
    BY <1>8 DEF Logout
  <2>2. DOMAIN next = DOMAIN Idle /\ next.token = t /\ next.pc = "drop" BY DEF Idle
  <2>3. QED BY <2>1, <2>2, BringingKeepsInv
<1>9. QED BY <1>1, <1>2, <1>3, <1>4, <1>5, <1>6, <1>7, <1>8 DEF Request

LEMMA CleanupKeepsInv == ASSUME Inv, Cleanup PROVE Inv'
<1>1. call' = call
  BY DEF Cleanup, FindStale, DeleteCodes, DeleteWallets, DeleteUsers, JobFails,
         CleanupOtps, CleanupTokens
<1>2. DOMAIN token' = Tokens /\ \A t \in Tokens : Fade(t)
  <2>1. CASE token' = token
    BY <2>1, SameTokensFade DEF Inv, Shaped
  <2>2. CASE DeleteUsers
    <3> DEFINE old == {t \in Tokens : token[t].user \in job.ids}
    <3>1. token' = [t \in Tokens |-> IF t \in old THEN Dropped(t) ELSE token[t]]
      BY <2>2 DEF DeleteUsers
    <3>2. QED BY <3>1, DroppingFades
  <2>3. CASE CleanupTokens
    <3> DEFINE old == {t \in Tokens : /\ token[t].user # NULL
                                      /\ token[t].expiresAt + TokensKept < now}
    <3>1. token' = [t \in Tokens |-> IF t \in old THEN Dropped(t) ELSE token[t]]
      BY <2>3 DEF CleanupTokens
    <3>2. QED BY <3>1, DroppingFades
  <2>4. QED BY <2>1, <2>2, <2>3
          DEF Cleanup, FindStale, DeleteCodes, DeleteWallets, JobFails, CleanupOtps
<1>3. \A c \in Calls : GoOn(c) BY <1>1 DEF GoOn, Inv, Shaped
<1>4. QED BY <1>1, <1>2, <1>3, CalmKeepsInv DEF Calm, Inv, Shaped

--------------------------------------------------------------------------------
LEMMA InitInv == Init => Inv
<1> SUFFICES ASSUME Init PROVE Inv OBVIOUS
<1>1. call = [c \in Calls |-> Idle] BY DEF Init
<1>2. /\ DOMAIN token = Tokens
      /\ \A t \in Tokens : token[t] = NoToken \/ \E u : token[t] = FirstToken(t, u, 0)
  <2>1. CASE token = [t \in Tokens |-> NoToken]
    BY <2>1
  <2>2. ASSUME NEW u \in UserIds, NEW signedIn \in SUBSET Tokens,
               token = [t \in Tokens |->
                          IF t \in signedIn THEN FirstToken(t, u, 0) ELSE NoToken]
        PROVE  \A t \in Tokens : token[t] = NoToken \/ \E v : token[t] = FirstToken(t, v, 0)
    BY <2>2
  <2>3. QED BY <2>1, <2>2 DEF Init
<1>3. \A t \in Tokens : /\ DOMAIN token[t] = DOMAIN NoToken
                        /\ token[t].session \in {t, NULL}
                        /\ token[t].session = NULL => token[t].user = NULL
  <2>1. NoToken.session = NULL /\ NoToken.user = NULL
    BY DEF NoToken
  <2>2. ASSUME NEW t \in Tokens, NEW u
        PROVE  DOMAIN FirstToken(t, u, 0) = DOMAIN NoToken /\ FirstToken(t, u, 0).session = t
    BY DEF FirstToken, NoToken
  <2>3. QED BY <1>2, <2>1, <2>2, AccountAssumption
<1>4. Shaped BY <1>1, <1>2, <1>3 DEF Shaped
<1>5. SessionsOK BY <1>3, AccountAssumption DEF SessionsOK, Drawn
<1>6. CallsOK /\ OneAtWork BY <1>1 DEF CallsOK, OneAtWork, Idle
<1>7. OnlyLastIsLive BY <1>3, AccountAssumption DEF OnlyLastIsLive
<1>8. QED BY <1>4, <1>5, <1>6, <1>7 DEF Inv

LEMMA NextKeepsInv == ASSUME Inv, SequentialSessions, [Next]_vars PROVE Inv'
<1>1. ASSUME NEW c \in Calls, Continue(c) PROVE Inv'
  BY <1>1, CodesKeepInv, SessionsKeepInv, IssueKeepsInv, RotateKeepsInv DEF Continue
<1>2. CASE Tick \/ UNCHANGED vars
  <2>1. token' = token /\ call' = call BY <1>2 DEF Tick, vars
  <2>2. \A c \in Calls : GoOn(c) BY <2>1 DEF GoOn, Inv, Shaped
  <2>3. QED BY <2>1, <2>2, SameTokensFade, CalmKeepsInv DEF Calm, Inv, Shaped
<1>3. QED BY <1>1, <1>2, RequestsKeepInv, CleanupKeepsInv DEF Next

\* However many clients there are, as long as each waits for the answer to its last
\* request (which it may lose), only the last token of a session is live: refresh
\* revokes what it replaces in the same transaction, and neither a logout, a reset,
\* the revocation of everything nor a clean-up brings an older one back.
THEOREM OnlyLastIsLiveAlways ==
  ASSUME SequentialSessions PROVE Spec => []OnlyLastIsLive
<1>1. Inv /\ [Next]_vars => Inv' BY NextKeepsInv
<1>2. Inv => OnlyLastIsLive BY DEF Inv
<1>3. QED BY <1>1, <1>2, InitInv, PTL DEF Spec

-----------------------------------------------------------------------------
(* The largest of some numbers *)

LEMMA Largest ==
  ASSUME NEW n \in Nat, NEW S \in SUBSET (0..n), S # {}
  PROVE  \E i \in S : \A j \in S : j <= i
<1> DEFINE above(i) == {k \in 0..n : k > i}
           T == {above(i) : i \in S}
           R == StrictSubsetOrdering(0..n)
<1>1. \A i \in S : above(i) \in FiniteSubsetsOf(0..n)
  <2>1. IsFiniteSet(0..n) BY FS_Interval
  <2>2. QED BY <2>1, FS_Subset DEF FiniteSubsetsOf
<1>2. IsWellFoundedOn(R, FiniteSubsetsOf(0..n)) BY FS_StrictSubsetOrderingWellFounded
<1>3. T \subseteq FiniteSubsetsOf(0..n) /\ T # {} BY <1>1
<1> HIDE DEF R, T
<1>4. PICK x \in T : \A y \in T : ~(<<y, x>> \in R) BY <1>2, <1>3, WFMin
<1>5. PICK i \in S : x = above(i) BY DEF T
<1>6. ASSUME NEW j \in S, j > i PROVE FALSE
  <2>1. above(j) \subseteq above(i) /\ j \in above(i) /\ j \notin above(j) BY <1>6
  <2>2. <<above(j), above(i)>> \in R BY <2>1 DEF R, StrictSubsetOrdering
  <2>3. above(j) \in T BY DEF T
  <2>4. QED BY <1>4, <1>5, <2>2, <2>3
<1>7. QED BY <1>6

LEMMA LatestIsThere ==
  ASSUME NEW ids \in SUBSET CodeIds, ids # {}
  PROVE  Latest(ids) \in ids
<1>1. MaxCodes \in Nat BY AccountAssumption
<1>2. ids \in SUBSET (0..MaxCodes) BY <1>1 DEF CodeIds
<1>3. \E i \in ids : \A j \in ids : j <= i BY <1>1, <1>2, Largest
<1> QED BY <1>3 DEF Latest
-----------------------------------------------------------------------------
(* The rows, and what a handler at work knows of them *)

\* The types of the rows, without the bounds of a small instance.
UserType ==
  [status: UserStatus, phone: Phones \cup {NULL}, createdAt: Nat, password: Nat,
   kept: BOOLEAN, barred: Nat, warranted: BOOLEAN, settled: Nat]

CodeType ==
  [purpose: OtpPurpose \cup {NULL}, phone: Phones \cup {NULL},
   user: UserIds \cup {NULL}, createdAt: Nat, attempts: Nat,
   consumed: BOOLEAN, delivered: BOOLEAN, sms: {"NONE", "SENT", "FAILED"},
   asked: Nat, alone: Nat]

TokenType ==
  [user: UserIds \cup {NULL}, revoked: BOOLEAN, expiresAt: Nat,
   replacedBy: Tokens \cup {NULL}, session: Tokens \cup {NULL}, password: Nat,
   overtaken: BOOLEAN]

EventType ==
  [type: AuthEventType, phone: Phones, typed: Spellings \cup {NULL}, at: Nat,
   since: Nat, then: Nat]

CallType ==
  [pc: Pcs, op: Handlers \cup {NULL}, phone: Phones \cup {NULL},
   typed: Spellings \cup {NULL},
   user: UserIds \cup {NULL}, code: CodeIds \cup {NULL}, token: Tokens \cup {NULL},
   n: Nat, since: Nat, at: Nat, overtaken: BOOLEAN]

UsersTyped ==
  /\ user \in [UserIds -> UserType]
  /\ \A u \in UserIds : Exists(u) => user[u].phone \in Phones

CodesTyped == code \in [CodeIds -> CodeType]

TokensTyped ==
  /\ token \in [Tokens -> TokenType]
  /\ \A t \in Tokens : token[t].user # NULL =>
       token[t].session # NULL /\ user[token[t].user].status # "NONE"

Rows ==
  /\ now \in Nat /\ requests \in Nat
  /\ UsersTyped /\ wallets \in SUBSET UserIds /\ job \in Job
  /\ CodesTyped /\ TokensTyped /\ events \in Seq(EventType)

AboutUser == {"cooldown", "createCode", "send", "record", "activate", "setPassword",
              "revoke", "logReset", "logSuccess", "issue", "rotate", "revokeAll",
              "drop", "logLogout", "setStatus"}
AboutPhone == {"create", "cooldown", "createCode", "send", "record", "wrong", "consume",
               "findUser", "lockout", "find", "logFailure", "logSuccess"}
AboutCode == {"send", "record", "wrong", "consume"}
AboutToken == {"rotate", "revokeAll", "drop"}

\* The rows a handler at work is about were there once, and their ids are not drawn
\* again.
Known(r) ==
  /\ r \in CallType
  /\ r.pc \in AboutUser => r.user \in UserIds /\ user[r.user].status # "NONE"
  /\ r.pc \in AboutPhone => r.phone \in Phones
  /\ r.pc \in AboutCode => r.code \in CodeIds /\ code[r.code].purpose # NULL
  /\ r.pc \in AboutToken => r.token \in Tokens /\ token[r.token].session # NULL

CallsKnown ==
  /\ DOMAIN call = Calls /\ call = [c \in Calls |-> call[c]]
  /\ \A c \in Calls : Known(call[c])

Typed == Rows /\ CallsKnown

\* No id is drawn twice.
IdsStay ==
  /\ \A u \in UserIds : user[u].status # "NONE" => user'[u].status # "NONE"
  /\ \A i \in CodeIds : code[i].purpose # NULL => code'[i].purpose # NULL
  /\ \A t \in Tokens : token[t].session # NULL => token'[t].session # NULL

LEMMA NothingNull ==
  /\ NULL \notin Phones /\ NULL \notin UserIds /\ NULL \notin Tokens /\ NULL \notin Nat
  /\ NULL \notin CodeIds
BY AccountAssumption DEF CodeIds

\* Who changes which rows.
LEMMA UserWriters ==
  ASSUME [Next]_vars
  PROVE  \/ user' = user
         \/ \E c \in Calls : \/ Create(c) \/ Activate(c) \/ SetStatus(c)
                             \/ SetPassword(c) \/ LogReset(c)
         \/ DeleteUsers
<1>1. ASSUME NEW c \in Calls, Request(c) PROVE user' = user
  BY <1>1 DEF Request, Register, ForgotPassword, LoginArrives, CreateUser, PresentCode,
              FindTarget, Refresh, Logout
<1>2. ASSUME NEW c \in Calls, Continue(c)
      PROVE  \/ user' = user
             \/ Create(c) \/ Activate(c) \/ SetStatus(c) \/ SetPassword(c) \/ LogReset(c)
  BY <1>2 DEF Continue, Cooldown, CreateCode, SendSms, RecordSms, WrongCode, Consume,
              FindUser, LogLockout, FindLogin, LogFailure, LogSuccess, Issue, RevokeAll,
              Rotate, Drop, LogLogout, Revoke, Fail
<1>3. ASSUME Cleanup PROVE user' = user \/ DeleteUsers
  BY <1>3 DEF Cleanup, FindStale, DeleteCodes, DeleteWallets, JobFails, CleanupOtps,
              CleanupTokens
<1>4. ASSUME Tick \/ UNCHANGED vars PROVE user' = user BY <1>4 DEF Tick, vars
<1> QED BY <1>1, <1>2, <1>3, <1>4 DEF Next

LEMMA CodeWriters ==
  ASSUME [Next]_vars
  PROVE  \/ code' = code
         \/ \E c \in Calls : \/ CreateCode(c) \/ SendSms(c) \/ RecordSms(c)
                             \/ WrongCode(c) \/ Consume(c)
         \/ DeleteCodes \/ DeleteUsers \/ CleanupOtps
<1>1. ASSUME NEW c \in Calls, Request(c) PROVE code' = code
  BY <1>1 DEF Request, Register, ForgotPassword, LoginArrives, CreateUser, PresentCode,
              FindTarget, Refresh, Logout
<1>2. ASSUME NEW c \in Calls, Continue(c)
      PROVE  \/ code' = code
             \/ CreateCode(c) \/ SendSms(c) \/ RecordSms(c) \/ WrongCode(c) \/ Consume(c)
  BY <1>2 DEF Continue, Create, Cooldown, FindUser, Activate, LogLockout, FindLogin,
              LogFailure, LogSuccess, Issue, RevokeAll, Rotate, Drop, LogLogout,
              SetPassword, Revoke, LogReset, SetStatus, Fail
<1>3. ASSUME Cleanup PROVE code' = code \/ DeleteCodes \/ DeleteUsers \/ CleanupOtps
  BY <1>3 DEF Cleanup, FindStale, DeleteWallets, JobFails, CleanupTokens
<1>4. ASSUME Tick \/ UNCHANGED vars PROVE code' = code BY <1>4 DEF Tick, vars
<1> QED BY <1>1, <1>2, <1>3, <1>4 DEF Next

LEMMA TokenWriters ==
  ASSUME [Next]_vars
  PROVE  \/ token' = token
         \/ \E c \in Calls : Issue(c) \/ RevokeAll(c) \/ Rotate(c) \/ Drop(c) \/ Revoke(c)
         \/ DeleteUsers \/ CleanupTokens
<1>1. ASSUME NEW c \in Calls, Request(c) PROVE token' = token
  BY <1>1 DEF Request, Register, ForgotPassword, LoginArrives, CreateUser, PresentCode,
              FindTarget, Refresh, Logout
<1>2. ASSUME NEW c \in Calls, Continue(c)
      PROVE  token' = token \/ Issue(c) \/ RevokeAll(c) \/ Rotate(c) \/ Drop(c) \/ Revoke(c)
  BY <1>2 DEF Continue, Create, Cooldown, CreateCode, SendSms, RecordSms, WrongCode,
              Consume, FindUser, Activate, LogLockout, FindLogin, LogFailure, LogSuccess,
              LogLogout, SetPassword, LogReset, SetStatus, Fail
<1>3. ASSUME Cleanup PROVE token' = token \/ DeleteUsers \/ CleanupTokens
  BY <1>3 DEF Cleanup, FindStale, DeleteCodes, DeleteWallets, JobFails, CleanupOtps
<1>4. ASSUME Tick \/ UNCHANGED vars PROVE token' = token BY <1>4 DEF Tick, vars
<1> QED BY <1>1, <1>2, <1>3, <1>4 DEF Next

-----------------------------------------------------------------------------
(* The rows stay what they are *)

LEMMA Field ==
  ASSUME Typed, NEW c \in Calls
  PROVE  Known(call[c]) /\ call[c] \in CallType
BY DEF Typed, CallsKnown, Known

LEMMA UsersStayTyped ==
  ASSUME Typed, [Next]_vars
  PROVE  UsersTyped' /\ \A u \in UserIds : user[u].status # "NONE" => user'[u].status # "NONE"
<1> USE NothingNull
<1>1. user \in [UserIds -> UserType] /\ now \in Nat /\ requests \in Nat
      /\ \A u \in UserIds : Exists(u) => user[u].phone \in Phones
  BY DEF Typed, Rows, UsersTyped
<1>2. ASSUME NEW u \in UserIds, NEW row \in UserType, user' = [user EXCEPT ![u] = row],
             row.status \in {"PENDING_VERIFICATION", "ACTIVE", "DISABLED"},
             row.phone \in Phones
      PROVE  UsersTyped' /\ \A v \in UserIds : user[v].status # "NONE" => user'[v].status # "NONE"
  <2>1. user' \in [UserIds -> UserType] /\ user'[u] = row
        /\ \A v \in UserIds : v # u => user'[v] = user[v]
    BY <1>1, <1>2
  <2> QED BY <1>1, <1>2, <2>1 DEF UsersTyped, Exists
<1>3. CASE user' = user BY <1>1, <1>3 DEF UsersTyped, Exists
<1>4. ASSUME NEW c \in Calls, Create(c), user' # user
      PROVE  UsersTyped' /\ \A v \in UserIds : user[v].status # "NONE" => user'[v].status # "NONE"
  <2>1. call[c].phone \in Phones BY <1>4, Field DEF Known, AboutPhone, Create
  <2>2. PICK row : row = [NoUser EXCEPT !.status = "PENDING_VERIFICATION",
                                        !.phone = call[c].phone, !.createdAt = now]
    OBVIOUS
  <2>3. row \in UserType /\ row.status = "PENDING_VERIFICATION" /\ row.phone = call[c].phone
    BY <1>1, <2>1, <2>2 DEF NoUser, UserType, UserStatus
  <2>4. PICK u \in UserIds : user' = [user EXCEPT ![u] = row]
    BY <1>4, <2>2 DEF Create
  <2> QED BY <1>2, <2>1, <2>3, <2>4
<1>5. ASSUME NEW c \in Calls, Activate(c) \/ SetStatus(c), user' # user
      PROVE  UsersTyped' /\ \A v \in UserIds : user[v].status # "NONE" => user'[v].status # "NONE"
  <2>1. call[c].user \in UserIds BY <1>5, Field DEF Known, AboutUser, Activate, SetStatus
  <2>2. PICK u \in UserIds : u = call[c].user BY <2>1
  <2>3. Exists(u) BY <1>5, <2>2 DEF Activate, SetStatus
  <2>4. PICK row : row = Enabled(u) OBVIOUS
  <2>5. user[u] \in UserType /\ user[u].phone \in Phones BY <1>1, <2>3
  <2>6. row \in UserType /\ row.status = "ACTIVE" /\ row.phone = user[u].phone
    <3>1. PICK kept : kept = (user[u].kept \/ now <= user[u].createdAt + StaleAge) OBVIOUS
    <3>2. kept \in BOOLEAN BY <2>5, <3>1 DEF UserType
    <3>3. row = [user[u] EXCEPT !.status = "ACTIVE", !.kept = kept]
      BY <2>4, <3>1 DEF Enabled
    <3> QED BY <2>5, <3>2, <3>3 DEF UserType, UserStatus
  <2>7. CASE Activate(c)
    <3>1. PICK warranted \in BOOLEAN :
            user' = [user EXCEPT ![u] = [row EXCEPT !.warranted = warranted]]
      BY <2>2, <2>3, <2>4, <2>7 DEF Activate
    <3>2. PICK new : new = [row EXCEPT !.warranted = warranted] OBVIOUS
    <3>3. new \in UserType /\ new.status = "ACTIVE" /\ new.phone = user[u].phone
      BY <2>6, <3>2 DEF UserType
    <3> QED BY <1>2, <2>5, <3>1, <3>2, <3>3
  <2>8. CASE SetStatus(c) /\ call[c].op = "disable"
    <3>1. PICK new : new = [user[u] EXCEPT !.status = "DISABLED", !.barred = requests,
                                           !.warranted = FALSE]
      OBVIOUS
    <3>2. user' = [user EXCEPT ![u] = new] BY <2>2, <2>3, <2>8, <3>1 DEF SetStatus
    <3>3. new \in UserType /\ new.status = "DISABLED" /\ new.phone = user[u].phone
      BY <1>1, <2>5, <3>1 DEF UserType, UserStatus
    <3> QED BY <1>2, <2>5, <3>2, <3>3
  <2>9. CASE SetStatus(c) /\ call[c].op # "disable"
    <3>1. PICK new : new = [row EXCEPT !.warranted = TRUE] OBVIOUS
    <3>2. user' = [user EXCEPT ![u] = new] BY <2>2, <2>3, <2>4, <2>9, <3>1 DEF SetStatus
    <3>3. new \in UserType /\ new.status = "ACTIVE" /\ new.phone = user[u].phone
      BY <2>6, <3>1 DEF UserType
    <3> QED BY <1>2, <2>5, <3>2, <3>3
  <2> QED BY <1>5, <2>7, <2>8, <2>9
<1>6. ASSUME NEW c \in Calls, SetPassword(c) \/ LogReset(c), user' # user
      PROVE  UsersTyped' /\ \A v \in UserIds : user[v].status # "NONE" => user'[v].status # "NONE"
  <2>1. call[c].user \in UserIds /\ call[c].n \in Nat
    BY <1>6, Field DEF Known, AboutUser, SetPassword, LogReset, CallType
  <2>2. PICK u \in UserIds : u = call[c].user BY <2>1
  <2>3. Exists(u) BY <1>6, <2>2 DEF SetPassword, LogReset
  <2>4. user[u] \in UserType /\ user[u].phone \in Phones
        /\ user[u].status \in {"PENDING_VERIFICATION", "ACTIVE", "DISABLED"}
    BY <1>1, <2>3 DEF Exists, UserType, UserStatus
  <2>5. CASE SetPassword(c)
    <3>1. PICK new : new = [user[u] EXCEPT !.password = @ + 1] OBVIOUS
    <3>2. user' = [user EXCEPT ![u] = new] BY <1>6, <2>2, <2>3, <2>5, <3>1 DEF SetPassword
    <3>3. new \in UserType /\ new.status = user[u].status /\ new.phone = user[u].phone
      BY <2>4, <3>1 DEF UserType
    <3> QED BY <1>2, <2>4, <3>2, <3>3
  <2>6. CASE LogReset(c)
    <3>1. PICK m : m = Max({user[u].settled, call[c].n}) OBVIOUS
    <3>2. m \in Nat
      <4>1. user[u].settled \in Nat BY <2>4 DEF UserType
      <4>2. \A a, b \in Nat : Max({a, b}) \in Nat BY DEF Max
      <4> QED BY <2>1, <3>1, <4>1, <4>2
    <3>3. PICK new : new = [user[u] EXCEPT !.settled = m] OBVIOUS
    <3>4. user' = [user EXCEPT ![u] = new]
      BY <2>2, <2>3, <2>6, <3>1, <3>3 DEF LogReset
    <3>5. new \in UserType /\ new.status = user[u].status /\ new.phone = user[u].phone
      BY <2>4, <3>2, <3>3 DEF UserType
    <3> QED BY <1>2, <2>4, <3>4, <3>5
  <2> QED BY <1>6, <2>5, <2>6
<1>7. CASE DeleteUsers
  <2>1. user' = [u \in UserIds |-> IF u \in job.ids
                   THEN [NoUser EXCEPT !.status = "GONE", !.kept = user[u].kept] ELSE user[u]]
    BY <1>7 DEF DeleteUsers
  <2>2. \A u \in UserIds :
          [NoUser EXCEPT !.status = "GONE", !.kept = user[u].kept] \in UserType
    BY <1>1 DEF NoUser, UserType, UserStatus
  <2>3. \A u \in UserIds : user'[u] = user[u] \/ user'[u].status = "GONE"
    BY <2>1 DEF NoUser
  <2>4. user' \in [UserIds -> UserType] BY <1>1, <2>1, <2>2
  <2> QED BY <1>1, <2>3, <2>4 DEF UsersTyped, Exists
<1> QED BY <1>3, <1>4, <1>5, <1>6, <1>7, UserWriters

LEMMA CodesStayTyped ==
  ASSUME Typed, [Next]_vars
  PROVE  CodesTyped' /\ \A i \in CodeIds : code[i].purpose # NULL => code'[i].purpose # NULL
<1> USE NothingNull
<1>1. code \in [CodeIds -> CodeType] /\ now \in Nat
  BY DEF Typed, Rows, CodesTyped
<1>2. ASSUME NEW i \in CodeIds, NEW row \in CodeType, code' = [code EXCEPT ![i] = row],
             row.purpose = NULL => code[i].purpose = NULL
      PROVE  CodesTyped' /\ \A j \in CodeIds : code[j].purpose # NULL => code'[j].purpose # NULL
  <2>1. code' \in [CodeIds -> CodeType] /\ code'[i] = row
        /\ \A j \in CodeIds : j # i => code'[j] = code[j]
    BY <1>1, <1>2
  <2> QED BY <1>2, <2>1 DEF CodesTyped
<1>3. CASE code' = code BY <1>1, <1>3 DEF CodesTyped
<1>4. ASSUME NEW c \in Calls, CreateCode(c), code' # code
      PROVE  CodesTyped' /\ \A j \in CodeIds : code[j].purpose # NULL => code'[j].purpose # NULL
  <2>1. call[c].phone \in Phones /\ call[c].user \in UserIds /\ call[c].since \in Nat
    BY <1>4, Field DEF Known, AboutPhone, AboutUser, CreateCode, CallType
  <2>2. PICK purpose : purpose = Purpose(c) OBVIOUS
  <2>3. purpose \in OtpPurpose BY <2>2 DEF Purpose, OtpPurpose
  <2>4. PICK row : row = [NoCode EXCEPT !.purpose = purpose, !.phone = call[c].phone,
                            !.user = call[c].user, !.createdAt = now, !.asked = call[c].since]
    OBVIOUS
  <2>5. PICK i \in CodeIds : /\ \A j \in CodeIds : code[j].purpose = NULL <=> j >= i
                             /\ code' = [code EXCEPT ![i] = row]
    BY <1>4, <2>2, <2>4 DEF CreateCode
  <2>6. code[i].purpose = NULL
    <3>1. i >= i BY AccountAssumption DEF CodeIds
    <3> QED BY <2>5, <3>1
  <2>7. row \in CodeType BY <1>1, <2>1, <2>3, <2>4 DEF NoCode, CodeType
  <2> QED BY <1>2, <2>5, <2>6, <2>7
<1>5. ASSUME NEW c \in Calls, SendSms(c) \/ RecordSms(c), code' # code
      PROVE  CodesTyped' /\ \A j \in CodeIds : code[j].purpose # NULL => code'[j].purpose # NULL
  <2>1. call[c].code \in CodeIds BY <1>5, Field DEF Known, AboutCode, SendSms, RecordSms
  <2>2. PICK i \in CodeIds : i = call[c].code BY <2>1
  <2>3. code[i] \in CodeType BY <1>1
  <2>4. CASE SendSms(c)
    <3>1. PICK delivered \in BOOLEAN : code' = [code EXCEPT ![i].delivered = delivered]
      BY <1>5, <2>2, <2>4 DEF SendSms
    <3>2. PICK row : row = [code[i] EXCEPT !.delivered = delivered] OBVIOUS
    <3>3. row \in CodeType /\ row.purpose = code[i].purpose BY <2>3, <3>2 DEF CodeType
    <3>4. code' = [code EXCEPT ![i] = row] BY <3>1, <3>2
    <3> QED BY <1>2, <3>3, <3>4
  <2>5. CASE RecordSms(c)
    <3>1. PICK sms \in {"SENT", "FAILED"} : code' = [code EXCEPT ![i].sms = sms]
      BY <1>5, <2>2, <2>5 DEF RecordSms
    <3>2. PICK row : row = [code[i] EXCEPT !.sms = sms] OBVIOUS
    <3>3. row \in CodeType /\ row.purpose = code[i].purpose BY <2>3, <3>2 DEF CodeType
    <3>4. code' = [code EXCEPT ![i] = row] BY <3>1, <3>2
    <3> QED BY <1>2, <3>3, <3>4
  <2> QED BY <1>5, <2>4, <2>5
<1>6. ASSUME NEW c \in Calls, WrongCode(c), code' # code
      PROVE  CodesTyped' /\ \A j \in CodeIds : code[j].purpose # NULL => code'[j].purpose # NULL
  <2>1. call[c].code \in CodeIds /\ call[c].n \in Nat
    BY <1>6, Field DEF Known, AboutCode, WrongCode, CallType
  <2>2. PICK i \in CodeIds : i = call[c].code BY <2>1
  <2>3. code[i] \in CodeType BY <1>1
  <2>4. PICK n \in Nat : n = call[c].n BY <2>1
  <2>5. PICK missed : missed = Missed(i, n) OBVIOUS
  <2>6. missed \in CodeType /\ missed.purpose = code[i].purpose
    <3>1. PICK used : used = (code[i].consumed \/ n >= MaxAttempts) OBVIOUS
    <3>2. used \in BOOLEAN BY <2>3, <3>1 DEF CodeType
    <3>3. missed = [code[i] EXCEPT !.attempts = n, !.consumed = used]
      BY <2>5, <3>1 DEF Missed
    <3> QED BY <2>3, <3>2, <3>3 DEF CodeType
  <2>7. PICK alone : alone = IF ~call[c].overtaken /\ Tried(i) = {c}
                               THEN missed.alone + 1 ELSE missed.alone
    OBVIOUS
  <2>8. alone \in Nat BY <2>6, <2>7 DEF CodeType
  <2>9. PICK row : row = [missed EXCEPT !.alone = alone] OBVIOUS
  <2>10. row \in CodeType /\ row.purpose = code[i].purpose BY <2>6, <2>8, <2>9 DEF CodeType
  <2>11. code' = [code EXCEPT ![i] = row]
    BY <1>6, <2>2, <2>4, <2>5, <2>7, <2>9 DEF WrongCode
  <2> QED BY <1>2, <2>10, <2>11
<1>7. ASSUME NEW c \in Calls, Consume(c), code' # code
      PROVE  CodesTyped' /\ \A j \in CodeIds : code[j].purpose # NULL => code'[j].purpose # NULL
  <2>1. call[c].code \in CodeIds BY <1>7, Field DEF Known, AboutCode, Consume
  <2>2. PICK i \in CodeIds : i = call[c].code BY <2>1
  <2>3. PICK row : row = [code[i] EXCEPT !.consumed = TRUE] OBVIOUS
  <2>4. row \in CodeType /\ row.purpose = code[i].purpose BY <1>1, <2>3 DEF CodeType
  <2>5. code' = [code EXCEPT ![i] = row] BY <1>7, <2>2, <2>3 DEF Consume
  <2> QED BY <1>2, <2>4, <2>5
<1>8. ASSUME NEW old, code' = [i \in CodeIds |-> IF i \in old THEN Deleted(i) ELSE code[i]]
      PROVE  CodesTyped' /\ \A j \in CodeIds : code[j].purpose # NULL => code'[j].purpose # NULL
  <2>1. \A i \in CodeIds : Deleted(i) \in CodeType /\ Deleted(i).purpose = code[i].purpose
    BY <1>1 DEF Deleted, NoCode, CodeType
  <2> QED BY <1>1, <1>8, <2>1 DEF CodesTyped
<1>9. CASE DeleteCodes \/ DeleteUsers
  <2> DEFINE old == {i \in CodeIds : code[i].user \in job.ids}
  <2>1. code' = [i \in CodeIds |-> IF i \in old THEN Deleted(i) ELSE code[i]]
    BY <1>9 DEF DeleteCodes, DeleteUsers
  <2> QED BY <1>8, <2>1
<1>10. CASE CleanupOtps BY <1>8, <1>10 DEF CleanupOtps
<1> QED BY <1>3, <1>4, <1>5, <1>6, <1>7, <1>9, <1>10, CodeWriters

LEMMA TokensStayTyped ==
  ASSUME Typed, [Next]_vars
  PROVE  TokensTyped' /\ \A t \in Tokens : token[t].session # NULL => token'[t].session # NULL
<1> USE NothingNull
<1> DEFINE Fine(r) ==
      r \in TokenType /\ (r.user # NULL => r.session # NULL /\ user[r.user].status # "NONE")
<1>1. now \in Nat /\ token \in [Tokens -> TokenType] /\ \A t \in Tokens : Fine(token[t])
  BY DEF Typed, Rows, TokensTyped
<1>0. now + TokenTTL \in Nat
  <2>1. TokenTTL \in Nat BY AccountAssumption
  <2> QED BY <1>1, <2>1
<1>2. ASSUME token' \in [Tokens -> TokenType],
             \A t \in Tokens : /\ Fine(token'[t])
                               /\ token[t].session # NULL => token'[t].session # NULL
      PROVE  TokensTyped' /\ \A t \in Tokens : token[t].session # NULL => token'[t].session # NULL
  BY <1>2, UsersStayTyped DEF TokensTyped, TokenType
<1>3. CASE token' = token BY <1>1, <1>2, <1>3
<1>4. ASSUME NEW c \in Calls, Issue(c), token' # token
      PROVE  TokensTyped' /\ \A t \in Tokens : token[t].session # NULL => token'[t].session # NULL
  <2>1. call[c].user \in UserIds /\ call[c].n \in Nat /\ call[c].overtaken \in BOOLEAN
        /\ user[call[c].user].status # "NONE"
    BY <1>4, Field DEF Known, AboutUser, Issue, CallType
  <2>2. PICK t \in NewTokens :
          token' = [token EXCEPT ![t] = [FirstToken(t, call[c].user, call[c].n) EXCEPT
                                           !.overtaken = call[c].overtaken]]
    BY <1>4 DEF Issue
  <2>3. t \in Tokens BY <2>2 DEF NewTokens
  <2>4. PICK first : first = FirstToken(t, call[c].user, call[c].n) OBVIOUS
  <2>5. PICK ends \in Nat : ends = now + TokenTTL BY <1>0
  <2>6. first = [NoToken EXCEPT !.user = call[c].user, !.expiresAt = ends, !.session = t,
                                !.password = call[c].n]
    BY <2>4, <2>5 DEF FirstToken
  <2>7. first \in TokenType /\ first.session = t /\ first.user = call[c].user
    BY <2>1, <2>3, <2>5, <2>6 DEF NoToken, TokenType
  <2>8. PICK row : row = [first EXCEPT !.overtaken = call[c].overtaken] OBVIOUS
  <2>9. row \in TokenType /\ row.session = t /\ row.user = call[c].user
    BY <2>1, <2>7, <2>8 DEF TokenType
  <2>10. token' = [token EXCEPT ![t] = row] BY <2>2, <2>4, <2>8
  <2>11. t # NULL BY <2>3
  <2>12. token' \in [Tokens -> TokenType] /\ token'[t] = row
         /\ \A s \in Tokens : s # t => token'[s] = token[s]
    BY <1>1, <2>3, <2>9, <2>10
  <2> QED BY <1>1, <1>2, <2>1, <2>9, <2>11, <2>12
<1>5. ASSUME NEW u, RevokeTokens(u)
      PROVE  TokensTyped' /\ \A t \in Tokens : token[t].session # NULL => token'[t].session # NULL
  <2>1. token' = [t \in Tokens |-> IF t \in {s \in Tokens : token[s].user = u}
                    THEN [token[t] EXCEPT !.revoked = TRUE] ELSE token[t]]
    BY <1>5 DEF RevokeTokens
  <2>2. \A t \in Tokens : LET r == [token[t] EXCEPT !.revoked = TRUE] IN
          r \in TokenType /\ r.user = token[t].user /\ r.session = token[t].session
    BY <1>1 DEF TokenType
  <2>3. token' \in [Tokens -> TokenType] BY <1>1, <2>1, <2>2
  <2>4. \A t \in Tokens : token'[t].user = token[t].user /\ token'[t].session = token[t].session
    BY <2>1, <2>2
  <2> QED BY <1>1, <1>2, <2>3, <2>4
<1>6. ASSUME NEW c \in Calls, Rotate(c), token' # token
      PROVE  TokensTyped' /\ \A t \in Tokens : token[t].session # NULL => token'[t].session # NULL
  <2>1. call[c].token \in Tokens /\ token[call[c].token].session # NULL
        /\ call[c].overtaken \in BOOLEAN
    BY <1>6, Field DEF Known, AboutToken, Rotate, CallType
  <2>2. PICK old \in Tokens : old = call[c].token BY <2>1
  <2>3. PICK mark \in BOOLEAN : mark = (token[old].overtaken \/ call[c].overtaken)
    <3>1. token[old].overtaken \in BOOLEAN BY <1>1 DEF TokenType
    <3> QED BY <2>1, <3>1
  <2>4. PICK ends \in Nat : ends = now + TokenTTL BY <1>0
  <2>5. PICK new : new = [token[old] EXCEPT !.revoked = FALSE, !.expiresAt = ends,
                                            !.replacedBy = NULL, !.overtaken = mark]
    OBVIOUS
  <2>6. PICK t \in NewTokens :
          token' = [token EXCEPT ![old].revoked = TRUE, ![old].replacedBy = t, ![t] = new]
    BY <1>6, <2>2, <2>3, <2>4, <2>5 DEF Rotate
  <2>7. t \in Tokens /\ t # old BY <2>1, <2>2, <2>6 DEF NewTokens
  <2>8. new \in TokenType /\ new.session = token[old].session /\ new.user = token[old].user
    BY <1>1, <2>5 DEF TokenType
  <2>9. PICK row : row = [token[old] EXCEPT !.revoked = TRUE, !.replacedBy = t] OBVIOUS
  <2>10. row \in TokenType /\ row.session = token[old].session /\ row.user = token[old].user
    BY <1>1, <2>7, <2>9 DEF TokenType
  <2>11. token' = [token EXCEPT ![old] = row, ![t] = new] BY <1>1, <2>6, <2>9
  <2>12. token' \in [Tokens -> TokenType] /\ token'[t] = new /\ token'[old] = row
         /\ \A s \in Tokens : s \notin {old, t} => token'[s] = token[s]
    BY <1>1, <2>7, <2>8, <2>10, <2>11
  <2> QED BY <1>1, <1>2, <2>1, <2>2, <2>8, <2>10, <2>12
<1>7. ASSUME NEW c \in Calls, Drop(c)
      PROVE  TokensTyped' /\ \A t \in Tokens : token[t].session # NULL => token'[t].session # NULL
  <2>1. call[c].token \in Tokens
    BY <1>7, Field DEF Known, AboutToken, Drop
  <2>2. PICK old \in Tokens : old = call[c].token BY <2>1
  <2>3. PICK revoked : revoked = (token[old].revoked \/ token[old].user # NULL) OBVIOUS
  <2>4. revoked \in BOOLEAN BY <1>1, <2>3 DEF TokenType
  <2>5. PICK row : row = [token[old] EXCEPT !.revoked = revoked] OBVIOUS
  <2>6. row \in TokenType /\ row.user = token[old].user /\ row.session = token[old].session
    BY <1>1, <2>4, <2>5 DEF TokenType
  <2>7. token' = [token EXCEPT ![old] = row] BY <1>1, <1>7, <2>2, <2>3, <2>5 DEF Drop
  <2>8. token' \in [Tokens -> TokenType] /\ token'[old] = row
        /\ \A s \in Tokens : s # old => token'[s] = token[s]
    BY <1>1, <2>6, <2>7
  <2> QED BY <1>1, <1>2, <2>6, <2>8
<1>8. ASSUME NEW old, token' = [t \in Tokens |-> IF t \in old THEN Dropped(t) ELSE token[t]]
      PROVE  TokensTyped' /\ \A t \in Tokens : token[t].session # NULL => token'[t].session # NULL
  <2>1. \A t \in Tokens : Dropped(t) \in TokenType /\ Dropped(t).user = NULL
                          /\ Dropped(t).session = token[t].session
    BY <1>1 DEF Dropped, NoToken, TokenType
  <2>2. token' \in [Tokens -> TokenType] BY <1>1, <1>8, <2>1
  <2> QED BY <1>1, <1>2, <1>8, <2>1, <2>2
<1>9. CASE DeleteUsers
  <2> DEFINE old == {t \in Tokens : token[t].user \in job.ids}
  <2>1. token' = [t \in Tokens |-> IF t \in old THEN Dropped(t) ELSE token[t]]
    BY <1>9 DEF DeleteUsers
  <2> QED BY <1>8, <2>1
<1>10. CASE CleanupTokens BY <1>8, <1>10 DEF CleanupTokens
<1>11. ASSUME NEW c \in Calls, RevokeAll(c) \/ Revoke(c) PROVE RevokeTokens(call[c].user)
  BY <1>11 DEF RevokeAll, Revoke
<1> QED BY <1>3, <1>4, <1>5, <1>6, <1>7, <1>9, <1>10, <1>11, TokenWriters

LEMMA RequestsGoUp ==
  ASSUME Typed, [Next]_vars
  PROVE  requests' \in Nat /\ requests <= requests'
<1>1. requests \in Nat BY DEF Typed, Rows
<1>2. ASSUME NEW c \in Calls, Request(c) PROVE requests' = requests + 1
  <2>1. ASSUME NEW op, NEW next, Arrive(c, op, next) PROVE requests' = requests + 1
    BY <2>1 DEF Arrive
  <2>2. ASSUME NEW p \in Phones, Register(c, p) PROVE requests' = requests + 1
    BY <2>1, <2>2 DEF Register
  <2>3. ASSUME NEW p \in Phones,
               \/ ForgotPassword(c, p) \/ CreateUser(c, p)
               \/ \E typed \in Spellings : LoginArrives(c, p, typed)
        PROVE  requests' = requests + 1
    BY <2>1, <2>3 DEF ForgotPassword, LoginArrives, CreateUser
  <2>4. ASSUME NEW p \in Phones, NEW op, NEW purpose, NEW right \in BOOLEAN,
               PresentCode(c, op, purpose, p, right)
        PROVE  requests' = requests + 1
    BY <2>1, <2>4 DEF PresentCode
  <2>5. ASSUME NEW u \in UserIds, NEW op, FindTarget(c, op, u) PROVE requests' = requests + 1
    BY <2>1, <2>5 DEF FindTarget
  <2>6. ASSUME NEW t \in Tokens, Refresh(c, t) \/ Logout(c, t) PROVE requests' = requests + 1
    BY <2>1, <2>6 DEF Refresh, Logout
  <2> QED BY <1>2, <2>2, <2>3, <2>4, <2>5, <2>6 DEF Request
<1>3. ASSUME NEW c \in Calls, Continue(c) PROVE requests' = requests
  <2>1. ASSUME NEW next, Goto(c, next) PROVE requests' = requests BY <2>1 DEF Goto
  <2>2. CASE \/ Create(c) \/ Cooldown(c) \/ CreateCode(c) \/ SendSms(c) \/ RecordSms(c)
             \/ WrongCode(c) \/ Consume(c) \/ FindUser(c) \/ Activate(c)
    BY <2>1, <2>2 DEF Create, Cooldown, CreateCode, SendSms, RecordSms, WrongCode, Consume,
                      FindUser, Activate
  <2>3. CASE \/ LogLockout(c) \/ FindLogin(c) \/ LogFailure(c) \/ LogSuccess(c) \/ Issue(c)
             \/ RevokeAll(c) \/ Rotate(c) \/ Drop(c) \/ LogLogout(c)
    BY <2>1, <2>3 DEF LogLockout, FindLogin, LogFailure, LogSuccess, Issue, RevokeAll,
                      Rotate, Drop, LogLogout
  <2>4. CASE SetPassword(c) \/ Revoke(c) \/ LogReset(c) \/ SetStatus(c) \/ Fail(c)
    BY <2>1, <2>4 DEF SetPassword, Revoke, LogReset, SetStatus, Fail
  <2> QED BY <1>3, <2>2, <2>3, <2>4 DEF Continue
<1>4. ASSUME Cleanup \/ Tick \/ UNCHANGED vars PROVE requests' = requests
  BY <1>4 DEF Cleanup, FindStale, DeleteCodes, DeleteWallets, DeleteUsers, JobFails,
              CleanupOtps, CleanupTokens, Tick, vars
<1> QED BY <1>1, <1>2, <1>3, <1>4 DEF Next

LEMMA ClockGoesOn ==
  ASSUME Typed, [Next]_vars
  PROVE  now' \in Nat /\ now <= now'
<1>1. now \in Nat BY DEF Typed, Rows
<1>2. CASE Tick BY <1>1, <1>2 DEF Tick
<1>3. ASSUME NEW c \in Calls, Request(c) \/ Continue(c) PROVE now' = now
  BY <1>3 DEF Request, Register, ForgotPassword, LoginArrives, CreateUser, PresentCode,
              FindTarget, Refresh, Logout,
              Continue, Create, Cooldown, CreateCode, SendSms, RecordSms, WrongCode,
              Consume, FindUser, Activate, LogLockout, FindLogin, LogFailure, LogSuccess,
              Issue, RevokeAll, Rotate, Drop, LogLogout, SetPassword, Revoke, LogReset,
              SetStatus, Fail
<1>4. ASSUME Cleanup \/ UNCHANGED vars PROVE now' = now
  BY <1>4 DEF Cleanup, FindStale, DeleteCodes, DeleteWallets, DeleteUsers, JobFails,
              CleanupOtps, CleanupTokens, vars
<1> QED BY <1>1, <1>2, <1>3, <1>4 DEF Next

\* Who changes wallets and the job.
LEMMA JobSteps ==
  ASSUME [Next]_vars
  PROVE  \/ wallets' = wallets /\ job' = job
         \/ \E c \in Calls : Create(c)
         \/ FindStale \/ DeleteCodes \/ DeleteWallets \/ DeleteUsers \/ JobFails
<1>1. ASSUME NEW c \in Calls, Request(c) \/ Continue(c)
      PROVE  (wallets' = wallets /\ job' = job) \/ Create(c)
  BY <1>1 DEF Request, Register, ForgotPassword, LoginArrives, CreateUser, PresentCode,
              FindTarget, Refresh, Logout,
              Continue, Cooldown, CreateCode, SendSms, RecordSms, WrongCode,
              Consume, FindUser, Activate, LogLockout, FindLogin, LogFailure, LogSuccess,
              Issue, RevokeAll, Rotate, Drop, LogLogout, SetPassword, Revoke, LogReset,
              SetStatus, Fail
<1>2. ASSUME CleanupOtps \/ CleanupTokens \/ Tick \/ UNCHANGED vars
      PROVE  wallets' = wallets /\ job' = job
  BY <1>2 DEF CleanupOtps, CleanupTokens, Tick, vars
<1> QED BY <1>1, <1>2 DEF Next, Cleanup

LEMMA JobStaysTyped ==
  ASSUME Typed, [Next]_vars
  PROVE  job' \in Job /\ wallets' \in SUBSET UserIds
<1>1. job \in Job /\ wallets \in SUBSET UserIds BY DEF Typed, Rows
<1>2. ASSUME NEW c \in Calls, Create(c) PROVE job' \in Job /\ wallets' \in SUBSET UserIds
  BY <1>1, <1>2 DEF Create
<1>3. CASE FindStale BY <1>1, <1>3 DEF FindStale, Stale, Job
<1>4. CASE DeleteCodes
  <2>1. PICK row : row = [job EXCEPT !.pc = "wallets"] OBVIOUS
  <2>2. row \in Job BY <1>1, <2>1 DEF Job
  <2> QED BY <1>1, <1>4, <2>1, <2>2 DEF DeleteCodes
<1>5. CASE DeleteWallets
  <2>1. PICK row : row = [job EXCEPT !.pc = "users"] OBVIOUS
  <2>2. row \in Job BY <1>1, <2>1 DEF Job
  <2>3. wallets' = wallets \ job.ids /\ job' = row BY <1>5, <2>1 DEF DeleteWallets
  <2> QED BY <1>1, <2>2, <2>3
<1>6. CASE DeleteUsers \/ JobFails
  <2>1. NoJob \in Job BY DEF NoJob, Job
  <2>2. job' = NoJob /\ (wallets' = wallets \/ wallets' = wallets \ job.ids)
    BY <1>6 DEF DeleteUsers, JobFails
  <2> QED BY <1>1, <2>1, <2>2
<1> QED BY <1>1, <1>2, <1>3, <1>4, <1>5, <1>6, JobSteps

LEMMA Logged ==
  ASSUME Typed, NEW c \in Calls, NEW type \in AuthEventType, NEW p \in Phones,
         Log(c, type, p)
  PROVE  events' \in Seq(EventType)
<1>1. /\ now \in Nat /\ call[c].since \in Nat /\ call[c].at \in Nat
      /\ call[c].typed \in Spellings \cup {NULL} /\ events \in Seq(EventType)
  BY Field DEF Typed, Rows, CallType
<1>2. PICK row : row = [type |-> type, phone |-> p, typed |-> call[c].typed, at |-> now,
                        since |-> call[c].since, then |-> call[c].at]
  OBVIOUS
<1>3. row \in EventType BY <1>1, <1>2 DEF EventType
<1>4. events' = Append(events, row) BY <1>2 DEF Log
<1> QED BY <1>1, <1>3, <1>4

LEMMA EventsStayTyped ==
  ASSUME Typed, [Next]_vars
  PROVE  events' \in Seq(EventType)
<1>1. events \in Seq(EventType) BY DEF Typed, Rows
<1>2. CASE events' = events BY <1>1, <1>2
<1>3. ASSUME NEW c \in Calls, LogLockout(c) \/ LogFailure(c) \/ LogSuccess(c)
      PROVE  events' \in Seq(EventType)
  <2>1. call[c].phone \in Phones
    BY <1>3, Field DEF Known, AboutPhone, LogLockout, LogFailure, LogSuccess
  <2>2. \/ events' = events
        \/ \E type \in AuthEventType : Log(c, type, call[c].phone)
    BY <1>3 DEF LogLockout, LogFailure, LogSuccess, AuthEventType
  <2> QED BY <1>2, <2>1, <2>2, Logged
<1>4. ASSUME NEW c \in Calls, LogLogout(c) \/ LogReset(c)
      PROVE  events' \in Seq(EventType)
  <2>1. call[c].user \in UserIds
    BY <1>4, Field DEF Known, AboutUser, LogLogout, LogReset
  <2>2. Exists(call[c].user) => user[call[c].user].phone \in Phones
    BY <2>1 DEF Typed, Rows, UsersTyped
  <2>3. \/ events' = events
        \/ Exists(call[c].user) /\ \E type \in AuthEventType :
             Log(c, type, user[call[c].user].phone)
    BY <1>4 DEF LogLogout, LogReset, LogFor, AuthEventType
  <2> QED BY <1>2, <2>2, <2>3, Logged
<1>5. ASSUME NEW c \in Calls, Request(c) PROVE events' = events
  BY <1>5 DEF Request, Register, ForgotPassword, LoginArrives, CreateUser, PresentCode,
              FindTarget, Refresh, Logout
<1>6. ASSUME NEW c \in Calls, Continue(c)
      PROVE  \/ events' = events \/ LogLockout(c) \/ LogFailure(c) \/ LogSuccess(c)
             \/ LogLogout(c) \/ LogReset(c)
  BY <1>6 DEF Continue, Create, Cooldown, CreateCode, SendSms, RecordSms, WrongCode,
              Consume, FindUser, Activate, FindLogin, Issue, RevokeAll, Rotate, Drop,
              SetPassword, Revoke, SetStatus, Fail
<1>7. ASSUME Cleanup \/ Tick \/ UNCHANGED vars PROVE events' = events
  BY <1>7 DEF Cleanup, FindStale, DeleteCodes, DeleteWallets, DeleteUsers, JobFails,
              CleanupOtps, CleanupTokens, Tick, vars
<1> QED BY <1>2, <1>3, <1>4, <1>5, <1>6, <1>7 DEF Next

-----------------------------------------------------------------------------
(* The handlers go on knowing what they need *)

LEMMA StillKnown ==
  ASSUME IdsStay, NEW r, Known(r)
  PROVE  Known(r)'
BY DEF Known, IdsStay

LEMMA IdleIsKnown == Known(Idle) /\ Known(Idle)'
<1>1. Idle \in CallType /\ Idle.pc = "idle" BY DEF Idle, CallType, Pcs
<1> QED BY <1>1 DEF Known, AboutUser, AboutPhone, AboutCode, AboutToken

\* One handler goes on, the others stay where they are.
LEMMA OneIsKnown ==
  ASSUME Typed, IdsStay, NEW c \in Calls, NEW next,
         call' = [call EXCEPT ![c] = next], Known(next)'
  PROVE  CallsKnown'
<1>1. DOMAIN call = Calls /\ \A d \in Calls : Known(call[d]) BY DEF Typed, CallsKnown
<1>2. \A d \in Calls : Known(call[d])' BY <1>1, StillKnown
<1> QED BY <1>1, <1>2 DEF CallsKnown

LEMMA ArrivedKnown ==
  ASSUME Typed, IdsStay, NEW c \in Calls, NEW op \in Handlers, NEW next,
         Arrive(c, op, next), Known(next)'
  PROVE  CallsKnown'
<1>1. PICK r : r = [next EXCEPT !.op = op] OBVIOUS
<1>2. next \in CallType BY DEF Known
<1>3. r \in CallType /\ r.pc = next.pc /\ r.user = next.user /\ r.phone = next.phone
      /\ r.code = next.code /\ r.token = next.token
  BY <1>1, <1>2 DEF CallType
<1>4. Known(r)' BY <1>3 DEF Known
<1>5. call' = [call EXCEPT ![c] = r] BY <1>1 DEF Arrive
<1> QED BY <1>4, <1>5, OneIsKnown

\* Some handlers are overtaken, and one goes on.
LEMMA OvertakenKnown ==
  ASSUME Typed, IdsStay, NEW c \in Calls, NEW next, Known(next)', NEW marked,
         call' = [d \in Calls |-> IF d = c THEN next
                                  ELSE IF d \in marked THEN [call[d] EXCEPT !.overtaken = TRUE]
                                  ELSE call[d]]
  PROVE  CallsKnown'
<1>1. DOMAIN call' = Calls /\ call' = [d \in Calls |-> call'[d]] OBVIOUS
<1>2. ASSUME NEW d \in Calls PROVE Known(call[d])'
  <2>1. PICK old : old = call[d] OBVIOUS
  <2>2. Known(old) /\ Known(old)' /\ old \in CallType
    BY <2>1, Field, StillKnown DEF Known
  <2>3. PICK r : r = [old EXCEPT !.overtaken = TRUE] OBVIOUS
  <2>4. r \in CallType /\ r.pc = old.pc /\ r.user = old.user /\ r.phone = old.phone
        /\ r.code = old.code /\ r.token = old.token
    BY <2>2, <2>3 DEF CallType
  <2>5. Known(r)' BY <2>2, <2>4 DEF Known
  <2>6. call'[d] \in {next, old, r} BY <2>1, <2>3
  <2> QED BY <2>2, <2>5, <2>6
<1> QED BY <1>1, <1>2 DEF CallsKnown

LEMMA RequestsKnown ==
  ASSUME Typed, NEW c \in Calls, Request(c), IdsStay
  PROVE  CallsKnown'
<1> USE NothingNull DEF AboutUser, AboutPhone, AboutCode, AboutToken
<1>1. Idle \in CallType BY DEF Idle, CallType, Pcs
<1>2. /\ requests \in Nat /\ now \in Nat /\ events \in Seq(EventType) /\ Len(events) \in Nat
      /\ code \in [CodeIds -> CodeType] /\ token \in [Tokens -> TokenType]
      /\ \A t \in Tokens : token[t].user # NULL =>
           token[t].session # NULL /\ user[token[t].user].status # "NONE"
  BY DEF Typed, Rows, CodesTyped, TokensTyped
<1>3. \A p : \A u \in Account(p) : u \in UserIds /\ user[u].status # "NONE"
  BY DEF Account, Exists
<1>4. ASSUME NEW p \in Phones, Register(c, p) PROVE CallsKnown'
  <2>1. UNCHANGED <<user, code, token>> BY <1>4 DEF Register
  <2>0. PICK since \in Nat : since = requests + 1 BY <1>2
  <2>2. PICK start : start = [Idle EXCEPT !.phone = p, !.since = since] OBVIOUS
  <2>3. start \in CallType /\ start.phone = p
    BY <1>1, <2>2 DEF CallType
  <2>4. CASE Arrive(c, "register", [start EXCEPT !.pc = "create"])
    <3>1. PICK r : r = [start EXCEPT !.pc = "create"] OBVIOUS
    <3>2. r \in CallType /\ r.pc = "create" /\ r.phone = p
      BY <2>3, <3>1 DEF CallType, Pcs
    <3>3. Known(r)' BY <3>2 DEF Known
    <3> QED BY <2>4, <3>1, <3>3, ArrivedKnown DEF Handlers
  <2>5. ASSUME NEW u \in Account(p),
               Arrive(c, "register", [start EXCEPT !.pc = "cooldown", !.user = u])
        PROVE  CallsKnown'
    <3>1. PICK r : r = [start EXCEPT !.pc = "cooldown", !.user = u] OBVIOUS
    <3>2. r \in CallType /\ r.pc = "cooldown" /\ r.phone = p /\ r.user = u
      BY <1>3, <2>3, <3>1 DEF CallType, Pcs
    <3>3. Known(r)' BY <1>3, <2>1, <3>2 DEF Known
    <3> QED BY <2>5, <3>1, <3>3, ArrivedKnown DEF Handlers
  <2> QED BY <1>4, <2>0, <2>2, <2>4, <2>5 DEF Register
<1>5. ASSUME NEW p \in Phones, ForgotPassword(c, p) PROVE CallsKnown'
  <2>1. UNCHANGED <<user, code, token>> BY <1>5 DEF ForgotPassword
  <2>0. PICK since \in Nat : since = requests + 1 BY <1>2
  <2>2. PICK u \in Account(p) :
          Arrive(c, "forgot", [Idle EXCEPT !.pc = "cooldown", !.phone = p, !.user = u,
                                           !.since = since])
    BY <1>5, <2>0 DEF ForgotPassword
  <2>3. PICK r : r = [Idle EXCEPT !.pc = "cooldown", !.phone = p, !.user = u,
                                  !.since = since]
    OBVIOUS
  <2>4. r \in CallType /\ r.pc = "cooldown" /\ r.phone = p /\ r.user = u
    BY <1>1, <1>3, <2>3 DEF CallType, Pcs
  <2>5. Known(r)' BY <1>3, <2>1, <2>4 DEF Known
  <2> QED BY <2>2, <2>3, <2>5, ArrivedKnown DEF Handlers
<1>6. ASSUME NEW p \in Phones, NEW typed \in Spellings, LoginArrives(c, p, typed)
      PROVE  CallsKnown'
  <2>0. PICK since \in Nat, at \in Nat, trimmed \in Spellings :
          since = Len(events) /\ at = now /\ trimmed = Trim[typed]
    BY <1>2, AccountAssumption
  <2>1. PICK r : /\ Arrive(c, "login", r)
                 /\ \/ r = [Idle EXCEPT !.pc = "lockout", !.phone = p, !.typed = trimmed]
                    \/ r = [Idle EXCEPT !.pc = "find", !.phone = p, !.typed = typed,
                                        !.since = since, !.at = at]
    BY <1>6, <2>0 DEF LoginArrives
  <2>2. r \in CallType /\ r.pc \in {"lockout", "find"} /\ r.phone = p
    <3>1. CASE r = [Idle EXCEPT !.pc = "lockout", !.phone = p, !.typed = trimmed]
      BY <1>1, <3>1 DEF CallType, Pcs
    <3>2. CASE r = [Idle EXCEPT !.pc = "find", !.phone = p, !.typed = typed,
                                !.since = since, !.at = at]
      BY <1>1, <3>2 DEF CallType, Pcs
    <3> QED BY <2>1, <3>1, <3>2
  <2>3. Known(r)' BY <2>2 DEF Known
  <2> QED BY <2>1, <2>3, ArrivedKnown DEF Handlers
<1>7. ASSUME NEW p \in Phones, CreateUser(c, p) PROVE CallsKnown'
  <2>1. PICK r : r = [Idle EXCEPT !.pc = "create", !.phone = p] OBVIOUS
  <2>2. r \in CallType /\ r.pc = "create" /\ r.phone = p
    BY <1>1, <2>1 DEF CallType, Pcs
  <2>3. Known(r)' BY <2>2 DEF Known
  <2> QED BY <1>7, <2>1, <2>3, ArrivedKnown DEF CreateUser, Handlers
<1>8. ASSUME NEW p \in Phones, NEW op \in {"verify", "reset"}, NEW purpose \in OtpPurpose,
             NEW right \in BOOLEAN, PresentCode(c, op, purpose, p, right)
      PROVE  CallsKnown'
  <2>1. PICK i : i = Latest(Open(p, purpose)) OBVIOUS
  <2>2. i \in CodeIds /\ code[i].purpose = purpose /\ UNCHANGED <<user, code, token>>
    <3>1. Open(p, purpose) \in SUBSET CodeIds /\ Open(p, purpose) # {}
      BY <1>8 DEF PresentCode, Open, CodesOf
    <3>2. i \in Open(p, purpose) BY <2>1, <3>1, LatestIsThere
    <3> QED BY <1>8, <3>2 DEF Open, CodesOf, PresentCode
  <2>3. PICK late : late = (Tried(i) # {}) OBVIOUS
  <2>4. PICK n : n = code[i].attempts + 1 OBVIOUS
  <2>5. late \in BOOLEAN /\ n \in Nat BY <1>2, <2>2, <2>3, <2>4 DEF CodeType
  <2>6. PICK r : /\ Arrive(c, op, r)
                 /\ \/ r = [Idle EXCEPT !.pc = "consume", !.phone = p, !.code = i]
                    \/ r = [Idle EXCEPT !.pc = "wrong", !.phone = p, !.code = i,
                                        !.n = n, !.overtaken = late]
    BY <1>8, <2>1, <2>3, <2>4 DEF PresentCode
  <2>7. r \in CallType /\ r.pc \in {"consume", "wrong"} /\ r.phone = p /\ r.code = i
    <3>1. CASE r = [Idle EXCEPT !.pc = "consume", !.phone = p, !.code = i]
      BY <1>1, <2>2, <3>1 DEF CallType, Pcs
    <3>2. CASE r = [Idle EXCEPT !.pc = "wrong", !.phone = p, !.code = i, !.n = n,
                                !.overtaken = late]
      BY <1>1, <2>2, <2>5, <3>2 DEF CallType, Pcs
    <3> QED BY <2>6, <3>1, <3>2
  <2>8. code'[i].purpose # NULL
    BY <2>2, PurposeAssumption
  <2>9. Known(r)' BY <2>2, <2>7, <2>8 DEF Known
  <2> QED BY <2>6, <2>9, ArrivedKnown DEF Handlers
<1>9. ASSUME NEW u \in UserIds, NEW op \in {"disable", "enable"}, FindTarget(c, op, u)
      PROVE  CallsKnown'
  <2>1. PICK r : r = [Idle EXCEPT !.pc = "setStatus", !.user = u] OBVIOUS
  <2>2. r \in CallType /\ r.pc = "setStatus" /\ r.user = u
    BY <1>1, <2>1 DEF CallType, Pcs
  <2>3. user[u].status # "NONE" /\ user' = user BY <1>9 DEF FindTarget, Exists
  <2>4. Known(r)' BY <2>2, <2>3 DEF Known
  <2> QED BY <1>9, <2>1, <2>4, ArrivedKnown DEF FindTarget, Handlers
<1>10. ASSUME NEW t \in Tokens, Refresh(c, t) \/ Logout(c, t) PROVE CallsKnown'
  <2>1. token[t].user # NULL /\ UNCHANGED <<user, code, token>>
    BY <1>10 DEF Refresh, Logout
  <2>2. PICK u : u = token[t].user OBVIOUS
  <2>3. u \in UserIds /\ token[t].session # NULL /\ user[u].status # "NONE"
    BY <1>2, <2>1, <2>2 DEF TokenType
  <2>4. ASSUME NEW pc \in {"revokeAll", "rotate", "drop"}, NEW op \in {"refresh", "logout"},
               Arrive(c, op, [Idle EXCEPT !.pc = pc, !.token = t, !.user = u])
        PROVE  CallsKnown'
    <3>1. PICK r : r = [Idle EXCEPT !.pc = pc, !.token = t, !.user = u] OBVIOUS
    <3>2. r \in CallType /\ r.pc = pc /\ r.user = u /\ r.token = t
      BY <1>1, <2>3, <3>1 DEF CallType, Pcs
    <3>3. Known(r)' BY <2>1, <2>3, <3>2 DEF Known
    <3> QED BY <2>4, <3>1, <3>3, ArrivedKnown DEF Handlers
  <2>5. CASE Refresh(c, t) /\ token[t].revoked BY <2>2, <2>4, <2>5 DEF Refresh
  <2>6. CASE Refresh(c, t) /\ ~token[t].revoked /\ token[t].expiresAt <= now
    BY <2>6 DEF Refresh, Arrive
  <2>7. CASE Refresh(c, t) /\ ~token[t].revoked /\ ~(token[t].expiresAt <= now)
    BY <2>2, <2>4, <2>7 DEF Refresh
  <2>8. CASE Logout(c, t) BY <2>2, <2>4, <2>8 DEF Logout
  <2> QED BY <1>10, <2>5, <2>6, <2>7, <2>8
<1> QED BY <1>4, <1>5, <1>6, <1>7, <1>8, <1>9, <1>10 DEF Request, OtpPurpose

\* A handler that goes on knows what it knew: where it goes on it needs no more.
LEMMA GoingOnKnown ==
  ASSUME Typed, IdsStay, NEW c \in Calls, NEW r, Goto(c, r),
         r = Idle \/ (r \in CallType /\ Known(r)')
  PROVE  CallsKnown'
<1>1. Known(r)' BY IdleIsKnown
<1>2. call' = [call EXCEPT ![c] = r] BY DEF Goto
<1> QED BY <1>1, <1>2, OneIsKnown

LEMMA CodesGoOnKnown ==
  ASSUME Typed, NEW c \in Calls, IdsStay,
         \/ Create(c) \/ Cooldown(c) \/ CreateCode(c) \/ SendSms(c) \/ RecordSms(c)
         \/ WrongCode(c) \/ Consume(c) \/ FindUser(c) \/ Activate(c)
  PROVE  CallsKnown'
<1> USE NothingNull DEF AboutUser, AboutPhone, AboutCode, AboutToken
<1>1. PICK old : old = call[c] OBVIOUS
<1>2. old \in CallType /\ Known(old) /\ Known(old)' BY <1>1, Field, StillKnown
<1>3. \A u \in Account(old.phone) : u \in UserIds /\ user[u].status # "NONE"
  BY DEF Account, Exists
<1>4. CASE Goto(c, Idle) BY <1>4, GoingOnKnown
<1>5. CASE Create(c) /\ ~Goto(c, Idle)
  <2>1. PICK u \in UserIds :
          /\ user[u].status = "NONE"
          /\ user' = [user EXCEPT ![u] =
                  [NoUser EXCEPT !.status = "PENDING_VERIFICATION",
                                 !.phone = old.phone, !.createdAt = now]]
          /\ Goto(c, IF old.op = "createUser"
                       THEN [old EXCEPT !.pc = "setStatus", !.user = u]
                       ELSE [old EXCEPT !.pc = "createCode", !.user = u])
    BY <1>1, <1>5 DEF Create
  <2>2. user'[u].status # "NONE"
    <3>1. DOMAIN user = UserIds BY DEF Typed, Rows, UsersTyped
    <3> QED BY <2>1, <3>1 DEF NoUser
  <2>3. PICK r : /\ Goto(c, r)
                 /\ \/ r = [old EXCEPT !.pc = "setStatus", !.user = u]
                    \/ r = [old EXCEPT !.pc = "createCode", !.user = u]
    BY <2>1
  <2>4. r \in CallType /\ r.pc \in {"setStatus", "createCode"} /\ r.user = u
        /\ r.phone = old.phone
    <3>1. CASE r = [old EXCEPT !.pc = "setStatus", !.user = u]
      BY <1>2, <2>1, <3>1 DEF CallType, Pcs
    <3>2. CASE r = [old EXCEPT !.pc = "createCode", !.user = u]
      BY <1>2, <2>1, <3>2 DEF CallType, Pcs
    <3> QED BY <2>3, <3>1, <3>2
  <2>5. old.phone \in Phones BY <1>1, <1>2, <1>5 DEF Create, Known
  <2>6. Known(r)' BY <2>2, <2>4, <2>5 DEF Known
  <2> QED BY <2>3, <2>4, <2>6, GoingOnKnown
<1>6. CASE Cooldown(c) /\ ~Goto(c, Idle)
  <2>1. PICK r : r = [old EXCEPT !.pc = "createCode"] OBVIOUS
  <2>2. Goto(c, r) /\ old.pc = "cooldown" BY <1>1, <1>6, <2>1 DEF Cooldown
  <2>3. r \in CallType /\ r.pc = "createCode" /\ r.user = old.user /\ r.phone = old.phone
    BY <1>2, <2>1 DEF CallType, Pcs
  <2>4. Known(r)' BY <1>2, <2>2, <2>3 DEF Known
  <2> QED BY <2>2, <2>3, <2>4, GoingOnKnown
<1>7. CASE CreateCode(c) /\ ~Goto(c, Idle)
  <2>1. PICK i \in CodeIds :
          /\ code' = [code EXCEPT ![i] =
                  [NoCode EXCEPT !.purpose = Purpose(c), !.phone = call[c].phone,
                                 !.user = call[c].user, !.createdAt = now,
                                 !.asked = call[c].since]]
          /\ Goto(c, [old EXCEPT !.pc = "send", !.code = i])
    BY <1>1, <1>7 DEF CreateCode
  <2>2. code'[i].purpose # NULL
    <3>1. DOMAIN code = CodeIds BY DEF Typed, Rows, CodesTyped
    <3>2. Purpose(c) # NULL BY PurposeAssumption DEF Purpose, OtpPurpose
    <3> QED BY <2>1, <3>1, <3>2 DEF NoCode
  <2>3. PICK r : r = [old EXCEPT !.pc = "send", !.code = i] OBVIOUS
  <2>4. r \in CallType /\ r.pc = "send" /\ r.user = old.user /\ r.phone = old.phone
        /\ r.code = i
    BY <1>2, <2>3 DEF CallType, Pcs
  <2>5. old.pc = "createCode" BY <1>1, <1>7 DEF CreateCode
  <2>6. Known(r)' BY <1>2, <2>2, <2>4, <2>5 DEF Known
  <2> QED BY <2>1, <2>3, <2>4, <2>6, GoingOnKnown
<1>8. CASE SendSms(c) /\ ~Goto(c, Idle)
  <2>1. PICK n \in {0, 1} : Goto(c, [old EXCEPT !.pc = "record", !.n = n])
    BY <1>1, <1>8 DEF SendSms
  <2>2. PICK r : r = [old EXCEPT !.pc = "record", !.n = n] /\ n \in Nat OBVIOUS
  <2>3. r \in CallType /\ r.pc = "record" /\ r.user = old.user /\ r.phone = old.phone
        /\ r.code = old.code
    BY <1>2, <2>2 DEF CallType, Pcs
  <2>4. old.pc = "send" BY <1>1, <1>8 DEF SendSms
  <2>5. Known(r)' BY <1>2, <2>3, <2>4 DEF Known
  <2> QED BY <2>1, <2>2, <2>3, <2>5, GoingOnKnown
<1>9. CASE WrongCode(c)
  <2>1. call' = [d \in Calls |->
          IF d = c THEN Idle
          ELSE IF d \in Tried(call[c].code) THEN [call[d] EXCEPT !.overtaken = TRUE]
          ELSE call[d]]
    BY <1>9 DEF WrongCode
  <2> QED BY <2>1, IdleIsKnown, OvertakenKnown
<1>10. CASE Consume(c) /\ ~Goto(c, Idle)
  <2>1. PICK n : n = code[old.code].asked OBVIOUS
  <2>2. old.pc = "consume" BY <1>1, <1>10 DEF Consume
  <2>3. n \in Nat
    BY <1>2, <2>1, <2>2 DEF Known, Typed, Rows, CodesTyped, CodeType
  <2>4. PICK r : r = [old EXCEPT !.pc = "findUser", !.code = NULL, !.n = n] OBVIOUS
  <2>5. Goto(c, r) BY <1>1, <1>10, <2>1, <2>4 DEF Consume
  <2>6. r \in CallType /\ r.pc = "findUser" /\ r.phone = old.phone
    BY <1>2, <2>3, <2>4 DEF CallType, Pcs
  <2>7. Known(r)' BY <1>2, <2>2, <2>6 DEF Known
  <2> QED BY <2>5, <2>6, <2>7, GoingOnKnown
<1>11. CASE FindUser(c) /\ ~Goto(c, Idle)
  <2>1. PICK u \in Account(old.phone), pc \in {"activate", "setPassword"} :
          Goto(c, [old EXCEPT !.user = u, !.pc = pc])
    BY <1>1, <1>11 DEF FindUser
  <2>2. PICK r : r = [old EXCEPT !.user = u, !.pc = pc] OBVIOUS
  <2>3. r \in CallType /\ r.pc = pc /\ r.user = u
    BY <1>2, <1>3, <2>1, <2>2 DEF CallType, Pcs
  <2>4. user'[u].status # "NONE" BY <1>3, <2>1 DEF IdsStay
  <2>5. Known(r)' BY <1>3, <2>1, <2>3, <2>4 DEF Known
  <2> QED BY <2>1, <2>2, <2>3, <2>5, GoingOnKnown
<1> QED BY <1>4, <1>5, <1>6, <1>7, <1>8, <1>9, <1>10, <1>11 DEF RecordSms, Activate

LEMMA SessionsGoOnKnown ==
  ASSUME Typed, NEW c \in Calls, IdsStay,
         \/ LogLockout(c) \/ FindLogin(c) \/ LogFailure(c) \/ LogSuccess(c) \/ Issue(c)
         \/ RevokeAll(c) \/ Rotate(c) \/ Drop(c) \/ LogLogout(c)
         \/ SetPassword(c) \/ Revoke(c) \/ LogReset(c) \/ SetStatus(c) \/ Fail(c)
  PROVE  CallsKnown'
<1> USE NothingNull DEF AboutUser, AboutPhone, AboutCode, AboutToken
<1>1. PICK old : old = call[c] OBVIOUS
<1>2. old \in CallType /\ Known(old) /\ Known(old)' BY <1>1, Field, StillKnown
<1>3. \A u \in Account(old.phone) : u \in UserIds /\ user[u].status # "NONE"
  BY DEF Account, Exists
<1>4. CASE Goto(c, Idle) BY <1>4, GoingOnKnown
<1>5. CASE FindLogin(c)
  <2>1. old.pc = "find" BY <1>1, <1>5 DEF FindLogin
  <2>2. CASE Goto(c, [old EXCEPT !.pc = "logFailure"])
    <3>1. PICK r : r = [old EXCEPT !.pc = "logFailure"] OBVIOUS
    <3>2. r \in CallType /\ r.pc = "logFailure" /\ r.phone = old.phone
      BY <1>2, <3>1 DEF CallType, Pcs
    <3>3. Known(r)' BY <1>2, <2>1, <3>2 DEF Known
    <3> QED BY <2>2, <3>1, <3>2, <3>3, GoingOnKnown
  <2>3. ASSUME NEW u \in Account(old.phone),
               Goto(c, [old EXCEPT !.pc = "logSuccess", !.user = u, !.n = user[u].password])
        PROVE  CallsKnown'
    <3>1. PICK n : n = user[u].password OBVIOUS
    <3>2. n \in Nat BY <1>3, <2>3, <3>1 DEF Typed, Rows, UsersTyped, UserType
    <3>3. PICK r : r = [old EXCEPT !.pc = "logSuccess", !.user = u, !.n = n] OBVIOUS
    <3>4. r \in CallType /\ r.pc = "logSuccess" /\ r.user = u /\ r.phone = old.phone
      BY <1>2, <1>3, <2>3, <3>2, <3>3 DEF CallType, Pcs
    <3>5. user'[u].status # "NONE" BY <1>3, <2>3 DEF IdsStay
    <3>6. Known(r)' BY <1>2, <1>3, <2>1, <2>3, <3>4, <3>5 DEF Known
    <3> QED BY <2>3, <3>1, <3>3, <3>4, <3>6, GoingOnKnown
  <2> QED BY <1>1, <1>5, <2>2, <2>3 DEF FindLogin
<1>6. CASE LogSuccess(c) /\ ~Goto(c, Idle)
  <2>1. PICK r : r = [old EXCEPT !.pc = "issue", !.typed = NULL, !.since = 0, !.at = 0] OBVIOUS
  <2>2. Goto(c, r) /\ old.pc = "logSuccess" BY <1>1, <1>6, <2>1 DEF LogSuccess
  <2>3. r \in CallType /\ r.pc = "issue" /\ r.user = old.user
    BY <1>2, <2>1 DEF CallType, Pcs
  <2>4. Known(r)' BY <1>2, <2>2, <2>3 DEF Known
  <2> QED BY <2>2, <2>3, <2>4, GoingOnKnown
<1>7. CASE Drop(c)
  <2>1. PICK r : r = [old EXCEPT !.pc = "logLogout"] OBVIOUS
  <2>2. Goto(c, r) /\ old.pc = "drop" BY <1>1, <1>7, <2>1 DEF Drop
  <2>3. r \in CallType /\ r.pc = "logLogout" /\ r.user = old.user
    BY <1>2, <2>1 DEF CallType, Pcs
  <2>4. Known(r)' BY <1>2, <2>2, <2>3 DEF Known
  <2> QED BY <2>2, <2>3, <2>4, GoingOnKnown
<1>8. CASE SetPassword(c) /\ ~Goto(c, Idle)
  <2>1. old.pc = "setPassword" BY <1>1, <1>8 DEF SetPassword
  <2>2. PICK m \in Nat : m = user[old.user].password
    BY <1>2, <2>1 DEF Known, Typed, Rows, UsersTyped, UserType
  <2>3. PICK n \in Nat : n = m + 1 OBVIOUS
  <2>4. PICK r : r = [old EXCEPT !.pc = "revoke", !.n = n] OBVIOUS
  <2>5. Goto(c, r) BY <1>1, <1>8, <2>2, <2>3, <2>4 DEF SetPassword
  <2>6. r \in CallType /\ r.pc = "revoke" /\ r.user = old.user
    BY <1>2, <2>4 DEF CallType, Pcs
  <2>7. Known(r)' BY <1>2, <2>1, <2>6 DEF Known
  <2> QED BY <2>5, <2>6, <2>7, GoingOnKnown
<1>9. CASE Revoke(c)
  <2>1. PICK r : r = [old EXCEPT !.pc = "logReset"] OBVIOUS
  <2>2. old.pc = "revoke"
        /\ call' = [d \in Calls |->
             IF d = c THEN r
             ELSE IF d \in Checked(call[c].user) THEN [call[d] EXCEPT !.overtaken = TRUE]
             ELSE call[d]]
    BY <1>1, <1>9, <2>1 DEF Revoke
  <2>3. r \in CallType /\ r.pc = "logReset" /\ r.user = old.user
    BY <1>2, <2>1 DEF CallType, Pcs
  <2>4. Known(r)' BY <1>2, <2>2, <2>3 DEF Known
  <2> QED BY <2>2, <2>4, OvertakenKnown
<1> QED BY <1>4, <1>5, <1>6, <1>7, <1>8, <1>9 DEF LogLockout, LogFailure, Issue, RevokeAll,
           Rotate, LogLogout, LogReset, SetStatus, Fail

LEMMA InitTyped == Init => Typed
<1> SUFFICES ASSUME Init PROVE Typed OBVIOUS
<1> USE NothingNull
<1>1. NoUser \in UserType /\ NoUser.status = "NONE"
  BY DEF NoUser, UserType, UserStatus
<1>2. NoCode \in CodeType BY DEF NoCode, CodeType
<1>3. NoToken \in TokenType /\ NoToken.user = NULL BY DEF NoToken, TokenType
<1>4. call = [c \in Calls |-> Idle] BY DEF Init
<1>5. CallsKnown BY <1>4, IdleIsKnown DEF CallsKnown
<1>6. CodesTyped BY <1>2 DEF Init, CodesTyped
<1>7. now \in Nat /\ requests \in Nat /\ events \in Seq(EventType) BY DEF Init
<1>8. job \in Job BY DEF Init, NoJob, Job
<1>9. UsersTyped /\ wallets \in SUBSET UserIds /\ TokensTyped
  <2>1. CASE /\ user = [u \in UserIds |-> NoUser]
             /\ wallets = {}
             /\ token = [t \in Tokens |-> NoToken]
    BY <1>1, <1>3, <2>1 DEF UsersTyped, TokensTyped, Exists
  <2>2. ASSUME NEW u \in UserIds, NEW p \in Phones, NEW signedIn \in SUBSET Tokens,
               user = [[v \in UserIds |-> NoUser] EXCEPT ![u] = Seeded(p)],
               wallets = {u},
               token = [t \in Tokens |->
                          IF t \in signedIn THEN FirstToken(t, u, 0) ELSE NoToken]
        PROVE  UsersTyped /\ wallets \in SUBSET UserIds /\ TokensTyped
    <3>1. PICK row : row = Seeded(p) OBVIOUS
    <3>2. row = [NoUser EXCEPT !.status = "ACTIVE", !.phone = p, !.kept = TRUE,
                               !.warranted = TRUE]
      BY <3>1 DEF Seeded
    <3>3. row \in UserType /\ row.status = "ACTIVE" /\ row.phone = p
      BY <1>1, <3>2 DEF UserType, UserStatus
    <3>4. user \in [UserIds -> UserType] /\ user[u] = row
          /\ \A v \in UserIds : v # u => user[v] = NoUser
      BY <1>1, <2>2, <3>1, <3>3
    <3>5. UsersTyped BY <1>1, <3>3, <3>4 DEF UsersTyped, Exists
    <3>6. PICK ends \in Nat : ends = now + TokenTTL
      <4>1. TokenTTL \in Nat BY AccountAssumption
      <4> QED BY <1>7, <4>1
    <3>7. \A t \in Tokens : FirstToken(t, u, 0) \in TokenType
            /\ FirstToken(t, u, 0).user = u /\ FirstToken(t, u, 0).session = t
      <4> SUFFICES ASSUME NEW t \in Tokens
                   PROVE  FirstToken(t, u, 0) \in TokenType
            /\ FirstToken(t, u, 0).user = u /\ FirstToken(t, u, 0).session = t
        OBVIOUS
      <4>1. FirstToken(t, u, 0) = [NoToken EXCEPT !.user = u, !.expiresAt = ends,
                                                  !.session = t, !.password = 0]
        BY <3>6 DEF FirstToken
      <4>2. PICK first : first = [NoToken EXCEPT !.user = u, !.expiresAt = ends,
                                                 !.session = t, !.password = 0]
        OBVIOUS
      <4>3. first \in TokenType /\ first.user = u /\ first.session = t
        BY <3>6, <4>2 DEF NoToken, TokenType
      <4> QED BY <4>1, <4>2, <4>3
    <3>8. token \in [Tokens -> TokenType] BY <1>3, <2>2, <3>7
    <3>9. \A t \in Tokens : token[t].user # NULL => token[t].user = u /\ token[t].session = t
      BY <1>3, <2>2, <3>7
    <3>10. TokensTyped BY <3>3, <3>4, <3>8, <3>9 DEF TokensTyped
    <3> QED BY <2>2, <3>5, <3>10
  <2> QED BY <2>1, <2>2 DEF Init
<1> QED BY <1>5, <1>6, <1>7, <1>8, <1>9 DEF Typed, Rows

LEMMA StepTyped == ASSUME Typed, [Next]_vars PROVE Typed' /\ IdsStay
<1>1. IdsStay BY UsersStayTyped, CodesStayTyped, TokensStayTyped DEF IdsStay
<1>2. CallsKnown'
  <2>1. ASSUME call' = call PROVE CallsKnown'
    BY <1>1, <2>1, StillKnown, Field DEF CallsKnown, Typed
  <2>2. ASSUME Cleanup \/ Tick \/ UNCHANGED vars PROVE call' = call
    BY <2>2 DEF Cleanup, FindStale, DeleteCodes, DeleteWallets, DeleteUsers, JobFails,
                CleanupOtps, CleanupTokens, Tick, vars
  <2>3. ASSUME NEW c \in Calls, Continue(c) PROVE CallsKnown'
    BY <1>1, <2>3, CodesGoOnKnown, SessionsGoOnKnown DEF Continue
  <2> QED BY <1>1, <2>1, <2>2, <2>3, RequestsKnown DEF Next
<1> QED BY <1>1, <1>2, UsersStayTyped, CodesStayTyped, TokensStayTyped, EventsStayTyped,
           RequestsGoUp, ClockGoesOn, JobStaysTyped DEF Typed, Rows

LEMMA TypedAlways == Spec => []Typed
<1>1. Typed /\ [Next]_vars => Typed' BY StepTyped
<1> QED BY <1>1, InitTyped, PTL DEF Spec

-----------------------------------------------------------------------------
(* What a step does to the row of a user *)

\* The row is created, for a phone without an account.
Born(u) ==
  /\ user[u].status = "NONE" /\ user'[u].status = "PENDING_VERIFICATION"
  /\ \A v \in UserIds : Exists(v) => user[v].phone # user'[u].phone
  /\ \A v \in UserIds \ {u} : user'[v] = user[v]
  /\ user'[u].createdAt = now /\ ~user'[u].kept
  /\ user'[u].password = 0 /\ user'[u].settled = 0
  /\ wallets' = wallets \cup {u}

\* The row is deleted, and what refers to it with it.
Gone(u) == DeleteUsers /\ u \in job.ids /\ user'[u].status = "GONE"
           /\ user'[u].kept = user[u].kept
           /\ user'[u].password = 0 /\ user'[u].settled = 0

KeptFrom(u) == user[u].kept \/ now <= user[u].createdAt + StaleAge

SameAccess(u) ==
  /\ user'[u].status = user[u].status /\ user'[u].kept = user[u].kept
  /\ user'[u].warranted = user[u].warranted /\ user'[u].barred = user[u].barred

SamePassword(u) ==
  user'[u].password = user[u].password /\ user'[u].settled = user[u].settled

\* The row is updated by the handler in slot c.
Updated(u, c) ==
  /\ Exists(u) /\ user'[u].phone = user[u].phone /\ user'[u].createdAt = user[u].createdAt
  /\ call[c].user = u
  /\ \/ /\ Activate(c) /\ SamePassword(u)
        /\ user'[u].status = "ACTIVE" /\ user'[u].kept = KeptFrom(u)
        /\ user'[u].warranted = (user[u].status = "DISABLED" => call[c].n <= user[u].barred)
     \/ /\ SetStatus(c) /\ SamePassword(u)
        /\ user'[u].status = "DISABLED" /\ user'[u].kept = user[u].kept
        /\ user'[u].barred = requests
     \/ /\ SetStatus(c) /\ SamePassword(u)
        /\ user'[u].status = "ACTIVE" /\ user'[u].kept = KeptFrom(u) /\ user'[u].warranted
     \/ /\ SetPassword(c) /\ SameAccess(u)
        /\ user'[u].password = user[u].password + 1 /\ user'[u].settled = user[u].settled
     \/ /\ LogReset(c) /\ SameAccess(u)
        /\ user'[u].password = user[u].password
        /\ user'[u].settled = IF user[u].settled <= call[c].n THEN call[c].n
                                                              ELSE user[u].settled

LEMMA UserSteps ==
  ASSUME Typed, [Next]_vars, NEW u \in UserIds, user'[u] # user[u]
  PROVE  Born(u) \/ Gone(u) \/ \E c \in Calls : Updated(u, c)
<1>1. user \in [UserIds -> UserType] BY DEF Typed, Rows, UsersTyped
<1>2. PICK old : old = user[u] OBVIOUS
<1>3. old \in UserType BY <1>1, <1>2
<1>4. ASSUME NEW c \in Calls, Create(c) PROVE Born(u)
  <2>1. PICK v \in UserIds :
          /\ Account(call[c].phone) = {} /\ user[v].status = "NONE"
          /\ user' = [user EXCEPT ![v] =
                  [NoUser EXCEPT !.status = "PENDING_VERIFICATION",
                                 !.phone = call[c].phone, !.createdAt = now]]
          /\ wallets' = wallets \cup {v}
    BY <1>4 DEF Create
  <2>2. v = u BY <1>1, <2>1
  <2>3. user'[u] = [NoUser EXCEPT !.status = "PENDING_VERIFICATION",
                                  !.phone = call[c].phone, !.createdAt = now]
    BY <1>1, <2>1, <2>2
  <2>4. \A w \in UserIds \ {u} : user'[w] = user[w] BY <1>1, <2>1, <2>2
  <2> QED BY <2>1, <2>2, <2>3, <2>4 DEF Born, Account, NoUser
<1>5. ASSUME NEW c \in Calls, Activate(c) PROVE Updated(u, c)
  <2>1. call[c].user = u /\ Exists(u) BY <1>1, <1>5 DEF Activate
  <2>2. PICK kept : kept = (old.kept \/ now <= old.createdAt + StaleAge) OBVIOUS
  <2>3. PICK warranted : warranted = (old.status = "DISABLED" => call[c].n <= old.barred)
    OBVIOUS
  <2>4. user'[u] = [[old EXCEPT !.status = "ACTIVE", !.kept = kept]
                      EXCEPT !.warranted = warranted]
    BY <1>1, <1>2, <1>5, <2>1, <2>2, <2>3 DEF Activate, Enabled
  <2>5. PICK row : row = [old EXCEPT !.status = "ACTIVE", !.kept = kept] OBVIOUS
  <2>6. user'[u] = [row EXCEPT !.warranted = warranted] BY <2>4, <2>5
  <2>7. /\ user'[u].status = "ACTIVE" /\ user'[u].kept = kept
        /\ user'[u].warranted = warranted
        /\ user'[u].phone = old.phone /\ user'[u].createdAt = old.createdAt
        /\ user'[u].password = old.password /\ user'[u].settled = old.settled
    BY <1>3, <2>5, <2>6 DEF UserType
  <2>8. user'[u].kept = KeptFrom(u) BY <1>2, <2>2, <2>7 DEF KeptFrom
  <2> QED BY <1>2, <1>5, <2>1, <2>3, <2>7, <2>8 DEF Updated, SamePassword
<1>6. ASSUME NEW c \in Calls, SetStatus(c) PROVE Updated(u, c)
  <2>1. call[c].user = u /\ Exists(u) BY <1>1, <1>6 DEF SetStatus
  <2>2. CASE call[c].op = "disable"
    <3>1. user'[u] = [old EXCEPT !.status = "DISABLED", !.barred = requests,
                                 !.warranted = FALSE]
      BY <1>1, <1>2, <1>6, <2>1, <2>2 DEF SetStatus
    <3>2. /\ user'[u].status = "DISABLED" /\ user'[u].kept = old.kept
          /\ user'[u].barred = requests
          /\ user'[u].phone = old.phone /\ user'[u].createdAt = old.createdAt
          /\ user'[u].password = old.password /\ user'[u].settled = old.settled
      BY <1>3, <3>1 DEF UserType
    <3> QED BY <1>2, <1>6, <2>1, <3>2 DEF Updated, SamePassword
  <2>3. CASE call[c].op # "disable"
    <3>1. PICK kept : kept = (old.kept \/ now <= old.createdAt + StaleAge) OBVIOUS
    <3>2. PICK row : row = [old EXCEPT !.status = "ACTIVE", !.kept = kept] OBVIOUS
    <3>3. user'[u] = [row EXCEPT !.warranted = TRUE]
      BY <1>1, <1>2, <1>6, <2>1, <2>3, <3>1, <3>2 DEF SetStatus, Enabled
    <3>4. /\ user'[u].status = "ACTIVE" /\ user'[u].kept = kept /\ user'[u].warranted
          /\ user'[u].phone = old.phone /\ user'[u].createdAt = old.createdAt
          /\ user'[u].password = old.password /\ user'[u].settled = old.settled
      BY <1>3, <3>2, <3>3 DEF UserType
    <3>5. user'[u].kept = KeptFrom(u) BY <1>2, <3>1, <3>4 DEF KeptFrom
    <3> QED BY <1>2, <1>6, <2>1, <3>4, <3>5 DEF Updated, SamePassword
  <2> QED BY <2>2, <2>3
<1>7. ASSUME NEW c \in Calls, SetPassword(c) PROVE Updated(u, c)
  <2>1. call[c].user = u /\ Exists(u) BY <1>1, <1>7 DEF SetPassword
  <2>2. user'[u] = [old EXCEPT !.password = @ + 1]
    BY <1>1, <1>2, <1>7, <2>1 DEF SetPassword
  <2>3. /\ user'[u].status = old.status /\ user'[u].kept = old.kept
        /\ user'[u].warranted = old.warranted /\ user'[u].barred = old.barred
        /\ user'[u].phone = old.phone /\ user'[u].createdAt = old.createdAt
        /\ user'[u].password = old.password + 1 /\ user'[u].settled = old.settled
    BY <1>3, <2>2 DEF UserType
  <2> QED BY <1>2, <1>7, <2>1, <2>3 DEF Updated, SameAccess
<1>8. ASSUME NEW c \in Calls, LogReset(c) PROVE Updated(u, c)
  <2>1. call[c].user = u /\ Exists(u) BY <1>1, <1>8 DEF LogReset
  <2>2. PICK m : m = Max({old.settled, call[c].n}) OBVIOUS
  <2>3. m = IF old.settled <= call[c].n THEN call[c].n ELSE old.settled
    <3>1. old.settled \in Nat /\ call[c].n \in Nat BY <1>3, Field DEF UserType, CallType
    <3> QED BY <2>2, <3>1 DEF Max
  <2>4. user'[u] = [old EXCEPT !.settled = m]
    BY <1>1, <1>2, <1>8, <2>1, <2>2 DEF LogReset
  <2>5. /\ user'[u].status = old.status /\ user'[u].kept = old.kept
        /\ user'[u].warranted = old.warranted /\ user'[u].barred = old.barred
        /\ user'[u].phone = old.phone /\ user'[u].createdAt = old.createdAt
        /\ user'[u].password = old.password /\ user'[u].settled = m
    BY <1>3, <2>4 DEF UserType
  <2> QED BY <1>2, <1>8, <2>1, <2>3, <2>5 DEF Updated, SameAccess
<1>9. CASE DeleteUsers
  <2>1. PICK row : row = [NoUser EXCEPT !.status = "GONE", !.kept = user[u].kept] OBVIOUS
  <2>2. u \in job.ids /\ user'[u] = row BY <1>9, <2>1 DEF DeleteUsers
  <2> QED BY <1>9, <2>1, <2>2 DEF Gone, NoUser
<1> QED BY <1>4, <1>5, <1>6, <1>7, <1>8, <1>9, UserWriters

-----------------------------------------------------------------------------
(* What the clean-up of stale accounts leaves *)

Overdue(u) == ~user[u].kept /\ user[u].createdAt + StaleAge < now

\* An account without a wallet, or on the list of the job, was not enabled in time
\* and never will be: to be enabled now does not count any more.
KeptOK(u) ==
  /\ user[u].kept => Exists(u) /\ u \in wallets
  /\ user[u].status \in {"NONE", "PENDING_VERIFICATION"} => ~user[u].kept
  /\ Exists(u) /\ u \notin wallets => Overdue(u)
  /\ u \in job.ids => Exists(u) /\ Overdue(u)

KeptInv == \A u \in UserIds : KeptOK(u)

LEMMA OverdueStays ==
  ASSUME Typed, [Next]_vars, NEW u \in UserIds, Overdue(u),
         user'[u].kept = user[u].kept \/ user'[u].kept = KeptFrom(u),
         user'[u].createdAt = user[u].createdAt
  PROVE  Overdue(u)'
<1>1. PICK at \in Nat, old \in Nat, new \in Nat :
        at = user[u].createdAt /\ old = now /\ new = now' /\ old <= new
  BY ClockGoesOn DEF Typed, Rows, UsersTyped, UserType
<1>2. StaleAge \in Nat BY AccountAssumption
<1>3. at + StaleAge < old BY <1>1 DEF Overdue
<1>4. ~(old <= at + StaleAge) BY <1>1, <1>2, <1>3
<1>5. ~user'[u].kept BY <1>1, <1>4 DEF Overdue, KeptFrom
<1>6. at + StaleAge < new BY <1>1, <1>2, <1>3
<1> QED BY <1>1, <1>5, <1>6 DEF Overdue

\* Who takes a wallet, and who puts an account on the list.
LEMMA WalletSteps ==
  ASSUME Typed, [Next]_vars, NEW u \in UserIds
  PROVE  /\ u \in wallets => u \in wallets' \/ u \in job.ids
         /\ u \in job'.ids => u \in job.ids \/ u \in Stale
         /\ DeleteUsers => job'.ids = {}
<1>1. ASSUME NEW c \in Calls, Create(c) PROVE wallets \subseteq wallets' /\ job' = job
  BY <1>1 DEF Create
<1>2. job \in Job BY DEF Typed, Rows
<1>3. CASE FindStale BY <1>3 DEF FindStale, DeleteUsers
<1>4. CASE DeleteCodes \/ DeleteWallets
  <2>1. job'.ids = job.ids BY <1>2, <1>4 DEF DeleteCodes, DeleteWallets, Job
  <2>2. u \in wallets => u \in wallets' \/ u \in job.ids
    BY <1>4 DEF DeleteCodes, DeleteWallets
  <2> QED BY <1>4, <2>1, <2>2 DEF DeleteCodes, DeleteWallets, DeleteUsers
<1>5. ASSUME DeleteUsers \/ JobFails
      PROVE  job'.ids = {} /\ (u \in wallets => u \in wallets' \/ u \in job.ids)
  <2>1. NoJob.ids = {} BY DEF NoJob
  <2> QED BY <1>5, <2>1 DEF DeleteUsers, JobFails
<1>6. ASSUME DeleteUsers PROVE job'.ids = {} BY <1>5, <1>6
<1> QED BY <1>1, <1>3, <1>4, <1>5, <1>6, JobSteps

LEMMA KeptStep ==
  ASSUME Typed, KeptInv, [Next]_vars
  PROVE  KeptInv'
<1> SUFFICES ASSUME NEW u \in UserIds PROVE KeptOK(u)'
  BY DEF KeptInv
<1>1. KeptOK(u) /\ user[u] \in UserType BY DEF KeptInv, Typed, Rows, UsersTyped
<1>2. u \in Stale => Exists(u) /\ Overdue(u)
  BY <1>1 DEF Stale, KeptOK, Exists, Overdue
<1>3. ASSUME Exists(u), Exists(u)', user'[u].createdAt = user[u].createdAt,
             user'[u].kept = user[u].kept \/ user'[u].kept = KeptFrom(u),
             user'[u].status = "PENDING_VERIFICATION" => user'[u].kept = user[u].kept
                                     /\ user[u].status = "PENDING_VERIFICATION"
      PROVE  KeptOK(u)'
  <2>1. u \notin wallets' => Overdue(u) BY <1>1, <1>3, WalletSteps DEF KeptOK
  <2>2. u \in job'.ids => Overdue(u) BY <1>1, <1>2, <1>3, WalletSteps DEF KeptOK
  <2>3. Overdue(u) => Overdue(u)' BY <1>3, OverdueStays
  <2>4. Overdue(u)' => ~user'[u].kept BY DEF Overdue
  <2>5. user'[u].kept => u \in wallets' BY <2>1, <2>3, <2>4
  <2>6. user'[u].status \in {"NONE", "PENDING_VERIFICATION"} => ~user'[u].kept
    BY <1>1, <1>3 DEF KeptOK, Exists
  <2> QED BY <1>3, <2>1, <2>2, <2>3, <2>5, <2>6 DEF KeptOK
<1>4. CASE user'[u] = user[u]
  <2>1. CASE Exists(u)
    <3>1. Exists(u)' BY <1>4, <2>1 DEF Exists
    <3> QED BY <1>3, <1>4, <2>1, <3>1
  <2>2. CASE ~Exists(u)
    <3>1. ~Exists(u)' BY <1>4, <2>2 DEF Exists
    <3>2. ~user[u].kept /\ u \notin job.ids /\ u \notin Stale
      BY <1>1, <1>2, <2>2 DEF KeptOK
    <3> QED BY <1>4, <3>1, <3>2, WalletSteps DEF KeptOK
  <2> QED BY <2>1, <2>2
<1>5. CASE Born(u)
  <2>1. ~Exists(u) BY <1>5 DEF Born, Exists
  <2>2. u \notin job.ids /\ u \notin Stale BY <1>1, <1>2, <2>1 DEF KeptOK
  <2>3. u \notin job'.ids BY <2>2, WalletSteps
  <2> QED BY <1>5, <2>3 DEF Born, KeptOK
<1>6. CASE Gone(u)
  <2>1. ~user'[u].kept BY <1>1, <1>6 DEF Gone, KeptOK, Overdue
  <2>2. u \notin job'.ids BY <1>6, WalletSteps DEF Gone
  <2>3. ~Exists(u)' BY <1>6 DEF Gone, Exists
  <2> QED BY <1>6, <2>1, <2>2, <2>3 DEF Gone, KeptOK
<1>7. ASSUME NEW c \in Calls, Updated(u, c) PROVE KeptOK(u)'
  <2>1. Exists(u) /\ user'[u].createdAt = user[u].createdAt
        /\ (user'[u].kept = user[u].kept \/ user'[u].kept = KeptFrom(u))
    BY <1>7 DEF Updated, SameAccess
  <2>2. user'[u].status \in {"ACTIVE", "DISABLED"}
        \/ (user'[u].status = user[u].status /\ user'[u].kept = user[u].kept)
    <3>1. \/ user'[u].status = "ACTIVE" \/ user'[u].status = "DISABLED" \/ SameAccess(u)
      <4>1. CASE Activate(c) BY <1>7, <4>1 DEF Updated, SameAccess
      <4>2. CASE SetStatus(c) BY <1>7, <4>2 DEF Updated, SameAccess
      <4>3. CASE SetPassword(c) BY <1>7, <4>3 DEF Updated
      <4>4. CASE LogReset(c) BY <1>7, <4>4 DEF Updated
      <4>5. Activate(c) \/ SetStatus(c) \/ SetPassword(c) \/ LogReset(c)
        BY <1>7 DEF Updated
      <4> QED BY <4>1, <4>2, <4>3, <4>4, <4>5
    <3> QED BY <3>1 DEF SameAccess
  <2>3. Exists(u)' BY <2>1, <2>2 DEF Exists
  <2>4. user'[u].status = "PENDING_VERIFICATION" => user'[u].kept = user[u].kept
                                     /\ user[u].status = "PENDING_VERIFICATION"
    BY <2>2
  <2> QED BY <1>3, <2>1, <2>3, <2>4
<1> QED BY <1>4, <1>5, <1>6, <1>7, UserSteps

\* EnabledInTimeIsKept holds of every behaviour: an account that was enabled before
\* it was stale is never deleted, and keeps its wallet.
THEOREM EnabledInTimeIsKeptAlways == Spec => []EnabledInTimeIsKept
<1>1. Init => KeptInv
  <2>1. NoUser.status = "NONE" /\ ~NoUser.kept BY DEF NoUser
  <2>2. \A p : Seeded(p).status = "ACTIVE" /\ Seeded(p).kept BY DEF Seeded, NoUser
  <2>3. ASSUME Init PROVE job.ids = {} BY <2>3 DEF Init, NoJob
  <2>4. ASSUME Init, NEW u \in UserIds
        PROVE  \/ user[u] = NoUser
               \/ u \in wallets /\ \E p : user[u] = Seeded(p)
    BY <2>4 DEF Init
  <2> QED BY <2>1, <2>2, <2>3, <2>4 DEF KeptInv, KeptOK, Exists
<1>2. Typed /\ KeptInv /\ [Next]_vars => KeptInv' BY KeptStep
<1>3. KeptInv => EnabledInTimeIsKept BY DEF KeptInv, KeptOK, EnabledInTimeIsKept
<1> QED BY <1>1, <1>2, <1>3, TypedAlways, PTL DEF Spec

-----------------------------------------------------------------------------
(* How a handler came to be where it is *)

\* Before a code is created, the request that asks for it waits in one of these.
Asking == {"create", "cooldown", "createCode"}

\* A handler that arrives, or makes a step, and where that leaves it.
Came(c) ==
  LET r == call'[c]
      old == call[c] IN
  /\ r.pc \in Asking =>
       \/ /\ user' = user /\ r.since <= requests'
          /\ r.op = "register" =>
               /\ r.since = requests'
               /\ Account(r.phone) # {} =>
                    \E u \in Account(r.phone) : user[u].status = "PENDING_VERIFICATION"
       \/ old.pc \in Asking /\ r.phone = old.phone /\ r.since = old.since /\ r.op = old.op
  /\ r.pc = "wrong" => code' = code /\ r.n = code[r.code].attempts + 1
  /\ r.pc = "consume" => code' = code /\ user' = user /\ code[r.code].phone = r.phone
  /\ r.pc = "findUser" =>
       /\ old.pc = "consume" /\ r.phone = old.phone /\ user' = user
       /\ Kept(old.code) /\ r.n = code[old.code].asked
       /\ r.op = "verify" => code[old.code].purpose # "PASSWORD_RESET"
  /\ r.pc = "activate" =>
       /\ old.pc = "findUser" /\ old.op = "verify" /\ r.n = old.n /\ user' = user
       /\ r.user \in Account(old.phone)
  /\ r.pc = "logSuccess" =>
       /\ Exists(r.user) /\ r.n = user[r.user].password
       /\ user' = user /\ token' = token
  /\ r.pc = "issue" =>
       /\ old.pc = "logSuccess" /\ r.user = old.user /\ r.n = old.n
       /\ r.overtaken = old.overtaken /\ user' = user /\ token' = token
  /\ r.pc = "rotate" =>
       /\ Live(r.token) /\ r.user = token[r.token].user
       /\ user' = user /\ token' = token
  /\ r.pc = "revoke" => SetPassword(c) /\ r.n = user'[r.user].password /\ token' = token
  /\ r.pc = "logReset" =>
       Revoke(c) /\ old.pc = "revoke" /\ r.user = old.user /\ r.n = old.n
  /\ r.pc = "find" =>
       /\ r.since = Len(events) /\ r.at = now /\ events' = events
       /\ ~(LockoutUntil(Recent(LoginEvents(r.phone, Trim[r.typed], Len(events)))) > now)
  /\ r.pc = "logFailure" =>
       /\ old.pc = "find" /\ r.phone = old.phone /\ r.typed = old.typed
       /\ r.since = old.since /\ r.at = old.at /\ events' = events

LEMMA Answered == ASSUME Typed, NEW c \in Calls, Goto(c, Idle) PROVE Came(c)
<1>1. call'[c] = Idle BY DEF Goto, Typed, CallsKnown
<1>2. call'[c].pc = "idle" BY <1>1 DEF Idle
<1> QED BY <1>2 DEF Came, Asking

LEMMA RequestsCame ==
  ASSUME Typed, NEW c \in Calls, Request(c)
  PROVE  Came(c)
<1>1. /\ requests \in Nat /\ DOMAIN call = Calls
      /\ code \in [CodeIds -> CodeType]
  BY DEF Typed, Rows, CodesTyped, CallsKnown
<1>2. PICK since \in Nat : since = requests + 1 BY <1>1
<1>3. ASSUME NEW op, NEW next, Arrive(c, op, next)
      PROVE  call'[c] = [next EXCEPT !.op = op] /\ requests' = since
  BY <1>1, <1>2, <1>3 DEF Arrive
<1>4. ASSUME NEW p \in Phones, Register(c, p) PROVE Came(c)
  <2>1. PICK start : start = [Idle EXCEPT !.phone = p, !.since = since] OBVIOUS
  <2>2. user' = user BY <1>4 DEF Register
  <2>3. ASSUME NEW next, Arrive(c, "register", next),
               next.pc \in {"create", "cooldown"}, next.phone = p, next.since = since,
               DOMAIN next = DOMAIN Idle,
               Account(p) # {} => \E u \in Account(p) : user[u].status = "PENDING_VERIFICATION"
        PROVE  Came(c)
    <3>1. call'[c] = [next EXCEPT !.op = "register"] /\ requests' = since BY <1>3, <2>3
    <3>2. call'[c].pc = next.pc /\ call'[c].phone = p /\ call'[c].since = since
      BY <2>3, <3>1 DEF Idle
    <3>3. call'[c].since <= requests' /\ call'[c].since = requests' BY <3>1, <3>2
    <3> QED BY <2>2, <2>3, <3>2, <3>3 DEF Came, Asking
  <2>4. CASE Account(p) = {} /\ Arrive(c, "register", [start EXCEPT !.pc = "create"])
    <3>1. PICK next : next = [start EXCEPT !.pc = "create"] OBVIOUS
    <3>2. next.pc = "create" /\ next.phone = p /\ next.since = since
          /\ DOMAIN next = DOMAIN Idle
      BY <2>1, <3>1 DEF Idle
    <3> QED BY <2>3, <2>4, <3>1, <3>2
  <2>5. ASSUME NEW u \in Account(p), user[u].status = "PENDING_VERIFICATION",
               Arrive(c, "register", [start EXCEPT !.pc = "cooldown", !.user = u])
        PROVE  Came(c)
    <3>1. PICK next : next = [start EXCEPT !.pc = "cooldown", !.user = u] OBVIOUS
    <3>2. next.pc = "cooldown" /\ next.phone = p /\ next.since = since
          /\ DOMAIN next = DOMAIN Idle
      BY <2>1, <3>1 DEF Idle
    <3> QED BY <2>3, <2>5, <3>1, <3>2
  <2> QED BY <1>2, <1>4, <2>1, <2>4, <2>5 DEF Register
<1>5. ASSUME NEW p \in Phones, ForgotPassword(c, p) PROVE Came(c)
  <2>1. PICK u : Arrive(c, "forgot", [Idle EXCEPT !.pc = "cooldown", !.phone = p, !.user = u,
                                                  !.since = since])
    BY <1>2, <1>5 DEF ForgotPassword
  <2>2. PICK next : next = [Idle EXCEPT !.pc = "cooldown", !.phone = p, !.user = u,
                                        !.since = since]
    OBVIOUS
  <2>3. next.pc = "cooldown" /\ next.since = since /\ DOMAIN next = DOMAIN Idle
    BY <2>2 DEF Idle
  <2>4. call'[c] = [next EXCEPT !.op = "forgot"] /\ requests' = since BY <1>3, <2>1, <2>2
  <2>5. call'[c].pc = "cooldown" /\ call'[c].since = since /\ call'[c].op = "forgot"
    BY <2>3, <2>4 DEF Idle
  <2>6. since <= since /\ user' = user BY <1>5 DEF ForgotPassword
  <2> QED BY <2>4, <2>5, <2>6 DEF Came, Asking
<1>10. ASSUME NEW p \in Phones, CreateUser(c, p) PROVE Came(c)
  <2>1. PICK next : next = [Idle EXCEPT !.pc = "create", !.phone = p] OBVIOUS
  <2>2. next.pc = "create" /\ next.since = 0 /\ DOMAIN next = DOMAIN Idle
    BY <2>1 DEF Idle
  <2>3. call'[c] = [next EXCEPT !.op = "createUser"] /\ requests' = since
    BY <1>3, <1>10, <2>1 DEF CreateUser
  <2>4. call'[c].pc = "create" /\ call'[c].since = 0 /\ call'[c].op = "createUser"
    BY <2>2, <2>3 DEF Idle
  <2>5. 0 <= since /\ user' = user BY <1>10 DEF CreateUser
  <2> QED BY <2>3, <2>4, <2>5 DEF Came, Asking
<1>6. ASSUME NEW p \in Phones, NEW typed \in Spellings, LoginArrives(c, p, typed)
      PROVE  Came(c)
  <2>1. PICK m, at, trimmed : m = Len(events) /\ at = now /\ trimmed = Trim[typed] OBVIOUS
  <2>2. PICK next : /\ Arrive(c, "login", next)
                    /\ \/ next = [Idle EXCEPT !.pc = "lockout", !.phone = p,
                                              !.typed = trimmed]
                       \/ /\ ~(LockoutUntil(Recent(LoginEvents(p, trimmed, Len(events)))) > now)
                          /\ next = [Idle EXCEPT !.pc = "find", !.phone = p,
                                                 !.typed = typed, !.since = m, !.at = at]
    BY <1>6, <2>1 DEF LoginArrives
  <2>3. CASE next = [Idle EXCEPT !.pc = "lockout", !.phone = p, !.typed = trimmed]
    <3>1. call'[c] = [next EXCEPT !.op = "login"] BY <1>3, <2>2
    <3>2. call'[c].pc = "lockout" BY <2>3, <3>1 DEF Idle
    <3> QED BY <3>2 DEF Came, Asking
  <2>4. CASE next # [Idle EXCEPT !.pc = "lockout", !.phone = p, !.typed = trimmed]
    <3>1. next = [Idle EXCEPT !.pc = "find", !.phone = p, !.typed = typed, !.since = m,
                              !.at = at]
      BY <2>2, <2>4
    <3>2. call'[c] = [next EXCEPT !.op = "login"] BY <1>3, <2>2
    <3>3. /\ call'[c].pc = "find" /\ call'[c].phone = p /\ call'[c].typed = typed
          /\ call'[c].since = m /\ call'[c].at = at
      BY <3>1, <3>2 DEF Idle
    <3>4. ~(LockoutUntil(Recent(LoginEvents(p, trimmed, Len(events)))) > now)
      BY <2>2, <2>4
    <3>5. events' = events BY <1>6 DEF LoginArrives
    <3> QED BY <2>1, <3>3, <3>4, <3>5 DEF Came, Asking
  <2> QED BY <2>3, <2>4
<1>7. ASSUME NEW p \in Phones, NEW op \in {"verify", "reset"}, NEW purpose,
             NEW right \in BOOLEAN, PresentCode(c, op, purpose, p, right)
      PROVE  Came(c)
  <2>1. PICK i : i = Latest(Open(p, purpose)) OBVIOUS
  <2>2. i \in CodeIds /\ code[i].phone = p /\ code' = code /\ user' = user
    <3>1. Open(p, purpose) \in SUBSET CodeIds /\ Open(p, purpose) # {}
      BY <1>7 DEF PresentCode, Open, CodesOf
    <3>2. i \in Open(p, purpose) BY <2>1, <3>1, LatestIsThere
    <3> QED BY <1>7, <3>2 DEF Open, CodesOf, PresentCode
  <2>3. PICK late : late = (Tried(i) # {}) OBVIOUS
  <2>4. PICK n : n = code[i].attempts + 1 OBVIOUS
  <2>5. PICK next : /\ Arrive(c, op, next)
                    /\ \/ next = [Idle EXCEPT !.pc = "consume", !.phone = p, !.code = i]
                       \/ next = [Idle EXCEPT !.pc = "wrong", !.phone = p, !.code = i,
                                              !.n = n, !.overtaken = late]
    BY <1>7, <2>1, <2>3, <2>4 DEF PresentCode
  <2>6. /\ next.pc \in {"consume", "wrong"} /\ next.phone = p /\ next.code = i
        /\ next.pc = "wrong" => next.n = n
        /\ DOMAIN next = DOMAIN Idle
    <3>1. CASE next = [Idle EXCEPT !.pc = "consume", !.phone = p, !.code = i]
      BY <3>1 DEF Idle
    <3>2. CASE next = [Idle EXCEPT !.pc = "wrong", !.phone = p, !.code = i, !.n = n,
                                   !.overtaken = late]
      BY <3>2 DEF Idle
    <3> QED BY <2>5, <3>1, <3>2
  <2>8. call'[c] = [next EXCEPT !.op = op] BY <1>3, <2>5
  <2>7. /\ call'[c].pc \in {"consume", "wrong"} /\ call'[c].phone = p /\ call'[c].code = i
        /\ call'[c].pc = "wrong" => call'[c].n = n
    BY <2>6, <2>8 DEF Idle
  <2> QED BY <2>2, <2>4, <2>7 DEF Came, Asking
<1>8. ASSUME NEW u \in UserIds, NEW op, FindTarget(c, op, u) PROVE Came(c)
  <2>1. PICK next : next = [Idle EXCEPT !.pc = "setStatus", !.user = u] OBVIOUS
  <2>2. call'[c] = [next EXCEPT !.op = op] BY <1>3, <1>8, <2>1 DEF FindTarget
  <2>3. call'[c].pc = "setStatus" BY <2>1, <2>2 DEF Idle
  <2> QED BY <2>3 DEF Came, Asking
<1>9. ASSUME NEW t \in Tokens, Refresh(c, t) \/ Logout(c, t) PROVE Came(c)
  <2>1. PICK u : u = token[t].user OBVIOUS
  <2>2. PICK pc \in {"revokeAll", "rotate", "drop"}, op \in {"refresh", "logout"} :
          /\ Arrive(c, op, [Idle EXCEPT !.pc = pc, !.token = t, !.user = u])
          /\ pc = "rotate" => ~token[t].revoked
    <3>1. CASE Refresh(c, t) /\ token[t].revoked BY <2>1, <3>1 DEF Refresh
    <3>2. CASE Refresh(c, t) /\ ~token[t].revoked /\ token[t].expiresAt <= now
      BY <3>2 DEF Refresh, Arrive
    <3>3. CASE Refresh(c, t) /\ ~token[t].revoked /\ ~(token[t].expiresAt <= now)
      BY <2>1, <3>3 DEF Refresh
    <3>4. CASE Logout(c, t) BY <2>1, <3>4 DEF Logout
    <3> QED BY <1>9, <3>1, <3>2, <3>3, <3>4
  <2>3. PICK next : next = [Idle EXCEPT !.pc = pc, !.token = t, !.user = u] OBVIOUS
  <2>4. call'[c] = [next EXCEPT !.op = op] BY <1>3, <2>2, <2>3
  <2>5. call'[c].pc = pc /\ call'[c].token = t /\ call'[c].user = u
    BY <2>3, <2>4 DEF Idle
  <2>6. token[t].user # NULL /\ user' = user /\ token' = token
    BY <1>9 DEF Refresh, Logout
  <2>7. pc = "rotate" => Live(t) BY <2>2, <2>6 DEF Live
  <2> QED BY <2>1, <2>2, <2>5, <2>6, <2>7 DEF Came, Asking
<1> QED BY <1>4, <1>5, <1>6, <1>7, <1>8, <1>9, <1>10 DEF Request

LEMMA ContinueCame ==
  ASSUME Typed, NEW c \in Calls, Continue(c)
  PROVE  Came(c)
<1>1. PICK old : old = call[c] OBVIOUS
<1>2. old \in CallType /\ Known(old) /\ DOMAIN call = Calls
  BY <1>1, Field DEF Typed, CallsKnown
<1>3. \A r : Goto(c, r) => call'[c] = r BY <1>2 DEF Goto
<1>4. CASE Goto(c, Idle) BY <1>4, Answered
<1>5. ASSUME NEW r, call'[c] = r,
             r.pc \in {"setStatus", "send", "record", "setPassword", "logLogout"}
      PROVE  Came(c)
  BY <1>5 DEF Came, Asking
<1>6. CASE Create(c) /\ ~Goto(c, Idle)
  <2>1. PICK u \in UserIds, pc \in {"setStatus", "createCode"} :
          Goto(c, [old EXCEPT !.pc = pc, !.user = u])
    <3>1. PICK u \in UserIds : Goto(c, IF old.op = "createUser"
                             THEN [old EXCEPT !.pc = "setStatus", !.user = u]
                             ELSE [old EXCEPT !.pc = "createCode", !.user = u])
      BY <1>1, <1>6 DEF Create
    <3>2. PICK pc \in {"setStatus", "createCode"} :
            pc = IF old.op = "createUser" THEN "setStatus" ELSE "createCode"
      OBVIOUS
    <3>3. Goto(c, [old EXCEPT !.pc = pc, !.user = u])
      <4>1. CASE old.op = "createUser" BY <3>1, <3>2, <4>1
      <4>2. CASE old.op # "createUser" BY <3>1, <3>2, <4>2
      <4> QED BY <4>1, <4>2
    <3> QED BY <3>2, <3>3
  <2>2. PICK r : r = [old EXCEPT !.pc = pc, !.user = u] OBVIOUS
  <2>3. r.pc = pc /\ r.phone = old.phone /\ r.since = old.since /\ r.op = old.op
    BY <1>2, <2>2 DEF CallType
  <2>4. call'[c] = r /\ old.pc = "create" BY <1>1, <1>3, <1>6, <2>1, <2>2 DEF Create
  <2> QED BY <1>1, <2>1, <2>3, <2>4 DEF Came, Asking
<1>7. CASE Cooldown(c) /\ ~Goto(c, Idle)
  <2>1. PICK r : r = [old EXCEPT !.pc = "createCode"] OBVIOUS
  <2>2. call'[c] = r /\ old.pc = "cooldown" BY <1>1, <1>3, <1>7, <2>1 DEF Cooldown
  <2>3. r.pc = "createCode" /\ r.phone = old.phone /\ r.since = old.since /\ r.op = old.op
    BY <1>2, <2>1 DEF CallType
  <2> QED BY <1>1, <2>2, <2>3 DEF Came, Asking
<1>8. CASE CreateCode(c) /\ ~Goto(c, Idle)
  <2>1. PICK i : Goto(c, [old EXCEPT !.pc = "send", !.code = i])
    BY <1>1, <1>8 DEF CreateCode
  <2>2. [old EXCEPT !.pc = "send", !.code = i].pc = "send" BY <1>2 DEF CallType
  <2> QED BY <1>3, <1>5, <2>1, <2>2
<1>9. CASE SendSms(c) /\ ~Goto(c, Idle)
  <2>1. PICK n : Goto(c, [old EXCEPT !.pc = "record", !.n = n])
    BY <1>1, <1>9 DEF SendSms
  <2>2. [old EXCEPT !.pc = "record", !.n = n].pc = "record" BY <1>2 DEF CallType
  <2> QED BY <1>3, <1>5, <2>1, <2>2
<1>10. CASE WrongCode(c)
  <2>1. call'[c] = Idle BY <1>10 DEF WrongCode
  <2>2. call'[c].pc = "idle" BY <2>1 DEF Idle
  <2> QED BY <2>2 DEF Came, Asking
<1>11. CASE Consume(c) /\ ~Goto(c, Idle)
  <2>1. PICK n : n = code[old.code].asked OBVIOUS
  <2>2. /\ old.pc = "consume" /\ Kept(old.code) /\ user' = user
        /\ ~(old.op = "verify" /\ code[old.code].purpose = "PASSWORD_RESET")
        /\ Goto(c, [old EXCEPT !.pc = "findUser", !.code = NULL, !.n = n])
    BY <1>1, <1>11, <2>1 DEF Consume
  <2>3. PICK r : r = [old EXCEPT !.pc = "findUser", !.code = NULL, !.n = n] OBVIOUS
  <2>4. r.pc = "findUser" /\ r.phone = old.phone /\ r.n = n /\ r.op = old.op
    BY <1>2, <2>3 DEF CallType
  <2>5. call'[c] = r BY <1>3, <2>2, <2>3
  <2> QED BY <1>1, <2>1, <2>2, <2>4, <2>5 DEF Came, Asking
<1>12. CASE FindUser(c) /\ ~Goto(c, Idle)
  <2>1. PICK u \in Account(old.phone), pc \in {"activate", "setPassword"} :
          /\ pc = (IF old.op = "verify" THEN "activate" ELSE "setPassword")
          /\ Goto(c, [old EXCEPT !.user = u, !.pc = pc])
    BY <1>1, <1>12 DEF FindUser
  <2>2. PICK r : r = [old EXCEPT !.user = u, !.pc = pc] OBVIOUS
  <2>3. r.pc = pc /\ r.user = u /\ r.n = old.n BY <1>2, <2>2 DEF CallType
  <2>4. call'[c] = r /\ old.pc = "findUser" /\ user' = user
    BY <1>1, <1>3, <1>12, <2>1, <2>2 DEF FindUser
  <2>5. CASE pc = "setPassword" BY <1>5, <2>3, <2>4, <2>5
  <2>6. CASE pc = "activate" /\ old.op = "verify"
    BY <1>1, <2>1, <2>3, <2>4, <2>6 DEF Came, Asking
  <2> QED BY <2>1, <2>5, <2>6
<1>13. CASE FindLogin(c)
  <2>1. CASE Goto(c, [old EXCEPT !.pc = "logFailure"])
    <3>1. PICK r : r = [old EXCEPT !.pc = "logFailure"] OBVIOUS
    <3>2. /\ r.pc = "logFailure" /\ r.phone = old.phone /\ r.typed = old.typed
          /\ r.since = old.since /\ r.at = old.at
      BY <1>2, <3>1 DEF CallType
    <3>3. call'[c] = r BY <1>3, <2>1, <3>1
    <3>4. old.pc = "find" /\ events' = events BY <1>1, <1>13 DEF FindLogin
    <3> QED BY <1>1, <3>2, <3>3, <3>4 DEF Came, Asking
  <2>2. ASSUME NEW u \in Account(old.phone),
               Goto(c, [old EXCEPT !.pc = "logSuccess", !.user = u, !.n = user[u].password])
        PROVE  Came(c)
    <3>1. PICK n : n = user[u].password OBVIOUS
    <3>2. PICK r : r = [old EXCEPT !.pc = "logSuccess", !.user = u, !.n = n] OBVIOUS
    <3>3. r.pc = "logSuccess" /\ r.user = u /\ r.n = n BY <1>2, <3>2 DEF CallType
    <3>4. call'[c] = r BY <1>3, <2>2, <3>1, <3>2
    <3>5. Exists(u) /\ user' = user /\ token' = token
      BY <1>13, <2>2 DEF Account, FindLogin
    <3> QED BY <3>1, <3>3, <3>4, <3>5 DEF Came, Asking
  <2> QED BY <1>1, <1>13, <2>1, <2>2 DEF FindLogin
<1>14. CASE LogSuccess(c) /\ ~Goto(c, Idle)
  <2>1. PICK r : r = [old EXCEPT !.pc = "issue", !.typed = NULL, !.since = 0, !.at = 0] OBVIOUS
  <2>2. call'[c] = r /\ old.pc = "logSuccess" /\ user' = user /\ token' = token
    BY <1>1, <1>3, <1>14, <2>1 DEF LogSuccess
  <2>3. r.pc = "issue" /\ r.user = old.user /\ r.n = old.n /\ r.overtaken = old.overtaken
    BY <1>2, <2>1 DEF CallType
  <2> QED BY <1>1, <2>2, <2>3 DEF Came, Asking
<1>15. CASE Drop(c)
  <2>1. Goto(c, [old EXCEPT !.pc = "logLogout"]) BY <1>1, <1>15 DEF Drop
  <2>2. [old EXCEPT !.pc = "logLogout"].pc = "logLogout" BY <1>2 DEF CallType
  <2> QED BY <1>3, <1>5, <2>1, <2>2
<1>16. CASE SetPassword(c) /\ ~Goto(c, Idle)
  <2>1. PICK n : n = user[old.user].password + 1 OBVIOUS
  <2>2. PICK r : r = [old EXCEPT !.pc = "revoke", !.n = n] OBVIOUS
  <2>3. /\ old.pc = "setPassword" /\ token' = token /\ call'[c] = r
        /\ user' = [user EXCEPT ![old.user].password = @ + 1]
    BY <1>1, <1>3, <1>16, <2>1, <2>2 DEF SetPassword
  <2>4. r.pc = "revoke" /\ r.user = old.user /\ r.n = n BY <1>2, <2>2 DEF CallType
  <2>5. old.user \in UserIds BY <1>2, <2>3 DEF Known, AboutUser
  <2>6. user \in [UserIds -> UserType] BY DEF Typed, Rows, UsersTyped
  <2>7. user'[old.user].password = n BY <2>1, <2>3, <2>5, <2>6 DEF UserType
  <2> QED BY <1>16, <2>3, <2>4, <2>7 DEF Came, Asking
<1>17. CASE Revoke(c)
  <2>1. PICK r : r = [old EXCEPT !.pc = "logReset"] OBVIOUS
  <2>2. old.pc = "revoke" /\ call'[c] = r BY <1>1, <1>17, <2>1 DEF Revoke
  <2>3. r.pc = "logReset" /\ r.user = old.user /\ r.n = old.n BY <1>2, <2>1 DEF CallType
  <2> QED BY <1>1, <1>17, <2>2, <2>3 DEF Came, Asking
<1>18. Goto(c, Idle) \/ \/ Create(c) \/ Cooldown(c) \/ CreateCode(c) \/ SendSms(c)
                        \/ WrongCode(c) \/ Consume(c) \/ FindUser(c) \/ FindLogin(c)
                        \/ LogSuccess(c) \/ Drop(c) \/ SetPassword(c) \/ Revoke(c)
  BY DEF Continue, RecordSms, Activate, LogLockout, LogFailure, Issue, RevokeAll, Rotate,
         LogLogout, LogReset, SetStatus, Fail
<1> QED BY <1>4, <1>6, <1>7, <1>8, <1>9, <1>10, <1>11, <1>12, <1>13, <1>14, <1>15, <1>16,
           <1>17, <1>18

\* A handler that another one's step finds at work is marked at most.
Marked(d) ==
  /\ call'[d] = [call[d] EXCEPT !.overtaken = TRUE]
  /\ \E c \in Calls \ {d} : \/ WrongCode(c) /\ d \in Tried(call[c].code)
                            \/ Revoke(c) /\ d \in Checked(call[c].user)

LEMMA CallSteps ==
  ASSUME Typed, [Next]_vars, NEW d \in Calls
  PROVE  \/ call'[d] = call[d] \/ Marked(d)
         \/ (Request(d) \/ Continue(d)) /\ Came(d)
<1>1. ASSUME Cleanup \/ Tick \/ UNCHANGED vars PROVE call' = call
  BY <1>1 DEF Cleanup, FindStale, DeleteCodes, DeleteWallets, DeleteUsers, JobFails,
              CleanupOtps, CleanupTokens, Tick, vars
<1>2. ASSUME NEW c \in Calls, Request(c), c # d PROVE call'[d] = call[d]
  <2>1. ASSUME NEW op, NEW next, Arrive(c, op, next) PROVE call'[d] = call[d]
    BY <1>2, <2>1 DEF Arrive, Typed, CallsKnown
  <2>2. ASSUME NEW p, \/ Register(c, p) \/ ForgotPassword(c, p) \/ CreateUser(c, p)
                      \/ \E typed \in Spellings : LoginArrives(c, p, typed)
        PROVE  call'[d] = call[d]
    BY <2>1, <2>2 DEF Register, ForgotPassword, LoginArrives, CreateUser
  <2>3. ASSUME NEW p, NEW op, NEW purpose, NEW right, PresentCode(c, op, purpose, p, right)
        PROVE  call'[d] = call[d]
    BY <2>1, <2>3 DEF PresentCode
  <2>4. ASSUME NEW u, NEW op, FindTarget(c, op, u) PROVE call'[d] = call[d]
    BY <2>1, <2>4 DEF FindTarget
  <2>5. ASSUME NEW t, Refresh(c, t) \/ Logout(c, t) PROVE call'[d] = call[d]
    BY <2>1, <2>5 DEF Refresh, Logout
  <2> QED BY <1>2, <2>2, <2>3, <2>4, <2>5 DEF Request
<1>3. ASSUME NEW c \in Calls, Continue(c), c # d PROVE call'[d] = call[d] \/ Marked(d)
  <2>1. ASSUME NEW next, Goto(c, next) PROVE call'[d] = call[d]
    BY <1>3, <2>1 DEF Goto, Typed, CallsKnown
  <2>2. CASE WrongCode(c) BY <1>3, <2>2 DEF WrongCode, Marked
  <2>3. CASE Revoke(c) BY <1>3, <2>3 DEF Revoke, Marked
  <2>4. CASE \/ Create(c) \/ Cooldown(c) \/ CreateCode(c) \/ SendSms(c) \/ RecordSms(c)
             \/ Consume(c) \/ FindUser(c) \/ Activate(c) \/ SetStatus(c) \/ Fail(c)
    BY <2>1, <2>4 DEF Create, Cooldown, CreateCode, SendSms, RecordSms, Consume, FindUser,
                      Activate, SetStatus, Fail
  <2>5. CASE \/ LogLockout(c) \/ FindLogin(c) \/ LogFailure(c) \/ LogSuccess(c)
             \/ Issue(c) \/ RevokeAll(c) \/ Rotate(c) \/ Drop(c) \/ LogLogout(c)
             \/ SetPassword(c) \/ LogReset(c)
    BY <2>1, <2>5 DEF LogLockout, FindLogin, LogFailure, LogSuccess, Issue, RevokeAll,
                      Rotate, Drop, LogLogout, SetPassword, LogReset
  <2> QED BY <1>3, <2>2, <2>3, <2>4, <2>5 DEF Continue
<1> QED BY <1>1, <1>2, <1>3, RequestsCame, ContinueCame DEF Next

-----------------------------------------------------------------------------
(* What a step does to the row of a code *)

Minted(i, c) ==
  /\ CreateCode(c) /\ code[i].purpose = NULL
  /\ code'[i].phone = call[c].phone /\ code'[i].purpose = Purpose(c)
  /\ code'[i].asked = call[c].since
  /\ code'[i].attempts = 0 /\ code'[i].alone = 0

SameCode(i) ==
  /\ code'[i].phone = code[i].phone /\ code'[i].purpose = code[i].purpose
  /\ code'[i].asked = code[i].asked

\* Neither a message nor the right code changes the count of wrong ones.
SameGuesses(i) ==
  /\ code'[i].attempts = code[i].attempts /\ code'[i].alone = code[i].alone
  /\ code[i].consumed => code'[i].consumed

Guessed(i, c) ==
  /\ WrongCode(c) /\ call[c].code = i
  /\ code'[i].attempts = call[c].n
  /\ code'[i].consumed = (code[i].consumed \/ call[c].n >= MaxAttempts)
  /\ code'[i].alone = IF ~call[c].overtaken /\ Tried(i) = {c} THEN code[i].alone + 1
                                                              ELSE code[i].alone

LEMMA CodeSteps ==
  ASSUME Typed, [Next]_vars, NEW i \in CodeIds, code'[i] # code[i]
  PROVE  \/ code'[i] = Deleted(i)
         \/ \E c \in Calls : Minted(i, c)
         \/ Kept(i) /\ SameCode(i) /\ (SameGuesses(i) \/ \E c \in Calls : Guessed(i, c))
<1>1. code \in [CodeIds -> CodeType] BY DEF Typed, Rows, CodesTyped
<1>2. PICK old : old = code[i] OBVIOUS
<1>3. old \in CodeType BY <1>1, <1>2
<1>4. ASSUME NEW c \in Calls, CreateCode(c) PROVE Minted(i, c)
  <2>1. PICK row : row = [NoCode EXCEPT !.purpose = Purpose(c), !.phone = call[c].phone,
                                 !.user = call[c].user, !.createdAt = now,
                                 !.asked = call[c].since]
    OBVIOUS
  <2>2. PICK j \in CodeIds :
          /\ \A k \in CodeIds : code[k].purpose = NULL <=> k >= j
          /\ code' = [code EXCEPT ![j] = row]
    BY <1>4, <2>1 DEF CreateCode
  <2>3. j = i /\ code'[i] = row BY <1>1, <2>2
  <2>4. code[i].purpose = NULL
    <3>1. i \in Int /\ i >= i BY AccountAssumption DEF CodeIds
    <3> QED BY <2>2, <2>3, <3>1
  <2>5. /\ row.phone = call[c].phone /\ row.purpose = Purpose(c)
        /\ row.asked = call[c].since /\ row.attempts = 0 /\ row.alone = 0
    BY <2>1 DEF NoCode
  <2> QED BY <1>4, <2>3, <2>4, <2>5 DEF Minted
<1>5. ASSUME NEW c \in Calls, SendSms(c) PROVE Kept(i) /\ SameCode(i) /\ SameGuesses(i)
  <2>1. PICK delivered \in BOOLEAN : Kept(i) /\ code'[i] = [old EXCEPT !.delivered = delivered]
    BY <1>1, <1>2, <1>5 DEF SendSms
  <2>2. code'[i] = [old EXCEPT !.delivered = delivered] /\ Kept(i) BY <2>1
  <2> QED BY <1>2, <1>3, <2>2 DEF SameCode, SameGuesses, CodeType
<1>6. ASSUME NEW c \in Calls, RecordSms(c) PROVE Kept(i) /\ SameCode(i) /\ SameGuesses(i)
  <2>1. PICK sms : Kept(i) /\ code'[i] = [old EXCEPT !.sms = sms]
    <3>1. PICK sms : code' = IF Exists(call[c].user) /\ Kept(call[c].code)
                               THEN [code EXCEPT ![call[c].code].sms = sms] ELSE code
      BY <1>6 DEF RecordSms
    <3>2. Kept(call[c].code) /\ code' = [code EXCEPT ![call[c].code].sms = sms] BY <3>1
    <3>3. call[c].code = i BY <1>1, <3>2
    <3> QED BY <1>1, <1>2, <3>2, <3>3
  <2>2. code'[i] = [old EXCEPT !.sms = sms] /\ Kept(i) BY <2>1
  <2> QED BY <1>2, <1>3, <2>2 DEF SameCode, SameGuesses, CodeType
<1>7. ASSUME NEW c \in Calls, WrongCode(c) PROVE Kept(i) /\ SameCode(i) /\ Guessed(i, c)
  <2>1. call[c].code = i /\ Kept(i) BY <1>1, <1>7 DEF WrongCode
  <2>2. PICK alone : alone = IF ~call[c].overtaken /\ Tried(i) = {c} THEN old.alone + 1
                                                                      ELSE old.alone
    OBVIOUS
  <2>3. PICK used : used = (old.consumed \/ call[c].n >= MaxAttempts) OBVIOUS
  <2>4. PICK row : row = [old EXCEPT !.attempts = call[c].n, !.consumed = used] OBVIOUS
  <2>5. row = Missed(i, call[c].n) BY <1>2, <2>3, <2>4 DEF Missed
  <2>6. row.alone = old.alone BY <1>3, <2>4 DEF CodeType
  <2>7. code'[i] = [row EXCEPT !.alone = alone]
    <3>1. PICK a : a = IF ~call[c].overtaken /\ Tried(i) = {c} THEN row.alone + 1 ELSE row.alone
      OBVIOUS
    <3>2. code'[i] = [row EXCEPT !.alone = a]
      BY <1>1, <1>7, <2>1, <2>5, <3>1 DEF WrongCode
    <3> QED BY <2>2, <2>6, <3>1, <3>2
  <2>8. /\ code'[i].phone = old.phone /\ code'[i].purpose = old.purpose
        /\ code'[i].asked = old.asked /\ code'[i].attempts = call[c].n
        /\ code'[i].consumed = used /\ code'[i].alone = alone
    BY <1>3, <2>4, <2>7 DEF CodeType
  <2> QED BY <1>2, <1>7, <2>1, <2>2, <2>3, <2>8 DEF SameCode, Guessed
<1>8. ASSUME NEW c \in Calls, Consume(c) PROVE Kept(i) /\ SameCode(i) /\ SameGuesses(i)
  <2>1. Kept(i) /\ code'[i] = [old EXCEPT !.consumed = TRUE]
    BY <1>1, <1>2, <1>8 DEF Consume
  <2> QED BY <1>2, <1>3, <2>1 DEF SameCode, SameGuesses, CodeType
<1>9. CASE DeleteCodes \/ DeleteUsers \/ CleanupOtps
  BY <1>9 DEF DeleteCodes, DeleteUsers, CleanupOtps
<1> QED BY <1>4, <1>5, <1>6, <1>7, <1>8, <1>9, CodeWriters

-----------------------------------------------------------------------------
(* How often a code is guessed *)

\* The guesses that overlapped no other are all on the count, which a request that
\* has one more to write had read after all of them.
GuessInv ==
  /\ \A i \in CodeIds :
       /\ code[i].alone <= code[i].attempts
       /\ Kept(i) /\ ~code[i].consumed => code[i].attempts < MaxAttempts
  /\ \A c \in Calls : call[c].pc = "wrong" => call[c].n > code[call[c].code].alone

LEMMA GuessStep ==
  ASSUME Typed, GuessInv, [Next]_vars
  PROVE  GuessInv'
<1>0. MaxAttempts \in Nat /\ MaxAttempts > 0 BY AccountAssumption
<1>1. code \in [CodeIds -> CodeType] BY DEF Typed, Rows, CodesTyped
<1>2. \A i \in CodeIds : Deleted(i).phone = NULL /\ Deleted(i).alone = 0
                         /\ Deleted(i).attempts = 0
  BY DEF Deleted, NoCode
<1>3. ASSUME NEW i \in CodeIds
      PROVE  /\ code'[i].alone <= code'[i].attempts
             /\ Kept(i)' /\ ~code'[i].consumed => code'[i].attempts < MaxAttempts
  <2>1. /\ code[i].alone \in Nat /\ code[i].attempts \in Nat
        /\ code[i].alone <= code[i].attempts
        /\ Kept(i) /\ ~code[i].consumed => code[i].attempts < MaxAttempts
    BY <1>1 DEF GuessInv, CodeType
  <2>2. CASE code'[i] = code[i] BY <2>1, <2>2 DEF Kept
  <2>3. CASE code'[i] = Deleted(i) BY <1>2, <2>3 DEF Kept
  <2>4. ASSUME NEW c \in Calls, Minted(i, c) PROVE code'[i].alone = 0 /\ code'[i].attempts = 0
    BY <2>4 DEF Minted
  <2>5. CASE Kept(i) /\ SameGuesses(i)
    <3>1. code'[i].consumed \in BOOLEAN /\ code[i].consumed \in BOOLEAN
      BY <1>1, StepTyped DEF Typed, Rows, CodesTyped, CodeType
    <3> QED BY <2>1, <2>5, <3>1 DEF SameGuesses
  <2>6. ASSUME NEW c \in Calls, Guessed(i, c)
        PROVE  /\ code'[i].alone <= code'[i].attempts
               /\ Kept(i)' /\ ~code'[i].consumed => code'[i].attempts < MaxAttempts
    <3>1. call[c].pc = "wrong" /\ call[c].code = i BY <2>6 DEF Guessed, WrongCode
    <3>2. call[c].n \in Nat /\ call[c].n > code[i].alone
      BY <3>1, Field DEF GuessInv, CallType
    <3>3. code[i].alone + 1 <= call[c].n /\ code[i].alone <= call[c].n BY <2>1, <3>2
    <3>4. code'[i].alone <= code'[i].attempts BY <2>6, <3>3 DEF Guessed
    <3>5. ~code'[i].consumed => ~(call[c].n >= MaxAttempts) BY <2>6 DEF Guessed
    <3>6. ~(call[c].n >= MaxAttempts) => call[c].n < MaxAttempts BY <1>0, <3>2
    <3>7. code'[i].attempts = call[c].n BY <2>6 DEF Guessed
    <3> QED BY <3>4, <3>5, <3>6, <3>7
  <2> QED BY <1>0, <2>2, <2>3, <2>4, <2>5, <2>6, CodeSteps
\* A count that was read grows only by guesses that overlap no other.
<1>4. ASSUME NEW d \in Calls, call[d].pc = "wrong", call'[d].pc = "wrong",
             call'[d].n = call[d].n, call'[d].code = call[d].code
      PROVE  call'[d].n > code'[call'[d].code].alone
  <2>1. PICK i \in CodeIds : i = call[d].code /\ code[i].purpose # NULL
    BY <1>4, Field DEF Known, AboutCode
  <2>2. PICK n \in Nat : n = call[d].n /\ n > code[i].alone
    BY <1>4, <2>1, Field DEF GuessInv, CallType
  <2>3. code[i].alone \in Nat BY <1>1, <2>1 DEF CodeType
  <2>4. ASSUME NEW c \in Calls, Guessed(i, c) PROVE code'[i].alone = code[i].alone
    <3>1. d \in Tried(i) BY <1>4, <2>1 DEF Tried
    <3>2. call'[c] = Idle BY <2>4 DEF Guessed, WrongCode
    <3>3. c # d BY <1>4, <3>2 DEF Idle
    <3>4. Tried(i) # {c} BY <3>1, <3>3
    <3> QED BY <2>4, <3>4 DEF Guessed
  <2>5. ASSUME NEW c \in Calls PROVE ~Minted(i, c) BY <2>1 DEF Minted
  <2>6. code'[i].alone = code[i].alone \/ code'[i].alone = 0
    BY <1>2, <2>4, <2>5, CodeSteps DEF SameGuesses
  <2>7. n > code'[i].alone BY <2>2, <2>3, <2>6
  <2> QED BY <1>4, <2>1, <2>2, <2>7
<1>5. ASSUME NEW d \in Calls, call'[d].pc = "wrong"
      PROVE  call'[d].n > code'[call'[d].code].alone
  <2>1. CASE call'[d] = call[d] BY <1>4, <1>5, <2>1
  <2>2. CASE Marked(d)
    <3>1. call[d] \in CallType BY Field
    <3>2. call'[d].pc = call[d].pc /\ call'[d].n = call[d].n /\ call'[d].code = call[d].code
      BY <2>2, <3>1 DEF Marked, CallType
    <3> QED BY <1>4, <1>5, <3>2
  <2>3. CASE Came(d)
    <3>1. code' = code /\ call'[d].n = code[call'[d].code].attempts + 1
      BY <1>5, <2>3 DEF Came
    <3>2. call'[d].code \in CodeIds
      BY <1>5, StepTyped DEF Typed, CallsKnown, Known, AboutCode
    <3>3. PICK i \in CodeIds : i = call'[d].code BY <3>2
    <3>4. code[i].alone <= code[i].attempts /\ code[i].alone \in Nat /\ code[i].attempts \in Nat
      BY <1>1 DEF GuessInv, CodeType
    <3>5. code[i].attempts + 1 > code[i].alone BY <3>4
    <3> QED BY <3>1, <3>3, <3>5
  <2> QED BY <2>1, <2>2, <2>3, CallSteps
<1> QED BY <1>3, <1>5 DEF GuessInv

\* GuessesBounded holds of every behaviour: a code that can still be used was
\* guessed wrong fewer times than is allowed, the guesses aside that overlapped
\* another guess of it.
THEOREM GuessesBoundedAlways == Spec => []GuessesBounded
<1>1. Init => GuessInv
  <2>1. NoCode.alone = 0 /\ NoCode.attempts = 0 /\ NoCode.phone = NULL /\ Idle.pc = "idle"
    BY DEF NoCode, Idle
  <2> QED BY <2>1 DEF Init, GuessInv, Kept
<1>2. Typed /\ GuessInv /\ [Next]_vars => GuessInv' BY GuessStep
<1>3. Typed /\ GuessInv => GuessesBounded
  <2> SUFFICES ASSUME Typed, GuessInv, NEW i \in CodeIds, Kept(i), ~code[i].consumed
               PROVE  code[i].alone < MaxAttempts
    BY DEF GuessesBounded
  <2>1. code[i].alone \in Nat /\ code[i].attempts \in Nat
    BY DEF Typed, Rows, CodesTyped, CodeType
  <2>2. code[i].alone <= code[i].attempts /\ code[i].attempts < MaxAttempts
    BY DEF GuessInv
  <2>3. MaxAttempts \in Nat BY AccountAssumption
  <2> QED BY <2>1, <2>2, <2>3
<1> QED BY <1>1, <1>2, <1>3, TypedAlways, PTL DEF Spec

-----------------------------------------------------------------------------
(* What keeps a disabled account disabled *)

\* Every disabled account of phone p was disabled since request n arrived.
Barred(p, n) ==
  \A u \in UserIds : user[u].status = "DISABLED" /\ user[u].phone = p => n <= user[u].barred

CodeBarred(i) ==
  /\ code[i].asked <= requests
  /\ code[i].purpose = "REGISTRATION" /\ Kept(i) => Barred(code[i].phone, code[i].asked)

\* A registration, its code, and the verification with that code go back to a request
\* that arrived while the account was not disabled.
CallBarred(r) ==
  /\ r.pc \in Asking => r.since <= requests
  /\ r.pc \in Asking /\ r.op = "register" => Barred(r.phone, r.since)
  /\ r.pc = "consume" => code[r.code].phone \in {r.phone, NULL}
  /\ r.pc \in {"findUser", "activate"} => r.n <= requests
  /\ r.pc = "findUser" /\ r.op = "verify" => Barred(r.phone, r.n)
  /\ r.pc = "activate" => (user[r.user].status = "DISABLED" => r.n <= user[r.user].barred)

OneAccount ==
  \A u, v \in UserIds : Exists(u) /\ Exists(v) /\ user[u].phone = user[v].phone => u = v

BarredInv ==
  /\ OneAccount /\ DisabledStaysDisabled
  /\ \A i \in CodeIds : CodeBarred(i)
  /\ \A c \in Calls : CallBarred(call[c])

\* An account is disabled by a request that has arrived.
LEMMA BarsMove ==
  ASSUME Typed, [Next]_vars, NEW u \in UserIds, user'[u].status = "DISABLED"
  PROVE  \/ /\ user[u].status = "DISABLED" /\ user'[u].phone = user[u].phone
            /\ user'[u].barred = user[u].barred
         \/ user'[u].barred = requests
<1>1. CASE user'[u] = user[u] BY <1>1
<1>2. CASE Born(u) BY <1>2 DEF Born
<1>3. CASE Gone(u) BY <1>3 DEF Gone
<1>4. ASSUME NEW c \in Calls, Updated(u, c)
      PROVE  \/ /\ user[u].status = "DISABLED" /\ user'[u].phone = user[u].phone
                /\ user'[u].barred = user[u].barred
             \/ user'[u].barred = requests
  BY <1>4 DEF Updated, SameAccess
<1> QED BY <1>1, <1>2, <1>3, <1>4, UserSteps

LEMMA BarredStays ==
  ASSUME Typed, [Next]_vars, NEW p, NEW n \in Nat, n <= requests, Barred(p, n)
  PROVE  Barred(p, n)'
BY BarsMove DEF Barred

LEMMA OneAccountStays ==
  ASSUME Typed, [Next]_vars, OneAccount
  PROVE  OneAccount'
<1>1. ASSUME NEW u \in UserIds, Exists(u)'
      PROVE  Born(u) \/ (Exists(u) /\ user'[u].phone = user[u].phone)
  <2>1. CASE user'[u] = user[u] BY <1>1, <2>1 DEF Exists
  <2>2. CASE Gone(u) BY <1>1, <2>2 DEF Gone, Exists
  <2> QED BY <2>1, <2>2, UserSteps DEF Updated
<1>2. ASSUME NEW u \in UserIds, NEW v \in UserIds, Born(u), Born(v) PROVE u = v
  BY <1>2 DEF Born
<1>3. ASSUME NEW u \in UserIds, NEW v \in UserIds, Born(u), Exists(v)
      PROVE  user[v].phone # user'[u].phone
  BY <1>3 DEF Born
<1> QED BY <1>1, <1>2, <1>3 DEF OneAccount

LEMMA CodesStayBarred ==
  ASSUME Typed, BarredInv, [Next]_vars, NEW i \in CodeIds
  PROVE  CodeBarred(i)'
<1>0. requests \in Nat /\ requests' \in Nat /\ requests <= requests'
  BY RequestsGoUp DEF Typed, Rows
<1>1. code[i] \in CodeType /\ CodeBarred(i) BY DEF BarredInv, Typed, Rows, CodesTyped
<1>2. code[i].asked \in Nat BY <1>1 DEF CodeType
<1>3. ASSUME SameCode(i) PROVE CodeBarred(i)'
  <2>1. Kept(i)' => Kept(i) BY <1>3 DEF SameCode, Kept
  <2>2. code[i].asked <= requests BY <1>1 DEF CodeBarred
  <2>3. code'[i].asked <= requests' BY <1>0, <1>2, <1>3, <2>2 DEF SameCode
  <2>4. ASSUME code[i].purpose = "REGISTRATION", Kept(i)
        PROVE  Barred(code[i].phone, code[i].asked)'
    <3>0. PICK p : p = code[i].phone OBVIOUS
    <3>1. PICK n \in Nat : p = code[i].phone /\ n = code[i].asked BY <1>2, <3>0
    <3>2. Barred(p, n) /\ n <= requests BY <1>1, <2>4, <3>1 DEF CodeBarred
    <3>3. Barred(p, n)' BY <3>2, BarredStays
    <3> QED BY <1>3, <3>1, <3>3 DEF SameCode, Barred
  <2> QED BY <1>3, <2>1, <2>3, <2>4 DEF CodeBarred, SameCode
<1>4. CASE code'[i] = code[i]
  BY <1>3, <1>4 DEF SameCode
<1>5. CASE code'[i] = Deleted(i)
  <2>1. code'[i].phone = NULL /\ code'[i].asked = 0 BY <1>5 DEF Deleted, NoCode
  <2> QED BY <1>0, <2>1 DEF CodeBarred, Kept
<1>6. ASSUME NEW c \in Calls, Minted(i, c) PROVE CodeBarred(i)'
  <2>1. call[c].pc = "createCode" /\ CallBarred(call[c])
    BY <1>6 DEF Minted, CreateCode, BarredInv
  <2>2. PICK n \in Nat : n = call[c].since BY Field DEF CallType
  <2>3. n <= requests BY <2>1, <2>2 DEF CallBarred, Asking
  <2>4. code'[i].asked = n /\ n <= requests' BY <1>0, <1>6, <2>2, <2>3 DEF Minted
  <2>5. ASSUME code'[i].purpose = "REGISTRATION"
        PROVE  Barred(code[i].phone, code[i].asked)'
    <3>1. call[c].op = "register" BY <1>6, <2>5 DEF Minted, Purpose
    <3>2. PICK p : p = call[c].phone OBVIOUS
    <3>3. Barred(p, n) BY <2>1, <2>2, <3>1, <3>2 DEF CallBarred, Asking
    <3>4. Barred(p, n)' BY <2>3, <3>3, BarredStays
    <3>5. code'[i].phone = p BY <1>6, <3>2 DEF Minted
    <3> QED BY <2>4, <3>4, <3>5 DEF Barred
  <2> QED BY <2>4, <2>5 DEF CodeBarred
<1> QED BY <1>3, <1>4, <1>5, <1>6, CodeSteps

LEMMA CallsStayBarred ==
  ASSUME Typed, BarredInv, [Next]_vars, NEW d \in Calls
  PROVE  CallBarred(call[d])'
<1>0. requests \in Nat /\ requests' \in Nat /\ requests <= requests'
  BY RequestsGoUp DEF Typed, Rows
<1>1. PICK old \in CallType : old = call[d] BY Field
<1>2. CallBarred(old) /\ Known(old) BY <1>1, Field DEF BarredInv
<1>3. PICK r : r = call'[d] OBVIOUS
<1>4. r \in CallType BY <1>3, StepTyped DEF Typed, CallsKnown, Known
<1>5. old.n \in Nat /\ old.since \in Nat BY DEF CallType
<1>6. SUFFICES CallBarred(r)' BY <1>3
\* A handler that stays where it is.
<1>7. ASSUME r.pc = old.pc, r.op = old.op, r.phone = old.phone, r.user = old.user,
             r.code = old.code, r.n = old.n, r.since = old.since
      PROVE  CallBarred(r)'
  <2>1. r.pc \in Asking => r.since <= requests' BY <1>0, <1>2, <1>5, <1>7 DEF CallBarred
  <2>2. ASSUME r.pc \in Asking, r.op = "register" PROVE Barred(r.phone, r.since)'
    BY <1>2, <1>5, <1>7, <2>2, BarredStays DEF CallBarred
  <2>3. ASSUME r.pc = "consume" PROVE code'[r.code].phone \in {r.phone, NULL}
    <3>1. PICK i \in CodeIds : i = old.code /\ code[i].purpose # NULL
      BY <1>2, <1>7, <2>3 DEF Known, AboutCode
    <3>2. code[i].phone \in {r.phone, NULL} BY <1>2, <1>7, <2>3, <3>1 DEF CallBarred
    <3>3. ASSUME NEW c \in Calls PROVE ~Minted(i, c) BY <3>1 DEF Minted
    <3>4. Deleted(i).phone = NULL BY DEF Deleted, NoCode
    <3>5. code'[i].phone \in {code[i].phone, NULL} BY <3>3, <3>4, CodeSteps DEF SameCode
    <3> QED BY <1>7, <3>1, <3>2, <3>5
  <2>4. r.pc \in {"findUser", "activate"} => r.n <= requests'
    BY <1>0, <1>2, <1>5, <1>7 DEF CallBarred
  <2>5. ASSUME r.pc = "findUser", r.op = "verify" PROVE Barred(r.phone, r.n)'
    BY <1>2, <1>5, <1>7, <2>5, BarredStays DEF CallBarred
  <2>6. ASSUME r.pc = "activate", user'[r.user].status = "DISABLED"
        PROVE  r.n <= user'[r.user].barred
    <3>1. r.user \in UserIds BY <1>2, <1>7, <2>6 DEF Known, AboutUser
    <3>2. PICK u \in UserIds : u = r.user BY <3>1
    <3>3. \/ user[u].status = "DISABLED" /\ user'[u].barred = user[u].barred
          \/ user'[u].barred = requests
      BY <2>6, <3>2, BarsMove
    <3>4. r.n <= requests BY <1>2, <1>7, <2>6 DEF CallBarred
    <3>5. user[u].status = "DISABLED" => r.n <= user[u].barred
      BY <1>2, <1>7, <2>6, <3>2 DEF CallBarred
    <3> QED BY <3>2, <3>3, <3>4, <3>5
  <2> QED BY <2>1, <2>2, <2>3, <2>4, <2>5, <2>6 DEF CallBarred
<1>8. CASE r = old BY <1>7, <1>8
<1>9. CASE Marked(d)
  <2>1. r = [old EXCEPT !.overtaken = TRUE] BY <1>1, <1>3, <1>9 DEF Marked
  <2> QED BY <1>7, <2>1 DEF CallType
<1>10. CASE Came(d)
  <2>1. \A u \in Account(r.phone), v \in UserIds :
          user[v].status = "DISABLED" /\ user[v].phone = r.phone => u = v
    BY DEF BarredInv, OneAccount, Account, Exists
  <2>2. ASSUME r.pc \in Asking
        PROVE  /\ r.since <= requests'
               /\ r.op = "register" => Barred(r.phone, r.since)'
    <3>1. CASE /\ old.pc \in Asking /\ r.phone = old.phone /\ r.since = old.since
               /\ r.op = old.op
      <4>1. r.since <= requests BY <1>2, <3>1 DEF CallBarred
      <4>2. r.op = "register" => Barred(r.phone, r.since) BY <1>2, <3>1 DEF CallBarred
      <4>3. r.op = "register" => Barred(r.phone, r.since)'
        BY <1>5, <3>1, <4>1, <4>2, BarredStays
      <4> QED BY <1>0, <1>5, <3>1, <4>1, <4>3
    <3>2. CASE /\ user' = user /\ r.since <= requests'
               /\ r.op = "register" =>
                    /\ r.since = requests'
                    /\ Account(r.phone) # {} =>
                         \E u \in Account(r.phone) : user[u].status = "PENDING_VERIFICATION"
      <4>1. ASSUME r.op = "register", NEW u \in UserIds, user[u].status = "DISABLED",
                   user[u].phone = r.phone
            PROVE  FALSE
        <5>1. u \in Account(r.phone) BY <4>1 DEF Account, Exists
        <5> QED BY <2>1, <3>2, <4>1, <5>1
      <4>2. r.op = "register" => Barred(r.phone, r.since)' BY <3>2, <4>1 DEF Barred
      <4> QED BY <3>2, <4>2
    <3> QED BY <1>1, <1>3, <1>10, <2>2, <3>1, <3>2 DEF Came
  <2>3. r.pc = "consume" => code'[r.code].phone \in {r.phone, NULL}
    BY <1>3, <1>10 DEF Came
  <2>4. ASSUME r.pc = "findUser"
        PROVE  r.n <= requests' /\ (r.op = "verify" => Barred(r.phone, r.n)')
    <3>1. /\ old.pc = "consume" /\ r.phone = old.phone /\ user' = user
          /\ Kept(old.code) /\ r.n = code[old.code].asked
          /\ r.op = "verify" => code[old.code].purpose # "PASSWORD_RESET"
      BY <1>1, <1>3, <1>10, <2>4 DEF Came
    <3>2. PICK i \in CodeIds : i = old.code /\ code[i].purpose # NULL
      BY <1>2, <3>1 DEF Known, AboutCode
    <3>3. CodeBarred(i) /\ code[i] \in CodeType BY DEF BarredInv, Typed, Rows, CodesTyped
    <3>4. code[i].phone = r.phone BY <1>2, <3>1, <3>2 DEF CallBarred, Kept
    <3>5. code[i].asked \in Nat /\ code[i].purpose \in OtpPurpose \cup {NULL}
      BY <3>3 DEF CodeType
    <3>6. r.n <= requests BY <3>1, <3>2, <3>3 DEF CodeBarred
    <3>7. r.n \in Nat BY <1>4 DEF CallType
    <3>8. ASSUME r.op = "verify" PROVE Barred(r.phone, r.n)'
      <4>1. code[i].purpose = "REGISTRATION" BY <3>1, <3>2, <3>5, <3>8 DEF OtpPurpose
      <4>2. Barred(r.phone, r.n) BY <3>1, <3>2, <3>3, <3>4, <4>1 DEF CodeBarred
      <4> QED BY <3>6, <3>7, <4>2, BarredStays
    <3> QED BY <1>0, <3>6, <3>7, <3>8
  <2>5. ASSUME r.pc = "activate"
        PROVE  /\ r.n <= requests'
               /\ user'[r.user].status = "DISABLED" => r.n <= user'[r.user].barred
    <3>1. /\ old.pc = "findUser" /\ old.op = "verify" /\ r.n = old.n /\ user' = user
          /\ r.user \in Account(old.phone)
      BY <1>1, <1>3, <1>10, <2>5 DEF Came
    <3>2. old.n <= requests /\ Barred(old.phone, old.n) BY <1>2, <3>1 DEF CallBarred
    <3>3. r.user \in UserIds /\ user[r.user].phone = old.phone BY <3>1 DEF Account
    <3>4. user[r.user].status = "DISABLED" => r.n <= user[r.user].barred
      BY <3>1, <3>2, <3>3 DEF Barred
    <3> QED BY <1>0, <1>5, <3>1, <3>2, <3>4
  <2> QED BY <2>2, <2>3, <2>4, <2>5 DEF CallBarred
<1> QED BY <1>1, <1>3, <1>8, <1>9, <1>10, CallSteps

LEMMA BarredStep ==
  ASSUME Typed, BarredInv, [Next]_vars
  PROVE  BarredInv'
<1>1. OneAccount' BY OneAccountStays DEF BarredInv
<1>2. ASSUME NEW u \in UserIds, user'[u].status = "ACTIVE" PROVE user'[u].warranted
  <2>1. user[u].status = "ACTIVE" => user[u].warranted BY DEF BarredInv, DisabledStaysDisabled
  <2>2. CASE user'[u] = user[u] BY <1>2, <2>1, <2>2
  <2>3. CASE Born(u) \/ Gone(u) BY <1>2, <2>3 DEF Born, Gone
  <2>4. ASSUME NEW c \in Calls, Updated(u, c) PROVE user'[u].warranted
    <3>1. CASE SameAccess(u) BY <1>2, <2>1, <3>1 DEF SameAccess
    <3>2. CASE Activate(c) /\ user'[u].warranted
                                = (user[u].status = "DISABLED" => call[c].n <= user[u].barred)
      <4>1. call[c].pc = "activate" /\ call[c].user = u BY <2>4, <3>2 DEF Activate, Updated
      <4>2. CallBarred(call[c]) BY DEF BarredInv
      <4> QED BY <3>2, <4>1, <4>2 DEF CallBarred
    <3> QED BY <1>2, <2>4, <3>1, <3>2 DEF Updated
  <2> QED BY <2>2, <2>3, <2>4, UserSteps
<1>3. \A i \in CodeIds : CodeBarred(i)' BY CodesStayBarred
<1>4. \A d \in Calls : CallBarred(call[d])' BY CallsStayBarred
<1> QED BY <1>1, <1>2, <1>3, <1>4 DEF BarredInv, DisabledStaysDisabled

\* DisabledStaysDisabled holds of every behaviour: a disabled account is ACTIVE again
\* only if an administrator enabled it, or a registration code asked for before it
\* was disabled was presented since.
THEOREM DisabledStaysDisabledAlways == Spec => []DisabledStaysDisabled
<1>1. ASSUME Init PROVE BarredInv
  <2>1. NoUser.status = "NONE" BY DEF NoUser
  <2>2. \A p : Seeded(p).status = "ACTIVE" /\ Seeded(p).warranted BY DEF Seeded, NoUser
  <2>3. \A u \in UserIds : user[u] = NoUser \/ \E p : user[u] = Seeded(p) BY <1>1 DEF Init
  <2>4. DisabledStaysDisabled BY <2>1, <2>2, <2>3 DEF DisabledStaysDisabled
  <2>5. OneAccount BY <1>1, <2>1 DEF Init, OneAccount, Exists
  <2>6. requests = 0 /\ \A i \in CodeIds : code[i].asked = 0 /\ code[i].phone = NULL
    BY <1>1 DEF Init, NoCode
  <2>7. \A i \in CodeIds : CodeBarred(i) BY <2>6 DEF CodeBarred, Kept
  <2>8. \A c \in Calls : call[c].pc = "idle" BY <1>1 DEF Init, Idle
  <2>9. \A c \in Calls : CallBarred(call[c]) BY <2>8 DEF CallBarred, Asking
  <2> QED BY <2>4, <2>5, <2>7, <2>9 DEF BarredInv
<1>2. Typed /\ BarredInv /\ [Next]_vars => BarredInv' BY BarredStep
<1>3. BarredInv => DisabledStaysDisabled BY DEF BarredInv
<1> QED BY <1>1, <1>2, <1>3, TypedAlways, PTL DEF Spec

-----------------------------------------------------------------------------
(* What a step does to the row of a token *)

\* The row is revoked or deleted at most.
Fades(t) ==
  \/ token'[t].user = NULL
  \/ /\ token'[t].user = token[t].user /\ token'[t].password = token[t].password
     /\ token'[t].overtaken = token[t].overtaken
     /\ token[t].revoked => token'[t].revoked

\* The row is the first of a login, or continues a session.
Opened(t, c) ==
  /\ Issue(c) /\ token[t].session = NULL
  /\ token'[t].user = call[c].user /\ token'[t].password = call[c].n
  /\ token'[t].overtaken = call[c].overtaken

Continued(t, c) ==
  /\ Rotate(c) /\ token[t].session = NULL
  /\ token'[t].user = token[call[c].token].user
  /\ token'[t].password = token[call[c].token].password
  /\ token'[t].overtaken = (token[call[c].token].overtaken \/ call[c].overtaken)

LEMMA TokenSteps ==
  ASSUME Typed, [Next]_vars, NEW t \in Tokens
  PROVE  Fades(t) \/ \E c \in Calls : Opened(t, c) \/ Continued(t, c)
<1>1. token \in [Tokens -> TokenType] BY DEF Typed, Rows, TokensTyped
<1>2. PICK old \in TokenType : old = token[t] BY <1>1
<1>3. CASE token'[t] = token[t] BY <1>3 DEF Fades
<1>4. ASSUME NEW c \in Calls, Issue(c), token'[t] # token[t] PROVE Opened(t, c)
  <2>1. PICK s \in NewTokens :
          token' = [token EXCEPT ![s] = [FirstToken(s, call[c].user, call[c].n) EXCEPT
                                           !.overtaken = call[c].overtaken]]
    BY <1>4 DEF Issue
  <2>2. s = t BY <1>1, <1>4, <2>1
  <2>3. PICK ends : ends = now + TokenTTL OBVIOUS
  <2>4. PICK first : first = [NoToken EXCEPT !.user = call[c].user, !.expiresAt = ends,
                                             !.session = t, !.password = call[c].n]
    OBVIOUS
  <2>5. first = FirstToken(t, call[c].user, call[c].n) BY <2>3, <2>4 DEF FirstToken
  <2>6. token'[t] = [first EXCEPT !.overtaken = call[c].overtaken]
    BY <1>1, <2>1, <2>2, <2>5
  <2>7. token'[t].user = call[c].user /\ token'[t].password = call[c].n
        /\ token'[t].overtaken = call[c].overtaken
    BY <2>4, <2>6 DEF NoToken
  <2> QED BY <1>4, <2>1, <2>2, <2>7 DEF Opened, NewTokens
<1>5. ASSUME NEW c \in Calls, Rotate(c), token'[t] # token[t]
      PROVE  Fades(t) \/ Continued(t, c)
  <2>1. call[c].token \in Tokens /\ token[call[c].token].session # NULL
    BY <1>5, Field DEF Known, AboutToken, Rotate
  <2>2. PICK from \in Tokens : from = call[c].token BY <2>1
  <2>3. PICK mark : mark = (token[from].overtaken \/ call[c].overtaken) OBVIOUS
  <2>4. PICK ends : ends = now + TokenTTL OBVIOUS
  <2>5. PICK new : new = [token[from] EXCEPT !.revoked = FALSE, !.expiresAt = ends,
                                             !.replacedBy = NULL, !.overtaken = mark]
    OBVIOUS
  <2>6. PICK s \in NewTokens :
          token' = [token EXCEPT ![from].revoked = TRUE, ![from].replacedBy = s, ![s] = new]
    BY <1>5, <2>2, <2>3, <2>4, <2>5 DEF Rotate
  <2>7. s \in Tokens /\ s # from /\ token[s].session = NULL
    BY <2>1, <2>2, <2>6 DEF NewTokens
  <2>8. PICK row : row = [token[from] EXCEPT !.revoked = TRUE, !.replacedBy = s] OBVIOUS
  <2>9. token' = [token EXCEPT ![from] = row, ![s] = new] BY <1>1, <2>6, <2>8
  <2>10. token'[from] = row /\ token'[s] = new
         /\ \A x \in Tokens : x \notin {from, s} => token'[x] = token[x]
    BY <1>1, <2>7, <2>9
  <2>11. token[from] \in TokenType BY <1>1
  <2>12. CASE t = from
    <3>1. row.user = token[from].user /\ row.password = token[from].password
          /\ row.overtaken = token[from].overtaken /\ row.revoked
      BY <2>8, <2>11 DEF TokenType
    <3> QED BY <2>10, <2>12, <3>1 DEF Fades
  <2>13. CASE t = s
    <3>1. new.user = token[from].user /\ new.password = token[from].password
          /\ new.overtaken = mark
      BY <2>5, <2>11 DEF TokenType
    <3> QED BY <1>5, <2>2, <2>3, <2>7, <2>10, <2>13, <3>1 DEF Continued
  <2> QED BY <1>5, <2>10, <2>12, <2>13
<1>6. ASSUME NEW u, RevokeTokens(u) PROVE Fades(t)
  <2>1. token'[t] \in {old, [old EXCEPT !.revoked = TRUE]} BY <1>2, <1>6 DEF RevokeTokens
  <2>2. LET r == [old EXCEPT !.revoked = TRUE] IN
          r.user = old.user /\ r.password = old.password /\ r.overtaken = old.overtaken
          /\ r.revoked
    BY DEF TokenType
  <2> QED BY <1>2, <2>1, <2>2 DEF Fades
<1>7. ASSUME NEW c \in Calls, Drop(c), token'[t] # token[t] PROVE Fades(t)
  <2>1. PICK from : from = call[c].token OBVIOUS
  <2>2. PICK revoked : revoked = (token[from].revoked \/ token[from].user # NULL) OBVIOUS
  <2>3. token' = [token EXCEPT ![from].revoked = revoked] BY <1>7, <2>1, <2>2 DEF Drop
  <2>4. from = t /\ token'[t] = [old EXCEPT !.revoked = revoked]
    BY <1>1, <1>2, <1>7, <2>3
  <2>5. token'[t].user = old.user /\ token'[t].password = old.password
        /\ token'[t].overtaken = old.overtaken /\ token'[t].revoked = revoked
    BY <2>4 DEF TokenType
  <2> QED BY <1>2, <2>2, <2>4, <2>5 DEF Fades
<1>8. CASE token'[t] = Dropped(t) BY <1>8 DEF Fades, Dropped, NoToken
<1>9. CASE DeleteUsers \/ CleanupTokens
  BY <1>3, <1>8, <1>9 DEF DeleteUsers, CleanupTokens
<1>10. ASSUME NEW c \in Calls, RevokeAll(c) \/ Revoke(c) PROVE RevokeTokens(call[c].user)
  BY <1>10 DEF RevokeAll, Revoke
<1> QED BY <1>3, <1>4, <1>5, <1>6, <1>7, <1>9, <1>10, TokenWriters

-----------------------------------------------------------------------------
(* What a reset that ended leaves of the sessions of an older password *)

\* A request past its check that would open or continue a session of user u and of
\* an older password than n is marked.
CallEnded(r, u, n) ==
  /\ r.pc \in {"logSuccess", "issue"} /\ r.user = u /\ r.n < n => r.overtaken
  /\ r.pc = "rotate" /\ token[r.token].user = u /\ token[r.token].password < n
       => r.overtaken \/ token[r.token].overtaken

\* The sessions of user u and of older passwords than n are over.
Ended(u, n) ==
  /\ \A t \in Tokens : Live(t) /\ token[t].user = u /\ token[t].password < n
                         => token[t].overtaken
  /\ \A c \in Calls : CallEnded(call[c], u, n)

\* A reset that has revoked the sessions has ended them, before it has recorded that.
CallResets(r) ==
  /\ r.pc \in {"revoke", "logReset"} /\ Exists(r.user) => r.n <= user[r.user].password
  /\ r.pc = "logReset" /\ Exists(r.user) => Ended(r.user, r.n)
  /\ r.pc = "rotate" => token[r.token].user \in {r.user, NULL}

ResetInv ==
  /\ \A u \in UserIds : user[u].settled <= user[u].password /\ Ended(u, user[u].settled)
  /\ \A c \in Calls : CallResets(call[c])

\* Once ended they stay so: a login that passes its check now does so with the
\* password of now.
LEMMA EndedStays ==
  ASSUME Typed, [Next]_vars, NEW u \in UserIds, NEW n \in Nat, Ended(u, n),
         Exists(u) => n <= user[u].password
  PROVE  Ended(u, n)'
<1>1. token \in [Tokens -> TokenType] /\ user \in [UserIds -> UserType]
  BY DEF Typed, Rows, TokensTyped, UsersTyped
<1>2. u # NULL BY NothingNull
<1>3. ASSUME NEW t \in Tokens, Live(t)', token'[t].user = u, token'[t].password < n
      PROVE  token'[t].overtaken
  <2>1. CASE Fades(t)
    <3>1. Live(t) BY <1>2, <1>3, <2>1 DEF Fades, Live
    <3> QED BY <1>2, <1>3, <2>1, <3>1 DEF Fades, Ended
  <2>2. ASSUME NEW c \in Calls, Opened(t, c) PROVE token'[t].overtaken
    <3>1. call[c].pc = "issue" /\ CallEnded(call[c], u, n) BY <2>2 DEF Opened, Issue, Ended
    <3> QED BY <1>3, <2>2, <3>1 DEF Opened, CallEnded
  <2>3. ASSUME NEW c \in Calls, Continued(t, c) PROVE token'[t].overtaken
    <3>1. call[c].pc = "rotate" /\ CallEnded(call[c], u, n) BY <2>3 DEF Continued, Rotate, Ended
    <3> QED BY <1>3, <2>3, <3>1 DEF Continued, CallEnded
  <2> QED BY <2>1, <2>2, <2>3, TokenSteps
\* A token that was drawn fades at most.
<1>4. ASSUME NEW t \in Tokens, token[t].session # NULL PROVE Fades(t)
  BY <1>4, TokenSteps DEF Opened, Continued
<1>5. ASSUME NEW d \in Calls PROVE CallEnded(call[d], u, n)'
  <2>1. PICK old \in CallType : old = call[d] BY Field
  <2>2. Known(old) /\ CallEnded(old, u, n) BY <2>1, Field DEF Ended
  <2>3. PICK r : r = call'[d] OBVIOUS
  <2>4. SUFFICES CallEnded(r, u, n)' BY <2>3
  <2>5. ASSUME r.pc = old.pc, r.user = old.user, r.n = old.n, r.token = old.token,
               old.overtaken => r.overtaken
        PROVE  CallEnded(r, u, n)'
    <3>1. r.pc \in {"logSuccess", "issue"} /\ r.user = u /\ r.n < n => r.overtaken
      BY <2>2, <2>5 DEF CallEnded
    <3>2. ASSUME r.pc = "rotate", token'[r.token].user = u, token'[r.token].password < n
          PROVE  r.overtaken \/ token'[r.token].overtaken
      <4>1. PICK t \in Tokens : t = old.token /\ token[t].session # NULL
        BY <2>2, <2>5, <3>2 DEF Known, AboutToken
      <4>2. Fades(t) BY <1>4, <4>1
      <4>3. token[t].user = u /\ token[t].password < n
            /\ token'[t].overtaken = token[t].overtaken
        BY <1>2, <2>5, <3>2, <4>1, <4>2 DEF Fades
      <4>4. old.overtaken \/ token[t].overtaken BY <2>2, <2>5, <3>2, <4>1, <4>3 DEF CallEnded
      <4> QED BY <2>5, <4>1, <4>3, <4>4
    <3> QED BY <3>1, <3>2 DEF CallEnded
  <2>6. CASE r = old BY <2>5, <2>6
  <2>7. CASE Marked(d)
    <3>1. r = [old EXCEPT !.overtaken = TRUE] BY <2>1, <2>3, <2>7 DEF Marked
    <3> QED BY <2>5, <3>1 DEF CallType
  <2>8. CASE Came(d)
    <3>1. ASSUME r.pc = "logSuccess", r.user = u, r.n < n PROVE r.overtaken
      <4>1. Exists(u) /\ r.n = user[u].password BY <2>3, <2>8, <3>1 DEF Came
      <4>2. user[u].password \in Nat BY <1>1 DEF UserType
      <4> QED BY <3>1, <4>1, <4>2
    <3>2. ASSUME r.pc = "issue", r.user = u, r.n < n PROVE r.overtaken
      BY <2>1, <2>2, <2>3, <2>8, <3>2 DEF Came, CallEnded
    <3>3. ASSUME r.pc = "rotate", token'[r.token].user = u, token'[r.token].password < n
          PROVE  token'[r.token].overtaken
      <4>1. Live(r.token) /\ token' = token BY <2>3, <2>8, <3>3 DEF Came
      <4>2. r.token \in Tokens
        BY <2>3, <3>3, StepTyped DEF Typed, CallsKnown, Known, AboutToken
      <4> QED BY <3>3, <4>1, <4>2 DEF Ended
    <3> QED BY <3>1, <3>2, <3>3 DEF CallEnded
  <2> QED BY <2>1, <2>3, <2>6, <2>7, <2>8, CallSteps
<1> QED BY <1>3, <1>5 DEF Ended

\* The passwords of a row only go up.
LEMMA PasswordsGoUp ==
  ASSUME Typed, [Next]_vars, NEW u \in UserIds, user[u].status # "NONE", Exists(u)'
  PROVE  Exists(u) /\ user[u].password <= user'[u].password
<1>1. user[u].password \in Nat BY DEF Typed, Rows, UsersTyped, UserType
<1>2. CASE user'[u] = user[u] BY <1>1, <1>2 DEF Exists
<1>3. CASE Born(u) BY <1>3 DEF Born
<1>4. CASE Gone(u) BY <1>4 DEF Gone, Exists
<1>5. ASSUME NEW c \in Calls, Updated(u, c)
      PROVE  Exists(u) /\ user[u].password <= user'[u].password
  <2>1. user'[u].password = user[u].password \/ user'[u].password = user[u].password + 1
    BY <1>5 DEF Updated, SamePassword
  <2>2. user[u].password <= user'[u].password BY <1>1, <2>1
  <2> QED BY <1>5, <2>2 DEF Updated
<1> QED BY <1>2, <1>3, <1>4, <1>5, UserSteps

\* What the statement that revokes the sessions does: none is left but those that a
\* marked request may still open or continue.
LEMMA RevokeEnds ==
  ASSUME Typed, ResetInv, NEW c \in Calls, Revoke(c), NEW u \in UserIds, call[c].user = u,
         NEW n \in Nat
  PROVE  Ended(u, n)'
<1>1. token \in [Tokens -> TokenType] /\ DOMAIN call = Calls
  BY DEF Typed, Rows, TokensTyped, CallsKnown
<1>3. token' = [t \in Tokens |-> IF token[t].user = u THEN [token[t] EXCEPT !.revoked = TRUE]
                                                     ELSE token[t]]
  BY DEF Revoke, RevokeTokens
<1>4. \A t \in Tokens : token'[t].user = token[t].user
                        /\ (token[t].user = u => token'[t].revoked)
  BY <1>1, <1>3 DEF TokenType
<1>5. \A t \in Tokens : token'[t].user = u => ~Live(t)' BY <1>4 DEF Live
<1>6. ASSUME NEW d \in Calls PROVE CallEnded(call[d], u, n)'
  <2>1. PICK old \in CallType : old = call[d] BY Field
  <2>2. Known(old) /\ CallResets(old) BY <2>1, Field DEF ResetInv
  <2>3. CASE d = c
    <3>1. PICK r : r = call'[d] OBVIOUS
    <3>2. r = [old EXCEPT !.pc = "logReset"] BY <2>1, <2>3, <3>1 DEF Revoke
    <3>3. r.pc = "logReset" BY <3>2 DEF CallType
    <3> QED BY <3>1, <3>3 DEF CallEnded
  <2>4. CASE d # c /\ d \in Checked(u)
    <3>1. call'[d] = [old EXCEPT !.overtaken = TRUE] BY <2>1, <2>4 DEF Revoke
    <3>2. call'[d].overtaken BY <3>1 DEF CallType
    <3> QED BY <3>2 DEF CallEnded
  <2>5. CASE d # c /\ d \notin Checked(u)
    <3>1. call'[d] = old BY <2>1, <2>5 DEF Revoke
    <3>2. ~(old.pc \in {"logSuccess", "issue", "rotate"} /\ old.user = u)
      BY <2>1, <2>5 DEF Checked
    <3>3. ASSUME old.pc = "rotate" PROVE token'[old.token].user # u
      <4>1. old.token \in Tokens /\ token[old.token].user \in {old.user, NULL} /\ u # NULL
        BY <2>2, <3>3, NothingNull DEF Known, AboutToken, CallResets
      <4> QED BY <1>4, <3>2, <3>3, <4>1
    <3> QED BY <3>1, <3>2, <3>3 DEF CallEnded
  <2> QED BY <2>3, <2>4, <2>5
<1> QED BY <1>5, <1>6 DEF Ended

LEMMA CallsReset ==
  ASSUME Typed, ResetInv, [Next]_vars, NEW d \in Calls
  PROVE  CallResets(call[d])'
<1>1. PICK old \in CallType : old = call[d] BY Field
<1>2. Known(old) /\ CallResets(old) BY <1>1, Field DEF ResetInv
<1>3. PICK r : r = call'[d] OBVIOUS
<1>4. Typed' BY StepTyped
<1>5. SUFFICES CallResets(r)' BY <1>3
<1>6. ASSUME old.pc \in {"revoke", "logReset"}, r.user = old.user, r.n = old.n
      PROVE  Exists(r.user)' => Exists(old.user) /\ r.n <= user'[r.user].password
  <2>1. PICK u \in UserIds : u = old.user /\ user[u].status # "NONE"
    BY <1>2, <1>6 DEF Known, AboutUser
  <2>2. Exists(u)' => Exists(u) /\ user[u].password <= user'[u].password
    BY <2>1, PasswordsGoUp
  <2>3. Exists(u) => old.n <= user[u].password BY <1>2, <1>6, <2>1 DEF CallResets
  <2>4. PICK n \in Nat, a \in Nat, b \in Nat :
          n = old.n /\ a = user[u].password /\ b = user'[u].password
    BY <1>4 DEF CallType, Typed, Rows, UsersTyped, UserType
  <2> QED BY <1>6, <2>1, <2>2, <2>3, <2>4
<1>7. ASSUME r.pc = old.pc, r.user = old.user, r.n = old.n, r.token = old.token
      PROVE  CallResets(r)'
  <2>1. r.pc \in {"revoke", "logReset"} /\ Exists(r.user)' => r.n <= user'[r.user].password
    BY <1>6, <1>7
  <2>2. ASSUME r.pc = "logReset", Exists(r.user)' PROVE Ended(r.user, r.n)'
    <3>1. Exists(old.user) BY <1>6, <1>7, <2>2
    <3>2. PICK u \in UserIds : u = old.user BY <1>2, <1>7, <2>2 DEF Known, AboutUser
    <3>3. PICK n \in Nat : n = old.n BY DEF CallType
    <3>4. Ended(u, n) /\ n <= user[u].password
      BY <1>2, <1>7, <2>2, <3>1, <3>2, <3>3 DEF CallResets
    <3>5. Ended(u, n)' BY <3>4, EndedStays
    <3> QED BY <1>7, <3>2, <3>3, <3>5
  <2>3. ASSUME r.pc = "rotate" PROVE token'[r.token].user \in {r.user, NULL}
    <3>1. PICK t \in Tokens : t = old.token /\ token[t].session # NULL
      BY <1>2, <1>7, <2>3 DEF Known, AboutToken
    <3>2. Fades(t) BY <3>1, TokenSteps DEF Opened, Continued
    <3>3. token[t].user \in {old.user, NULL} BY <1>2, <1>7, <2>3, <3>1 DEF CallResets
    <3> QED BY <1>7, <3>1, <3>2, <3>3 DEF Fades
  <2> QED BY <2>1, <2>2, <2>3 DEF CallResets
<1>8. CASE r = old BY <1>7, <1>8
<1>9. CASE Marked(d)
  <2>1. r = [old EXCEPT !.overtaken = TRUE] BY <1>1, <1>3, <1>9 DEF Marked
  <2> QED BY <1>7, <2>1 DEF CallType
<1>10. CASE Came(d)
  <2>1. ASSUME r.pc = "revoke" PROVE r.n <= user'[r.user].password
    <3>1. r.n = user'[r.user].password BY <1>3, <1>10, <2>1 DEF Came
    <3>2. r.user \in UserIds BY <1>3, <1>4, <2>1 DEF Typed, CallsKnown, Known, AboutUser
    <3>3. user'[r.user].password \in Nat
      BY <1>4, <3>2 DEF Typed, Rows, UsersTyped, UserType
    <3> QED BY <3>1, <3>3
  <2>2. ASSUME r.pc = "logReset", Exists(r.user)'
        PROVE  r.n <= user'[r.user].password /\ Ended(r.user, r.n)'
    <3>1. Revoke(d) /\ old.pc = "revoke" /\ r.user = old.user /\ r.n = old.n
      BY <1>1, <1>3, <1>10, <2>2 DEF Came
    <3>2. r.n <= user'[r.user].password BY <1>6, <2>2, <3>1
    <3>3. PICK u \in UserIds : u = old.user BY <1>2, <3>1 DEF Known, AboutUser
    <3>4. PICK n \in Nat : n = old.n BY DEF CallType
    <3>5. Ended(u, n)' BY <1>1, <3>1, <3>3, RevokeEnds
    <3> QED BY <3>1, <3>2, <3>3, <3>4, <3>5
  <2>3. r.pc = "rotate" => token'[r.token].user \in {r.user, NULL}
    BY <1>3, <1>10 DEF Came
  <2> QED BY <2>1, <2>2, <2>3 DEF CallResets
<1> QED BY <1>1, <1>3, <1>8, <1>9, <1>10, CallSteps

LEMMA ResetStep ==
  ASSUME Typed, ResetInv, [Next]_vars
  PROVE  ResetInv'
<1>1. Typed' BY StepTyped
<1>2. ASSUME NEW u \in UserIds
      PROVE  user'[u].settled <= user'[u].password /\ Ended(u, user[u].settled)'
  <2>1. user[u] \in UserType /\ user'[u] \in UserType
    BY <1>1 DEF Typed, Rows, UsersTyped
  <2>2. PICK n \in Nat : n = user[u].settled BY <2>1 DEF UserType
  <2>3. PICK m \in Nat : m = user[u].password BY <2>1 DEF UserType
  <2>4. n <= m /\ Ended(u, n) BY <2>2, <2>3 DEF ResetInv
  <2>5. Ended(u, n)' BY <2>3, <2>4, EndedStays
  <2>6. ASSUME user'[u].settled = n, user'[u].password = m \/ user'[u].password = m + 1
        PROVE  user'[u].settled <= user'[u].password /\ Ended(u, user[u].settled)'
    BY <2>4, <2>5, <2>6 DEF Ended
  <2>7. CASE user'[u] = user[u] BY <2>2, <2>3, <2>6, <2>7
  <2>8. CASE Born(u) \/ Gone(u)
    <3>1. user'[u].settled = 0 /\ user'[u].password = 0 BY <2>8 DEF Born, Gone
    <3>2. \A t \in Tokens : ~(token'[t].password < 0)
      BY <1>1 DEF Typed, Rows, TokensTyped, TokenType
    <3>3. \A c \in Calls : ~(call'[c].n < 0) BY <1>1 DEF Typed, CallsKnown, Known, CallType
    <3>4. \A c \in Calls : call'[c].pc = "rotate" => call'[c].token \in Tokens
      BY <1>1 DEF Typed, CallsKnown, Known, AboutToken
    <3>5. Ended(u, 0)' BY <3>2, <3>3, <3>4 DEF Ended, CallEnded
    <3> QED BY <3>1, <3>5 DEF Ended
  <2>9. ASSUME NEW c \in Calls, Updated(u, c)
        PROVE  user'[u].settled <= user'[u].password /\ Ended(u, user[u].settled)'
    <3>1. CASE SamePassword(u) BY <2>2, <2>3, <2>6, <3>1 DEF SamePassword
    <3>2. CASE SetPassword(c) /\ user'[u].password = user[u].password + 1
                              /\ user'[u].settled = user[u].settled
      BY <2>2, <2>3, <2>6, <3>2
    <3>3. CASE /\ LogReset(c) /\ user'[u].password = user[u].password
               /\ user'[u].settled = IF user[u].settled <= call[c].n THEN call[c].n
                                                                     ELSE user[u].settled
      <4>1. PICK k \in Nat : k = call[c].n BY Field DEF CallType
      <4>2. call[c].pc = "logReset" /\ call[c].user = u /\ Exists(u)
        BY <2>9, <3>3 DEF LogReset, Updated
      <4>3. k <= user[u].password /\ Ended(u, k)
        BY <4>1, <4>2 DEF ResetInv, CallResets
      <4>4. Ended(u, k)' BY <4>3, EndedStays
      <4>5. user'[u].settled \in {k, n} BY <2>2, <3>3, <4>1
      <4>6. user'[u].settled <= user'[u].password BY <2>3, <2>4, <3>3, <4>3, <4>5
      <4>7. Ended(u, user[u].settled)'
        <5>1. CASE user'[u].settled = k BY <4>4, <5>1 DEF Ended
        <5>2. CASE user'[u].settled = n BY <2>5, <5>2 DEF Ended
        <5> QED BY <4>5, <5>1, <5>2
      <4> QED BY <4>6, <4>7
    <3> QED BY <2>9, <3>1, <3>2, <3>3 DEF Updated
  <2> QED BY <2>7, <2>8, <2>9, UserSteps
<1>3. \A d \in Calls : CallResets(call[d])' BY CallsReset
<1> QED BY <1>2, <1>3 DEF ResetInv

\* ResetEndsSessions holds of every behaviour: once a password reset has been carried
\* out to its end, a session of an older password lives on only if a login or a
\* refresh that was past its check when the sessions were revoked opened or
\* continued it.
THEOREM ResetEndsSessionsAlways == Spec => []ResetEndsSessions
<1>1. ASSUME Init PROVE ResetInv
  <2>1. Typed BY <1>1, InitTyped
  <2>2. \A u \in UserIds : user[u].settled = 0 /\ user[u].password = 0
    <3>1. NoUser.settled = 0 /\ NoUser.password = 0 BY DEF NoUser
    <3>2. \A p : Seeded(p).settled = 0 /\ Seeded(p).password = 0 BY DEF Seeded, NoUser
    <3> QED BY <1>1, <3>1, <3>2 DEF Init
  <2>3. \A c \in Calls : call[c].pc = "idle" BY <1>1 DEF Init, Idle
  <2>4. \A t \in Tokens : ~(token[t].password < 0)
    BY <2>1 DEF Typed, Rows, TokensTyped, TokenType
  <2>5. \A u \in UserIds : Ended(u, 0) BY <2>3, <2>4 DEF Ended, CallEnded
  <2>6. \A c \in Calls : CallResets(call[c]) BY <2>3 DEF CallResets
  <2> QED BY <2>2, <2>5, <2>6 DEF ResetInv
<1>2. Typed /\ ResetInv /\ [Next]_vars => ResetInv' BY ResetStep
<1>3. Typed /\ ResetInv => ResetEndsSessions
  <2> SUFFICES ASSUME Typed, ResetInv, NEW t \in Tokens, Live(t),
                      token[t].password < user[token[t].user].settled
               PROVE  token[t].overtaken
    BY DEF ResetEndsSessions
  <2>1. PICK u \in UserIds : u = token[t].user
    BY DEF Live, Typed, Rows, TokensTyped, TokenType
  <2> QED BY <2>1 DEF ResetInv, Ended
<1> QED BY <1>1, <1>2, <1>3, TypedAlways, PTL DEF Spec

-----------------------------------------------------------------------------
(* The guard and the table of lockouts *)

LEMMA MaxIsThere ==
  ASSUME NEW n \in Nat, NEW S \in SUBSET (0..n), S # {}
  PROVE  Max(S) \in S /\ \A j \in S : j <= Max(S)
<1>1. PICK i \in S : \A j \in S : j <= i BY Largest
<1>2. i \in S /\ \A j \in S : i >= j BY <1>1
<1> QED BY <1>2 DEF Max

LEMMA Table ==
  ASSUME NEW n \in Nat
  PROVE  /\ LockoutSeconds(n) \in Nat
         /\ n >= Len(LockoutSteps) => LockoutSeconds(n) = LockoutSteps[Len(LockoutSteps)]
<1>1. /\ LockoutSteps \in Seq(Nat) /\ Len(LockoutSteps) \in Nat /\ Len(LockoutSteps) # 0
  BY AccountAssumption
<1>2. PICK m \in Nat : m = Len(LockoutSteps) /\ m # 0 BY <1>1
<1>3. ASSUME n # 0
      PROVE  /\ Min({n, m}) \in 1..m
             /\ n >= m => Min({n, m}) = m
  <2>1. \E x \in {n, m} : \A y \in {n, m} : x <= y BY <1>2
  <2>2. /\ Min({n, m}) \in {n, m} /\ \A y \in {n, m} : Min({n, m}) <= y
    BY <2>1 DEF Min
  <2> QED BY <1>2, <1>3, <2>2
<1> QED BY <1>1, <1>2, <1>3 DEF LockoutSeconds

\* The guard looks at the latest events only, but at no fewer than the table has
\* steps: what it makes of them is what all of them call for.
LEMMA GuardLooksFarEnough ==
  ASSUME NEW n \in Nat, NEW ids \in SUBSET (1..n), Failures(ids) # {}
  PROVE  /\ Max(ids) \in ids
         /\ Failures(Recent(ids)) # {} /\ Max(Recent(ids)) = Max(ids)
         /\ Cardinality(Failures(ids)) \in Nat
         /\ LockoutSeconds(Cardinality(Failures(Recent(ids))))
              = LockoutSeconds(Cardinality(Failures(ids)))
<1> DEFINE from(i) == {j \in ids : i <= j}
           R == Recent(ids)
           F == Failures(ids)
           top == Max(ids)
<1>1. /\ EventWindow \in Nat /\ Len(LockoutSteps) \in Nat /\ Len(LockoutSteps) # 0
      /\ EventWindow >= Len(LockoutSteps)
  BY AccountAssumption
<1>2. /\ IsFiniteSet(ids) /\ ids \in SUBSET (0..n) /\ ids # {}
      /\ \A i \in ids : i \in Int
  <2>1. IsFiniteSet(1..n) BY FS_Interval
  <2>2. IsFiniteSet(ids) BY <2>1, FS_Subset
  <2>3. ids \in SUBSET (0..n) /\ \A i \in ids : i \in Int OBVIOUS
  <2>4. ids # {} BY DEF Failures
  <2> QED BY <2>2, <2>3, <2>4
<1>3. top \in ids /\ \A j \in ids : j <= top BY <1>2, MaxIsThere
<1>4. \A S \in SUBSET ids : IsFiniteSet(S) /\ Cardinality(S) \in Nat
  BY <1>2, FS_Subset, FS_CardinalityType
<1>5. \A S, T \in SUBSET ids : S \subseteq T => Cardinality(S) <= Cardinality(T)
  BY <1>4, FS_Subset
<1>6. R = {i \in ids : Cardinality(from(i)) <= EventWindow} BY DEF Recent
<1>7. R \subseteq ids /\ F \subseteq ids BY <1>6 DEF Failures
<1>8. ASSUME NEW i \in R, NEW j \in ids, i <= j PROVE j \in R
  <2>1. from(j) \subseteq from(i)
    <3>1. i \in Int /\ j \in Int /\ i <= j BY <1>2, <1>7, <1>8
    <3>2. \A k \in Int : j <= k => i <= k BY <3>1
    <3> QED BY <1>2, <3>2
  <2>2. Cardinality(from(j)) <= Cardinality(from(i)) BY <1>5, <2>1
  <2>3. Cardinality(from(i)) <= EventWindow BY <1>6
  <2>4. Cardinality(from(i)) \in Nat /\ Cardinality(from(j)) \in Nat BY <1>4
  <2>5. Cardinality(from(j)) <= EventWindow BY <1>1, <2>2, <2>3, <2>4
  <2> QED BY <1>6, <2>5
<1>9. top \in R
  <2>1. from(top) = {top}
    <3>1. PICK t \in Int : t = top BY <1>2, <1>3
    <3>2. \A k \in Int : k <= t /\ t <= k <=> k = t OBVIOUS
    <3>3. \A k \in ids : k <= t BY <1>3, <3>1
    <3>4. {j \in ids : t <= j} = {t} BY <1>2, <1>3, <3>1, <3>2, <3>3
    <3> QED BY <3>1, <3>4
  <2>2. Cardinality(from(top)) = 1 BY <2>1, FS_Singleton
  <2>3. 1 <= EventWindow BY <1>1
  <2> QED BY <1>3, <1>6, <2>2, <2>3
<1>10. Max(R) = top
  <2>1. Max(R) \in R /\ \A j \in R : j <= Max(R)
    BY <1>2, <1>7, <1>9, MaxIsThere
  <2> DEFINE t == Max(R)
  <2>2. t \in ids /\ t <= top /\ top <= t BY <1>3, <1>7, <1>9, <2>1
  <2>3. t \in Int /\ top \in Int BY <1>2, <1>3, <2>2
  <2> HIDE DEF t, top
  <2>4. t = top BY <2>2, <2>3
  <2> QED BY <2>4 DEF t, top
<1>11. Failures(R) = F \cap R
  <2>1. ASSUME NEW i \in Failures(R) PROVE i \in F
    <3>1. i \in R /\ \A j \in R : i <= j => events[j].type = "LOGIN_FAILURE"
      BY DEF Failures
    <3> QED BY <1>7, <1>8, <3>1 DEF Failures
  <2> QED BY <1>7, <2>1 DEF Failures
<1>12. top \in F
  <2>1. PICK i \in F : TRUE OBVIOUS
  <2>2. i \in ids /\ \A j \in ids : i <= j => events[j].type = "LOGIN_FAILURE"
    BY DEF Failures
  <2>3. events[top].type = "LOGIN_FAILURE" BY <1>3, <2>2
  <2>4. \A j \in ids : top <= j => j = top
    <3>1. \A j \in ids : j \in Int /\ top \in Int /\ j <= top BY <1>2, <1>3
    <3> HIDE DEF top
    <3> QED BY <3>1
  <2> QED BY <1>3, <2>3, <2>4 DEF Failures
<1>13. Failures(R) # {} BY <1>9, <1>11, <1>12
<1>14. LockoutSeconds(Cardinality(Failures(R))) = LockoutSeconds(Cardinality(F))
  <2>1. CASE F \subseteq R
    <3>1. Failures(R) = F BY <1>11, <2>1
    <3> QED BY <3>1
  <2>2. CASE ~(F \subseteq R)
    <3>1. PICK a \in F : a \notin R BY <2>2
    <3>2. ASSUME NEW r \in R PROVE r \in F
      <4>1. ~(r <= a) BY <1>7, <1>8, <3>1
      <4>2. a \in Int /\ r \in Int BY <1>2, <1>7
      <4>3. \A k \in Int : r <= k => a <= k BY <4>1, <4>2
      <4>4. \A k \in ids : r <= k => events[k].type = "LOGIN_FAILURE"
        BY <1>2, <4>3 DEF Failures
      <4> QED BY <1>7, <4>4 DEF Failures
    <3>3. Failures(R) = R BY <1>11, <3>2
    <3>4. ids \ R \in SUBSET (0..n) /\ ids \ R # {} BY <1>2, <1>7, <3>1
    <3>5. PICK m \in ids \ R : \A j \in ids \ R : j <= m BY <3>4, Largest
    <3>6. from(m) \ {m} \subseteq R
      <4>1. m \in Int /\ \A k \in Int : m <= k /\ k <= m => k = m BY <1>2, <3>5
      <4> QED BY <1>2, <3>5, <4>1
    <3>7. Cardinality(from(m)) \in Nat /\ ~(Cardinality(from(m)) <= EventWindow)
      BY <1>4, <1>6, <3>5
    <3>8. Cardinality(from(m) \ {m}) = Cardinality(from(m)) - 1
      <4>1. IsFiniteSet(from(m)) /\ m \in from(m) BY <1>2, <1>4, <3>5
      <4> QED BY <4>1, FS_RemoveElement
    <3>9. Cardinality(from(m) \ {m}) <= Cardinality(R) /\ Cardinality(R) <= Cardinality(F)
      BY <1>5, <1>7, <3>2, <3>6
    <3>10. PICK r \in Nat : r = Cardinality(R) BY <1>4, <1>7
    <3>11. PICK f \in Nat : f = Cardinality(F) BY <1>4, <1>7
    <3>12. r >= Len(LockoutSteps) /\ f >= Len(LockoutSteps)
      <4> HIDE DEF R, F, from
      <4>1. r >= EventWindow BY <1>1, <3>7, <3>8, <3>9, <3>10
      <4>2. f >= r BY <3>9, <3>10, <3>11
      <4> QED BY <1>1, <4>1, <4>2
    <3> QED BY <3>3, <3>10, <3>11, <3>12, Table
  <2> QED BY <2>1, <2>2
<1>15. Cardinality(F) \in Nat BY <1>4, <1>7
<1> QED BY <1>3, <1>10, <1>13, <1>14, <1>15

\* What LockoutHolds says of one login: n events were there when it arrived at a time.
Waited(p, typed, n, at) ==
  LET before == LoginEvents(p, typed, n) IN
  Failures(before) # {} =>
    at >= events[Max(before)].at + LockoutSeconds(Cardinality(Failures(before)))

LockInv ==
  /\ \A i \in DOMAIN events : events[i].type = "LOGIN_FAILURE" =>
       /\ events[i].since <= Len(events)
       /\ Waited(events[i].phone, Trim[events[i].typed], events[i].since, events[i].then)
  /\ \A c \in Calls : call[c].pc \in {"find", "logFailure"} =>
       /\ call[c].since <= Len(events)
       /\ Waited(call[c].phone, Trim[call[c].typed], call[c].since, call[c].at)

\* A login the guard lets pass has waited for all that is recorded.
LEMMA GuardWaits ==
  ASSUME Typed, NEW p, NEW typed,
         ~(LockoutUntil(Recent(LoginEvents(p, typed, Len(events)))) > now)
  PROVE  Waited(p, typed, Len(events), now)
<1> DEFINE ids == LoginEvents(p, typed, Len(events))
           n == Cardinality(Failures(ids))
<1>1. events \in Seq(EventType) /\ now \in Nat /\ Len(events) \in Nat
  BY DEF Typed, Rows
<1>2. ids \in SUBSET (1..Len(events)) BY <1>1 DEF LoginEvents
<1> HIDE DEF ids
<1>3. SUFFICES ASSUME Failures(ids) # {}
               PROVE  now >= events[Max(ids)].at + LockoutSeconds(n)
  BY DEF Waited, ids
<1>4. /\ Max(ids) \in ids /\ n \in Nat
      /\ Failures(Recent(ids)) # {} /\ Max(Recent(ids)) = Max(ids)
      /\ LockoutSeconds(Cardinality(Failures(Recent(ids)))) = LockoutSeconds(n)
  BY <1>1, <1>2, <1>3, GuardLooksFarEnough
<1>5. LockoutUntil(Recent(ids)) = events[Max(ids)].at + LockoutSeconds(n)
  BY <1>4 DEF LockoutUntil
<1>6. LockoutSeconds(n) \in Nat BY <1>4, Table
<1>7. events[Max(ids)].at \in Nat
  <2>1. PICK k \in 1..Len(events) : k = Max(ids) BY <1>2, <1>4
  <2>2. events[k] \in EventType BY <1>1
  <2> QED BY <2>1, <2>2 DEF EventType
<1>8. ~(LockoutUntil(Recent(ids)) > now) BY DEF ids
<1> QED BY <1>1, <1>5, <1>6, <1>7, <1>8

\* Events are only added, after those that were counted.
LEMMA WaitedStays ==
  ASSUME Typed, NEW p, NEW typed, NEW n \in Nat, NEW at, n <= Len(events),
         Waited(p, typed, n, at),
         events' = events \/ \E row : events' = Append(events, row)
  PROVE  Waited(p, typed, n, at)' /\ n <= Len(events)'
<1>1. events \in Seq(EventType) /\ Len(events) \in Nat BY DEF Typed, Rows
<1>2. PICK k \in Nat : k = Len(events) BY <1>1
<1>3. PICK l \in Nat :
        /\ l = Len(events)' /\ k <= l /\ DOMAIN events = 1..k /\ DOMAIN events' = 1..l
        /\ \A i \in 1..k : events'[i] = events[i]
  <2>1. CASE events' = events
    <3>1. k = Len(events)' /\ k <= k /\ DOMAIN events = 1..k BY <1>1, <1>2, <2>1
    <3> QED BY <2>1, <3>1
  <2>2. ASSUME NEW row, events' = Append(events, row)
        PROVE  /\ k + 1 = Len(events)' /\ k <= k + 1
               /\ DOMAIN events = 1..k /\ DOMAIN events' = 1..(k + 1)
               /\ \A i \in 1..k : events'[i] = events[i]
    BY <1>1, <1>2, <2>2
  <2> QED BY <2>1, <2>2
<1>4. LoginEvents(p, typed, n)' = LoginEvents(p, typed, n)
  <2>1. \A i \in Int : i <= n => i <= k BY <1>2
  <2>2. \A i \in Int : i <= k => i <= l BY <1>3
  <2>3. \A i \in DOMAIN events' : i <= n => i \in DOMAIN events BY <1>3, <2>1
  <2>4. \A i \in DOMAIN events : i \in DOMAIN events' BY <1>3, <2>2
  <2> QED BY <1>3, <2>3, <2>4 DEF LoginEvents
<1>5. PICK ids : ids = LoginEvents(p, typed, n) OBVIOUS
<1>6. ids \in SUBSET (1..k) BY <1>3, <1>5 DEF LoginEvents
<1>7. Failures(ids)' = Failures(ids) BY <1>3, <1>6 DEF Failures
<1>8. ASSUME Failures(ids) # {} PROVE events'[Max(ids)] = events[Max(ids)]
  <2>1. Max(ids) \in ids BY <1>6, <1>8, GuardLooksFarEnough
  <2> QED BY <1>3, <1>6, <2>1
<1>9. PICK m : m = LockoutSeconds(Cardinality(Failures(ids))) OBVIOUS
<1>10. Failures(ids) # {} => at >= events[Max(ids)].at + m
  BY <1>5, <1>9 DEF Waited
<1>11. Failures(ids)' # {} => at >= events'[Max(ids)].at + m
  BY <1>7, <1>8, <1>10
<1>12. Waited(p, typed, n, at)' <=> (Failures(ids)' # {} => at >= events'[Max(ids)].at + m)
  BY <1>4, <1>5, <1>7, <1>9 DEF Waited
<1>13. n <= Len(events)' BY <1>2, <1>3
<1> QED BY <1>11, <1>12, <1>13

\* Who adds which event.
LEMMA EventSteps ==
  ASSUME Typed, [Next]_vars
  PROVE  \/ events' = events
         \/ \E c \in Calls : \E row :
              /\ events' = Append(events, row)
              /\ row.type = "LOGIN_FAILURE" =>
                   /\ call[c].pc = "logFailure"
                   /\ row.phone = call[c].phone /\ row.typed = call[c].typed
                   /\ row.since = call[c].since /\ row.then = call[c].at
<1>1. ASSUME NEW c \in Calls, NEW type, NEW p, Log(c, type, p)
      PROVE  \E row : /\ events' = Append(events, row)
                      /\ row.type = type /\ row.phone = p /\ row.typed = call[c].typed
                      /\ row.since = call[c].since /\ row.then = call[c].at
  BY <1>1 DEF Log
<1>2. ASSUME NEW c \in Calls, LogFailure(c)
      PROVE  call[c].pc = "logFailure" /\ Log(c, "LOGIN_FAILURE", call[c].phone)
  BY <1>2 DEF LogFailure
<1>3. ASSUME NEW c \in Calls, LogLockout(c) \/ LogSuccess(c) \/ LogLogout(c) \/ LogReset(c)
      PROVE  \/ events' = events
             \/ \E p, type : type # "LOGIN_FAILURE" /\ Log(c, type, p)
  <2>1. CASE LogLockout(c)
    <3>1. "LOCKOUT" # "LOGIN_FAILURE" /\ Log(c, "LOCKOUT", call[c].phone)
      BY <2>1 DEF LogLockout
    <3> QED BY <3>1
  <2>2. CASE LogSuccess(c)
    <3>1. "LOGIN_SUCCESS" # "LOGIN_FAILURE"
          /\ (events' = events \/ Log(c, "LOGIN_SUCCESS", call[c].phone))
      BY <2>2 DEF LogSuccess
    <3> QED BY <3>1
  <2>3. CASE LogLogout(c)
    <3>1. "LOGOUT" # "LOGIN_FAILURE"
          /\ (events' = events \/ Log(c, "LOGOUT", user[call[c].user].phone))
      BY <2>3 DEF LogLogout, LogFor
    <3> QED BY <3>1
  <2>4. CASE LogReset(c)
    <3>1. "PASSWORD_RESET" # "LOGIN_FAILURE"
          /\ (events' = events \/ Log(c, "PASSWORD_RESET", user[call[c].user].phone))
      BY <2>4 DEF LogReset, LogFor
    <3> QED BY <3>1
  <2> QED BY <1>3, <2>1, <2>2, <2>3, <2>4
<1>4. ASSUME NEW c \in Calls, Request(c) PROVE events' = events
  BY <1>4 DEF Request, Register, ForgotPassword, LoginArrives, CreateUser, PresentCode,
              FindTarget, Refresh, Logout
<1>5. ASSUME NEW c \in Calls, Continue(c)
      PROVE  \/ events' = events \/ LogFailure(c)
             \/ LogLockout(c) \/ LogSuccess(c) \/ LogLogout(c) \/ LogReset(c)
  BY <1>5 DEF Continue, Create, Cooldown, CreateCode, SendSms, RecordSms, WrongCode,
              Consume, FindUser, Activate, FindLogin, Issue, RevokeAll, Rotate, Drop,
              SetPassword, Revoke, SetStatus, Fail
<1>6. ASSUME Cleanup \/ Tick \/ UNCHANGED vars PROVE events' = events
  BY <1>6 DEF Cleanup, FindStale, DeleteCodes, DeleteWallets, DeleteUsers, JobFails,
              CleanupOtps, CleanupTokens, Tick, vars
<1>7. ASSUME NEW c \in Calls, LogFailure(c)
      PROVE  \E row : /\ events' = Append(events, row) /\ call[c].pc = "logFailure"
                      /\ row.phone = call[c].phone /\ row.typed = call[c].typed
                      /\ row.since = call[c].since /\ row.then = call[c].at
  BY <1>1, <1>2, <1>7
<1>8. ASSUME NEW c \in Calls, LogLockout(c) \/ LogSuccess(c) \/ LogLogout(c) \/ LogReset(c)
      PROVE  \/ events' = events
             \/ \E row : events' = Append(events, row) /\ row.type # "LOGIN_FAILURE"
  BY <1>1, <1>3, <1>8
<1> QED BY <1>4, <1>5, <1>6, <1>7, <1>8 DEF Next

LEMMA LockStep == ASSUME Typed, LockInv, [Next]_vars PROVE LockInv'
<1>1. /\ events \in Seq(EventType) /\ Len(events) \in Nat /\ now \in Nat
      /\ Typed'
  BY StepTyped DEF Typed, Rows
<1>2. events' = events \/ \E row : events' = Append(events, row) BY EventSteps
<1>3. \A c \in Calls : call[c].since \in Nat BY Field DEF CallType
<1>4. ASSUME NEW i \in DOMAIN events PROVE events[i].since \in Nat
  <2>1. events[i] \in EventType BY <1>1, <1>4
  <2> QED BY <2>1 DEF EventType
<1>5. ASSUME NEW c \in Calls, call'[c].pc \in {"find", "logFailure"}
      PROVE  /\ call'[c].since <= Len(events)'
             /\ Waited(call[c].phone, Trim[call[c].typed], call[c].since, call[c].at)'
  <2>1. PICK p, typed, n, at : /\ p = call'[c].phone /\ typed = Trim[call'[c].typed]
                               /\ n = call'[c].since /\ at = call'[c].at
    OBVIOUS
  <2>2. n \in Nat /\ n <= Len(events) /\ Waited(p, typed, n, at)
    <3>1. CASE call'[c] = call[c] BY <1>3, <1>5, <2>1, <3>1 DEF LockInv
    <3>2. CASE Marked(c)
      <4>1. call[c] \in CallType BY Field
      <4>2. /\ call'[c].pc = call[c].pc /\ p = call[c].phone /\ typed = Trim[call[c].typed]
            /\ n = call[c].since /\ at = call[c].at
        BY <2>1, <3>2, <4>1 DEF Marked, CallType
      <4> QED BY <1>3, <1>5, <4>2 DEF LockInv
    <3>3. CASE Came(c)
      <4>1. CASE call'[c].pc = "find"
        <5>1. /\ n = Len(events) /\ at = now
              /\ ~(LockoutUntil(Recent(LoginEvents(p, typed, Len(events)))) > now)
          BY <2>1, <3>3, <4>1 DEF Came
        <5> QED BY <1>1, <5>1, GuardWaits
      <4>2. CASE call'[c].pc = "logFailure"
        <5>1. /\ call[c].pc = "find" /\ p = call[c].phone /\ typed = Trim[call[c].typed]
              /\ n = call[c].since /\ at = call[c].at
          BY <2>1, <3>3, <4>2 DEF Came
        <5> QED BY <1>3, <5>1 DEF LockInv
      <4> QED BY <1>5, <4>1, <4>2
    <3> QED BY <3>1, <3>2, <3>3, CallSteps
  <2>3. Waited(p, typed, n, at)' /\ n <= Len(events)' BY <1>2, <2>2, WaitedStays
  <2> QED BY <2>1, <2>3
<1>6. ASSUME NEW i \in DOMAIN events', events'[i].type = "LOGIN_FAILURE"
      PROVE  /\ events'[i].since <= Len(events)'
             /\ Waited(events[i].phone, Trim[events[i].typed], events[i].since, events[i].then)'
  <2>1. PICK p, typed, n, at : /\ p = events'[i].phone /\ typed = Trim[events'[i].typed]
                               /\ n = events'[i].since /\ at = events'[i].then
    OBVIOUS
  <2>2. n \in Nat /\ n <= Len(events) /\ Waited(p, typed, n, at)
    <3>1. CASE i \in DOMAIN events /\ events'[i] = events[i]
      BY <1>4, <1>6, <2>1, <3>1 DEF LockInv
    <3>2. ASSUME NEW c \in Calls, call[c].pc = "logFailure", p = call[c].phone,
                 typed = Trim[call[c].typed], n = call[c].since, at = call[c].at
          PROVE  n \in Nat /\ n <= Len(events) /\ Waited(p, typed, n, at)
      BY <1>3, <3>2 DEF LockInv
    <3>3. CASE events' # events
      <4>1. PICK c \in Calls, row \in {events'[Len(events) + 1]} :
              /\ events' = Append(events, row)
              /\ row.type = "LOGIN_FAILURE" =>
                   /\ call[c].pc = "logFailure"
                   /\ row.phone = call[c].phone /\ row.typed = call[c].typed
                   /\ row.since = call[c].since /\ row.then = call[c].at
        <5>1. PICK c \in Calls : \E row :
                /\ events' = Append(events, row)
                /\ row.type = "LOGIN_FAILURE" =>
                     /\ call[c].pc = "logFailure"
                     /\ row.phone = call[c].phone /\ row.typed = call[c].typed
                     /\ row.since = call[c].since /\ row.then = call[c].at
          BY <3>3, EventSteps
        <5>2. \A row : events' = Append(events, row) => row = events'[Len(events) + 1]
          BY <1>1
        <5> QED BY <5>1, <5>2
      <4>2. \/ i \in DOMAIN events /\ events'[i] = events[i]
            \/ events'[i] = row
        BY <1>1, <1>6, <4>1
      <4> QED BY <1>6, <2>1, <3>1, <3>2, <4>1, <4>2
    <3> QED BY <1>6, <3>1, <3>3
  <2>3. Waited(p, typed, n, at)' /\ n <= Len(events)' BY <1>2, <2>2, WaitedStays
  <2> QED BY <2>1, <2>3
<1> QED BY <1>5, <1>6 DEF LockInv

\* LockoutHolds holds of every behaviour: the guard, which looks at the latest events
\* only and before the attempt is recorded, lets no login pass that the failures
\* recorded under its identifier, without the spaces around it, still keep out, all
\* of them counted.
THEOREM LockoutHoldsAlways == Spec => []LockoutHolds
<1>1. Init => LockInv
  <2>1. Idle.pc = "idle" BY DEF Idle
  <2> QED BY <2>1 DEF Init, LockInv
<1>2. Typed /\ LockInv /\ [Next]_vars => LockInv' BY LockStep
<1>3. LockInv => LockoutHolds BY DEF LockInv, LockoutHolds, Waited
<1> QED BY <1>1, <1>2, <1>3, TypedAlways, PTL DEF Spec
================================================================================
