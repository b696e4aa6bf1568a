--------------------------- MODULE IdempotencyProofs ---------------------------
(***************************************************************************)
(* Proofs about Idempotency, for any requests, keys and time to live.      *)
(*                                                                         *)
(* Every success names the one request that charged its key, which is      *)
(* itself answered and never changes again; whatever is cached, or on its  *)
(* way to the cache, is the answer of that request.                        *)
(***************************************************************************)
EXTENDS Idempotency, TLAPS

\* Request q charged key k and was answered with its own work.
Original(q, k) ==
  /\ q \in charged /\ KeyOf[q] = k
  /\ Answered(q, 201) /\ req[q].answer.of = q

RespondsCharged == \A r \in Requests : req[r].pc = "respond" => r \in charged

\* What is being stored is the answer of its own request.
SavingOriginal ==
  \A r \in Requests : saving[r] # NULL =>
    /\ saving[r].of = r
    /\ Original(r, KeyOf[r])
    /\ saving[r].expiresAt = req[r].answer.at + KeyTTL

\* What is cached is the answer of the request that charged the key.
CachedOriginal ==
  \A k \in Keys, q \in Requests : keyRow[k] # NULL /\ keyRow[k].of = q =>
    /\ Original(q, k)
    /\ saving[q] = NULL
    /\ keyRow[k].expiresAt = req[q].answer.at + KeyTTL

AnswersOriginal ==
  \A r, first \in Requests : Answered(r, 201) /\ req[r].answer.of = first =>
    /\ Original(first, KeyOf[r])
    /\ req[first].answer.at <= req[r].answer.at
    /\ req[r].answer.at <= now
    /\ first # r => req[r].answer.at < req[first].answer.at + KeyTTL

Inv ==
  /\ TypeOK /\ ChargedOnce /\ RespondsCharged
  /\ SavingOriginal /\ CachedOriginal /\ AnswersOriginal

LEMMA InitInv == Init => Inv
  BY KeyAssumption
  DEF Init, Inv, TypeOK, ReqState, ChargedOnce, RespondsCharged, SavingOriginal,
      CachedOriginal, AnswersOriginal, Answered, ReqPcs

\* The local state of a request that has not been answered with a success.
NoSuccess(x) == x.pc = "answered" => x.answer.status # 201

\* A request that moves without success leaves every other answer alone.
LEMMA MovesOn ==
  ASSUME Inv, NEW r \in Requests, NEW x \in ReqState,
         req[r].pc # "answered", req' = [req EXCEPT ![r] = x],
         x.pc # "respond", NoSuccess(x),
         asked' \in SUBSET Requests,
         UNCHANGED <<now, keyRow, charged, saving>>
  PROVE  Inv'
<1> USE DEF Inv
<1>1. TypeOK' BY DEF TypeOK, ReqState
<1>2. /\ \A q \in Requests \ {r} : req'[q] = req[q]
      /\ req'[r] = x
  BY DEF TypeOK
<1>3. \A q \in Requests, k \in Keys : Original(q, k) =>
        Original(q, k)' /\ req'[q] = req[q]
  BY <1>2 DEF Original, Answered
<1>4. charged \subseteq Requests BY DEF TypeOK
<1>5. ChargedOnce' /\ RespondsCharged'
  BY <1>2 DEF ChargedOnce, RespondsCharged
<1>6. SavingOriginal'
  BY <1>3, KeyAssumption DEF SavingOriginal
<1>7. CachedOriginal'
  BY <1>3, <1>4 DEF CachedOriginal, Original
<1>8. AnswersOriginal'
  <2>1. ASSUME NEW q \in Requests, Answered(q, 201)'
        PROVE  req'[q] = req[q] /\ Answered(q, 201)
    BY <1>2, <2>1 DEF Answered, NoSuccess
  <2>2. QED BY <1>3, <2>1, KeyAssumption DEF AnswersOriginal, Original
<1>9. QED BY <1>1, <1>5, <1>6, <1>7, <1>8

\* A handler that commits its transaction goes on to respond.
LEMMA Commits ==
  ASSUME Inv, NEW r \in Requests, req[r].pc # "answered", CreateTxn(r)
  PROVE  Inv'
<1> USE DEF Inv, CreateTxn, Goto
<1> DEFINE x == [req[r] EXCEPT !.pc = "respond"]
<1>1. x \in ReqState /\ x.pc = "respond" /\ req' = [req EXCEPT ![r] = x]
  BY DEF TypeOK, ReqState, ReqPcs
<1> HIDE DEF x
<1>2. TypeOK' BY <1>1 DEF TypeOK, ReqState
<1>3. /\ \A q \in Requests \ {r} : req'[q] = req[q]
      /\ req'[r].pc = "respond"
  BY <1>1 DEF TypeOK
<1>4. \A q \in Requests, k \in Keys : Original(q, k) =>
        Original(q, k)' /\ req'[q] = req[q]
  BY <1>3 DEF Original, Answered
<1>5. ChargedOnce' BY DEF ChargedOnce, KeyUsed
<1>6. RespondsCharged' BY <1>3 DEF RespondsCharged
<1>7. SavingOriginal' BY <1>4, KeyAssumption DEF SavingOriginal
<1>8. CachedOriginal' BY <1>4 DEF CachedOriginal
<1>9. AnswersOriginal'
  <2>1. ASSUME NEW q \in Requests, Answered(q, 201)'
        PROVE  req'[q] = req[q] /\ Answered(q, 201)
    BY <1>3, <2>1 DEF Answered
  <2>2. QED BY <1>4, <2>1, KeyAssumption DEF AnswersOriginal, Original
<1>10. QED BY <1>2, <1>5, <1>6, <1>7, <1>8, <1>9

\* A replay hands out the answer of the request that charged the key.
LEMMA Replays ==
  ASSUME Inv, NEW r \in Requests, Replay(r)
  PROVE  Inv'
<1> USE DEF Inv
<1> DEFINE k == KeyOf[r]
           first == keyRow[k].of
           x == [pc |-> "answered", answer |-> Success(first)]
<1>1. /\ k \in Keys /\ keyRow[k] # NULL /\ first \in Requests
      /\ now < keyRow[k].expiresAt
  BY KeyAssumption DEF Replay, Cached, TypeOK, Stored
<1>2. /\ Original(first, k) /\ first # r
      /\ keyRow[k].expiresAt = req[first].answer.at + KeyTTL
      /\ req[first].answer.at <= now
  BY <1>1 DEF CachedOriginal, Original, AnswersOriginal, Answered, Replay
<1>3. x \in ReqState /\ req' = [req EXCEPT ![r] = x]
  BY <1>1 DEF TypeOK, ReqState, ReqPcs, Answer, Success, Replay, Reply
<1>4. /\ x.pc = "answered" /\ x.answer.status = 201
      /\ x.answer.of = first /\ x.answer.at = now
  BY DEF Success
<1>5. UNCHANGED <<now, keyRow, charged, asked, saving>> BY DEF Replay
<1>6. req[r].pc = "idle" BY DEF Replay
<1> HIDE DEF x, k, first
<1>7. TypeOK' BY <1>3, <1>5 DEF TypeOK, ReqState
<1>8. /\ \A q \in Requests \ {r} : req'[q] = req[q]
      /\ req'[r] = x
  BY <1>3 DEF TypeOK
<1>9. \A q \in Requests, l \in Keys : Original(q, l) =>
        Original(q, l)' /\ req'[q] = req[q]
  BY <1>5, <1>6, <1>8 DEF Original, Answered
<1>10. ChargedOnce' /\ RespondsCharged'
  BY <1>4, <1>5, <1>8 DEF ChargedOnce, RespondsCharged
<1>11. SavingOriginal' BY <1>5, <1>9, KeyAssumption DEF SavingOriginal
<1>12. CachedOriginal' BY <1>5, <1>9 DEF CachedOriginal
<1>13. AnswersOriginal'
  <2> SUFFICES ASSUME NEW q \in Requests, NEW f \in Requests,
                      Answered(q, 201)', req'[q].answer.of = f
               PROVE  /\ Original(f, KeyOf[q])'
                      /\ req'[f].answer.at <= req'[q].answer.at
                      /\ req'[q].answer.at <= now'
                      /\ f # q => req'[q].answer.at < req'[f].answer.at + KeyTTL
    BY DEF AnswersOriginal
  <2>1. CASE q = r
    <3>1. f = first BY <1>4, <1>8, <2>1
    <3>2. Original(f, k)' /\ req'[f] = req[f]
      BY <1>1, <1>2, <1>9, <3>1
    <3>3. now \in Nat /\ req'[q].answer.at = now /\ now' = now
      BY <1>4, <1>5, <1>8, <2>1 DEF TypeOK
    <3>4. QED BY <1>1, <1>2, <2>1, <3>1, <3>2, <3>3 DEF k
  <2>2. CASE q # r
    <3>1. req'[q] = req[q] /\ Answered(q, 201) BY <1>8, <2>2 DEF Answered
    <3>2. Original(f, KeyOf[q]) BY <3>1 DEF AnswersOriginal
    <3>3. req'[f] = req[f] /\ Original(f, KeyOf[q])'
      BY <1>9, <3>2, KeyAssumption
    <3>4. QED BY <1>5, <3>1, <3>3 DEF AnswersOriginal
  <2>3. QED BY <2>1, <2>2
<1>14. QED BY <1>7, <1>10, <1>11, <1>12, <1>13

\* The first answer for a key; nobody else was answered for it before.
LEMMA Responds ==
  ASSUME Inv, NEW r \in Requests, Respond(r)
  PROVE  Inv'
<1> USE DEF Inv
<1> DEFINE x == [pc |-> "answered", answer |-> Success(r)]
           stored == [of |-> r, expiresAt |-> now + KeyTTL]
<1>1. /\ x \in ReqState /\ stored \in Stored
      /\ req' = [req EXCEPT ![r] = x]
      /\ saving' = [saving EXCEPT ![r] = stored]
  BY KeyAssumption
  DEF TypeOK, ReqState, ReqPcs, Answer, Stored, Success, Respond, Reply
<1>2. /\ x.pc = "answered" /\ x.answer.status = 201
      /\ x.answer.of = r /\ x.answer.at = now
      /\ stored.of = r /\ stored.expiresAt = now + KeyTTL
  BY DEF Success
<1>3. UNCHANGED <<now, keyRow, charged, asked>> BY DEF Respond
<1>4. r \in charged /\ req[r].pc = "respond"
  BY DEF Respond, RespondsCharged
<1> HIDE DEF x, stored
<1>5. TypeOK' BY <1>1, <1>3 DEF TypeOK, ReqState
<1>6. /\ \A q \in Requests \ {r} : req'[q] = req[q] /\ saving'[q] = saving[q]
      /\ req'[r] = x /\ saving'[r] = stored
  BY <1>1 DEF TypeOK
<1>7. \A q \in Requests, l \in Keys : Original(q, l) =>
        Original(q, l)' /\ req'[q] = req[q] /\ q # r
  BY <1>3, <1>4, <1>6 DEF Original, Answered
<1>8. Original(r, KeyOf[r])' BY <1>2, <1>3, <1>4, <1>6 DEF Original, Answered
<1>9. ChargedOnce' /\ RespondsCharged'
  BY <1>2, <1>3, <1>6 DEF ChargedOnce, RespondsCharged
<1>10. SavingOriginal'
  BY <1>2, <1>6, <1>7, <1>8, KeyAssumption DEF SavingOriginal
<1>11. CachedOriginal' BY <1>3, <1>6, <1>7 DEF CachedOriginal
<1>12. AnswersOriginal'
  <2> SUFFICES ASSUME NEW q \in Requests, NEW f \in Requests,
                      Answered(q, 201)', req'[q].answer.of = f
               PROVE  /\ Original(f, KeyOf[q])'
                      /\ req'[f].answer.at <= req'[q].answer.at
                      /\ req'[q].answer.at <= now'
                      /\ f # q => req'[q].answer.at < req'[f].answer.at + KeyTTL
    BY DEF AnswersOriginal
  <2>1. CASE q = r
    BY <1>2, <1>3, <1>6, <1>8, <2>1 DEF TypeOK
  <2>2. CASE q # r
    <3>1. req'[q] = req[q] /\ Answered(q, 201) BY <1>6, <2>2 DEF Answered
    <3>2. Original(f, KeyOf[q]) BY <3>1 DEF AnswersOriginal
    <3>3. req'[f] = req[f] /\ Original(f, KeyOf[q])'
      BY <1>7, <3>2, KeyAssumption
    <3>4. QED BY <1>3, <3>1, <3>3 DEF AnswersOriginal
  <2>3. QED BY <2>1, <2>2
<1>13. QED BY <1>5, <1>9, <1>10, <1>11, <1>12

\* The rest of the system only moves answers into the cache and out of it.
LEMMA CacheMoves ==
  ASSUME Inv,
         \/ \E r \in Requests : Save(r) \/ LoseSave(r)
         \/ CleanupIdempotencyKeys
         \/ Tick
  PROVE  Inv'
<1> USE DEF Inv
<1>1. UNCHANGED <<charged, asked, req>>
  BY DEF Save, LoseSave, CleanupIdempotencyKeys, Tick
<1>2. now \in Nat /\ now' \in 0..MaxTime /\ now <= now'
  BY KeyAssumption DEF TypeOK, Save, LoseSave, CleanupIdempotencyKeys, Tick
<1>3. \A q \in Requests, k \in Keys : Original(q, k) <=> Original(q, k)'
  BY <1>1 DEF Original, Answered
<1>4. ChargedOnce' /\ RespondsCharged'
  BY <1>1 DEF ChargedOnce, RespondsCharged
<1>5. AnswersOriginal'
  <2> SUFFICES ASSUME NEW r \in Requests, NEW first \in Requests,
                      Answered(r, 201), req[r].answer.of = first
               PROVE  /\ Original(first, KeyOf[r])'
                      /\ req[first].answer.at <= req[r].answer.at
                      /\ req[r].answer.at <= now'
                      /\ first # r =>
                           req[r].answer.at < req[first].answer.at + KeyTTL
    BY <1>1 DEF AnswersOriginal, Answered
  <2>1. req[r].answer.at \in Nat
    BY KeyAssumption DEF TypeOK, ReqState, ReqPcs, Answered, Answer, Failures
  <2>2. QED BY <1>2, <1>3, <2>1, KeyAssumption DEF AnswersOriginal
<1>6. ASSUME NEW r \in Requests, Save(r)
      PROVE  TypeOK' /\ SavingOriginal' /\ CachedOriginal'
  <2>1. /\ saving[r] # NULL /\ saving[r] \in Stored /\ saving[r].of = r
        /\ Original(r, KeyOf[r]) /\ KeyOf[r] \in Keys
        /\ saving[r].expiresAt = req[r].answer.at + KeyTTL
    BY <1>6, KeyAssumption DEF Save, TypeOK, SavingOriginal
  <2>2. /\ saving' \in [Requests -> Stored \cup {NULL}]
        /\ \A q \in Requests : saving'[q] = IF q = r THEN NULL ELSE saving[q]
    BY <1>6 DEF Save, TypeOK
  <2>3. /\ keyRow' \in [Keys -> Stored \cup {NULL}]
        /\ \A k \in Keys : \/ keyRow'[k] = keyRow[k]
                           \/ k = KeyOf[r] /\ keyRow'[k] = saving[r]
    BY <1>6, <2>1 DEF Save, TypeOK
  <2>4. TypeOK' BY <1>1, <1>2, <2>2, <2>3 DEF TypeOK
  <2>5. SavingOriginal' BY <1>1, <1>3, <2>2, KeyAssumption DEF SavingOriginal
  <2>6. CachedOriginal' BY <1>1, <1>3, <2>1, <2>2, <2>3 DEF CachedOriginal
  <2>7. QED BY <2>4, <2>5, <2>6
<1>7. ASSUME NEW r \in Requests, LoseSave(r)
      PROVE  TypeOK' /\ SavingOriginal' /\ CachedOriginal'
  <2>1. /\ saving' \in [Requests -> Stored \cup {NULL}]
        /\ \A q \in Requests : saving'[q] = IF q = r THEN NULL ELSE saving[q]
        /\ keyRow' = keyRow
    BY <1>7 DEF LoseSave, TypeOK
  <2>2. TypeOK' BY <1>1, <1>2, <2>1 DEF TypeOK
  <2>3. SavingOriginal' BY <1>1, <1>3, <2>1, KeyAssumption DEF SavingOriginal
  <2>4. CachedOriginal' BY <1>1, <1>3, <2>1 DEF CachedOriginal
  <2>5. QED BY <2>2, <2>3, <2>4
<1>8. CASE CleanupIdempotencyKeys
  <2>1. /\ keyRow' \in [Keys -> Stored \cup {NULL}]
        /\ \A k \in Keys : keyRow'[k] = keyRow[k] \/ keyRow'[k] = NULL
        /\ saving' = saving
    BY <1>8 DEF CleanupIdempotencyKeys, TypeOK
  <2>2. TypeOK' BY <1>1, <1>2, <2>1 DEF TypeOK
  <2>3. SavingOriginal' BY <1>1, <1>3, <2>1, KeyAssumption DEF SavingOriginal
  <2>4. CachedOriginal' BY <1>1, <1>3, <2>1 DEF CachedOriginal
  <2>5. QED BY <1>4, <1>5, <2>2, <2>3, <2>4
<1>9. CASE Tick
  <2>1. saving' = saving /\ keyRow' = keyRow BY <1>9 DEF Tick
  <2>2. TypeOK' BY <1>1, <1>2, <2>1 DEF TypeOK
  <2>3. SavingOriginal' BY <1>1, <1>3, <2>1, KeyAssumption DEF SavingOriginal
  <2>4. CachedOriginal' BY <1>1, <1>3, <2>1 DEF CachedOriginal
  <2>5. QED BY <1>4, <1>5, <2>2, <2>3, <2>4
<1>10. QED BY <1>4, <1>5, <1>6, <1>7, <1>8, <1>9

LEMMA NextInv == Inv /\ [Next]_vars => Inv'
<1> SUFFICES ASSUME Inv, [Next]_vars PROVE Inv'
  OBVIOUS
<1>1. CASE UNCHANGED vars
  BY <1>1
  DEF vars, Inv, TypeOK, ChargedOnce, RespondsCharged, SavingOriginal,
      CachedOriginal, AnswersOriginal, Original, Answered
<1>2. ASSUME NEW r \in Requests, Replay(r) PROVE Inv'
  BY <1>2, Replays
<1>3. ASSUME NEW r \in Requests,
             \/ Admit(r) \/ Refuse(r) \/ CheckExisting(r) \/ AskProvider(r)
             \/ UniqueViolation(r) /\ req[r].pc \in {"handler", "record"}
             \/ Crash(r)
      PROVE  Inv'
  <2>1. req[r] \in ReqState /\ req[r].pc # "answered" /\ asked \in SUBSET Requests
    BY <1>3
    DEF Inv, TypeOK, ReqState, Admit, Refuse, CheckExisting, AskProvider, Crash
  <2>2. /\ asked' \in SUBSET Requests
        /\ UNCHANGED <<now, keyRow, charged, saving>>
    BY <1>3, <2>1
    DEF Admit, Refuse, CheckExisting, AskProvider, UniqueViolation, Crash
  <2>3. CASE \E pc \in ReqPcs \ {"respond"} : Goto(r, pc)
    <3>1. PICK pc \in ReqPcs \ {"respond"} : Goto(r, pc)
      BY <2>3
    <3> DEFINE x == [req[r] EXCEPT !.pc = pc]
    <3>2. x \in ReqState /\ x.pc = pc /\ NoSuccess(x)
      BY <2>1 DEF ReqState, ReqPcs, NoSuccess
    <3>3. req' = [req EXCEPT ![r] = x] BY <3>1 DEF Goto
    <3> HIDE DEF x
    <3>4. QED BY <2>1, <2>2, <3>1, <3>2, <3>3, MovesOn
  <2>4. CASE \E code \in Failures : Reply(r, [status |-> code])
    <3>1. PICK code \in Failures : Reply(r, [status |-> code])
      BY <2>4
    <3> DEFINE x == [pc |-> "answered", answer |-> [status |-> code]]
    <3>2. [status |-> code] \in Answer BY DEF Answer
    <3>3. x \in ReqState BY <3>2 DEF ReqState
    <3>4. x.pc # "respond" /\ NoSuccess(x) BY DEF NoSuccess, Failures
    <3>5. req' = [req EXCEPT ![r] = x] BY <3>1 DEF Reply
    <3> HIDE DEF x
    <3>6. QED BY <2>1, <2>2, <3>3, <3>4, <3>5, MovesOn
  <2>5. QED
    BY <1>3, <2>3, <2>4
    DEF Admit, Refuse, CheckExisting, AskProvider, UniqueViolation, Crash, ReqPcs,
        Failures
<1>4. ASSUME NEW r \in Requests, CreateTxn(r), req[r].pc \in {"handler", "record"}
      PROVE  Inv'
  BY <1>4, Commits
<1>5. ASSUME NEW r \in Requests, Respond(r) PROVE Inv'
  BY <1>5, Responds
<1>6. ASSUME \/ \E r \in Requests : Save(r) \/ LoseSave(r)
             \/ CleanupIdempotencyKeys
             \/ Tick
      PROVE  Inv'
  BY <1>6, CacheMoves
<1>7. QED
  BY <1>1, <1>2, <1>3, <1>4, <1>5, <1>6 DEF Next, Handle, Purchase, RecordTopup

\* The inductive invariant: what is answered, cached or on its way to the cache is
\* the answer of the one request charged for the key.
THEOREM Invariance == Spec => []Inv
<1>1. QED BY InitInv, NextInv, PTL DEF Spec

\* Whatever passes the guard together, fails or is retried, a key is charged once.
THEOREM ChargedOnceAlways == Spec => []ChargedOnce
<1>1. Inv => ChargedOnce BY DEF Inv
<1>2. QED BY <1>1, Invariance, PTL

\* Every success for a key reports one and the same committed work.
THEOREM OneAnswerAlways == Spec => []OneAnswerPerKey
<1>1. Inv => OneAnswerPerKey
  <2> SUFFICES ASSUME Inv, NEW q \in Requests, NEW r \in Requests,
                      Answered(q, 201), Answered(r, 201), KeyOf[q] = KeyOf[r]
               PROVE  /\ req[q].answer.of = req[r].answer.of
                      /\ req[q].answer.of \in charged
    BY DEF OneAnswerPerKey
  <2>1. req[q].answer.of \in Requests /\ req[r].answer.of \in Requests
    BY DEF Inv, TypeOK, ReqState, ReqPcs, Answered, Answer, Failures
  <2>2. Original(req[q].answer.of, KeyOf[q]) /\ Original(req[r].answer.of, KeyOf[q])
    BY <2>1 DEF Inv, AnswersOriginal
  <2>3. QED BY <2>2 DEF Inv, ChargedOnce, Original
<1>2. QED BY <1>1, Invariance, PTL

\* A replay comes within the time to live of the first answer, and what is on
\* its way to the cache never meets a row of its key.
THEOREM ReplayAlways == Spec => [](ReplayedInTime /\ StoreNeverConflicts)
<1>1. Inv => ReplayedInTime
  <2> SUFFICES ASSUME Inv, NEW r \in Requests, Answered(r, 201)
               PROVE  LET first == req[r].answer.of IN
                      /\ Answered(first, 201)
                      /\ req[first].answer.at <= req[r].answer.at
                      /\ first # r =>
                           req[r].answer.at < req[first].answer.at + KeyTTL
    BY DEF ReplayedInTime
  <2>1. req[r].answer.of \in Requests
    BY DEF Inv, TypeOK, ReqState, ReqPcs, Answered, Answer, Failures
  <2>2. QED BY <2>1 DEF Inv, AnswersOriginal, Original
<1>2. Inv => StoreNeverConflicts
  <2> SUFFICES ASSUME Inv, NEW r \in Requests, saving[r] # NULL,
                      keyRow[KeyOf[r]] # NULL
               PROVE  FALSE
    BY DEF StoreNeverConflicts
  <2>1. keyRow[KeyOf[r]].of \in Requests /\ KeyOf[r] \in Keys
    BY KeyAssumption DEF Inv, TypeOK, Stored
  <2>2. Original(keyRow[KeyOf[r]].of, KeyOf[r]) /\ saving[keyRow[KeyOf[r]].of] = NULL
    BY <2>1 DEF Inv, CachedOriginal
  <2>3. Original(r, KeyOf[r]) BY DEF Inv, SavingOriginal
  <2>4. QED BY <2>2, <2>3 DEF Inv, ChargedOnce, Original
<1>3. QED BY <1>1, <1>2, Invariance, PTL

-----------------------------------------------------------------------------
(* initiateTopup refuses a charged key before it asks the provider. *)

\* A request that has not arrived has opened no checkout.
IdleAskedNothing == \A r \in asked : req[r].pc # "idle"

\* A request whose key is charged has opened no checkout and is past the place
\* where it would: a row with its key turns it away before.
TurnedAway(r) == KeyUsed(r) /\ r \notin asked /\ req[r].pc # "provider"

\* A request moves by its own steps: it is about to ask the provider only if its key
\* is not charged, and has asked only if it was about to.  What is charged stays so.
LEMMA OnlyOwnSteps ==
  ASSUME TypeOK, [Next]_vars
  PROVE  /\ charged \subseteq charged'
         /\ \A r \in Requests :
              \/ UNCHANGED <<req[r], r \in asked>>
              \/ /\ req'[r].pc = "provider" /\ ~KeyUsed(r)
                 /\ UNCHANGED <<charged, asked>>
              \/ /\ req'[r].pc \notin {"idle", "provider"}
                 /\ r \in asked' => r \in asked \/ req[r].pc = "provider"
<1> USE DEF TypeOK
<1>1. CASE UNCHANGED vars BY <1>1 DEF vars
<1>2. ASSUME NEW q \in Requests, NEW x, req' = [req EXCEPT ![q] = x]
      PROVE  \A r \in Requests : req'[r] = IF r = q THEN x ELSE req[r]
  BY <1>2
<1>3. ASSUME NEW q \in Requests, NEW pc, Goto(q, pc)
      PROVE  /\ \A r \in Requests : r # q => req'[r] = req[r]
             /\ req'[q].pc = pc
  <2>1. req[q] \in ReqState /\ "pc" \in DOMAIN req[q] BY DEF ReqState
  <2> QED BY <1>3, <2>1 DEF Goto
<1>4. ASSUME NEW q \in Requests, NEW a, Reply(q, a)
      PROVE  /\ \A r \in Requests : r # q => req'[r] = req[r]
             /\ req'[q].pc = "answered"
  BY <1>4, <1>2 DEF Reply
<1>5. ASSUME NEW q \in Requests, Replay(q) \/ Admit(q) \/ Crash(q) \/ Refuse(q)
      PROVE  /\ \A r \in Requests : r # q => req'[r] = req[r]
             /\ req'[q].pc \notin {"idle", "provider"}
             /\ UNCHANGED <<charged, asked>>
  BY <1>3, <1>4, <1>5 DEF Replay, Admit, Crash, Refuse
<1>6. ASSUME NEW q \in Requests, Purchase(q) \/ RecordTopup(q) \/ Respond(q)
      PROVE  /\ \A r \in Requests : r # q => req'[r] = req[r]
             /\ req'[q].pc \notin {"idle", "provider"}
             /\ charged \subseteq charged' /\ UNCHANGED asked
  BY <1>3, <1>4, <1>6
  DEF Purchase, RecordTopup, Respond, CreateTxn, UniqueViolation
<1>7. ASSUME NEW q \in Requests, CheckExisting(q)
      PROVE  /\ \A r \in Requests : r # q => req'[r] = req[r]
             /\ \/ req'[q].pc = "answered"
                \/ req'[q].pc = "provider" /\ ~KeyUsed(q)
             /\ UNCHANGED <<charged, asked>>
  BY <1>3, <1>4, <1>7 DEF CheckExisting
<1>8. ASSUME NEW q \in Requests, AskProvider(q)
      PROVE  /\ \A r \in Requests : r # q => req'[r] = req[r]
             /\ req[q].pc = "provider" /\ req'[q].pc \in {"record", "answered"}
             /\ charged' = charged
             /\ asked' = asked \cup {q} \/ asked' = asked
  BY <1>3, <1>4, <1>8 DEF AskProvider
<1>9. ASSUME \/ \E q \in Requests : Save(q) \/ LoseSave(q)
             \/ CleanupIdempotencyKeys \/ Tick
      PROVE  UNCHANGED <<charged, asked, req>>
  BY <1>9 DEF Save, LoseSave, CleanupIdempotencyKeys, Tick
<1> QED BY <1>1, <1>5, <1>6, <1>7, <1>8, <1>9 DEF Next, Handle

\* A top-up that arrives once its key is charged opens no checkout, even when the
\* stored response has expired or was never stored: initiateTopup looks for the row.
THEOREM ChargedNeverAsksAlways == Spec => ChargedNeverAsks
<1>1. Init => IdleAskedNothing BY DEF Init, IdleAskedNothing
<1>2. Inv /\ IdleAskedNothing /\ [Next]_vars => IdleAskedNothing'
  <2> SUFFICES ASSUME Inv, IdleAskedNothing, [Next]_vars, NEW r \in asked'
               PROVE  req'[r].pc # "idle"
    BY DEF IdleAskedNothing
  <2>1. Inv' BY NextInv
  <2>2. r \in Requests BY <2>1 DEF Inv, TypeOK
  <2> QED BY <2>2, OnlyOwnSteps DEF Inv, IdleAskedNothing
<1>3. ASSUME NEW r \in Requests
      PROVE  Spec => [](req[r].pc = "idle" /\ KeyUsed(r) => [](r \notin asked))
  <2>1. IdleAskedNothing /\ req[r].pc = "idle" /\ KeyUsed(r) => TurnedAway(r)
    BY DEF IdleAskedNothing, TurnedAway
  <2>2. Inv /\ TurnedAway(r) /\ [Next]_vars => TurnedAway(r)'
    BY OnlyOwnSteps DEF Inv, TurnedAway, KeyUsed
  <2>3. TurnedAway(r) => r \notin asked BY DEF TurnedAway
  <2> QED BY <1>1, <1>2, <2>1, <2>2, <2>3, Invariance, PTL DEF Spec
<1> QED BY <1>3 DEF ChargedNeverAsks
================================================================================
