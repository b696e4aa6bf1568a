------------------------------ MODULE ReportProofs ------------------------------
(***************************************************************************)
(* What an anomaly flag stands for, how far the figures of one report may  *)
(* differ, which bursts of scans are found and what a later report may     *)
(* take back, for any number of tickets, routes, drivers and scans.        *)
(***************************************************************************)
EXTENDS AnomalyAudit, Reports, FiniteSetTheorems, WellFoundedInduction, TLAPS

-----------------------------------------------------------------------------
(* The audit *)

Stages == {"none", "answered", "readStop", "post", "body", "record", "done", "lost"}

AuditRow ==
  [pc: Stages, result: Results \cup {"NONE"}, distance: Nat, severity: Severities,
   source: AnomalySource \cup {"NONE"}]

\* Of a scan that was accepted the rules can only say how far away it was made.
Grounded(a) ==
  a.pc \in {"record", "done"} /\ a.source = "RULE_FALLBACK" =>
    /\ a.distance > 600 <=> a.severity = "HIGH"
    /\ a.distance <= 200 <=> a.severity = "LOW"

\* There is a flag when the audit is done, and not before.
Stored(a, list) ==
  IF a.pc = "done" /\ a.severity # "LOW"
    THEN list = <<[severity |-> a.severity, source |-> a.source]>>
    ELSE list = <<>>

\* An audit at work is that of a scan that was answered VALID.
AuditOf(a, list) ==
  /\ a \in AuditRow /\ Grounded(a) /\ Stored(a, list)
  /\ a.pc \notin {"none", "answered"} => a.result = "VALID"

AuditOK(s) == AuditOf(audit[s], flags[s])

AuditInv ==
  /\ audit = [s \in Scans |-> audit[s]]
  /\ flags = [s \in Scans |-> flags[s]]
  /\ \A s \in Scans : AuditOK(s)

LEMMA AuditStarts == AuditInit => AuditInv
<1> SUFFICES ASSUME AuditInit PROVE AuditInv OBVIOUS
<1>1. NoAudit \in AuditRow /\ NoAudit.pc = "none"
  BY DEF NoAudit, AuditRow, Stages, Severities
<1>2. Grounded(NoAudit) /\ Stored(NoAudit, <<>>) BY <1>1 DEF Grounded, Stored
<1>3. AuditOf(NoAudit, <<>>) BY <1>1, <1>2 DEF AuditOf
<1>4. audit = [s \in Scans |-> NoAudit] /\ flags = [s \in Scans |-> <<>>]
  BY DEF AuditInit
<1> QED BY <1>3, <1>4 DEF AuditInv, AuditOK

\* What was known of an audit that does not move is still so.
LEMMA OthersStay ==
  ASSUME AuditInv, NEW s \in Scans, audit'[s] = audit[s], flags'[s] = flags[s]
  PROVE  AuditOK(s)'
BY DEF AuditInv, AuditOK

\* Without a flag the audit of a scan goes on to the next stage.
LEMMA GoesOn ==
  ASSUME AuditInv, NEW s \in Scans, NEW next \in AuditRow,
         NEW from \in Stages \ {"none", "answered", "done"},
         Audit(s, from, next), next.result = audit[s].result, Grounded(next),
         flags' = flags, next.pc # "done"
  PROVE  AuditInv'
<1>1. audit[s].pc = from /\ audit' = [audit EXCEPT ![s] = next] BY DEF Audit
<1>2. audit'[s] = next /\ audit' = [o \in Scans |-> audit'[o]]
      /\ flags' = [o \in Scans |-> flags'[o]]
      /\ \A o \in Scans : o # s => audit'[o] = audit[o]
  BY <1>1 DEF AuditInv
<1>3. ASSUME NEW o \in Scans PROVE AuditOK(o)'
  <2>1. CASE o # s BY <2>1, <1>1, <1>2, OthersStay
  <2>2. CASE o = s
    <3>1. AuditOf(audit[s], flags[s]) BY DEF AuditInv, AuditOK
    <3>2. flags[s] = <<>> BY <3>1, <1>1 DEF AuditOf, Stored
    <3>3. Stored(next, <<>>) BY DEF Stored
    <3>4. AuditOf(next, <<>>) BY <3>1, <3>3, <1>1 DEF AuditOf
    <3> QED BY <3>2, <3>4, <2>2, <1>1, <1>2 DEF AuditOK
  <2> QED BY <2>1, <2>2
<1> QED BY <1>1, <1>2, <1>3 DEF AuditInv

\* What the rules say of a scan that was accepted.
LEMMA RulesSay ==
  ASSUME NEW s \in Scans, audit[s].result = "VALID", audit[s].distance \in Nat
  PROVE  /\ Severity(Score(s)) \in Severities
         /\ Severity(Score(s)) = "HIGH" <=> audit[s].distance > 600
         /\ Severity(Score(s)) = "LOW" <=> audit[s].distance <= 200
<1> DEFINE d == audit[s].distance
           place == IF d > 600 THEN {85} ELSE IF d > 200 THEN {40} ELSE {}
<1>1. Score(s) = Max({5} \cup place) BY DEF Score
<1>2. CASE d > 600
  <2>1. {5} \cup place = {5, 85} BY <1>2
  <2>2. Max({5, 85}) = 85 BY DEF Max
  <2> QED BY <1>1, <1>2, <2>1, <2>2 DEF Severity, Severities
<1>3. CASE d > 200 /\ ~(d > 600)
  <2>1. {5} \cup place = {5, 40} BY <1>3
  <2>2. Max({5, 40}) = 40 BY DEF Max
  <2> QED BY <1>1, <1>3, <2>1, <2>2 DEF Severity, Severities
<1>4. CASE ~(d > 200)
  <2>1. {5} \cup place = {5} BY <1>4
  <2>2. Max({5}) = 5 BY DEF Max
  <2> QED BY <1>1, <1>4, <2>1, <2>2 DEF Severity, Severities
<1> QED BY <1>2, <1>3, <1>4

LEMMA FallbackKeeps ==
  ASSUME AuditInv, NEW s \in Scans, NEW from \in {"post", "body"},
         Audit(s, from, Fallback(s)), flags' = flags
  PROVE  AuditInv'
<1>1. audit[s].pc = from /\ audit[s] \in AuditRow /\ audit[s].result = "VALID"
  BY DEF Audit, AuditInv, AuditOK, AuditOf
<1>2. audit[s].distance \in Nat BY <1>1 DEF AuditRow
<1> DEFINE next == Fallback(s)
<1>3. PICK severity : severity = Severity(Score(s)) OBVIOUS
<1>4. severity \in Severities /\ (severity = "HIGH" <=> audit[s].distance > 600)
      /\ (severity = "LOW" <=> audit[s].distance <= 200)
  BY <1>1, <1>2, <1>3, RulesSay
<1>5. next = [audit[s] EXCEPT !.pc = "record", !.source = "RULE_FALLBACK", !.severity = severity]
  BY <1>3 DEF Fallback
<1>6. next \in AuditRow BY <1>1, <1>4, <1>5 DEF AuditRow, Stages, AnomalySource
<1>7. next.pc = "record" /\ next.severity = severity /\ next.distance = audit[s].distance
      /\ next.result = audit[s].result
  BY <1>1, <1>5 DEF AuditRow
<1>8. Grounded(next) BY <1>4, <1>7 DEF Grounded
<1>9. from \in Stages \ {"none", "answered", "done"} /\ next.pc # "done" BY <1>7 DEF Stages
<1> HIDE DEF next
<1>10. Audit(s, from, next) BY DEF next
<1> QED BY <1>6, <1>7, <1>8, <1>9, <1>10, GoesOn

LEMMA ScanKeeps ==
  ASSUME AuditInv, NEW s \in Scans, NEW result \in Results, NEW distance \in Distances,
         Scan(s, result, distance)
  PROVE  AuditInv'
<1>1. PICK pc : pc = IF result = "VALID" THEN "readStop" ELSE "answered" OBVIOUS
<1>2. PICK fresh : fresh = [NoAudit EXCEPT !.pc = pc, !.result = result, !.distance = distance]
  OBVIOUS
<1>3. audit[s].pc = "none" /\ audit' = [audit EXCEPT ![s] = fresh] /\ flags' = flags
  BY <1>1, <1>2 DEF Scan
<1>4. distance \in Nat BY AuditAssumption
<1>5. fresh \in AuditRow /\ fresh.pc = pc /\ fresh.result = result
  BY <1>1, <1>2, <1>4 DEF NoAudit, AuditRow, Stages, Severities
<1>6. AuditOf(fresh, <<>>) BY <1>1, <1>5 DEF AuditOf, Grounded, Stored
<1>7. flags[s] = <<>> BY <1>3 DEF AuditInv, AuditOK, AuditOf, Stored
<1>8. /\ audit' = [o \in Scans |-> audit'[o]] /\ flags' = [o \in Scans |-> flags'[o]]
      /\ \A o \in Scans : o # s => audit'[o] = audit[o]
      /\ audit'[s] = fresh
  BY <1>3 DEF AuditInv
<1>9. ASSUME NEW o \in Scans PROVE AuditOK(o)'
  <2>1. CASE o # s BY <2>1, <1>3, <1>8, OthersStay
  <2>2. CASE o = s BY <2>2, <1>3, <1>6, <1>7, <1>8 DEF AuditOK
  <2> QED BY <2>1, <2>2
<1> QED BY <1>8, <1>9 DEF AuditInv

LEMMA ReadStopKeeps ==
  ASSUME AuditInv, NEW s \in Scans, ReadStop(s)
  PROVE  AuditInv'
<1>1. PICK placed \in BOOLEAN :
        Audit(s, "readStop", [audit[s] EXCEPT !.pc = "post",
                                              !.distance = IF placed THEN @ ELSE 0])
  BY DEF ReadStop
<1>2. audit[s] \in AuditRow BY DEF AuditInv, AuditOK, AuditOf
<1>3. PICK far : far = IF placed THEN audit[s].distance ELSE 0 OBVIOUS
<1>4. far \in Nat BY <1>2, <1>3 DEF AuditRow
<1>5. PICK next : next = [audit[s] EXCEPT !.pc = "post", !.distance = far] OBVIOUS
<1>6. next \in AuditRow /\ next.pc = "post" /\ next.result = audit[s].result
  BY <1>2, <1>4, <1>5 DEF AuditRow, Stages
<1>7. Audit(s, "readStop", next) BY <1>1, <1>3, <1>5
<1>8. Grounded(next) BY <1>6 DEF Grounded
<1> QED BY <1>6, <1>7, <1>8, GoesOn DEF ReadStop, Stages

LEMMA AnswersKeeps ==
  ASSUME AuditInv, NEW s \in Scans, Answers(s)
  PROVE  AuditInv'
<1>1. audit[s] \in AuditRow BY DEF AuditInv, AuditOK, AuditOf
<1>2. PICK next : next = [audit[s] EXCEPT !.pc = "body"] OBVIOUS
<1>3. next \in AuditRow /\ next.pc = "body" /\ next.result = audit[s].result
  BY <1>1, <1>2 DEF AuditRow, Stages
<1>4. Grounded(next) BY <1>3 DEF Grounded
<1> QED BY <1>2, <1>3, <1>4, GoesOn DEF Answers, Stages

LEMMA VerdictKeeps ==
  ASSUME AuditInv, NEW s \in Scans, Verdict(s)
  PROVE  AuditInv'
<1>1. PICK severity \in Severities :
        Audit(s, "body", [audit[s] EXCEPT !.pc = "record", !.source = "ML",
                                          !.severity = severity])
  BY DEF Verdict
<1>2. audit[s] \in AuditRow BY DEF AuditInv, AuditOK, AuditOf
<1>3. PICK next : next = [audit[s] EXCEPT !.pc = "record", !.source = "ML",
                                          !.severity = severity]
  OBVIOUS
<1>4. next \in AuditRow /\ next.pc = "record" /\ next.source = "ML"
      /\ next.result = audit[s].result
  BY <1>2, <1>3 DEF AuditRow, Stages, AnomalySource
<1>5. Grounded(next) BY <1>4 DEF Grounded
<1> QED BY <1>1, <1>3, <1>4, <1>5, GoesOn DEF Verdict, Stages

LEMMA RecordKeeps ==
  ASSUME AuditInv, NEW s \in Scans, Record(s)
  PROVE  AuditInv'
<1>1. AuditOf(audit[s], flags[s]) BY DEF AuditInv, AuditOK
<1>2. PICK next : next = [audit[s] EXCEPT !.pc = "done"] OBVIOUS
<1>3. /\ audit[s] \in AuditRow /\ audit[s].pc = "record" /\ flags[s] = <<>>
      /\ Audit(s, "record", next)
  BY <1>1, <1>2 DEF AuditOf, Record, Audit, Stored
<1>4. /\ next \in AuditRow /\ next.pc = "done" /\ next.severity = audit[s].severity
      /\ next.source = audit[s].source /\ next.distance = audit[s].distance
      /\ next.result = audit[s].result
  BY <1>2, <1>3 DEF AuditRow, Stages
<1>5. Grounded(next) BY <1>1, <1>3, <1>4 DEF AuditOf, Grounded
<1>6. audit' = [audit EXCEPT ![s] = next] BY <1>3 DEF Audit
<1>7. PICK flag : flag = [severity |-> audit[s].severity, source |-> audit[s].source] OBVIOUS
<1>8. flags' = IF audit[s].severity = "LOW" THEN flags
               ELSE [flags EXCEPT ![s] = Append(flags[s], flag)]
  BY <1>7 DEF Record
<1>9. Append(<<>>, flag) = <<flag>> OBVIOUS
<1>10. flags' = IF audit[s].severity = "LOW" THEN flags ELSE [flags EXCEPT ![s] = <<flag>>]
  BY <1>3, <1>8, <1>9
<1>11. /\ audit' = [o \in Scans |-> audit'[o]] /\ flags' = [o \in Scans |-> flags'[o]]
       /\ \A o \in Scans : o # s => audit'[o] = audit[o] /\ flags'[o] = flags[o]
       /\ audit'[s] = next
       /\ flags'[s] = IF audit[s].severity = "LOW" THEN <<>> ELSE <<flag>>
  BY <1>3, <1>6, <1>10 DEF AuditInv
<1>12. Stored(next, flags'[s]) BY <1>4, <1>7, <1>11 DEF Stored
<1>13. AuditOf(next, flags'[s]) BY <1>1, <1>3, <1>4, <1>5, <1>12 DEF AuditOf
<1>14. ASSUME NEW o \in Scans PROVE AuditOK(o)'
  <2>1. CASE o # s BY <2>1, <1>11, OthersStay
  <2>2. CASE o = s BY <2>2, <1>11, <1>13 DEF AuditOK
  <2> QED BY <2>1, <2>2
<1> QED BY <1>11, <1>14 DEF AuditInv

LEMMA LoseKeeps ==
  ASSUME AuditInv, NEW lost, Lose(lost),
         \A s \in lost \cap Scans : audit[s].pc \notin {"none", "answered", "done", "lost"}
  PROVE  AuditInv'
<1>1. flags' = flags
      /\ audit' = [s \in Scans |-> IF s \in lost THEN [audit[s] EXCEPT !.pc = "lost"]
                                   ELSE audit[s]]
  BY DEF Lose
<1>2. audit' = [s \in Scans |-> audit'[s]] /\ flags' = [s \in Scans |-> flags'[s]]
  BY <1>1 DEF AuditInv
<1>3. ASSUME NEW s \in Scans PROVE AuditOK(s)'
  <2>1. CASE s \notin lost BY <2>1, <1>1, OthersStay
  <2>2. CASE s \in lost
    <3>1. AuditOf(audit[s], flags[s]) BY DEF AuditInv, AuditOK
    <3>2. PICK next : next = [audit[s] EXCEPT !.pc = "lost"] OBVIOUS
    <3>3. audit[s].pc \notin {"none", "answered", "done"} /\ audit[s] \in AuditRow
          /\ flags[s] = <<>>
      BY <2>2, <3>1 DEF AuditOf, Stored
    <3>4. next \in AuditRow /\ next.pc = "lost" /\ next.result = audit[s].result
      BY <3>2, <3>3 DEF AuditRow, Stages
    <3>5. Grounded(next) /\ Stored(next, <<>>) BY <3>4 DEF Grounded, Stored
    <3>6. AuditOf(next, <<>>) BY <3>1, <3>3, <3>4, <3>5 DEF AuditOf
    <3> QED BY <3>2, <3>3, <3>6, <2>2, <1>1 DEF AuditOK
  <2> QED BY <2>1, <2>2
<1> QED BY <1>1, <1>2, <1>3 DEF AuditInv

LEMMA AuditStep ==
  ASSUME AuditInv, [AuditNext]_avars
  PROVE  AuditInv'
<1>1. ASSUME NEW s \in Scans,
             \/ \E result \in Results, distance \in Distances : Scan(s, result, distance)
             \/ ReadStop(s) \/ NoVerdict(s) \/ Answers(s) \/ Verdict(s) \/ BreaksOff(s)
             \/ Record(s) \/ AuditFails(s)
      PROVE  AuditInv'
  <2>1. CASE \E result \in Results, distance \in Distances : Scan(s, result, distance)
    BY <2>1, ScanKeeps
  <2>2. CASE ReadStop(s) BY <2>2, ReadStopKeeps
  <2>3. CASE NoVerdict(s) BY <2>3, FallbackKeeps DEF NoVerdict
  <2>4. CASE Answers(s) BY <2>4, AnswersKeeps
  <2>5. CASE Verdict(s) BY <2>5, VerdictKeeps
  <2>6. CASE BreaksOff(s) BY <2>6, FallbackKeeps DEF BreaksOff
  <2>7. CASE Record(s) BY <2>7, RecordKeeps
  <2>8. CASE AuditFails(s) BY <2>8, LoseKeeps DEF AuditFails
  <2> QED BY <1>1, <2>1, <2>2, <2>3, <2>4, <2>5, <2>6, <2>7, <2>8
<1>2. CASE Crash BY <1>2, LoseKeeps DEF Crash, InAudit
<1>3. CASE UNCHANGED avars
  <2>1. audit' = audit /\ flags' = flags BY <1>3 DEF avars
  <2>2. \A s \in Scans : AuditOK(s)' BY <2>1, OthersStay
  <2> QED BY <2>1, <2>2 DEF AuditInv
<1> QED BY <1>1, <1>2, <1>3 DEF AuditNext

\* An audit that comes to its end leaves the one flag its verdict calls for, and one
\* that does not leaves none; the rules go by the distance alone, however slow the
\* verdict of the service is and whatever fails meanwhile.
THEOREM FlagsWarrantedAlways == AuditSpec => []FlagsWarranted
<1>1. AuditInv => FlagsWarranted
  <2> SUFFICES ASSUME AuditInv, NEW s \in Scans
      PROVE /\ Len(flags[s]) <= 1
            /\ flags[s] # <<>> <=> audit[s].pc = "done" /\ audit[s].severity # "LOW"
            /\ audit[s].pc = "done" /\ audit[s].source = "RULE_FALLBACK" =>
                 /\ audit[s].distance > 600 <=> audit[s].severity = "HIGH"
                 /\ audit[s].distance <= 200 <=> audit[s].severity = "LOW"
    BY DEF FlagsWarranted
  <2>1. AuditOf(audit[s], flags[s]) BY DEF AuditInv, AuditOK
  <2>2. PICK flag : flag = [severity |-> audit[s].severity, source |-> audit[s].source] OBVIOUS
  <2>3. IF audit[s].pc = "done" /\ audit[s].severity # "LOW"
          THEN flags[s] = <<flag>> ELSE flags[s] = <<>>
    BY <2>1, <2>2 DEF AuditOf, Stored
  <2>4. Len(<<flag>>) = 1 /\ <<flag>> # <<>> /\ Len(<<>>) = 0 OBVIOUS
  <2>5. Len(flags[s]) \in {0, 1} /\ (flags[s] = <<>> <=> ~(audit[s].pc = "done" /\ audit[s].severity # "LOW"))
    BY <2>3, <2>4, Zenon
  <2>6. \A n : n \in {0, 1} => n <= 1 OBVIOUS
  <2>7. Len(flags[s]) <= 1 BY <2>5, <2>6, Zenon
  <2> QED BY <2>1, <2>5, <2>7 DEF AuditOf, Grounded
<1> QED BY <1>1, AuditStarts, AuditStep, PTL DEF AuditSpec

-----------------------------------------------------------------------------
(* The tickets and the log, under reports *)

Phases == {"NONE", "ACTIVE", "USED", "REFUNDED"}

EventRow ==
  [by: ScanIds, driver: Drivers, ticket: Tickets, at: Nat, result: ScanResult,
   offline: BOOLEAN]

\* Tickets are bought at some time, of which at any time there are only so many.
SalesInv ==
  /\ phase \in [Tickets -> Phases]
  /\ boughtAt \in [Tickets -> Nat \cup {NULL}]
  /\ \A t \in Tickets : phase[t] = "NONE" <=> boughtAt[t] = NULL
  /\ IsFiniteSet(Sold)
  /\ \A t \in Sold : boughtAt[t] <= now

\* There are no scans of the future, and at any time only so many.
EventsInv ==
  /\ IsFiniteSet(scanEvents)
  /\ \A e \in scanEvents : e \in EventRow /\ e.at <= now

\* What a run has on its list is over.
ListedInv ==
  /\ listed \in [Runs -> SUBSET Tickets]
  /\ \A j \in Runs : \A t \in listed[j] : t \in Sold /\ now > ExpiresAt(t)

\* A ticket that a run refunded is not on its list.
RefundsInv ==
  \A row \in refundRows :
    /\ row.ticket \in Tickets /\ phase[row.ticket] \in {"USED", "REFUNDED"}
    /\ row.by \in Runs => row.ticket \notin listed[row.by]

WorldInv ==
  now \in Nat /\ now <= MaxTime /\ SalesInv /\ EventsInv /\ ListedInv /\ RefundsInv

\* What no step takes back.
NothingUndone ==
  /\ scanEvents \subseteq scanEvents'
  /\ \A t \in Sold : t \in Sold' /\ boughtAt'[t] = boughtAt[t]

\* What only a refund takes back.
NoneUnused == \A t \in Tickets : phase[t] = "USED" => phase'[t] = "USED"

LEMMA WorldStarts == LogInit /\ refundRows = {} => WorldInv
<1> SUFFICES ASSUME LogInit, refundRows = {} PROVE WorldInv OBVIOUS
<1>1. /\ now = 0 /\ phase = [t \in Tickets |-> "NONE"] /\ boughtAt = [t \in Tickets |-> NULL]
      /\ listed = [j \in Runs |-> {}] /\ scanEvents = {}
  BY DEF LogInit
<1>2. Sold = {} BY <1>1 DEF Sold
<1>3. IsFiniteSet({}) BY FS_EmptySet
<1> QED
  BY <1>1, <1>2, <1>3, ScanLogAssumption
  DEF WorldInv, SalesInv, EventsInv, ListedInv, RefundsInv, Phases

LEMMA SoldAt ==
  ASSUME WorldInv, NEW t \in Sold
  PROVE  t \in Tickets /\ boughtAt[t] \in Nat /\ ExpiresAt(t) \in Nat
BY ScanLogAssumption DEF WorldInv, SalesInv, Sold, ExpiresAt

\* A ticket is sold.
LEMMA BuyKeeps ==
  ASSUME WorldInv, NEW t \in Tickets, NEW at \in 0..MaxTime, Buy(t, at),
         refundRows' = refundRows
  PROVE  WorldInv' /\ NothingUndone /\ NoneUnused
<1>1. /\ t \notin Sold /\ at <= now
      /\ phase' = [phase EXCEPT ![t] = "ACTIVE"] /\ boughtAt' = [boughtAt EXCEPT ![t] = at]
      /\ now' = now /\ listed' = listed /\ scanEvents' = scanEvents
  BY DEF Buy
<1>2. at \in Nat /\ at # NULL BY ScanLogAssumption
<1>3. /\ phase \in [Tickets -> Phases] /\ boughtAt \in [Tickets -> Nat \cup {NULL}]
      /\ phase[t] = "NONE" /\ now \in Nat /\ now <= MaxTime
  BY <1>1 DEF WorldInv, SalesInv, Sold
<1>4. /\ phase'[t] = "ACTIVE" /\ boughtAt'[t] = at
      /\ \A o \in Tickets : o # t => phase'[o] = phase[o] /\ boughtAt'[o] = boughtAt[o]
  BY <1>1, <1>3
<1>5. Sold' = Sold \cup {t} BY <1>4 DEF Sold
<1>6. SalesInv'
  <2>1. phase' \in [Tickets -> Phases] /\ boughtAt' \in [Tickets -> Nat \cup {NULL}]
    BY <1>1, <1>2, <1>3 DEF Phases
  <2>2. IsFiniteSet(Sold') BY <1>5, FS_AddElement DEF WorldInv, SalesInv
  <2> QED BY <1>1, <1>2, <1>4, <1>5, <2>1, <2>2 DEF WorldInv, SalesInv, Sold
<1>7. \A o \in Sold : ExpiresAt(o)' = ExpiresAt(o) BY <1>1, <1>4 DEF ExpiresAt, Sold
<1>8. ListedInv' BY <1>1, <1>5, <1>7 DEF WorldInv, ListedInv
<1>9. EventsInv' BY <1>1 DEF WorldInv, EventsInv
<1>10. RefundsInv' BY <1>1, <1>3, <1>4 DEF WorldInv, RefundsInv
<1> QED
  BY <1>1, <1>3, <1>4, <1>5, <1>6, <1>8, <1>9, <1>10
  DEF WorldInv, NothingUndone, NoneUnused, Sold

\* A ticket that was sold moves on, and is on no list that it was not on.
LEMMA MoveKeeps ==
  ASSUME WorldInv, NEW t \in Sold, NEW to \in {"USED", "REFUNDED"},
         phase' \in {phase, [phase EXCEPT ![t] = to]},
         UNCHANGED <<now, boughtAt, scanEvents>>,
         listed' \in [Runs -> SUBSET Tickets], \A j \in Runs : listed'[j] \subseteq listed[j],
         \A row \in refundRows' : row \in refundRows \/
           (row.ticket = t /\ phase'[t] = to /\ (row.by \in Runs => t \notin listed'[row.by]))
  PROVE  WorldInv' /\ NothingUndone /\ (to = "USED" => NoneUnused)
<1>1. t \in Tickets /\ phase \in [Tickets -> Phases] /\ phase[t] # "NONE"
  BY DEF WorldInv, SalesInv, Sold
<1>2. /\ phase' \in [Tickets -> Phases]
      /\ phase'[t] \in {phase[t], to}
      /\ \A o \in Tickets : o # t => phase'[o] = phase[o]
  BY <1>1 DEF Phases
<1>3. Sold' = Sold BY <1>1, <1>2 DEF Sold
<1>4. SalesInv' BY <1>1, <1>2, <1>3 DEF WorldInv, SalesInv
<1>5. EventsInv' BY DEF WorldInv, EventsInv
<1>6. \A o \in Sold : ExpiresAt(o)' = ExpiresAt(o) BY DEF ExpiresAt
<1>7. ListedInv' BY <1>3, <1>6 DEF WorldInv, ListedInv
<1>8. RefundsInv'
  <2> SUFFICES ASSUME NEW row \in refundRows'
               PROVE /\ row.ticket \in Tickets /\ phase'[row.ticket] \in {"USED", "REFUNDED"}
                     /\ row.by \in Runs => row.ticket \notin listed'[row.by]
    BY DEF RefundsInv
  <2>1. CASE row \in refundRows BY <1>1, <1>2, <2>1 DEF WorldInv, RefundsInv
  <2>2. CASE row \notin refundRows BY <1>1, <2>2
  <2> QED BY <2>1, <2>2
<1> QED
  BY <1>2, <1>3, <1>4, <1>5, <1>7, <1>8 DEF WorldInv, NothingUndone, NoneUnused

\* A row is added to the log.
LEMMA LogKeeps ==
  ASSUME WorldInv, NEW s \in ScanIds, NEW d \in Drivers, NEW t \in Tickets,
         NEW at \in 0..MaxTime, NEW result \in ScanResult, NEW isOffline \in BOOLEAN,
         Log(s, d, t, at, result, isOffline), refundRows' = refundRows
  PROVE  WorldInv' /\ NothingUndone /\ NoneUnused
<1>1. PICK row : row = [by |-> s, driver |-> d, ticket |-> t, at |-> at, result |-> result,
                        offline |-> isOffline]
  OBVIOUS
<1>2. /\ scanEvents' = scanEvents \cup {row} /\ at <= now
      /\ UNCHANGED <<now, phase, boughtAt, listed>>
  BY <1>1 DEF Log
<1>3. at \in Nat BY ScanLogAssumption
<1>4. row \in EventRow /\ row.at = at BY <1>1, <1>3 DEF EventRow
<1>5. IsFiniteSet(scanEvents') BY <1>2, FS_AddElement DEF WorldInv, EventsInv
<1>6. EventsInv' BY <1>2, <1>4, <1>5 DEF WorldInv, EventsInv
<1>7. Sold' = Sold BY <1>2 DEF Sold
<1> QED
  BY <1>2, <1>6, <1>7
  DEF WorldInv, SalesInv, ListedInv, RefundsInv, ExpiresAt, NothingUndone, NoneUnused

\* A run looks for tickets that are over.
LEMMA FindKeeps ==
  ASSUME WorldInv, NEW j \in Runs, Find(j), refundRows' = refundRows
  PROVE  WorldInv' /\ NothingUndone /\ NoneUnused
<1>1. PICK batch \in SUBSET Expirable : listed' = [listed EXCEPT ![j] = batch] BY DEF Find
<1>2. UNCHANGED <<now, phase, boughtAt, scanEvents>> BY DEF Find
<1>3. Sold' = Sold BY <1>2 DEF Sold
<1>4. \A t \in batch : t \in Tickets /\ phase[t] = "ACTIVE" /\ t \in Sold /\ now > ExpiresAt(t)
  BY DEF Expirable, Sold
<1>5. listed' \in [Runs -> SUBSET Tickets] /\ listed'[j] = batch
      /\ \A i \in Runs : i # j => listed'[i] = listed[i]
  BY <1>1, <1>4 DEF WorldInv, ListedInv
<1>6. ListedInv' BY <1>2, <1>3, <1>4, <1>5 DEF WorldInv, ListedInv, ExpiresAt
<1>7. RefundsInv'
  <2> SUFFICES ASSUME NEW row \in refundRows
               PROVE row.by \in Runs => row.ticket \notin listed'[row.by]
    BY <1>2 DEF WorldInv, RefundsInv
  <2>1. phase[row.ticket] # "ACTIVE" BY DEF WorldInv, RefundsInv
  <2> QED BY <1>4, <1>5, <2>1 DEF WorldInv, RefundsInv
<1> QED
  BY <1>2, <1>3, <1>6, <1>7 DEF WorldInv, SalesInv, EventsInv, NothingUndone, NoneUnused

LEMMA WorldGoes ==
  ASSUME WorldInv, Going, refundRows' = refundRows
  PROVE  WorldInv' /\ NothingUndone /\ NoneUnused
<1>1. CASE Tick
  <2>1. now' = now + 1 /\ now' <= MaxTime /\ now' \in Nat
        /\ UNCHANGED <<phase, boughtAt, listed, scanEvents>>
    BY <1>1, ScanLogAssumption DEF Tick, WorldInv
  <2>2. Sold' = Sold /\ \A t \in Sold : boughtAt[t] \in Nat /\ ExpiresAt(t) \in Nat
    BY <2>1, SoldAt DEF Sold
  <2>3. \A e \in scanEvents : e.at \in Nat BY DEF WorldInv, EventsInv, EventRow
  <2>4. SalesInv' BY <2>1, <2>2 DEF WorldInv, SalesInv
  <2>5. EventsInv' BY <2>1, <2>3 DEF WorldInv, EventsInv
  <2>6. ListedInv' BY <2>1, <2>2 DEF WorldInv, ListedInv, ExpiresAt
  <2> QED BY <2>1, <2>2, <2>4, <2>5, <2>6 DEF WorldInv, RefundsInv, NothingUndone, NoneUnused
<1>2. ASSUME NEW t \in Tickets, NEW at \in 0..MaxTime, Buy(t, at) \/ Use(t, at) \/ Deliver(t, at)
      PROVE  WorldInv' /\ NothingUndone /\ NoneUnused
  <2>1. CASE Buy(t, at) BY <2>1, BuyKeeps
  <2>2. CASE Use(t, at) \/ Deliver(t, at)
    <3>1. t \in Sold /\ phase' \in {phase, [phase EXCEPT ![t] = "USED"]}
      BY <2>2 DEF Use, Deliver, Sold
    <3>2. UNCHANGED <<now, boughtAt, scanEvents, listed>> BY <2>2 DEF Use, Deliver
    <3>3. listed' \in [Runs -> SUBSET Tickets] BY <3>2 DEF WorldInv, ListedInv
    <3> QED BY <3>1, <3>2, <3>3, MoveKeeps
  <2> QED BY <1>2, <2>1, <2>2
<1>3. ASSUME NEW s \in ScanIds, NEW d \in Drivers, NEW t \in Tickets, NEW at \in 0..MaxTime,
             NEW result \in ScanResult, NEW isOffline \in BOOLEAN,
             Log(s, d, t, at, result, isOffline)
      PROVE  WorldInv' /\ NothingUndone /\ NoneUnused
  BY <1>3, LogKeeps
<1>4. ASSUME NEW j \in Runs, Find(j) PROVE WorldInv' /\ NothingUndone /\ NoneUnused
  BY <1>4, FindKeeps
<1>5. ASSUME NEW j \in Runs, Drop(j) PROVE WorldInv' /\ NothingUndone /\ NoneUnused
  <2>1. PICK rest \in SUBSET listed[j] : listed' = [listed EXCEPT ![j] = rest]
    BY <1>5 DEF Drop
  <2>2. UNCHANGED <<now, phase, boughtAt, scanEvents>> BY <1>5 DEF Drop
  <2>3. listed' \in [Runs -> SUBSET Tickets] /\ \A i \in Runs : listed'[i] \subseteq listed[i]
    BY <2>1 DEF WorldInv, ListedInv
  <2>4. Sold' = Sold BY <2>2 DEF Sold
  <2>5. ListedInv' BY <2>2, <2>3, <2>4 DEF WorldInv, ListedInv, ExpiresAt
  <2>6. RefundsInv' BY <2>2, <2>3 DEF WorldInv, RefundsInv
  <2> QED
    BY <2>2, <2>4, <2>5, <2>6 DEF WorldInv, SalesInv, EventsInv, NothingUndone, NoneUnused
<1> QED BY <1>1, <1>2, <1>3, <1>4, <1>5 DEF Going

\* A refund is written down, and takes back the use of its own ticket at most.
LEMMA RefundKeeps ==
  ASSUME WorldInv, NEW j \in Runs, NEW t \in Tickets, Refund(j, t),
         refundRows' = refundRows \cup {[ticket |-> t, by |-> j, at |-> now]}
  PROVE  /\ WorldInv' /\ NothingUndone
         /\ \A o \in Tickets : o # t => phase'[o] = phase[o]
         /\ now > ExpiresAt(t) /\ \E row \in refundRows' \ refundRows : row.ticket = t
<1>1. PICK row : row = [ticket |-> t, by |-> j, at |-> now] OBVIOUS
<1>2. /\ row.ticket = t /\ row.by = j /\ refundRows' = refundRows \cup {row} BY <1>1
<1>3. /\ t \in listed[j] /\ phase' = [phase EXCEPT ![t] = "REFUNDED"]
      /\ listed' = [listed EXCEPT ![j] = listed[j] \ {t}]
      /\ UNCHANGED <<now, boughtAt, scanEvents>>
  BY DEF Refund
<1>4. t \in Sold /\ now > ExpiresAt(t) BY <1>3 DEF WorldInv, ListedInv
<1>5. /\ listed' \in [Runs -> SUBSET Tickets] /\ t \notin listed'[j]
      /\ \A i \in Runs : listed'[i] \subseteq listed[i]
  BY <1>3 DEF WorldInv, ListedInv
<1>6. phase \in [Tickets -> Phases] BY DEF WorldInv, SalesInv
<1>7. phase'[t] = "REFUNDED" /\ \A o \in Tickets : o # t => phase'[o] = phase[o]
  BY <1>3, <1>6
<1>8. WorldInv' /\ NothingUndone BY <1>2, <1>3, <1>4, <1>5, <1>7, MoveKeeps
<1>9. row \notin refundRows BY <1>2, <1>3 DEF WorldInv, RefundsInv
<1> QED BY <1>2, <1>4, <1>7, <1>8, <1>9

LEMMA WorldStep ==
  ASSUME WorldInv, [ReportsNext]_rvars
  PROVE  WorldInv' /\ NothingUndone
<1>1. ASSUME UNCHANGED <<lvars, refundRows>> PROVE WorldInv' /\ NothingUndone
  <2>1. UNCHANGED <<phase, now, boughtAt, listed, scanEvents, refundRows>> /\ Sold' = Sold
    BY <1>1 DEF lvars, Sold
  <2> QED
    BY <2>1
    DEF WorldInv, SalesInv, EventsInv, ListedInv, RefundsInv, ExpiresAt, NothingUndone
<1>2. CASE World BY <1>2, WorldGoes, RefundKeeps DEF World
<1>3. CASE Abandon BY <1>1, <1>3 DEF Abandon
<1>4. CASE \E kind \in Kinds, dates \in Periods, route \in RouteFilters : Ask(kind, dates, route)
  BY <1>1, <1>4 DEF Ask
<1>5. CASE \E f \in UNION {Followed[k] : k \in Kinds} : Collect(f)
  BY <1>1, <1>5 DEF Collect
<1>6. CASE UNCHANGED rvars BY <1>1, <1>6 DEF rvars
<1> QED BY <1>2, <1>3, <1>4, <1>5, <1>6 DEF ReportsNext

-----------------------------------------------------------------------------
(* What was counted, and what was found *)

\* A ticket that earns goes on to, or is refunded.
LEMMA EarningStays ==
  ASSUME WorldInv, [ReportsNext]_rvars, NEW from, NEW to, NEW t \in Earning(from, to, NULL)
  PROVE  \/ t \in Earning(from, to, NULL)'
         \/ /\ now > ExpiresAt(t)
            /\ \E row \in refundRows' \ refundRows : row.ticket = t
<1>1. /\ t \in Tickets /\ t \in Sold /\ from <= boughtAt[t] /\ boughtAt[t] <= to
      /\ phase[t] \in {"USED", "EXPIRED"}
  BY DEF Earning, With, Bought, Of, REVENUE_STATUSES
<1>2. phase[t] = "USED" BY <1>1 DEF WorldInv, SalesInv, Phases
<1>3. NothingUndone BY WorldStep
<1>4. ASSUME phase'[t] = "USED" PROVE t \in Earning(from, to, NULL)'
  <2>1. t \in Sold' /\ boughtAt'[t] = boughtAt[t] BY <1>1, <1>3 DEF NothingUndone
  <2> QED BY <1>1, <1>4, <2>1 DEF Earning, With, Bought, Of, REVENUE_STATUSES
<1>5. ASSUME phase' = phase PROVE t \in Earning(from, to, NULL)' BY <1>2, <1>4, <1>5
<1>6. CASE World
  <2>1. CASE Going /\ UNCHANGED refundRows
    BY <1>1, <1>2, <1>4, <2>1, WorldGoes DEF NoneUnused
  <2>2. ASSUME NEW j \in Runs, NEW o \in Tickets, Refund(j, o),
               refundRows' = refundRows \cup {[ticket |-> o, by |-> j, at |-> now]}
        PROVE  \/ t \in Earning(from, to, NULL)'
               \/ now > ExpiresAt(t) /\ \E row \in refundRows' \ refundRows : row.ticket = t
    BY <1>1, <1>2, <1>4, <2>2, RefundKeeps
  <2> QED BY <1>6, <2>1, <2>2 DEF World
<1> QED BY <1>5, <1>6 DEF ReportsNext, Abandon, Ask, Collect, rvars, lvars

\* What AnalyticsService once counted as earned in some period it counts again, except
\* what TicketExpiryJob has refunded since, to a passenger whose ticket was over.
THEOREM OnlyRefundsTakeBackAlways == ReportsSpec => OnlyRefundsTakeBack
<1> DEFINE Kept ==
      \A from \in 0..MaxTime : \A to \in from..MaxTime :
        \A t \in Earning(from, to, NULL) :
          \/ t \in Earning(from, to, NULL)'
          \/ /\ now > ExpiresAt(t)
             /\ \E row \in refundRows' \ refundRows : row.ticket = t
<1>1. ReportsInit => WorldInv BY WorldStarts DEF ReportsInit
<1>2. WorldInv /\ [ReportsNext]_rvars => WorldInv' BY WorldStep
<1>3. WorldInv /\ [ReportsNext]_rvars => Kept BY EarningStays
<1>4. WorldInv /\ [ReportsNext]_rvars => [phase' # phase => Kept]_rvars BY <1>3
<1> QED BY <1>1, <1>2, <1>4, PTL DEF ReportsSpec, OnlyRefundsTakeBack

LEMMA Bigger ==
  ASSUME NEW S, NEW T, IsFiniteSet(T), S \subseteq T
  PROVE  Cardinality(S) \in Nat /\ Cardinality(T) \in Nat /\ Cardinality(S) <= Cardinality(T)
BY FS_Subset, FS_CardinalityType

\* What the elements of a finite set have is a finite set.
LEMMA ImageFinite ==
  ASSUME NEW S, IsFiniteSet(S), NEW key
  PROVE  IsFiniteSet({key[x] : x \in S})
<1>1. PICK K : K = {key[x] : x \in S} OBVIOUS
<1>2. PICK g : g = [x \in S |-> key[x]] OBVIOUS
<1>3. g \in Surjection(S, K) BY <1>1, <1>2 DEF Surjection
<1> QED BY <1>1, <1>3, FS_Surjection

LEMMA ScansFinite ==
  ASSUME WorldInv, NEW from, NEW to, NEW S \in SUBSET ScansIn(from, to)
  PROVE  IsFiniteSet(S)
<1>1. S \subseteq scanEvents BY DEF ScansIn
<1> QED BY <1>1, FS_Subset DEF WorldInv, EventsInv

-----------------------------------------------------------------------------
(* The largest of some numbers *)

LEMMA Largest ==
  ASSUME NEW n \in Nat, NEW S \in SUBSET (0..n), S # {}
  PROVE  \E i \in S : \A j \in S : j <= i
<1> DEFINE above(i) == {k \in 0..n : k > i}
           T == {above(i) : i \in S}
           R == StrictSubsetOrdering(0..n)
<1>1. \A i \in S : above(i) \in FiniteSubsetsOf(0..n)
  <2>1. IsFiniteSet(0..n) BY FS_Interval
  <2>2. QED BY <2>1, FS_Subset DEF FiniteSubsetsOf
<1>2. IsWellFoundedOn(R, FiniteSubsetsOf(0..n)) BY FS_StrictSubsetOrderingWellFounded
<1>3. T \subseteq FiniteSubsetsOf(0..n) /\ T # {} BY <1>1
<1> HIDE DEF R, T
<1>4. PICK x \in T : \A y \in T : ~(<<y, x>> \in R) BY <1>2, <1>3, WFMin
<1>5. PICK i \in S : x = above(i) BY DEF T
<1>6. ASSUME NEW j \in S, j > i PROVE FALSE
  <2>1. above(j) \subseteq above(i) /\ j \in above(i) /\ j \notin above(j) BY <1>6
  <2>2. <<above(j), above(i)>> \in R BY <2>1 DEF R, StrictSubsetOrdering
  <2>3. above(j) \in T BY DEF T
  <2>4. QED BY <1>4, <1>5, <2>2, <2>3
<1>7. QED BY <1>6

LEMMA MaxIsLargest ==
  ASSUME NEW n \in Nat, NEW S \in SUBSET (0..n), S # {}
  PROVE  Max(S) \in S /\ \A i \in S : i <= Max(S)
<1>1. PICK i \in S : \A j \in S : i >= j BY Largest
<1> QED BY <1>1 DEF Max

-----------------------------------------------------------------------------
(* Bursts of scans *)

\* A burst, wherever in the period it begins.
Within(S, a) == {e \in S : a <= e.at /\ e.at <= a + RepeatWindow}

\* Looking back from each scan finds windows as full as any interval of that length
\* that begins in the period, and no fuller ones.
LEMMA WindowsSuffice ==
  ASSUME WorldInv, NEW from, NEW to, NEW S \in SUBSET ScansIn(from, to)
  PROVE  /\ IsFiniteSet(S)
         /\ \A s \in S : \E a \in 0..MaxTime :
              Cardinality(WindowOf(s, S)) <= Cardinality(Within(S, a))
         /\ \A a \in 0..MaxTime : Within(S, a) # {} =>
              \E s \in S : Cardinality(Within(S, a)) <= Cardinality(WindowOf(s, S))
<1>1. IsFiniteSet(S) BY ScansFinite
<1>2. \A s \in S : s.at \in Nat /\ s.at <= MaxTime
  <2> SUFFICES ASSUME NEW s \in S PROVE s.at \in Nat /\ s.at <= MaxTime
    OBVIOUS
  <2>1. s \in scanEvents /\ now \in Nat BY DEF ScansIn, WorldInv
  <2>2. s.at \in Nat /\ s.at <= now /\ now <= MaxTime
    BY <2>1 DEF WorldInv, EventsInv, EventRow
  <2>3. PICK at : at = s.at OBVIOUS
  <2> QED BY <2>1, <2>2, <2>3, ScanLogAssumption
<1>3. MaxTime \in Nat /\ RepeatWindow \in Nat BY ScanLogAssumption, ReportsAssumption
<1>4. ASSUME NEW s \in S
      PROVE  \E a \in 0..MaxTime : Cardinality(WindowOf(s, S)) <= Cardinality(Within(S, a))
  <2>1. PICK a : a = IF s.at >= RepeatWindow THEN s.at - RepeatWindow ELSE 0
    OBVIOUS
  <2>2. a \in 0..MaxTime BY <1>2, <1>3, <2>1
  <2>3. WindowOf(s, S) \subseteq Within(S, a) BY <1>2, <1>3, <2>1 DEF WindowOf, Within
  <2>4. IsFiniteSet(Within(S, a)) BY <1>1, FS_Subset DEF Within
  <2> QED BY <2>2, <2>3, <2>4, Bigger
<1>5. ASSUME NEW a \in 0..MaxTime, Within(S, a) # {}
      PROVE  \E s \in S : Cardinality(Within(S, a)) <= Cardinality(WindowOf(s, S))
  <2> DEFINE times == {o.at : o \in Within(S, a)}
  <2>1. times \in SUBSET (0..MaxTime) /\ times # {} BY <1>2, <1>3, <1>5 DEF Within
  <2>2. PICK i \in times : \A j \in times : j <= i BY <1>3, <2>1, Largest
  <2>3. PICK s \in Within(S, a) : s.at = i BY <2>2
  <2>4. \A o \in Within(S, a) : o.at <= s.at BY <2>2, <2>3
  <2>5. s \in S /\ s.at <= a + RepeatWindow BY <2>3 DEF Within
  <2>6. Within(S, a) \subseteq WindowOf(s, S)
    <3> SUFFICES ASSUME NEW o \in Within(S, a) PROVE o \in WindowOf(s, S) OBVIOUS
    <3>1. o \in S /\ a <= o.at /\ o.at <= s.at BY <2>4 DEF Within
    <3>2. o.at \in Nat /\ s.at \in Nat BY <1>2, <2>5, <3>1
    <3>3. s.at - RepeatWindow <= o.at BY <1>3, <2>5, <3>1, <3>2
    <3> QED BY <3>1, <3>3 DEF WindowOf
  <2>7. IsFiniteSet(WindowOf(s, S)) BY <1>1, FS_Subset DEF WindowOf
  <2> QED BY <2>5, <2>6, <2>7, Bigger
<1> QED BY <1>1, <1>4, <1>5

LEMMA BurstsAreFound ==
  ASSUME WorldInv, NEW from, NEW to, NEW p \in Passengers
  PROVE  LET S == ScansOf(p, from, to)
             most == Max({Cardinality(Within(S, a)) : a \in 0..MaxTime})
             found == RapidRepeatScans(from, to)
         IN (p \in DOMAIN found <=> most > RepeatLimit)
            /\ (p \in DOMAIN found => found[p] = most)
<1> DEFINE S == ScansOf(p, from, to)
           intervals == {Cardinality(Within(S, a)) : a \in 0..MaxTime}
           counts(q) == {Cardinality(WindowOf(s, ScansOf(q, from, to))) :
                            s \in ScansOf(q, from, to)}
           full(q) == {n \in counts(q) : n > RepeatLimit}
           most == Max(intervals)
<1>1. S \in SUBSET ScansIn(from, to) BY DEF ScansOf
<1>2. /\ IsFiniteSet(S)
      /\ \A s \in S : \E a \in 0..MaxTime :
           Cardinality(WindowOf(s, S)) <= Cardinality(Within(S, a))
      /\ \A a \in 0..MaxTime : Within(S, a) # {} =>
           \E s \in S : Cardinality(Within(S, a)) <= Cardinality(WindowOf(s, S))
  BY <1>1, WindowsSuffice
<1>3. PICK size : size = Cardinality(S) OBVIOUS
<1>4. size \in Nat /\ RepeatLimit \in Nat /\ 0 \in 0..MaxTime
  BY <1>2, <1>3, FS_CardinalityType, ReportsAssumption, ScanLogAssumption
<1>5. \A a : Cardinality(Within(S, a)) \in 0..size
  <2>1. \A a : Within(S, a) \subseteq S BY DEF Within
  <2> QED BY <1>2, <1>3, <2>1, Bigger
<1>6. \A s : Cardinality(WindowOf(s, S)) \in 0..size
  <2>1. \A s : WindowOf(s, S) \subseteq S BY DEF WindowOf
  <2> QED BY <1>2, <1>3, <2>1, Bigger
<1>7. intervals \in SUBSET (0..size) /\ intervals # {} BY <1>4, <1>5
<1>8. most \in intervals /\ \A i \in intervals : i <= most BY <1>4, <1>7, MaxIsLargest
<1>9. PICK m : m = most OBVIOUS
<1>10. m \in Nat BY <1>7, <1>8, <1>9
<1>11. PICK a \in 0..MaxTime : m = Cardinality(Within(S, a)) BY <1>8, <1>9
<1>12. \A s \in S : Cardinality(WindowOf(s, S)) <= m
  <2> SUFFICES ASSUME NEW s \in S PROVE Cardinality(WindowOf(s, S)) <= m OBVIOUS
  <2>1. PICK b \in 0..MaxTime : Cardinality(WindowOf(s, S)) <= Cardinality(Within(S, b))
    BY <1>2
  <2>2. Cardinality(Within(S, b)) <= m BY <1>8, <1>9
  <2>3. Cardinality(WindowOf(s, S)) \in Nat /\ Cardinality(Within(S, b)) \in Nat
    BY <1>4, <1>5, <1>6
  <2> QED BY <2>1, <2>2, <2>3, <1>10
<1>13. ASSUME m > RepeatLimit PROVE m \in full(p)
  <2>1. Within(S, a) # {}
    <3>1. m > 0 BY <1>4, <1>10, <1>13
    <3> QED BY <3>1, <1>11, FS_EmptySet
  <2>2. PICK s \in S : m <= Cardinality(WindowOf(s, S)) BY <1>2, <1>11, <2>1
  <2>3. Cardinality(WindowOf(s, S)) \in Nat /\ Cardinality(WindowOf(s, S)) <= m
    BY <1>4, <1>6, <1>12
  <2>4. Cardinality(WindowOf(s, S)) = m BY <2>2, <2>3, <1>10
  <2> QED BY <2>4, <1>13
<1>14. \A n \in full(p) : n \in 0..size /\ n <= m /\ m > RepeatLimit
  <2> SUFFICES ASSUME NEW n \in full(p) PROVE n \in 0..size /\ n <= m /\ m > RepeatLimit
    OBVIOUS
  <2>1. PICK s \in S : n = Cardinality(WindowOf(s, S)) OBVIOUS
  <2>2. n \in 0..size /\ n <= m BY <2>1, <1>6, <1>12
  <2> QED BY <2>2, <1>4, <1>10
<1>15. full(p) # {} <=> m > RepeatLimit BY <1>13, <1>14
<1>16. RapidRepeatScans(from, to) = [q \in {o \in Passengers : full(o) # {}} |-> Max(full(q))]
  BY DEF RapidRepeatScans
<1>17. ASSUME full(p) # {} PROVE Max(full(p)) = m
  <2>1. full(p) \in SUBSET (0..size) BY <1>14
  <2>2. Max(full(p)) \in full(p) /\ \A i \in full(p) : i <= Max(full(p))
    BY <1>4, <1>17, <2>1, MaxIsLargest
  <2>3. m \in full(p) BY <1>13, <1>15, <1>17
  <2>4. PICK x : x = Max(full(p)) OBVIOUS
  <2>5. x \in 0..size /\ x <= m /\ m <= x BY <1>14, <2>2, <2>3, <2>4
  <2>6. x = m BY <2>5, <1>10
  <2> QED BY <2>4, <2>6
<1>18. p \in DOMAIN RapidRepeatScans(from, to) <=> m > RepeatLimit BY <1>15, <1>16
<1>19. full(p) # {} => RapidRepeatScans(from, to)[p] = m BY <1>16, <1>17
<1> HIDE DEF full
<1> QED BY <1>9, <1>15, <1>18, <1>19

\* queryRapidRepeatScans looks back from each scan only: that finds every burst, and
\* of each passenger the fullest.
THEOREM RapidRepeatExactAlways == ReportsSpec => []RapidRepeatExact
<1>1. WorldInv => RapidRepeatExact
  <2> SUFFICES ASSUME WorldInv, NEW from \in 0..MaxTime, NEW to \in from..MaxTime,
                      NEW p \in Passengers
      PROVE LET found == RapidRepeatScans(from, to)
                within(q, a) == {e \in ScansOf(q, from, to) :
                                   a <= e.at /\ e.at <= a + RepeatWindow}
                most(q) == Max({Cardinality(within(q, a)) : a \in 0..MaxTime})
            IN (p \in DOMAIN found <=> most(p) > RepeatLimit)
               /\ (p \in DOMAIN found => found[p] = most(p))
    BY DEF RapidRepeatExact
  <2>1. PICK S : S = ScansOf(p, from, to) OBVIOUS
  <2>2. PICK most : most = Max({Cardinality(Within(S, a)) : a \in 0..MaxTime}) OBVIOUS
  <2>3. PICK found : found = RapidRepeatScans(from, to) OBVIOUS
  <2>4. (p \in DOMAIN found <=> most > RepeatLimit) /\ (p \in DOMAIN found => found[p] = most)
    BY <2>1, <2>2, <2>3, BurstsAreFound
  <2>5. most = Max({Cardinality({e \in S : a <= e.at /\ e.at <= a + RepeatWindow}) :
                      a \in 0..MaxTime})
    BY <2>2 DEF Within
  <2> QED BY <2>1, <2>3, <2>4, <2>5
<1>2. ReportsInit => WorldInv BY WorldStarts DEF ReportsInit
<1>3. WorldInv /\ [ReportsNext]_rvars => WorldInv' BY WorldStep
<1> QED BY <1>1, <1>2, <1>3, PTL DEF ReportsSpec

-----------------------------------------------------------------------------
(* Sums.  The folds of the community modules are recursive functions on the subsets *)
(* of a set, which take its elements in the order of CHOOSE.  What they add up to    *)
(* is found by induction, as the least set or number for which it is not so.         *)

Pick(s) == CHOOSE x \in s : TRUE

SumBody(f, g, T) ==
  [s \in SUBSET T |-> IF s = {} THEN 0 ELSE f[Pick(s)] + g[s \ {Pick(s)}]]

\* What f adds up to over the subsets of T, and over T.
Sums(f, T) == CHOOSE g : g = SumBody(f, g, T)

SumOver(f, T) == Sums(f, T)[T]

\* A set of numbers has a least one, a set of finite sets one of which it has no part.
LEMMA LeastNumber ==
  ASSUME NEW T, T \subseteq Nat, T # {}
  PROVE  \E x \in T : \A y \in T : x <= y
<1> DEFINE below == {ss \in Nat \X Nat : ss[1] < ss[2]}
<1>1. IsWellFoundedOn(below, Nat) BY NatLessThanWellFounded, Zenon DEF OpToRel
<1>2. \A x, y \in Nat : x < y => <<x, y>> \in below OBVIOUS
<1> HIDE DEF below
<1>3. PICK x \in T : \A y \in T : ~(<<y, x>> \in below) BY <1>1, WFMin, Zenon
<1>4. x \in Nat /\ \A y \in T : y \in Nat /\ ~(y < x) BY <1>2, <1>3
<1> QED BY <1>4

LEMMA SmallestSet ==
  ASSUME NEW U, IsFiniteSet(U), NEW Bad, Bad \subseteq SUBSET U, Bad # {}
  PROVE  \E s \in Bad : \A u \in SUBSET s : u # s => u \notin Bad
<1> DEFINE R == StrictSubsetOrdering(U)
<1>1. Bad \subseteq FiniteSubsetsOf(U) BY FS_Subset DEF FiniteSubsetsOf
<1>2. IsWellFoundedOn(R, FiniteSubsetsOf(U)) BY FS_StrictSubsetOrderingWellFounded
<1> HIDE DEF R
<1>3. PICK s \in Bad : \A u \in Bad : ~(<<u, s>> \in R) BY <1>1, <1>2, WFMin, Zenon
<1>4. ASSUME NEW u \in SUBSET s, u # s, u \in Bad PROVE FALSE
  <2>1. <<u, s>> \in R BY <1>4 DEF R, StrictSubsetOrdering
  <2> QED BY <1>3, <1>4, <2>1
<1> QED BY <1>4

LEMMA PickIsThere == ASSUME NEW s, s # {} PROVE Pick(s) \in s
BY DEF Pick

\* There is such a function: the least size up to which there is none would have one.
LEMMA TableExists ==
  ASSUME NEW f, NEW T, IsFiniteSet(T)
  PROVE  \E g : g = SumBody(f, g, T)
<1> DEFINE D(n) == {s \in SUBSET T : Cardinality(s) <= n}
           Tab(g, n) == g = [s \in D(n) |-> IF s = {} THEN 0 ELSE f[Pick(s)] + g[s \ {Pick(s)}]]
           Q == {n \in Nat : \A g : ~Tab(g, n)}
<1>1. ASSUME NEW s \in SUBSET T
      PROVE  /\ IsFiniteSet(s) /\ Cardinality(s) \in Nat
             /\ Cardinality(s) = 0 <=> s = {}
             /\ s # {} => Cardinality(s \ {Pick(s)}) = Cardinality(s) - 1
  BY FS_Subset, FS_CardinalityType, FS_EmptySet, FS_RemoveElement, PickIsThere
<1>2. Q = {}
  <2> SUFFICES ASSUME Q # {} PROVE FALSE OBVIOUS
  <2>1. PICK n \in Q : \A m \in Q : n <= m BY LeastNumber
  <2>2. n \in Nat /\ \A g : ~Tab(g, n) BY <2>1
  <2>3. CASE n = 0
    <3>1. PICK g : g = [s \in D(n) |-> 0] OBVIOUS
    <3>2. ASSUME NEW s \in D(n) PROVE s = {}
      <4>1. s \in SUBSET T /\ Cardinality(s) <= 0 BY <2>3
      <4>2. Cardinality(s) \in Nat /\ (Cardinality(s) = 0 <=> s = {}) BY <1>1, <4>1
      <4>3. \A k \in Nat : k <= 0 => k = 0 OBVIOUS
      <4> HIDE DEF D, Q
      <4> QED BY <4>1, <4>2, <4>3
    <3>3. Tab(g, n) BY <3>1, <3>2
    <3> QED BY <2>2, <3>3
  <2>4. CASE n # 0
    <3>1. n - 1 \in Nat /\ n - 1 \notin Q
      <4> HIDE DEF Q
      <4>1. n - 1 \in Nat /\ ~(n <= n - 1) BY <2>2, <2>4
      <4> QED BY <2>1, <4>1
    <3>2. PICK g : Tab(g, n - 1)
      <4> HIDE DEF Tab
      <4> QED BY <3>1
    <3>3. PICK h : h = [s \in D(n) |-> IF s = {} THEN 0 ELSE f[Pick(s)] + g[s \ {Pick(s)}]]
      OBVIOUS
    <3>4. ASSUME NEW s \in D(n), s # {} PROVE h[s \ {Pick(s)}] = g[s \ {Pick(s)}]
      <4>1. PICK u : u = s \ {Pick(s)} OBVIOUS
      <4>2. u \in D(n - 1) /\ u \in D(n) BY <1>1, <2>2, <3>4, <4>1
      <4>3. h[u] = IF u = {} THEN 0 ELSE f[Pick(u)] + g[u \ {Pick(u)}] BY <3>3, <4>2
      <4>4. g[u] = IF u = {} THEN 0 ELSE f[Pick(u)] + g[u \ {Pick(u)}] BY <3>2, <4>2
      <4> QED BY <4>1, <4>3, <4>4
    <3>5. \A s \in D(n) : (IF s = {} THEN 0 ELSE f[Pick(s)] + g[s \ {Pick(s)}])
                          = (IF s = {} THEN 0 ELSE f[Pick(s)] + h[s \ {Pick(s)}])
      BY <3>4
    <3>6. Tab(h, n)
      <4> HIDE DEF D
      <4> QED BY <3>3, <3>5
    <3> QED BY <2>2, <3>6
  <2> QED BY <2>3, <2>4
<1>3. PICK n : n = Cardinality(T) OBVIOUS
<1>4. n \in Nat BY <1>1, <1>3
<1>5. D(n) = SUBSET T
  <2>1. \A s \in SUBSET T : Cardinality(s) <= n BY <1>3, FS_Subset
  <2> QED BY <2>1
<1>6. PICK g : Tab(g, n)
  <2> HIDE DEF Tab
  <2> QED BY <1>2, <1>4
<1>7. g = SumBody(f, g, T)
  <2> HIDE DEF D
  <2> QED BY <1>5, <1>6 DEF SumBody
<1> QED BY <1>7

LEMMA Table ==
  ASSUME NEW f, NEW T, IsFiniteSet(T), NEW s \in SUBSET T
  PROVE  Sums(f, T)[s] = IF s = {} THEN 0 ELSE f[Pick(s)] + Sums(f, T)[s \ {Pick(s)}]
<1>1. PICK g : g = SumBody(f, g, T) BY TableExists
<1>2. Sums(f, T) = SumBody(f, Sums(f, T), T) BY <1>1 DEF Sums
<1> HIDE DEF Sums
<1>3. PICK h : h = Sums(f, T) OBVIOUS
<1>4. h = SumBody(f, h, T) BY <1>2, <1>3
<1>5. h[s] = IF s = {} THEN 0 ELSE f[Pick(s)] + h[s \ {Pick(s)}] BY <1>4 DEF SumBody
<1> QED BY <1>3, <1>5

\* It does not matter which larger set a subset is looked at in.
LEMMA SameTable ==
  ASSUME NEW f, NEW T, IsFiniteSet(T), NEW S \in SUBSET T
  PROVE  Sums(f, T)[S] = SumOver(f, S)
<1> DEFINE Bad == {s \in SUBSET S : Sums(f, T)[s] # Sums(f, S)[s]}
<1>1. IsFiniteSet(S) BY FS_Subset
<1>2. Bad = {}
  <2> SUFFICES ASSUME Bad # {} PROVE FALSE OBVIOUS
  <2>1. Bad \subseteq SUBSET S OBVIOUS
  <2>2. PICK s \in Bad : \A u \in SUBSET s : u # s => u \notin Bad
    <3> HIDE DEF Bad
    <3> QED BY <1>1, <2>1, SmallestSet
  <2>3. PICK u : u = s \ {Pick(s)} OBVIOUS
  <2>4. s \in SUBSET S /\ s \in SUBSET T OBVIOUS
  <2>5. Sums(f, T)[s] = IF s = {} THEN 0 ELSE f[Pick(s)] + Sums(f, T)[u] BY <2>3, <2>4, Table
  <2>6. Sums(f, S)[s] = IF s = {} THEN 0 ELSE f[Pick(s)] + Sums(f, S)[u]
    BY <1>1, <2>3, <2>4, Table
  <2>7. CASE s = {} BY <2>5, <2>6, <2>7
  <2>8. CASE s # {}
    <3>1. u \in SUBSET s /\ u # s /\ u \in SUBSET S BY <2>3, <2>4, <2>8, PickIsThere
    <3>2. Sums(f, T)[u] = Sums(f, S)[u] BY <2>2, <3>1
    <3> QED BY <2>5, <2>6, <2>8, <3>2
  <2> QED BY <2>7, <2>8
<1>3. S \in SUBSET S OBVIOUS
<1> QED BY <1>2, <1>3 DEF SumOver

LEMMA SumUnfolds ==
  ASSUME NEW f, NEW T, IsFiniteSet(T)
  PROVE  SumOver(f, T) = IF T = {} THEN 0 ELSE f[Pick(T)] + SumOver(f, T \ {Pick(T)})
<1>1. PICK S : S = T \ {Pick(T)} OBVIOUS
<1>2. S \in SUBSET T /\ T \in SUBSET T BY <1>1
<1>3. Sums(f, T)[S] = SumOver(f, S) BY <1>2, SameTable
<1>4. Sums(f, T)[T] = IF T = {} THEN 0 ELSE f[Pick(T)] + Sums(f, T)[S] BY <1>1, <1>2, Table
<1> QED BY <1>1, <1>3, <1>4 DEF SumOver

LEMMA SumIsInt ==
  ASSUME NEW f, NEW T, IsFiniteSet(T), \A x \in T : f[x] \in Int
  PROVE  SumOver(f, T) \in Int
<1> DEFINE Bad == {s \in SUBSET T : SumOver(f, s) \notin Int}
<1>1. Bad = {}
  <2> SUFFICES ASSUME Bad # {} PROVE FALSE OBVIOUS
  <2>1. Bad \subseteq SUBSET T OBVIOUS
  <2>2. PICK s \in Bad : \A u \in SUBSET s : u # s => u \notin Bad
    <3> HIDE DEF Bad
    <3> QED BY <2>1, SmallestSet
  <2>3. IsFiniteSet(s) BY FS_Subset
  <2>4. PICK u : u = s \ {Pick(s)} OBVIOUS
  <2>5. SumOver(f, s) = IF s = {} THEN 0 ELSE f[Pick(s)] + SumOver(f, u)
    BY <2>3, <2>4, SumUnfolds
  <2>6. CASE s # {}
    <3>1. u \in SUBSET s /\ u # s /\ u \in SUBSET T /\ Pick(s) \in T
      BY <2>4, <2>6, PickIsThere
    <3> QED BY <2>2, <2>5, <2>6, <3>1
  <2> QED BY <2>5, <2>6
<1> QED BY <1>1

\* Whatever the order in which a sum is taken: any element may be the last.
LEMMA SumSplits ==
  ASSUME NEW f, NEW T, IsFiniteSet(T), \A x \in T : f[x] \in Int, NEW x \in T
  PROVE  SumOver(f, T) = f[x] + SumOver(f, T \ {x})
<1> DEFINE Bad == {s \in SUBSET T : \E e \in s : SumOver(f, s) # f[e] + SumOver(f, s \ {e})}
<1>1. Bad = {}
  <2> SUFFICES ASSUME Bad # {} PROVE FALSE OBVIOUS
  <2>1. Bad \subseteq SUBSET T OBVIOUS
  <2>2. PICK s \in Bad : \A u \in SUBSET s : u # s => u \notin Bad
    <3> HIDE DEF Bad
    <3> QED BY <2>1, SmallestSet
  <2>3. PICK e \in s : SumOver(f, s) # f[e] + SumOver(f, s \ {e}) OBVIOUS
  <2>4. PICK y : y = Pick(s) OBVIOUS
  <2>5. y \in s BY <2>3, <2>4, PickIsThere
  <2>6. IsFiniteSet(s) BY FS_Subset
  <2>7. SumOver(f, s) = f[y] + SumOver(f, s \ {y}) BY <2>3, <2>4, <2>6, SumUnfolds
  <2>8. y # e BY <2>3, <2>7
  <2>9. SumOver(f, s \ {y}) = f[e] + SumOver(f, (s \ {y}) \ {e})
    <3>1. s \ {y} \in SUBSET s /\ s \ {y} # s /\ s \ {y} \in SUBSET T /\ e \in s \ {y}
      BY <2>3, <2>5, <2>8
    <3> QED BY <2>2, <3>1
  <2>10. SumOver(f, s \ {e}) = f[y] + SumOver(f, (s \ {e}) \ {y})
    <3>1. s \ {e} \in SUBSET s /\ s \ {e} # s /\ s \ {e} \in SUBSET T /\ y \in s \ {e}
      BY <2>3, <2>5, <2>8
    <3> QED BY <2>2, <3>1
  <2>11. (s \ {e}) \ {y} = (s \ {y}) \ {e} OBVIOUS
  <2>12. PICK k : k = SumOver(f, (s \ {y}) \ {e}) OBVIOUS
  <2>13. k \in Int
    <3>1. IsFiniteSet((s \ {y}) \ {e}) BY <2>6, FS_Subset
    <3>2. \A z \in (s \ {y}) \ {e} : f[z] \in Int OBVIOUS
    <3> QED BY <2>12, <3>1, <3>2, SumIsInt
  <2>14. f[y] \in Int /\ f[e] \in Int BY <2>3, <2>5
  <2>15. \A i, j, m \in Int : i + (j + m) = j + (i + m) OBVIOUS
  <2>16. f[y] + (f[e] + k) = f[e] + (f[y] + k) BY <2>13, <2>14, <2>15
  <2> HIDE DEF Bad
  <2> QED BY <2>3, <2>7, <2>9, <2>10, <2>11, <2>12, <2>16
<1> QED BY <1>1

\* Sums of natural numbers: of two sets apart, and of a set with no more in it.
LEMMA SumOfTwo ==
  ASSUME NEW f, NEW A, NEW B, IsFiniteSet(A), IsFiniteSet(B), A \cap B = {},
         \A x \in A \cup B : f[x] \in Int
  PROVE  SumOver(f, A \cup B) = SumOver(f, A) + SumOver(f, B)
<1> DEFINE Bad == {s \in SUBSET B : SumOver(f, A \cup s) # SumOver(f, A) + SumOver(f, s)}
<1>1. Bad = {}
  <2> SUFFICES ASSUME Bad # {} PROVE FALSE OBVIOUS
  <2>1. Bad \subseteq SUBSET B OBVIOUS
  <2>2. PICK s \in Bad : \A u \in SUBSET s : u # s => u \notin Bad
    <3> HIDE DEF Bad
    <3> QED BY <2>1, SmallestSet
  <2>3. IsFiniteSet(s) /\ IsFiniteSet(A \cup s) BY FS_Subset, FS_Union
  <2>4. SumOver(f, A) \in Int BY SumIsInt
  <2>5. s # {}
    <3>1. SumOver(f, {}) = 0 BY FS_EmptySet, SumUnfolds
    <3>2. A \cup {} = A OBVIOUS
    <3>3. \A k \in Int : k = k + 0 OBVIOUS
    <3>4. ASSUME s = {} PROVE FALSE BY <2>4, <3>1, <3>2, <3>3, <3>4
    <3> QED BY <3>4
  <2>6. PICK x : x \in s BY <2>5
  <2>7. PICK u : u = s \ {x} OBVIOUS
  <2>8. u \in SUBSET s /\ u # s /\ u \in SUBSET B /\ (A \cup s) \ {x} = A \cup u
    BY <2>6, <2>7
  <2>9. SumOver(f, A \cup u) = SumOver(f, A) + SumOver(f, u) BY <2>2, <2>8
  <2>10. SumOver(f, s) = f[x] + SumOver(f, u) BY <2>3, <2>6, <2>7, SumSplits
  <2>11. SumOver(f, A \cup s) = f[x] + SumOver(f, A \cup u)
    BY <2>3, <2>6, <2>8, SumSplits
  <2>12. SumOver(f, u) \in Int
    <3>1. IsFiniteSet(u) BY <2>3, <2>8, FS_Subset
    <3> QED BY <2>8, <3>1, SumIsInt
  <2>13. f[x] \in Int BY <2>6
  <2>14. \A i, j, k \in Int : i + (j + k) = j + (i + k) OBVIOUS
  <2>15. f[x] + (SumOver(f, A) + SumOver(f, u)) = SumOver(f, A) + (f[x] + SumOver(f, u))
    BY <2>4, <2>12, <2>13, <2>14
  <2>16. SumOver(f, A \cup s) = SumOver(f, A) + SumOver(f, s)
    BY <2>9, <2>10, <2>11, <2>15, Zenon
  <2> QED BY <2>16
<1> QED BY <1>1

LEMMA SumIsNat ==
  ASSUME NEW f, NEW T, IsFiniteSet(T), \A x \in T : f[x] \in Nat
  PROVE  SumOver(f, T) \in Nat
<1> DEFINE Bad == {s \in SUBSET T : SumOver(f, s) \notin Nat}
<1>1. Bad = {}
  <2> SUFFICES ASSUME Bad # {} PROVE FALSE OBVIOUS
  <2>1. Bad \subseteq SUBSET T OBVIOUS
  <2>2. PICK s \in Bad : \A u \in SUBSET s : u # s => u \notin Bad
    <3> HIDE DEF Bad
    <3> QED BY <2>1, SmallestSet
  <2>3. IsFiniteSet(s) BY FS_Subset
  <2>4. PICK u : u = s \ {Pick(s)} OBVIOUS
  <2>5. SumOver(f, s) = IF s = {} THEN 0 ELSE f[Pick(s)] + SumOver(f, u)
    BY <2>3, <2>4, SumUnfolds
  <2>6. CASE s # {}
    <3>1. u \in SUBSET s /\ u # s /\ u \in SUBSET T /\ Pick(s) \in T
      BY <2>4, <2>6, PickIsThere
    <3> QED BY <2>2, <2>5, <2>6, <3>1
  <2> QED BY <2>5, <2>6
<1> QED BY <1>1

\* What A adds up to is at most what B and C do, if they cover A.
LEMMA SumCovered ==
  ASSUME NEW f, NEW A, NEW B, NEW C, IsFiniteSet(B), IsFiniteSet(C), A \subseteq B \cup C,
         \A x \in B \cup C : f[x] \in Nat
  PROVE  SumOver(f, A) <= SumOver(f, B) + SumOver(f, C)
<1>1. PICK D : D = C \ B OBVIOUS
<1>2. PICK E : E = (B \cup C) \ A OBVIOUS
<1>3. PICK F : F = C \cap B OBVIOUS
<1>4. /\ IsFiniteSet(D) /\ IsFiniteSet(F) /\ IsFiniteSet(B \cup C)
      /\ IsFiniteSet(A) /\ IsFiniteSet(E)
  BY <1>1, <1>2, <1>3, FS_Subset, FS_Union
<1>5. /\ B \cup D = B \cup C /\ B \cap D = {} /\ D \cup F = C /\ D \cap F = {}
      /\ A \cup E = B \cup C /\ A \cap E = {}
  BY <1>1, <1>2, <1>3
<1>6. \A x \in B \cup C : f[x] \in Int OBVIOUS
<1>7. SumOver(f, B \cup C) = SumOver(f, B) + SumOver(f, D) BY <1>4, <1>5, <1>6, SumOfTwo
<1>8. SumOver(f, C) = SumOver(f, D) + SumOver(f, F) BY <1>4, <1>5, <1>6, SumOfTwo
<1>9. SumOver(f, B \cup C) = SumOver(f, A) + SumOver(f, E) BY <1>4, <1>5, <1>6, SumOfTwo
<1>10. /\ SumOver(f, A) \in Nat /\ SumOver(f, B) \in Nat /\ SumOver(f, D) \in Nat
       /\ SumOver(f, E) \in Nat /\ SumOver(f, F) \in Nat
  BY <1>4, <1>5, SumIsNat
<1>11. \A a, b, d, e, g \in Nat : a + e = b + d => a <= b + (d + g) OBVIOUS
<1> QED BY <1>7, <1>8, <1>9, <1>10, <1>11

\* GROUP BY: the sums of the groups add up to the sum of them all.
LEMMA SumOfGroups ==
  ASSUME NEW f, NEW T, IsFiniteSet(T), \A x \in T : f[x] \in Int,
         NEW K, IsFiniteSet(K), NEW key, \A x \in T : key[x] \in K,
         NEW h, \A k \in K : h[k] = SumOver(f, {x \in T : key[x] = k})
  PROVE  SumOver(h, K) = SumOver(f, T)
<1> DEFINE In(s) == {x \in T : key[x] \in s}
           Bad == {s \in SUBSET K : SumOver(h, s) # SumOver(f, In(s))}
<1>1. \A k \in K : h[k] \in Int
  <2> SUFFICES ASSUME NEW k \in K PROVE h[k] \in Int OBVIOUS
  <2>1. PICK G : G = {x \in T : key[x] = k} OBVIOUS
  <2>2. IsFiniteSet(G) /\ \A x \in G : f[x] \in Int BY <2>1, FS_Subset
  <2> QED BY <2>1, <2>2, SumIsInt
<1>2. Bad = {}
  <2> SUFFICES ASSUME Bad # {} PROVE FALSE OBVIOUS
  <2>1. Bad \subseteq SUBSET K OBVIOUS
  <2>2. PICK s \in Bad : \A u \in SUBSET s : u # s => u \notin Bad
    <3> HIDE DEF Bad
    <3> QED BY <2>1, SmallestSet
  <2>3. IsFiniteSet(s) BY FS_Subset
  <2>4. s # {}
    <3>1. SumOver(h, {}) = 0 /\ SumOver(f, {}) = 0 BY FS_EmptySet, SumUnfolds
    <3>2. In({}) = {} OBVIOUS
    <3> QED BY <3>1, <3>2
  <2>5. PICK k : k \in s BY <2>4
  <2>6. PICK u : u = s \ {k} OBVIOUS
  <2>7. u \in SUBSET s /\ u # s /\ u \in SUBSET K BY <2>5, <2>6
  <2>8. SumOver(h, u) = SumOver(f, In(u)) BY <2>2, <2>7
  <2>9. SumOver(h, s) = h[k] + SumOver(h, u)
    <3>1. \A x \in s : h[x] \in Int BY <1>1
    <3> QED BY <2>3, <2>5, <2>6, <3>1, SumSplits
  <2>10. SumOver(f, In(s)) = h[k] + SumOver(f, In(u))
    <3>1. PICK G : G = {x \in T : key[x] = k} OBVIOUS
    <3>2. PICK J : J = In(u) OBVIOUS
    <3>3. In(s) = G \cup J /\ G \cap J = {} BY <2>5, <2>6, <3>1, <3>2
    <3>4. IsFiniteSet(G) /\ IsFiniteSet(J) BY <3>1, <3>2, FS_Subset
    <3>5. \A x \in G \cup J : f[x] \in Int BY <3>1, <3>2
    <3>6. SumOver(f, G \cup J) = SumOver(f, G) + SumOver(f, J) BY <3>3, <3>4, <3>5, SumOfTwo
    <3>7. h[k] = SumOver(f, G) BY <2>5, <3>1
    <3> HIDE DEF In
    <3> QED BY <3>2, <3>3, <3>6, <3>7
  <2>11. SumOver(h, s) = SumOver(f, In(s)) BY <2>8, <2>9, <2>10, Zenon
  <2> QED BY <2>11
<1>3. In(K) = T OBVIOUS
<1>4. K \in SUBSET K OBVIOUS
<1>5. SumOver(h, K) = SumOver(f, In(K)) BY <1>2, <1>4
<1> HIDE DEF In
<1> QED BY <1>3, <1>5

\* Counting is adding up ones.
LEMMA SumOfOnes ==
  ASSUME NEW T, IsFiniteSet(T), NEW f, \A x \in T : f[x] = 1
  PROVE  SumOver(f, T) = Cardinality(T)
<1> DEFINE Bad == {s \in SUBSET T : SumOver(f, s) # Cardinality(s)}
<1>1. Bad = {}
  <2> SUFFICES ASSUME Bad # {} PROVE FALSE OBVIOUS
  <2>1. Bad \subseteq SUBSET T OBVIOUS
  <2>2. PICK s \in Bad : \A u \in SUBSET s : u # s => u \notin Bad
    <3> HIDE DEF Bad
    <3> QED BY <2>1, SmallestSet
  <2>3. IsFiniteSet(s) BY FS_Subset
  <2>4. PICK x : x = Pick(s) OBVIOUS
  <2>5. PICK u : u = s \ {x} OBVIOUS
  <2>6. SumOver(f, s) = IF s = {} THEN 0 ELSE f[x] + SumOver(f, u)
    BY <2>3, <2>4, <2>5, SumUnfolds
  <2>7. CASE s = {}
    <3>1. SumOver(f, s) = Cardinality(s) BY <2>6, <2>7, FS_EmptySet
    <3> QED BY <3>1
  <2>8. CASE s # {}
    <3>1. x \in s /\ u \in SUBSET s /\ u # s /\ u \in SUBSET T
      BY <2>4, <2>5, <2>8, PickIsThere
    <3>2. SumOver(f, u) = Cardinality(u) BY <2>2, <3>1
    <3>3. Cardinality(u) = Cardinality(s) - 1 /\ Cardinality(s) \in Nat
      BY <2>3, <2>5, <3>1, FS_RemoveElement, FS_CardinalityType
    <3>4. f[x] = 1 BY <3>1
    <3>5. \A n \in Nat : 1 + (n - 1) = n OBVIOUS
    <3>6. SumOver(f, s) = Cardinality(s) BY <2>6, <2>8, <3>2, <3>3, <3>4, <3>5
    <3> QED BY <3>6
  <2> QED BY <2>7, <2>8
<1> QED BY <1>1

LEMMA TotalIsSum == ASSUME NEW T PROVE Total(T) = SumOver(Fare, T)
BY SMT DEF Total, MapThenSumSet, MapThenFoldSet, SumOver, Sums, SumBody, Pick

LEMMA FunctionIsSum == ASSUME NEW h PROVE SumFunction(h) = SumOver(h, DOMAIN h)
BY SMT DEF SumFunction, SumFunctionOnSet, FoldFunctionOnSet, MapThenFoldSet,
           SumOver, Sums, SumBody, Pick

-----------------------------------------------------------------------------
(* The figures of a report, and the tickets as they were when each was answered *)

In(statuses, B, ph) == {t \in B : ph[t] \in statuses}

\* What the query behind figure f returns of the tickets B, in the phases ph.
Shows(f, v, B, ph) ==
  LET paid == In(REVENUE_STATUSES, B, ph) IN
  /\ f = "total" => v = Total(paid)
  /\ f = "byRoute" =>
       v = [r \in {RouteOf[t] : t \in paid} |-> Rounded(Total({t \in paid : RouteOf[t] = r}))]
  /\ f = "byDay" =>
       v = [d \in {Day(t) : t \in paid} |-> Rounded(Total({t \in paid : Day(t) = d}))]
  /\ f \in {"count", "purchased"} => v = Cardinality(B)
  /\ f = "countByStatus" => v = [s \in {ph[t] : t \in B} |-> Cardinality(In({s}, B, ph))]
  /\ f = "countByRoute" =>
       v = [r \in {RouteOf[t] : t \in B} |-> Cardinality({t \in B : RouteOf[t] = r})]
  /\ f = "used" => v = Cardinality(In({"USED"}, B, ph))
  /\ f = "refunded" => v = Cardinality(In({"REFUNDED"}, B, ph))

\* B and ph are the tickets of the report's period and their phases as they were once,
\* and still are but for those that changed since the report was asked for.
Once(B, ph) ==
  /\ B \subseteq Sold /\ ph \in [Tickets -> Phases] /\ \A t \in B : ph[t] # "NONE"
  /\ \A t \in Tickets \ report.changed :
       /\ ph[t] = phase[t]
       /\ t \in B <=> t \in Bought(report.from, report.to, report.route)

AsOnce(f, v) == \E B, ph : Once(B, ph) /\ Shows(f, v, B, ph)

IsReport ==
  report = [kind |-> report.kind, from |-> report.from, to |-> report.to,
            route |-> report.route, asked |-> report.asked, figures |-> report.figures,
            changed |-> report.changed, meanwhile |-> report.meanwhile]

ReportInv ==
  /\ WorldInv /\ IsReport
  /\ report.changed \subseteq Sold
  /\ \A f \in DOMAIN report.figures : \A v : v = report.figures[f] => AsOnce(f, v)

\* A ticket that keeps its phase keeps its row.
LEMMA SteadyRow ==
  ASSUME WorldInv, WorldInv', NothingUndone, NEW t \in Tickets, phase'[t] = phase[t]
  PROVE  boughtAt'[t] = boughtAt[t] /\ (t \in Sold' <=> t \in Sold)
<1>1. CASE t \in Sold BY <1>1 DEF NothingUndone
<1>2. CASE t \notin Sold
  <2>1. phase'[t] = "NONE" /\ boughtAt[t] = NULL BY <1>2 DEF WorldInv, SalesInv, Sold
  <2> QED BY <1>2, <2>1 DEF WorldInv, SalesInv, Sold
<1> QED BY <1>1, <1>2

\* What was answered stays answered.
LEMMA ShownStays ==
  ASSUME WorldInv, WorldInv', NothingUndone, NEW f, NEW v, AsOnce(f, v),
         report'.from = report.from, report'.to = report.to, report'.route = report.route,
         report'.changed = report.changed \cup {t \in Tickets : phase'[t] # phase[t]}
  PROVE  AsOnce(f, v)'
<1>1. PICK B, ph : Once(B, ph) /\ Shows(f, v, B, ph) BY DEF AsOnce
<1>2. \A t \in B : boughtAt'[t] = boughtAt[t] BY <1>1 DEF Once, NothingUndone
<1>3. Once(B, ph)'
  <2>1. B \subseteq Sold' /\ ph \in [Tickets -> Phases] /\ \A t \in B : ph[t] # "NONE"
    BY <1>1 DEF Once, NothingUndone
  <2>2. ASSUME NEW t \in Tickets, t \notin report'.changed
        PROVE  /\ ph[t] = phase'[t]
               /\ t \in B <=> t \in Bought(report.from, report.to, report.route)'
    <3>1. phase'[t] = phase[t] /\ t \notin report.changed BY <2>2
    <3>2. boughtAt'[t] = boughtAt[t] /\ (t \in Sold' <=> t \in Sold) BY <3>1, SteadyRow
    <3> QED BY <1>1, <3>1, <3>2 DEF Once, Bought, Of
  <2> QED BY <2>1, <2>2 DEF Once, Bought, Of
<1>4. Shows(f, v, B, ph)'
  <2>1. PICK paid : paid = In(REVENUE_STATUSES, B, ph) OBVIOUS
  <2>2. \A t \in paid : Day(t)' = Day(t) BY <1>2, <2>1 DEF Day, In
  <2>3. \A d : {t \in paid : Day(t) = d}' = {t \in paid : Day(t) = d} BY <2>2
  <2>4. {Day(t) : t \in paid}' = {Day(t) : t \in paid} BY <2>2
  <2>5. [d \in {Day(t) : t \in paid} |-> Rounded(Total({t \in paid : Day(t) = d}))]'
          = [d \in {Day(t) : t \in paid} |-> Rounded(Total({t \in paid : Day(t) = d}))]
    BY <2>3, <2>4
  <2> QED BY <1>1, <2>1, <2>5 DEF Shows, In
<1> QED BY <1>3, <1>4 DEF AsOnce

\* A query that is answered shows the tickets as they are.
LEMMA AnswerShows ==
  ASSUME NEW f
  PROVE  LET B == Bought(report.from, report.to, report.route) IN
         Shows(f, Answer(f, report.from, report.to, report.route), B, phase)
<1>1. PICK from, to, route : from = report.from /\ to = report.to /\ route = report.route
  OBVIOUS
<1>2. PICK B : B = Bought(from, to, route) OBVIOUS
<1>3. PICK paid : paid = In(REVENUE_STATUSES, B, phase) OBVIOUS
<1>4. paid = Earning(from, to, route) BY <1>2, <1>3 DEF Earning, With, In
<1>5. f = "total" => Answer(f, from, to, route) = Total(paid) BY <1>4 DEF Answer
<1>6. f = "byRoute" => Answer(f, from, to, route) =
        [r \in {RouteOf[t] : t \in paid} |-> Rounded(Total({t \in paid : RouteOf[t] = r}))]
  BY <1>4 DEF Answer, RevenueByRoute
<1>7. f = "byDay" => Answer(f, from, to, route) =
        [d \in {Day(t) : t \in paid} |-> Rounded(Total({t \in paid : Day(t) = d}))]
  BY <1>4 DEF Answer, RevenueByDay
<1>8. f \in {"count", "purchased"} => Answer(f, from, to, route) = Cardinality(B)
  BY <1>2 DEF Answer
<1>9. f = "countByStatus" => Answer(f, from, to, route) =
        [s \in {phase[t] : t \in B} |-> Cardinality(In({s}, B, phase))]
  BY <1>2 DEF Answer, CountByStatus, With, In
<1>10. f = "countByRoute" => Answer(f, from, to, route) =
         [r \in {RouteOf[t] : t \in B} |-> Cardinality({t \in B : RouteOf[t] = r})]
  BY <1>2 DEF Answer, CountByRoute
<1>11. f = "used" => Answer(f, from, to, route) = Cardinality(In({"USED"}, B, phase))
  BY <1>2 DEF Answer, With, In
<1>12. f = "refunded" => Answer(f, from, to, route) = Cardinality(In({"REFUNDED"}, B, phase))
  BY <1>2 DEF Answer, With, In
<1> QED
  BY <1>1, <1>2, <1>3, <1>5, <1>6, <1>7, <1>8, <1>9, <1>10, <1>11, <1>12 DEF Shows

LEMMA ReportStep ==
  ASSUME ReportInv, [ReportsNext]_rvars
  PROVE  ReportInv'
<1>1. WorldInv /\ WorldInv' /\ NothingUndone BY WorldStep DEF ReportInv
<1>2. ASSUME report'.figures = <<>>, report'.changed = {}, IsReport' PROVE ReportInv'
  <2>1. DOMAIN report'.figures = {} BY <1>2
  <2> QED BY <1>1, <1>2, <2>1 DEF ReportInv
<1>3. CASE World
  <2>1. CASE report.asked = {}
    <3>1. report' = NoReport BY <1>3, <2>1 DEF World
    <3>2. IsReport' BY <3>1 DEF IsReport, NoReport
    <3> QED BY <1>2, <3>1, <3>2 DEF NoReport
  <2>2. CASE report.asked # {}
    <3>1. report' = [report EXCEPT !.changed = @ \cup {t \in Tickets : phase'[t] # phase[t]},
                                   !.meanwhile = @ + 1]
      BY <1>3, <2>2 DEF World
    <3>2. /\ IsReport' /\ report'.from = report.from /\ report'.to = report.to
          /\ report'.route = report.route /\ report'.figures = report.figures
          /\ report'.changed = report.changed \cup {t \in Tickets : phase'[t] # phase[t]}
      BY <3>1 DEF ReportInv, IsReport
    <3>3. \A f, v : AsOnce(f, v) => AsOnce(f, v)' BY <1>1, <3>2, ShownStays
    <3>4. {t \in Tickets : phase'[t] # phase[t]} \subseteq Sold'
      BY <1>1 DEF NothingUndone, Sold
    <3>5. report'.changed \subseteq Sold' BY <1>1, <3>2, <3>4 DEF ReportInv, NothingUndone
    <3>6. \A f \in DOMAIN report'.figures : \A v : v = report'.figures[f] => AsOnce(f, v)'
      BY <3>2, <3>3 DEF ReportInv
    <3> QED BY <1>1, <3>2, <3>5, <3>6 DEF ReportInv
  <2> QED BY <2>1, <2>2
<1>4. CASE Abandon
  <2>1. report' = NoReport BY <1>4 DEF Abandon
  <2>2. IsReport' BY <2>1 DEF IsReport, NoReport
  <2> QED BY <1>2, <2>1, <2>2 DEF NoReport
<1>5. ASSUME NEW kind \in Kinds, NEW dates \in Periods, NEW route \in RouteFilters,
             Ask(kind, dates, route)
      PROVE  ReportInv'
  <2>1. PICK period : period = EffectivePeriod(dates[1], dates[2]) OBVIOUS
  <2>2. report' = [NoReport EXCEPT !.kind = kind, !.asked = Followed[kind], !.route = route,
                                   !.from = period.from, !.to = period.to]
    BY <1>5, <2>1 DEF Ask
  <2>3. IsReport' /\ report'.figures = <<>> /\ report'.changed = {}
    BY <2>2 DEF IsReport, NoReport
  <2> QED BY <1>2, <2>3
<1>6. ASSUME NEW g, Collect(g) PROVE ReportInv'
  <2>1. PICK w : w = Answer(g, report.from, report.to, report.route) OBVIOUS
  <2>2. /\ report' = [report EXCEPT
             !.asked = @ \ {g},
             !.figures = [f \in DOMAIN @ \cup {g} |-> IF f = g THEN w ELSE @[f]]]
        /\ UNCHANGED lvars
    BY <1>6, <2>1 DEF Collect
  <2>3. UNCHANGED <<phase, boughtAt, now>> BY <2>2 DEF lvars
  <2>4. /\ IsReport' /\ report'.from = report.from /\ report'.to = report.to
        /\ report'.route = report.route /\ report'.changed = report.changed
        /\ report'.figures = [f \in DOMAIN report.figures \cup {g} |->
                                IF f = g THEN w ELSE report.figures[f]]
    BY <2>2 DEF ReportInv, IsReport
  <2>5. Sold' = Sold BY <2>3 DEF Sold
  <2>6. \A f, v : AsOnce(f, v) => AsOnce(f, v)'
    <3>1. {t \in Tickets : phase'[t] # phase[t]} = {} BY <2>3
    <3>2. report'.changed = report.changed \cup {t \in Tickets : phase'[t] # phase[t]}
      BY <2>4, <3>1
    <3> QED BY <1>1, <2>4, <3>2, ShownStays
  <2>7. AsOnce(g, w)
    <3>1. PICK B : B = Bought(report.from, report.to, report.route) OBVIOUS
    <3>2. Shows(g, w, B, phase) BY <2>1, <3>1, AnswerShows
    <3>3. \A t \in B : t \in Sold /\ phase[t] # "NONE" BY <3>1 DEF Bought, Sold
    <3>4. Once(B, phase) BY <1>1, <3>1, <3>3 DEF Once, WorldInv, SalesInv
    <3> QED BY <3>2, <3>4 DEF AsOnce
  <2>8. ASSUME NEW f \in DOMAIN report'.figures, NEW v, v = report'.figures[f]
        PROVE  AsOnce(f, v)'
    <3>1. (f = g /\ v = w) \/ (f \in DOMAIN report.figures /\ v = report.figures[f])
      BY <2>4, <2>8
    <3>2. AsOnce(f, v) BY <2>7, <3>1 DEF ReportInv
    <3> QED BY <2>6, <3>2, Zenon
  <2> QED BY <1>1, <2>4, <2>5, <2>8 DEF ReportInv
<1>7. CASE UNCHANGED rvars
  <2>1. UNCHANGED <<phase, boughtAt, now, report>> BY <1>7 DEF rvars, lvars
  <2>2. {t \in Tickets : phase'[t] # phase[t]} = {} BY <2>1
  <2>3. report'.changed = report.changed \cup {t \in Tickets : phase'[t] # phase[t]}
    BY <2>1, <2>2
  <2>4. \A f, v : AsOnce(f, v) => AsOnce(f, v)' BY <1>1, <2>1, <2>3, ShownStays
  <2> QED BY <1>1, <2>1, <2>4 DEF ReportInv, IsReport, Sold
<1> QED BY <1>3, <1>4, <1>5, <1>6, <1>7 DEF ReportsNext

-----------------------------------------------------------------------------
(* Amounts that are rounded *)

\* An amount is rounded by half a birr at most.
LEMMA RoundedNear ==
  ASSUME NEW x \in Int
  PROVE  Rounded(x) \in Int /\ AtMostApart(2 * x, 2 * PerBirr * Rounded(x), PerBirr)
<1>1. PICK P : P = PerBirr OBVIOUS
<1>2. P \in Nat /\ P > 0 BY <1>1, ReportsAssumption
<1>3. PICK q : q = x \div P OBVIOUS
<1>4. PICK r : r = x % P OBVIOUS
<1>5. q \in Int /\ r \in 0..(P - 1) /\ x = P * q + r BY <1>2, <1>3, <1>4
<1>6. PICK y : y = Rounded(x) OBVIOUS
<1>7. y = IF 2 * r > P \/ (2 * r = P /\ q % 2 = 1) THEN q + 1 ELSE q
  BY <1>1, <1>3, <1>4, <1>6 DEF Rounded
<1>8. PICK k : k = P * q OBVIOUS
<1>9. k \in Int /\ x = k + r BY <1>2, <1>5, <1>8
<1>10. CASE y = q /\ 2 * r <= P
  <2>1. 2 * P * y = 2 * k BY <1>2, <1>5, <1>8, <1>10
  <2> QED BY <1>1, <1>2, <1>5, <1>6, <1>9, <1>10, <2>1 DEF AtMostApart
<1>11. CASE y = q + 1 /\ 2 * r >= P
  <2>1. 2 * P * y = 2 * k + 2 * P BY <1>2, <1>5, <1>8, <1>11
  <2> QED BY <1>1, <1>2, <1>5, <1>6, <1>9, <1>11, <2>1 DEF AtMostApart
<1> QED BY <1>2, <1>5, <1>7, <1>10, <1>11

\* Of the sum of rounded amounts, half a birr for each.
LEMMA RoundedSums ==
  ASSUME NEW K, IsFiniteSet(K), NEW g, NEW h,
         \A k \in K : g[k] \in Int /\ h[k] = Rounded(g[k])
  PROVE  /\ SumOver(g, K) \in Int /\ SumOver(h, K) \in Int
         /\ AtMostApart(2 * SumOver(g, K), 2 * PerBirr * SumOver(h, K), PerBirr * Cardinality(K))
<1> DEFINE Near(s) ==
      AtMostApart(2 * SumOver(g, s), 2 * PerBirr * SumOver(h, s), PerBirr * Cardinality(s))
           Bad == {s \in SUBSET K : ~Near(s)}
<1>1. \A k \in K : h[k] \in Int /\ AtMostApart(2 * g[k], 2 * PerBirr * h[k], PerBirr)
  BY RoundedNear
<1>2. \A s \in SUBSET K : IsFiniteSet(s) /\ SumOver(g, s) \in Int /\ SumOver(h, s) \in Int
                          /\ Cardinality(s) \in Nat
  <2> SUFFICES ASSUME NEW s \in SUBSET K
               PROVE IsFiniteSet(s) /\ SumOver(g, s) \in Int /\ SumOver(h, s) \in Int
                     /\ Cardinality(s) \in Nat
    OBVIOUS
  <2>1. IsFiniteSet(s) /\ Cardinality(s) \in Nat BY FS_Subset, FS_CardinalityType
  <2>2. \A k \in s : g[k] \in Int /\ h[k] \in Int BY <1>1
  <2> QED BY <2>1, <2>2, SumIsInt
<1>3. Bad = {}
  <2> SUFFICES ASSUME Bad # {} PROVE FALSE OBVIOUS
  <2>1. Bad \subseteq SUBSET K OBVIOUS
  <2>2. PICK s \in Bad : \A u \in SUBSET s : u # s => u \notin Bad
    <3> HIDE DEF Bad
    <3> QED BY <2>1, SmallestSet
  <2>3. s \in SUBSET K /\ IsFiniteSet(s) BY <1>2
  <2>4. PICK P : P = PerBirr OBVIOUS
  <2>5. P \in Nat BY <2>4, ReportsAssumption
  <2>6. s # {}
    <3>1. SumOver(g, {}) = 0 /\ SumOver(h, {}) = 0 /\ Cardinality({}) = 0
      BY FS_EmptySet, SumUnfolds
    <3>2. Near({}) BY <2>4, <2>5, <3>1 DEF AtMostApart
    <3> QED BY <3>2
  <2>7. PICK k : k \in s BY <2>6
  <2>8. PICK u : u = s \ {k} OBVIOUS
  <2>9. u \in SUBSET s /\ u # s /\ u \in SUBSET K BY <2>7, <2>8
  <2>10. Near(u) BY <2>2, <2>9
  <2>11. SumOver(g, s) = g[k] + SumOver(g, u) /\ SumOver(h, s) = h[k] + SumOver(h, u)
    <3>1. \A x \in s : g[x] \in Int /\ h[x] \in Int BY <1>1, <2>3
    <3> QED BY <2>3, <2>7, <2>8, <3>1, SumSplits
  <2>12. Cardinality(s) = Cardinality(u) + 1
    <3>1. Cardinality(u) = Cardinality(s) - 1 BY <2>3, <2>7, <2>8, FS_RemoveElement
    <3> QED BY <1>2, <2>3, <3>1
  <2>13. PICK x, y, n, G, H : /\ x = g[k] /\ y = h[k] /\ n = Cardinality(u)
                              /\ G = SumOver(g, u) /\ H = SumOver(h, u)
    OBVIOUS
  <2>14. x \in Int /\ y \in Int /\ n \in Int /\ G \in Int /\ H \in Int
    BY <1>1, <1>2, <2>3, <2>7, <2>9, <2>13
  <2>15. AtMostApart(2 * x, 2 * P * y, P) /\ AtMostApart(2 * G, 2 * P * H, P * n)
    BY <1>1, <2>3, <2>4, <2>7, <2>10, <2>13
  <2>16. 2 * (x + G) = 2 * x + 2 * G /\ P * (n + 1) = P * n + P
         /\ 2 * P * (y + H) = 2 * P * y + 2 * P * H
    BY <2>5, <2>14
  <2>17. PICK a, b, m : a = 2 * P * y /\ b = 2 * P * H /\ m = P * n OBVIOUS
  <2>18. a \in Int /\ b \in Int /\ m \in Int BY <2>5, <2>14, <2>17
  <2>19. AtMostApart(2 * x + 2 * G, a + b, m + P)
    <3>1. AtMostApart(2 * x, a, P) /\ AtMostApart(2 * G, b, m) BY <2>15, <2>17
    <3> QED BY <2>5, <2>14, <2>18, <3>1 DEF AtMostApart
  <2>20. AtMostApart(2 * (x + G), 2 * P * (y + H), P * (n + 1)) BY <2>16, <2>17, <2>19
  <2>21. Near(s) BY <2>4, <2>11, <2>12, <2>13, <2>20
  <2> QED BY <2>21
<1>4. K \in SUBSET K OBVIOUS
<1> QED BY <1>2, <1>3, <1>4

-----------------------------------------------------------------------------
(* Two looks at the tickets differ by those that changed *)

Ones == [t \in Tickets |-> 1]

LEMMA CountIsSum ==
  ASSUME NEW T \in SUBSET Tickets, IsFiniteSet(T)
  PROVE  Cardinality(T) = SumOver(Ones, T)
<1>1. PICK f : f = Ones OBVIOUS
<1>2. \A x \in T : f[x] = 1 BY <1>1 DEF Ones
<1> QED BY <1>1, <1>2, SumOfOnes

LEMMA SumsApart ==
  ASSUME NEW f, NEW A, NEW B, NEW C, IsFiniteSet(A), IsFiniteSet(B), IsFiniteSet(C),
         A \subseteq B \cup C, B \subseteq A \cup C, \A x \in A \cup B \cup C : f[x] \in Nat
  PROVE  AtMostApart(SumOver(f, A), SumOver(f, B), SumOver(f, C))
<1>1. SumOver(f, A) <= SumOver(f, B) + SumOver(f, C) BY SumCovered
<1>2. SumOver(f, B) <= SumOver(f, A) + SumOver(f, C) BY SumCovered
<1>3. SumOver(f, A) \in Nat /\ SumOver(f, B) \in Nat /\ SumOver(f, C) \in Nat BY SumIsNat
<1>4. \A a, b, c \in Nat : a <= b + c /\ b <= a + c => a - b <= c /\ b - a <= c OBVIOUS
<1> QED BY <1>1, <1>2, <1>3, <1>4 DEF AtMostApart

\* Two looks at the tickets, and those of each in the same phases.
LEMMA LooksDiffer ==
  ASSUME NEW A, NEW ph, NEW B, NEW qh, Once(A, ph), Once(B, qh), NEW statuses
  PROVE  In(statuses, A, ph) \subseteq In(statuses, B, qh) \cup report.changed
BY DEF Once, In, Sold

LEMMA LooksFinite ==
  ASSUME WorldInv, NEW B, NEW ph, Once(B, ph)
  PROVE  /\ IsFiniteSet(B) /\ B \subseteq Tickets
         /\ \A statuses : IsFiniteSet(In(statuses, B, ph)) /\ In(statuses, B, ph) \subseteq Tickets
<1>1. B \subseteq Sold /\ Sold \subseteq Tickets BY DEF Once, Sold
<1>2. IsFiniteSet(B) BY <1>1, FS_Subset DEF WorldInv, SalesInv
<1>3. \A statuses : In(statuses, B, ph) \subseteq B BY DEF In
<1> QED BY <1>1, <1>2, <1>3, FS_Subset

\* A look at the tickets shows each in one of four statuses, one of three phases.
LEMMA LookIn ==
  ASSUME NEW B, NEW ph, Once(B, ph)
  PROVE  In(TicketStatus, B, ph) = B /\ \A t \in B : ph[t] \in TicketStatus
BY DEF Once, In, TicketStatus, Phases, Sold

\* The amounts and the counts of a look, taken together or by groups.
LEMMA GroupsAddUp ==
  ASSUME NEW f, NEW T \in SUBSET Tickets, IsFiniteSet(T), \A x \in T : f[x] \in Nat,
         NEW K, IsFiniteSet(K), NEW key, \A x \in T : key[x] \in K,
         NEW v, v = [k \in K |-> SumOver(f, {x \in T : key[x] = k})]
  PROVE  SumFunction(v) = SumOver(f, T)
<1>1. DOMAIN v = K /\ \A k \in K : v[k] = SumOver(f, {x \in T : key[x] = k}) OBVIOUS
<1>2. \A x \in T : f[x] \in Int OBVIOUS
<1>3. SumOver(v, K) = SumOver(f, T) BY <1>1, <1>2, SumOfGroups
<1> QED BY <1>1, <1>3, FunctionIsSum

LEMMA RevenueAgrees ==
  ASSUME ReportInv, NEW v, NEW w, AsOnce("total", v), AsOnce("byRoute", w) \/ AsOnce("byDay", w)
  PROVE  PartsOf(w, v, Total(report.changed))
<1>1. PICK A, ph : Once(A, ph) /\ Shows("total", v, A, ph) BY DEF AsOnce
<1>2. PICK B, qh : Once(B, qh) /\ (Shows("byRoute", w, B, qh) \/ Shows("byDay", w, B, qh))
  BY DEF AsOnce
<1>3. PICK S : S = In(REVENUE_STATUSES, A, ph) OBVIOUS
<1>4. PICK T : T = In(REVENUE_STATUSES, B, qh) OBVIOUS
<1>5. PICK C : C = report.changed OBVIOUS
<1>6. /\ IsFiniteSet(S) /\ S \subseteq Tickets /\ IsFiniteSet(T) /\ T \subseteq Tickets
  BY <1>1, <1>2, <1>3, <1>4, LooksFinite DEF ReportInv
<1>7. C \subseteq Tickets /\ IsFiniteSet(C)
  BY <1>5, FS_Subset DEF ReportInv, WorldInv, SalesInv, Sold
<1>8. S \subseteq T \cup C /\ T \subseteq S \cup C
  BY <1>1, <1>2, <1>3, <1>4, <1>5, LooksDiffer
<1>9. \A t \in Tickets : Fare[t] \in Nat BY ReportsAssumption
<1>10. v = SumOver(Fare, S) BY <1>1, <1>3, TotalIsSum DEF Shows
<1>11. \A t \in T : Fare[t] \in Nat BY <1>6, <1>9
<1>12. PICK key : w = [k \in {key[t] : t \in T} |->
                         Rounded(SumOver(Fare, {t \in T : key[t] = k}))]
  <2>1. CASE Shows("byRoute", w, B, qh)
    <3>1. w = [r \in {RouteOf[t] : t \in T} |-> Rounded(Total({t \in T : RouteOf[t] = r}))]
      BY <1>4, <2>1 DEF Shows
    <3>2. w = [r \in {RouteOf[t] : t \in T} |->
                 Rounded(SumOver(Fare, {t \in T : RouteOf[t] = r}))]
      BY <3>1, TotalIsSum
    <3> QED BY <3>2
  <2>2. CASE Shows("byDay", w, B, qh)
    <3>1. PICK key : key = [t \in Tickets |-> Day(t)] OBVIOUS
    <3>2. w = [d \in {Day(t) : t \in T} |-> Rounded(Total({t \in T : Day(t) = d}))]
      BY <1>4, <2>2 DEF Shows
    <3>3. \A d : {t \in T : Day(t) = d} = {t \in T : key[t] = d} BY <1>6, <3>1
    <3>4. {Day(t) : t \in T} = {key[t] : t \in T} BY <1>6, <3>1
    <3>5. w = [d \in {key[t] : t \in T} |-> Rounded(SumOver(Fare, {t \in T : key[t] = d}))]
      BY <3>2, <3>3, <3>4, TotalIsSum
    <3> QED BY <3>5
  <2> QED BY <1>2, <2>1, <2>2
<1>13. PICK K : K = {key[t] : t \in T} OBVIOUS
<1>14. PICK g : g = [k \in K |-> SumOver(Fare, {t \in T : key[t] = k})] OBVIOUS
<1>15. IsFiniteSet(K) /\ \A t \in T : key[t] \in K BY <1>6, <1>13, ImageFinite
<1>16. SumOver(g, K) = SumOver(Fare, T)
  <2>1. SumFunction(g) = SumOver(Fare, T) BY <1>6, <1>11, <1>14, <1>15, GroupsAddUp
  <2>2. DOMAIN g = K BY <1>14
  <2> QED BY <2>1, <2>2, FunctionIsSum
<1>17. \A k \in K : g[k] \in Int
  <2> SUFFICES ASSUME NEW k \in K PROVE g[k] \in Int OBVIOUS
  <2>1. PICK G : G = {t \in T : key[t] = k} OBVIOUS
  <2>2. IsFiniteSet(G) /\ \A t \in G : Fare[t] \in Int BY <1>6, <1>11, <2>1, FS_Subset
  <2>3. g[k] = SumOver(Fare, G) BY <1>14, <2>1
  <2> QED BY <2>2, <2>3, SumIsInt
<1>18. DOMAIN w = K /\ \A k \in K : w[k] = Rounded(g[k]) BY <1>12, <1>13, <1>14
<1>19. /\ SumOver(w, K) \in Int
       /\ AtMostApart(2 * SumOver(g, K), 2 * PerBirr * SumOver(w, K), PerBirr * Cardinality(K))
  BY <1>15, <1>17, <1>18, RoundedSums
<1>20. SumFunction(w) = SumOver(w, K) BY <1>18, FunctionIsSum
<1>21. Total(report.changed) = SumOver(Fare, C) BY <1>5, TotalIsSum
<1>22. \A x \in S \cup T \cup C : Fare[x] \in Nat BY <1>6, <1>7, <1>9
<1>23. AtMostApart(SumOver(Fare, S), SumOver(Fare, T), SumOver(Fare, C))
  BY <1>6, <1>7, <1>8, <1>22, SumsApart
<1>24. PICK s, t, c, b, p : /\ s = SumOver(Fare, S) /\ t = SumOver(Fare, T)
                            /\ c = SumOver(Fare, C) /\ b = 2 * PerBirr * SumOver(w, K)
                            /\ p = PerBirr * Cardinality(K)
  OBVIOUS
<1>25. s \in Nat /\ t \in Nat /\ c \in Nat BY <1>6, <1>7, <1>22, <1>24, SumIsNat
<1>26. b \in Int /\ p \in Int
  BY <1>15, <1>19, <1>24, FS_CardinalityType, ReportsAssumption
<1>27. AtMostApart(2 * t, b, p) /\ AtMostApart(s, t, c) BY <1>16, <1>19, <1>23, <1>24
<1>28. AtMostApart(2 * s, b, 2 * c + p) BY <1>25, <1>26, <1>27 DEF AtMostApart
<1> QED BY <1>10, <1>18, <1>20, <1>21, <1>24, <1>28 DEF PartsOf

LEMMA CountsAgree ==
  ASSUME ReportInv, NEW v, NEW w, AsOnce("count", v),
         AsOnce("countByStatus", w) \/ AsOnce("countByRoute", w)
  PROVE  AtMostApart(v, SumFunction(w), Cardinality(report.changed))
<1>1. PICK A, ph : Once(A, ph) /\ Shows("count", v, A, ph) BY DEF AsOnce
<1>2. PICK B, qh : /\ Once(B, qh)
                   /\ Shows("countByStatus", w, B, qh) \/ Shows("countByRoute", w, B, qh)
  BY DEF AsOnce
<1>3. PICK C : C = report.changed OBVIOUS
<1>4. PICK f : f = Ones OBVIOUS
<1>5. \A t \in Tickets : f[t] \in Nat BY <1>4 DEF Ones
<1>6. IsFiniteSet(A) /\ A \subseteq Tickets /\ IsFiniteSet(B) /\ B \subseteq Tickets
  BY <1>1, <1>2, LooksFinite DEF ReportInv
<1>7. C \subseteq Tickets /\ IsFiniteSet(C)
  BY <1>3, FS_Subset DEF ReportInv, WorldInv, SalesInv, Sold
<1>8. A \subseteq B \cup C /\ B \subseteq A \cup C
  <2>1. In(TicketStatus, A, ph) = A /\ In(TicketStatus, B, qh) = B BY <1>1, <1>2, LookIn
  <2> QED BY <1>1, <1>2, <1>3, <2>1, LooksDiffer
<1>9. v = SumOver(f, A) BY <1>1, <1>4, <1>6, CountIsSum DEF Shows
<1>10. \A S \in SUBSET B : Cardinality(S) = SumOver(f, S)
  BY <1>4, <1>6, CountIsSum, FS_Subset
<1>11. PICK key : w = [k \in {key[t] : t \in B} |-> Cardinality({t \in B : key[t] = k})]
  <2>1. CASE Shows("countByRoute", w, B, qh) BY <2>1 DEF Shows
  <2>2. CASE Shows("countByStatus", w, B, qh)
    <3>1. w = [s \in {qh[t] : t \in B} |-> Cardinality(In({s}, B, qh))] BY <2>2 DEF Shows
    <3>2. w = [s \in {qh[t] : t \in B} |-> Cardinality({t \in B : qh[t] = s})]
      <4>1. \A s : In({s}, B, qh) = {t \in B : qh[t] = s} BY DEF In
      <4> QED BY <3>1, <4>1
    <3> QED BY <3>2
  <2> QED BY <1>2, <2>1, <2>2
<1>12. SumFunction(w) = SumOver(f, B)
  <2>1. PICK K : K = {key[t] : t \in B} OBVIOUS
  <2>2. IsFiniteSet(K) /\ \A t \in B : key[t] \in K BY <1>6, <2>1, ImageFinite
  <2>3. w = [k \in K |-> SumOver(f, {t \in B : key[t] = k})]
    <3>1. \A k : {t \in B : key[t] = k} \in SUBSET B OBVIOUS
    <3> QED BY <1>10, <1>11, <2>1, <3>1
  <2>4. \A t \in B : f[t] \in Nat BY <1>5, <1>6
  <2> QED BY <1>6, <2>2, <2>3, <2>4, GroupsAddUp
<1>13. Cardinality(C) = SumOver(f, C) BY <1>4, <1>7, CountIsSum
<1>14. \A x \in A \cup B \cup C : f[x] \in Nat BY <1>5, <1>6, <1>7
<1>15. AtMostApart(SumOver(f, A), SumOver(f, B), SumOver(f, C))
  BY <1>6, <1>7, <1>8, <1>14, SumsApart
<1> QED BY <1>3, <1>9, <1>12, <1>13, <1>15

\* A ticket that did not change is not counted both as used and as refunded.
LEMMA DashboardAgrees ==
  ASSUME ReportInv, NEW p, NEW u, NEW r,
         AsOnce("purchased", p), AsOnce("used", u), AsOnce("refunded", r)
  PROVE  u + r <= p + 2 * Cardinality(report.changed)
<1>1. PICK A, ph : Once(A, ph) /\ Shows("purchased", p, A, ph) BY DEF AsOnce
<1>2. PICK B, qh : Once(B, qh) /\ Shows("used", u, B, qh) BY DEF AsOnce
<1>3. PICK D, rh : Once(D, rh) /\ Shows("refunded", r, D, rh) BY DEF AsOnce
<1>4. PICK C : C = report.changed OBVIOUS
<1>5. PICK U : U = In({"USED"}, B, qh) OBVIOUS
<1>6. PICK R : R = In({"REFUNDED"}, D, rh) OBVIOUS
<1>7. p = Cardinality(A) /\ u = Cardinality(U) /\ r = Cardinality(R)
  BY <1>1, <1>2, <1>3, <1>5, <1>6 DEF Shows
<1>8. IsFiniteSet(A) /\ IsFiniteSet(U) /\ IsFiniteSet(R)
  BY <1>1, <1>2, <1>3, <1>5, <1>6, LooksFinite DEF ReportInv
<1>9. IsFiniteSet(C) BY <1>4, FS_Subset DEF ReportInv, WorldInv, SalesInv
<1>10. (U \ C) \cap (R \ C) = {} /\ (U \ C) \cup (R \ C) \subseteq A
  BY <1>1, <1>2, <1>3, <1>4, <1>5, <1>6 DEF Once, In, Sold
<1>11. \A S : IsFiniteSet(S) => /\ IsFiniteSet(S \ C) /\ Cardinality(S) \in Nat
                                /\ Cardinality(S \ C) \in Nat
                                /\ Cardinality(S) <= Cardinality(S \ C) + Cardinality(C)
  <2> SUFFICES ASSUME NEW S, IsFiniteSet(S)
               PROVE /\ IsFiniteSet(S \ C) /\ Cardinality(S) \in Nat
                     /\ Cardinality(S \ C) \in Nat
                     /\ Cardinality(S) <= Cardinality(S \ C) + Cardinality(C)
    OBVIOUS
  <2>1. PICK O : O = S \ C OBVIOUS
  <2>2. PICK I : I = S \cap C OBVIOUS
  <2>3. S = O \cup I /\ O \cap I = {} /\ I \subseteq C BY <2>1, <2>2
  <2>4. /\ IsFiniteSet(O) /\ IsFiniteSet(I)
        /\ Cardinality(O) \in Nat /\ Cardinality(I) \in Nat /\ Cardinality(C) \in Nat
        /\ Cardinality(I) <= Cardinality(C)
    BY <1>9, <2>1, <2>2, <2>3, FS_Subset, FS_CardinalityType
  <2>5. Cardinality(S) = Cardinality(O) + Cardinality(I)
    <3>1. Cardinality(O \cap I) = 0 BY <2>3, FS_EmptySet
    <3>2. Cardinality(O \cup I) = Cardinality(O) + Cardinality(I) - Cardinality(O \cap I)
      BY <2>4, FS_Union
    <3> QED BY <2>3, <2>4, <3>1, <3>2
  <2> QED BY <2>1, <2>4, <2>5
<1>12. Cardinality(U \ C) + Cardinality(R \ C) <= Cardinality(A)
  <2>1. PICK O : O = U \ C OBVIOUS
  <2>2. PICK I : I = R \ C OBVIOUS
  <2>3. /\ IsFiniteSet(O) /\ IsFiniteSet(I) /\ Cardinality(O) \in Nat /\ Cardinality(I) \in Nat
        /\ O \cap I = {} /\ O \cup I \subseteq A
    BY <1>8, <1>10, <1>11, <2>1, <2>2
  <2>4. Cardinality(O \cap I) = 0 BY <2>3, FS_EmptySet
  <2>5. Cardinality(O \cup I) = Cardinality(O) + Cardinality(I) - Cardinality(O \cap I)
    BY <2>3, FS_Union
  <2>6. Cardinality(O \cup I) <= Cardinality(A) BY <1>8, <2>3, FS_Subset
  <2> QED BY <2>1, <2>2, <2>3, <2>4, <2>5, <2>6
<1>13. \A a, c, o, i, x, y \in Nat :
         x <= o + c /\ y <= i + c /\ o + i <= a => x + y <= a + 2 * c
  OBVIOUS
<1>14. Cardinality(A) \in Nat /\ Cardinality(C) \in Nat BY <1>8, <1>9, FS_CardinalityType
<1> QED BY <1>4, <1>7, <1>8, <1>11, <1>12, <1>13, <1>14

\* AnalyticsService sends the queries of a report all at once, outside a transaction,
\* and rounds what it breaks down: the totals of one report and the sums of their parts
\* differ by no more than the tickets that changed before the last was answered and
\* half a birr for each part, for any periods, routes and number of changes.
THEOREM FiguresAgreeAlways == ReportsSpec => []FiguresAgree
<1>1. ReportsInit => ReportInv
  <2> SUFFICES ASSUME ReportsInit PROVE ReportInv OBVIOUS
  <2>1. WorldInv BY WorldStarts DEF ReportsInit
  <2>2. report = NoReport BY DEF ReportsInit
  <2>3. IsReport /\ report.changed = {} /\ DOMAIN report.figures = {}
    BY <2>2 DEF IsReport, NoReport
  <2> QED BY <2>1, <2>3 DEF ReportInv
<1>2. ReportInv /\ [ReportsNext]_rvars => ReportInv' BY ReportStep
<1>3. ReportInv => FiguresAgree
  <2> SUFFICES ASSUME ReportInv PROVE FiguresAgree OBVIOUS
  <2>1. \A f \in DOMAIN report.figures : AsOnce(f, report.figures[f]) BY DEF ReportInv
  <2>2. \A kind, figures : Answered(kind, figures) =>
          \A f \in figures : AsOnce(f, report.figures[f])
    BY <2>1 DEF Answered
  <2> QED BY <2>2, RevenueAgrees, CountsAgree, DashboardAgrees DEF FiguresAgree
<1> QED BY <1>1, <1>2, <1>3, PTL DEF ReportsSpec
================================================================================
