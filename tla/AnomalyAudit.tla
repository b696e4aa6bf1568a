------------------------------ MODULE AnomalyAudit ------------------------------
(***************************************************************************)
(* The audit that follows an accepted scan: in the background, after the   *)
(* driver has the answer, the machine-learning service is asked for a      *)
(* verdict, a few rules stand in for it when it does not answer, and what  *)
(* is suspicious is stored as a flag.  The scan itself is its answer only, *)
(* see Validation.                                                         *)
(***************************************************************************)
EXTENDS Integers, Sequences, FiniteSetsExt

CONSTANTS
  Scans,          \* POST /tickets/validate requests
  Distances,      \* metres between a device and the boarding stop
  MlEnabled       \* app.ml.enabled

ASSUME AuditAssumption == Distances \subseteq Nat /\ MlEnabled \in BOOLEAN

VARIABLES
  audit,     \* the audit of each scan
  flags      \* the anomaly_flags rows of each scan

avars == <<audit, flags>>

Severities == {"LOW", "MEDIUM", "HIGH"}
AnomalySource == {"ML", "RULE_FALLBACK"}

\* What a scan is answered: ScanResult.
Results == {"VALID", "EXPIRED", "ALREADY_USED", "INSPECTION_ONLY", "INVALID_SIGNATURE"}

NoAudit == [pc |-> "none", result |-> "NONE", distance |-> 0, severity |-> "LOW",
            source |-> "NONE"]

AuditInit ==
  /\ audit = [s \in Scans |-> NoAudit]
  /\ flags = [s \in Scans |-> <<>>]

-----------------------------------------------------------------------------
(* ValidationService.validateTicket is at its end *)

\* It dispatches an audit for the scans it accepted only: a refusal is an exception
\* that was thrown before, and an inspection is passed over.
Scan(s, result, distance) ==
  /\ audit[s].pc = "none"
  /\ audit' = [audit EXCEPT ![s] =
       [NoAudit EXCEPT !.pc = IF result = "VALID" THEN "readStop" ELSE "answered",
                       !.result = result, !.distance = distance]]
  /\ UNCHANGED flags

-----------------------------------------------------------------------------
(* The audit: MlService.detectScanAnomaly and AnomalyService.record *)

\* The rules that stand in for the service.  The result is VALID, the scan was on
\* line and its signature good whenever they are asked: what is left is the place.
Score(s) ==
  LET result == audit[s].result
      d == audit[s].distance IN
  Max({5} \cup (IF result \in {"INVALID_SIGNATURE", "ALREADY_USED"} THEN {100} ELSE {})
          \cup (IF result = "EXPIRED" THEN {95} ELSE {})
          \cup (IF d > 600 THEN {85} ELSE IF d > 200 THEN {40} ELSE {}))

\* Mutant: the limits themselves are let through.
SeverityAbove(score) == IF score > 80 THEN "HIGH" ELSE IF score > 40 THEN "MEDIUM" ELSE "LOW"

Severity(score) == IF score >= 80 THEN "HIGH" ELSE IF score >= 40 THEN "MEDIUM" ELSE "LOW"

Audit(s, from, next) ==
  /\ audit[s].pc = from
  /\ audit' = [audit EXCEPT ![s] = next]

Fallback(s) == [audit[s] EXCEPT !.pc = "record", !.source = "RULE_FALLBACK",
                                !.severity = Severity(Score(s))]

\* The boarding stop is read.  Without its place, or the device's, one stands for
\* the other and the distance is 0.
ReadStop(s) ==
  /\ \E placed \in BOOLEAN :
       LET here == [audit[s] EXCEPT !.pc = "post", !.distance = IF placed THEN @ ELSE 0]
       IN Audit(s, "readStop", here)
  /\ UNCHANGED flags

\* The service is not asked when it is disabled; it may be out of reach, refuse, or
\* not answer before the timer aborts the request.
NoVerdict(s) == Audit(s, "post", Fallback(s)) /\ UNCHANGED flags

\* It answers, and the timer is cleared: the verdict may take its time.
Answers(s) ==
  MlEnabled /\ Audit(s, "post", [audit[s] EXCEPT !.pc = "body"]) /\ UNCHANGED flags

Verdict(s) ==
  /\ \E severity \in Severities :
       Audit(s, "body", [audit[s] EXCEPT !.pc = "record", !.source = "ML",
                                         !.severity = severity])
  /\ UNCHANGED flags

\* The verdict breaks off or is no JSON.
BreaksOff(s) == Audit(s, "body", Fallback(s)) /\ UNCHANGED flags

\* Nothing is stored of a LOW verdict.
Record(s) ==
  /\ Audit(s, "record", [audit[s] EXCEPT !.pc = "done"])
  /\ flags' = IF audit[s].severity = "LOW" THEN flags
              ELSE [flags EXCEPT ![s] =
                     Append(@, [severity |-> audit[s].severity, source |-> audit[s].source])]

InAudit == {s \in Scans : audit[s].pc \notin {"none", "answered", "done", "lost"}}

\* Reading the stop or storing the flag fails, which is logged and swallowed; or the
\* process dies with all the audits it was at.
Lose(lost) ==
  /\ lost # {}
  /\ audit' = [s \in Scans |-> IF s \in lost THEN [audit[s] EXCEPT !.pc = "lost"]
                               ELSE audit[s]]
  /\ UNCHANGED flags

AuditFails(s) == audit[s].pc \in {"readStop", "record"} /\ Lose({s})

Crash == Lose(InAudit)

AuditNext ==
  \/ \E s \in Scans :
       \/ \E result \in Results, distance \in Distances : Scan(s, result, distance)
       \/ ReadStop(s) \/ NoVerdict(s) \/ Answers(s) \/ Verdict(s) \/ BreaksOff(s)
       \/ Record(s) \/ AuditFails(s)
  \/ Crash

AuditSpec == AuditInit /\ [][AuditNext]_avars

-----------------------------------------------------------------------------
\* Whatever the service, its answer and the database do to it meanwhile, the audit of
\* an accepted scan that comes to its end leaves the one flag its verdict calls for and
\* one that does not leaves none; and where the rules stand in for the service, that
\* flag is the one of the distance: HIGH beyond 600 metres, none up to 200.
FlagsWarranted ==
  \A s \in Scans : audit[s].result = "VALID" =>
    /\ Len(flags[s]) <= 1
    /\ flags[s] # <<>> <=> audit[s].pc = "done" /\ audit[s].severity # "LOW"
    /\ audit[s].pc = "done" /\ audit[s].source = "RULE_FALLBACK" =>
         /\ audit[s].distance > 600 <=> audit[s].severity = "HIGH"
         /\ audit[s].distance <= 200 <=> audit[s].severity = "LOW"
================================================================================
