-------------------------------- MODULE ExpiryJob --------------------------------
(***************************************************************************)
(* TicketExpiryJob.handleTicketExpiry with WalletService.credit.  A cron   *)
(* run reads one batch of ACTIVE expired tickets, then expires, refunds    *)
(* and marks each in a transaction of its own; a full batch is followed at *)
(* once by another.  Nothing stops the next minute's run, or another       *)
(* instance's, from starting while a run is busy: each member of Runs is a *)
(* run slot, used over and over.                                           *)
(***************************************************************************)
EXTENDS TicketStore

CONSTANTS
  Runs,             \* runs of the job that may overlap
  BatchSize         \* BATCH_SIZE

ASSUME JobAssumption == BatchSize \in Nat \ {0} /\ NULL \notin Runs

VARIABLE run        \* the local state of each run

RunIdle == [pc |-> "idle", todo |-> {}, full |-> FALSE, cur |-> NULL, read |-> 0]

RunLocal ==
  [pc: {"idle", "again", "next", "readWallet", "commit"},
   todo: SUBSET Tickets, full: BOOLEAN, cur: Tickets \cup {NULL}, read: Int]

RunTypeOK == run \in [Runs -> RunLocal]

JobInit == run = [j \in Runs |-> RunIdle]

\* Mutants: the query takes settled tickets too, or looks a tick too late.
ExpirableUnused ==
  {t \in Tickets : ticket[t].status \notin {"NONE", "USED"} /\ Expired(t, now)}
ExpirableTooLate ==
  {t \in Tickets : ticket[t].status = "ACTIVE" /\ Expired(t, now - 1)}

Expirable == {t \in Tickets : ticket[t].status = "ACTIVE" /\ Expired(t, now)}

Batches ==
  {B \in SUBSET Expirable : \/ B = Expirable /\ Cardinality(B) <= BatchSize
                            \/ Cardinality(B) = BatchSize}

\* findMany ... take BATCH_SIZE, in no particular order.
FindExpired(j) ==
  /\ run[j].pc \in {"idle", "again"}
  /\ \E B \in Batches :
       run' = [run EXCEPT ![j] = IF B = {} THEN RunIdle ELSE
                 [RunIdle EXCEPT !.pc = "next", !.todo = B,
                                 !.full = (Cardinality(B) = BatchSize)]]
  /\ UNCHANGED store

\* The transaction of the next ticket: the row is set to EXPIRED by id, which
\* takes its lock and shows nothing until the commit.
ExpireTicket(j, t) ==
  /\ run[j].pc = "next"
  /\ t \in run[j].todo
  /\ Unlocked(t)
  /\ run' = [run EXCEPT ![j] = [@ EXCEPT !.pc = "readWallet", !.cur = t]]
  /\ rowLock' = [rowLock EXCEPT ![t] = j]
  /\ UNCHANGED <<now, ticket, balance, ledger, scanEvents>>

\* credit: the balance the new one is computed from.
ReadWalletForCredit(j) ==
  /\ run[j].pc = "readWallet"
  /\ run' = [run EXCEPT ![j] = [@ EXCEPT !.pc = "commit",
                                         !.read = balance[Owner[run[j].cur]]]]
  /\ UNCHANGED store

\* The run is done with its current ticket, whose row it releases.
Release(j) ==
  /\ run' = [run EXCEPT ![j] = [@ EXCEPT !.pc = "next",
                                         !.todo = run[j].todo \ {run[j].cur},
                                         !.cur = NULL, !.read = 0]]
  /\ rowLock' = [rowLock EXCEPT ![run[j].cur] = NULL]

\* Mutant: the ticket is left EXPIRED.
RefundLeavesExpired(j) ==
  LET t == run[j].cur IN
  /\ run[j].pc = "commit"
  /\ Release(j)
  /\ balance' = [balance EXCEPT ![Owner[t]] = run[j].read + Fare[t]]
  /\ ledger' = [ledger EXCEPT ![t].refunds = @ + 1]
  /\ ticket' = [ticket EXCEPT ![t] = [@ EXCEPT !.status = "EXPIRED"]]
  /\ UNCHANGED <<now, scanEvents>>

\* New balance, REFUND row, ticket REFUNDED, commit.
CommitRefund(j) ==
  LET t == run[j].cur IN
  /\ run[j].pc = "commit"
  /\ Release(j)
  /\ balance' = [balance EXCEPT ![Owner[t]] = run[j].read + Fare[t]]
  /\ ledger' = [ledger EXCEPT ![t].refunds = @ + 1]
  /\ ticket' = [ticket EXCEPT ![t] = [@ EXCEPT !.status = "REFUNDED",
                                               !.refundedAt = now]]
  /\ UNCHANGED <<now, scanEvents>>

\* Mutant: the loop goes on with the failed transaction left open.
LeaveOpen(j) ==
  /\ run[j].pc \in {"readWallet", "commit"}
  /\ run' = [run EXCEPT ![j] = [@ EXCEPT !.pc = "next",
                                         !.todo = run[j].todo \ {run[j].cur},
                                         !.cur = NULL, !.read = 0]]
  /\ UNCHANGED store

\* The transaction fails: it is rolled back, logged, and the loop goes on.
RollbackRefund(j) ==
  /\ run[j].pc \in {"readWallet", "commit"}
  /\ Release(j)
  /\ UNCHANGED <<now, ticket, balance, ledger, scanEvents>>

\* The batch is worked off; a full one may have left more.
EndBatch(j) ==
  /\ run[j].pc = "next"
  /\ run[j].todo = {}
  /\ run' = [run EXCEPT ![j] =
       IF run[j].full THEN [RunIdle EXCEPT !.pc = "again"] ELSE RunIdle]
  /\ UNCHANGED store

\* The process dies; the database rolls the open transaction back.
CrashRun(j) ==
  /\ run[j].pc # "idle"
  /\ run' = [run EXCEPT ![j] = RunIdle]
  /\ rowLock' = [t \in Tickets |-> IF rowLock[t] = j THEN NULL ELSE rowLock[t]]
  /\ UNCHANGED <<now, ticket, balance, ledger, scanEvents>>

JobStep(j) ==
  \/ \E t \in Tickets : ExpireTicket(j, t)
  \/ ReadWalletForCredit(j) \/ CommitRefund(j) \/ RollbackRefund(j)
  \/ EndBatch(j) \/ CrashRun(j)

\* A run inside a transaction works on a ticket of its batch.
RunLocalsOK ==
  \A j \in Runs : run[j].pc \in {"readWallet", "commit"} =>
                   run[j].cur \in run[j].todo

RunInFlight == {j \in Runs : run[j].pc # "idle"}
================================================================================
