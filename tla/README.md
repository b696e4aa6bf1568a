# SmartBus in TLA+

SmartBus is the server of a city bus ticketing system (NestJS, Prisma,
PostgreSQL). Passengers top up a wallet and buy tickets that are valid for an
hour, drivers scan the tickets' QR codes on line or off line, a cron job refunds
tickets that expired, administrators manage users, routes and trips. The server
keeps no state of its own between requests: everything is a row of the database,
every handler is a sequence of statements with `await` between them, any two
handlers interleave, and the process may stop anywhere. What is hard about this
program is therefore what happens *between* the statements, and that is what the
modules here are about.

All paths below are relative to the repository; `sync.service.ts` and the like
are under `src/modules/<name>/`.

## The system

| component | state | operations | talks to |
|---|---|---|---|
| ticket purchase (`tickets.service.ts`) | tickets | `purchase`, reads, drop-off signal | `debit`, `getFare`, idempotency |
| wallet (`wallet.service.ts`) | wallets, wallet transactions | `debit`, `credit`, `initiateTopup`, `processWebhook` | payment provider |
| online validation (`validation.service.ts`) | tickets, scan events | `validateTicket`, scans of a trip | active trip, ML audit |
| offline sync (`sync.service.ts`) | tickets, scan events, wallets | `reconcile` | - |
| expiry job (`ticket-expiry.job.ts`) | tickets, wallets | `handleTicketExpiry` every minute | `credit` |
| idempotency (guard, interceptor) | idempotency keys | look up, replay, store | purchase, top-up |
| trips (`trips.service.ts`) | trips | start, end, create, cancel | admin, validation |
| authentication (`auth.service.ts`, rate-limit guard) | OTPs, refresh tokens, login events, users | register, verify, login, refresh, logout, reset | SMS |
| clean-up jobs (`cleanup.job.ts`) | keys, stale users, tokens, OTPs | hourly and daily deletes | - |
| routes (`routes.service.ts`) | routes, stops, fares, segments | search, fare, updates | admin, purchase |
| administration (`admin.service.ts`) | audit log | users, routes, trips | all of the above |
| anomaly audit (`ml.service.ts`, `anomaly.service.ts`) | anomaly flags | after an accepted scan: verdict or rules, flag | ML service |
| analytics (`analytics.service.ts`) | - | reports, anomaly queries, exports | tickets, scan events, wallet transactions |
| notifications | notification rows | text messages, lists | SMS provider |

What makes each correct:

- *tickets*: a ticket is paid for once, admits once, in its hour, is refunded
  only when its hour passed unused, once, and pays again if a late delivery shows
  that it was used;
- *wallet*: a balance is what its transactions add up to, a top-up is credited
  once and only if the provider confirmed it, a wallet is not overdrawn;
- *sync*: whatever order scans are delivered in, the earliest wins; a repeated
  delivery changes nothing;
- *idempotency*: a retried purchase is charged once and is answered as before;
- *trips*: one trip in progress for a driver, a cancelled trip never runs;
- *authentication*: a session has one live token, a reset ends the older ones; a
  code cannot be guessed at leisure; failures lock out; a disabled account stays so;
- *clean-up*: what somebody began to use is not deleted from under them;
- *routes*: fares, segments and tickets join stops that are there, a passenger pays
  what was shown, a route with active tickets is not deleted;
- *audit and reports*: an audit leaves the one flag its verdict calls for, the
  figures of one report belong together, bursts of scans are found, and what was
  earned stays so unless it is refunded.

The behaviours that are hard to test are listed line by line under `hazards` in
PROJECT.json; each names the property that covers it, or why none does.

## Modules

| module | models | state and actions |
|---|---|---|
| `TicketStore` | the rows of `schema.prisma` the ticket handlers share | `ticket`, `balance`, `ledger` (wallet transactions of a ticket, counted by type), `scanEvents`, the clock `now`, `rowLock`; `Tick` |
| `Purchase` | `purchase` with `debit` | `buy[t]`: start, read the wallet or refuse, commit, roll back |
| `Validation` | `validateTicket` | `scan[s]`: an action for every exit of the handler, `ClaimTicket` for the conditional update, `CrashScan` |
| `Sync` | `processScan` | `syn[o]`: fetch, one action per branch of the decision, the three ways to write the ticket, log, crash |
| `ExpiryJob` | `handleTicketExpiry` with `credit` | `run[j]`: find a batch, expire, read the wallet, commit or roll back, end of batch, crash |
| `TicketLifecycle` | the four together | arrivals, steps of running handlers, `Tick`; all properties |
| `TicketPromise` | what they promise | buy, board, refund, boarded after all, each one atomic step |
| `Idempotency` | guard, interceptor and the two handlers that carry a key, the clean-up of keys | `keyRow`, `charged` (wallet transactions, by their unique key), `asked` (checkouts), `req[r]`, `saving[r]` (the insert nobody awaits) |
| `WalletTopup` | `initiateTopup`, `processWebhook`, with the payment provider as environment | `row` (status of the transaction), `checkout`, `balance`, `call[c]`: find, read, credit or fail, acknowledge, fail half way |
| `TopupPromise` | what a top-up promises | recorded, settled, credited, each one step |
| `Trips` | `startTrip`, `endTrip`, `create`, `cancel`, `getActiveTrip`, `resolveTripId` with the scan events they serve | `trip`, `call[c]`: a read with its checks, then an update by id; `device[s]`, scans waiting for a connection |
| `AccountStore` | the rows of users, wallets, codes, tokens and login events | `user`, `wallets`, `code`, `token`, `events`, the clock, `call[c]` (the handlers), `job` (the clean-up of stale users) |
| `Codes` | `register`, `forgotPassword`, `verifyOtp`, `consumeOtp`, `sendSms`, `users.create`, clean-up of codes and stale users | an action for each statement |
| `Sessions` | rate-limit guard, `login`, `refresh`, `logout`, the end of `resetPassword`, clean-up of tokens | an action for each statement |
| `Accounts` | the two together, with `createUser`, `disableUser`, `enableUser` | requests, statements, failures, `Tick`; all properties of accounts |
| `RouteCatalog` | `createRoute`, `updateRoute`, `deleteRoute`, `updateStops`, `updateFares`, `findById`, `getFare` and the purchase that uses it | `route`, `stop`, `fares`, `segments`, `ticket`, `audit`, `screen` (what the passenger saw), `call[c]` |
| `ScanLog` | what reports see of the four ticket handlers: the commits that change a ticket's status or times, or the log, and the lists of the job's runs | `phase`, `boughtAt`, `usedAt`, `scanEvents`, `listed`; `Buy`, `Use`, `Deliver`, `Log`, `Find`, `Refund` (by id, whatever the status), `Drop`, each one step |
| `AnomalyAudit` | `dispatchAnomalyAudit`, `detectScanAnomaly`, the rules, `AnomalyService.record` | `audit[s]`: read the stop, ask, read the verdict, record, lost; `flags` |
| `Reports` | `getDashboard`, `getRevenue`, `getTickets`, `getAnomalies` and two exports, with their queries | on top of `ScanLog`, `report`: asked, answered one by one, abandoned; `refundRows` |
| `MCLifecycle`, `MCIdempotency`, `MCWalletTopup`, `MCTrips`, `MCAccounts`, `MCRouteCatalog`, `MCReports` | instances for TLC | |
| `LifecycleProofs` (overlapping handlers), `LifecycleSerial` (one at a time), `IdempotencyProofs`, `TopupProofs`, `TripsProofs`, `AccountProofs`, `CatalogProofs`, `ReportProofs` | proofs | |

How code becomes actions. A handler is a record with a program counter and the
locals that outlive an `await`; a statement on the database is an action. A read
returns the committed row. A write by id overwrites what it finds, a conditional
`updateMany` decides on the row as it is when the lock is granted. A transaction
at PostgreSQL's default level, READ COMMITTED, shows its writes only at commit;
one that makes all its reads before its first write is therefore two steps, the
reads and then the writes with the commit. The expiry transaction writes the
ticket, then reads the wallet, then writes again: `ExpireTicket` takes the row
lock, others that write the row wait, and the intermediate status EXPIRED is seen
by nobody. A transaction that fails is a step of its own; a crash leaves what
has been committed. Reads that decide nothing (names, stops, routes) are left out,
money is counted in integers.

The ticket lifecycle leaves the trip of a scan to `Trips`: there, a scan is what
looks for a trip and is logged with it; in the lifecycle, what claims a ticket.
In the same way `Idempotency` leaves money to `Purchase`: there, a purchase is
one committed row with a key.

An account or route handler is a chain of statements without an enclosing
transaction: any of them may be the last. In `Accounts` a phone stands for whatever
a person signs in with and `Spellings` for the ways to type it, a password is the number
of times it was changed, a code is the row that holds its hash.

`ScanLog` is an abstraction of `TicketLifecycle`, with handlers that overlap in any
way and die anywhere (`KeepsLog`, checked in `lifecycle_live` and proved): a purchase and a
use commit with a time taken earlier, a delivery overwrites whatever the ticket has
become, and the job refunds by id what it listed before. What is said of reports
therefore rests on the handlers as they are. The scan of an audit is its answer only:
`AnomalyAudit` has no state in common with the tickets.

The guard of logins looks events up under the identifier without the spaces around
it, `login` records them as it was typed, and the account is found under either: `Trim`
is that conversion, for any set of spellings. The guard looks at the latest events only. In
`Sessions` the events are rows in the order they were written, and what the guard computes is
stated on sets of their positions (`LoginEvents`, `Recent`, `Failures`), which says the
same as its loop and can be reasoned about.

Some fields are no column of the database and are read by no action that decides
anything; they remember what a property speaks of. They are marked "for the
properties only": `kept`, `barred`, `warranted` and `settled` of a user, `asked` and
`alone` of a code, `password` and `overtaken` of a token, `since` and
`then` of an event, `edition`, `since` and `sent` of a route (how many edits of its stops
or fares committed, how many when the last of them began its transaction, the list it
sent), `edition` of a fare, `shown`, `edited` and `missed` of its tickets. `session` of a token is
no column either: it tells which client has the token, and whether an id was drawn
before.

Definitions marked "Mutant" in a module are used by no specification: each is a
slip that was or could be made in the definition that follows it, and shows which
property would notice.

## Runs

`lifecycle_*`: one passenger, whose tickets cost one unit each and are valid for
one tick. `MaxInFlight` bounds the handlers that run at once. Symmetry permutes
scans, deliveries, drivers, runs, calls, users, tokens, whose names mean nothing to
the properties; the runs with liveness or a temporal property of a request use none.

| run | instance | question |
|---|---|---|
| `lifecycle_overlap` | 3 at once, 1 delivery, 1 run: 1 ticket and 2 online scans, clock to 2, or 2 tickets and a wallet that pays one, clock to 3 (`OverlapSpec`) | admission, time of use, refunds under every overlap; no used ticket without its scan event unless a handler died; what holds of the money when balances overwrite each other |
| `lifecycle_serial` | 1 ticket, 2 drivers, 1 online scan, 2 deliveries, 1 run, 1 at once, clock to 3 | each handler alone, dying anywhere, implements `TicketPromise`; precedence, repeated deliveries |
| `lifecycle_refund` | 1 ticket, 1 online scan, 1 run | are only unused tickets refunded? |
| `lifecycle_live` | 1 scan, 1 run, batch of 1, 4 at once: 2 tickets, or 1 ticket and 1 delivery (`LiveSpec`) | expired tickets are settled, scans end; is `ScanLog` all that reports see? |
| `idempotency` | 2 purchases and a top-up with one key, a top-up with another, time to live 2, clock to 3 | one charge and one answer per key, replays in time, no checkout for a charged key |
| `topup_overlap` | 2 top-ups of one wallet of 1 and 2, 3 calls at once | credited exactly when COMPLETED, and only if paid |
| `topup_serial` | the same with 1 call at a time, reports of open payments too, with fairness | implements `TopupPromise`; a recorded top-up is credited in the end |
| `topup_duplicate` | 1 top-up, 2 calls at once | is a duplicate call ignored? |
| `trips` | 1 driver, 2 trips, 2 days, 2 calls, 1 device scan, clock to 2; the driver and the administrators each wait for an answer, and overlap each other | one trip in progress, times written once, scans with their trip |
| `accounts` | 1 phone, 2 user ids, 2 tokens, 2 codes, 3 requests of which 2 at once, each dying anywhere, all clean-up jobs, clock to 2; a client waits for its answers; where there is one account and nothing but logins, its identifier is also typed with a space after it (`MCSpec`) | one live end of a session, what a reset and a disabling leave, how often a code is guessed, lockouts, who is cleaned up |
| `routes` | 1 route whose stops are replaced up to twice (6 stop ids), 1 ticket, 4 requests of which 2 at once | whole catalogue, the price that was shown, fares as they were sent, deletion |
| `reports` | 2 tickets of one passenger on 2 routes, of one and a half birr each; followed are (`MCSpec`) either the tickets, with 1 run of the job, clock to 2, a day of 2, and reports of the tick in the middle, of one route or all; or 3 scans by 2 drivers; or 2 audits, distances on both sides of 200 and 600 metres | figures that belong together, what takes revenue back; bursts of scans; flags |

Why these bounds are enough: every hazard here needs two or three handlers on
one row, or two rows of one owner. With three at once a scan, a delivery
and the job can be in each other's middle. The clock passes the ticket's hour in
two ticks (bought at 0, valid to 1, expired at 2), a third lets a run work after
an expired ticket was bought late. With a batch of one and two tickets a batch is
full, which is when the job calls itself again. A stored response written at 0
with a time to live of 2 is alive at 1, expired but still in the table at 2, and
cleaned up at 3. Two amounts that differ tell a lost credit from a double one. Two
ticks let one trip end and the next begin at the moment of a scan. In `accounts`
three requests are enough for each pair that interferes and what went before (a
login, a code asked for, a disabling), since the database may start with a
verified account that is signed in; two codes tell the latest from an older one. In `routes`
the seed data or a request creates the route, and two edits that overlap, a view and
a purchase are four. In `reports` every
query may come at any place among at most two changes of tickets (`MaxMeanwhile`),
which is what takes two figures apart; the figures followed are those the properties
speak of (`Followed`). Two fares of one and a half birr make three in total and two and two in
parts, the least that shows the rounding; three scans in a window of one tick are one
more than two fill it. Where a run follows one of several things, it is because these have no
state in common, or because the instance of both together shows no more: an online scan
touches no wallet, a spelling no handler but a login. More drivers, tickets,
requests or time only repeat this: every safety property of these runs is proved for
any number of them (see Proofs), and only liveness rests on the bounds.

## What the code does not keep

Two statements of the documentation are run against the code and refuted; each
counterexample is a real interleaving (`findings` in PROJECT.json quotes them):
- `topup_duplicate`: two calls about one payment both find it PENDING, outside the
  transaction, and both credit it, where `docs/usecase.md:95` says a duplicate is ignored;
- `lifecycle_refund`: a ticket that a scan claimed after the job listed it goes from
  USED to REFUNDED by an update by id (`ticket-expiry.job.ts:33`), where FR-WAL-04
  (`docs/srs.md:57`) refunds tickets that expire unused; the revenue of a closed period
  shrinks by it (`OnlyRefundsTakeBack` says that nothing else does that).

More came up while modelling. The properties that do hold are stated around it:

*Tickets and money*
- a purchase, a refund and a top-up each write the balance they computed, and the
  last wins (`wallet.service.ts:165`; NFR-REL-04, `docs/srs.md:154`);
- two deliveries of one ticket overlap, and the later scan writes `usedAt` last
  (`EarliestScanWins` is therefore checked one handler at a time);
- a delivery that dies before its event loses to itself when it is sent again,
  a scan that dies there leaves a used ticket without an event (the "crashed" in
  `OutdoneByAnother` and `UsedIsLogged`);
- the reversal of a refund takes the wallet of a passenger who spent it below zero
  (the exception in `OverdrawnOnlyByReversal`), which `schema.prisma:209` excludes;
- two overlapping runs of the job refund a ticket twice (`AtMostOneRefund` is
  checked with one run).

*Retries and payments*
- a retry that comes after the answer and before its response is stored runs the
  handler again (`README.md:291` promises the first response);
- two top-ups with one key that overlap both open a checkout before the unique key
  refuses one (`ChargedNeverAsks` speaks of those that arrive later); a purchase
  refused by that key is answered 500, where `tickets.controller.ts:47` says 409;
- the stored response is the body before `TransformInterceptor` wraps it, and is
  replayed as it is;
- a payment whose row was not inserted yet, or never is, is answered 200 and not
  credited (`RecordedIsCredited` starts from a row).

*Trips*
- a driver who sends two requests at once can have two trips in progress, two
  administrators at once can schedule a driver twice on a day, and a trip that is
  cancelled while it starts stays open to `resolveTripId` for ever (the exception
  in `OfflineScanAttributed`).

*Accounts*
- two refreshes with one token both rotate it (`OnlyLastIsLive` needs
  `SequentialSessions`), and a login or refresh past its check survives a reset
  (`overtaken` in `ResetEndsSessions`); a reset that dies between its statements
  has changed the password and revoked nothing (`settled` is set at its end);
- a disabled account can refresh its tokens, and a registration code that was asked
  for before it was disabled makes it ACTIVE again (`warranted` in
  `DisabledStaysDisabled`);
- wrong codes that overlap are counted as one (`alone` in `GuessesBounded`);
  `verifyOtp` with the purpose PASSWORD_RESET uses the code up and does no more;
- a failed login is recorded as its identifier was typed (`auth.service.ts:126`) and
  looked for without the spaces around it (`auth-rate-limit.guard.ts:27`), while an
  e-mail finds its account in any case and with spaces (`normalizeEmail`): failures of an
  e-mail with spaces count for no later login, and each way to write its letters has a
  count of its own (`LockoutHolds` speaks of failures under the identifier that is
  looked for);
- the guard locks an identifier out for 5 seconds after one failure, where the
  README says after three; logins that overlap are all let in before the first
  failure is recorded (`since` in `LockoutHolds`); phone, e-mail and FID of one person
  are counted apart;
- an account verified after it was stale may lose its codes, wallet or row to a run
  that had listed it, and a run that dies in between leaves it without a wallet
  (`kept` in `EnabledInTimeIsKept`).

*Routes*
- a ticket bought after the deletion has counted them, or from an old screen long
  after, is for a deleted route: `getFare` looks at neither `isActive` nor
  `deletedAt` (`missed` in `DeletedUnlessMissed`);
- two edits of fares that overlap leave fares of both lists (the second part of
  `FaresAsSent` says which); the price may change between screen and purchase (`edited`);
- a route whose stops were replaced has no fares until they are sent again; a stop
  of any ticket, however old, can never be replaced.

*Audit and reports*
- a scan that is refused because its ticket was used is not audited and not flagged,
  where `docs/usecase.md:156` says "409 + flag": the exception is thrown before the
  audit is dispatched (`validation.service.ts:124`, `190`). Of the rules that stand in for the ML service
  ("so we never miss obvious fraud", `ml.service.ts:235`) only the distance can
  speak, as `FlagsWarranted` says; a verdict whose body stalls is
  waited for without limit, the timer being cleared when the headers arrive; no code
  reads `anomaly_flags`;
- the revenue by route, by day and in the export is rounded to whole birr part by part
  (`analytics.service.ts:139`, `152`, `498`), the total is not, and fares may have fractions
  (`FareDto`): parts and total may differ by half a birr for each part with no
  change in between (`FiguresAgree`);
- a report limited to a route is an error wherever its query is written by hand:
  `route_id` is TEXT and is compared with a `::uuid` (`analytics.service.ts:145`), which
  PostgreSQL rejects (`ComparesUuid`, `Collect`, `Abandon`);
- EXPIRED is never stored for good, so that the counts of it are 0, and a late use is
  refused, so that the query for it finds nothing; the net revenue subtracts
  refunds of fares that were never counted as revenue, reversed ones included;
- the search for routes filters departure and destination after it took a page.

## Fairness

Safety needs none. `TicketLifecycle!FairSpec` assumes that time passes, that a
handler which can take its next step takes it (weak fairness: the event loop and
the database do not forget a statement), that the cron goes on firing, and that
although a process or a transaction of the job may fail any number of times it
does not fail every time (strong fairness of the job's steps, which a crash
disables). A scan that waits for a row gets it when the row is free again and
again: PostgreSQL grants a row lock in the order it is asked for (strong fairness
of `ClaimTicket`). No fairness is assumed of arrivals, crashes or failures.

`WalletTopup!FairSpec` assumes that the provider repeats a call until it is
answered 200 (strong fairness of `CallWebhook` for a payment not yet
acknowledged; the handler answers 200 to tell it to stop), that a handler which has
started goes on, and that a statement tried again and again for one top-up
succeeds once. That customers pay is not assumed.

## Proofs

TLAPS proves, for every value of the constants that the modules' assumptions
allow and without any bound (`MaxTime`, `MaxInFlight`, `MaxMeanwhile` are any numbers),
every safety and every action property that a run checks, and both refinements. A
theorem is named after its property with "Always". The properties speak of rows;
what makes them inductive speaks of the handlers: whatever a handler carries from one
statement to a later one is still true when it is used, or what has become of it is
known. Each section names that knowledge.

*Ticket lifecycle, any overlap* (`LifecycleProofs`). `TypeCorrect`: types, with what a
handler at work knows of its locals (`LocalsOK`). `Safety`: the inductive invariant
`SafetyInv`, from which `AdmitsOnce` (of `SingleAdmission`) and `UsedInTimeAlways`
follow (that no ticket is refunded before its hour is over is part of `KeepsLog`): that
a ticket was issued, that a scan was in time, that the tickets on a run's list are
expired stays true. The argument is one lemma, `RowsMoveForward`: an issued ticket stays
issued, keeps its `expiresAt` and, once USED or REFUNDED, is never ACTIVE again; it
needs that a purchase commits once per ticket, `IssuedWhenBought`.

*The ledger, any overlap* (`LifecycleProofs`). `PaidExactlyOnceAlways`: only the commit
of a purchase writes a debit, in the step that issues the ticket.
`AtMostOneRefundAlways`, for runs that do not overlap (`OneRun`): `RefundInv` says that
no ticket on a run's list has been refunded, as the commit takes it off, and that a
refunded ticket is settled, so that no later query finds it.
`OverdrawnOnlyByReversalAlways`: balances are overwritten, so that no sum of the ledger
is kept; `CoverInv` says instead that a purchase about to debit has read at least its
fare, and that a refund about to credit has read less than zero only if one of that
passenger was reversed already.
`UsedIsLoggedAlways`: `Accounted` names, for the `usedAt` of a used ticket, the event
or the handler it comes from; whoever overwrites `usedAt` is such a handler itself.

*One handler at a time* (`LifecycleSerial`, `Serial` is `MaxInFlight = 1`). `SerialInv`
says that at most one handler is at work (`Alone`) and what it knows exactly, of
purchases, claims, runs, scans and deliveries, crashed ones included. From it
`EarliestScanWinsAlways`, `DeliveredOnceAlways`, `OutdoneByAnotherAlways`, and
`SerialKeepsPromise`, the refinement of `TicketPromise`: a lemma for each action says
which step of the promise it is, or that it changes nothing the promise sees.

*Idempotency*. `ChargedOnceAlways`, `OneAnswerAlways`, `ReplayAlways` (which also
gives `StoreNeverConflicts`). The cache alone guarantees nothing; the invariant
says that every success reports the one request charged for its key, and that a
stored response, or one on its way, carries the time its first answer went out.
`ChargedNeverAsksAlways` adds `TurnedAway`: a request that arrived when its key was
charged has no way to the provider, with or without a stored response (and, before
that, `IdleAskedNothing`: what has not arrived has opened no checkout).

*Top-ups*. `CreditedIsCompletedAlways`, however calls overlap, as long as the
provider reports only outcomes (`~Interim`); `SerialKeepsPromise`, the refinement
of `TopupPromise` when calls do not overlap (`Calls = {c}`). Both need that what a
call read of the row is still so when it writes it: by the order of statuses in the
first, because it is alone in the second.

*Trips*. `OneActiveTripAlways`, `ScanWithinTripAlways`,
`OfflineScanAttributedAlways` and `TimesKeptAlways`, for drivers who wait for each
answer (`SequentialDrivers`), with any number of overlapping administrators. `Inv` says
that a driver has one request at work (`OneRequest`), that what it read still holds
(`CallOK`), that a time about to be written is not before any scan of the driver
(`Ordered`, `ScansOK`), and that while a device scan was on one trip every other live
trip of the driver was over or had not begun (`DeviceOK`). `UpdateKeepsInv` is the
heart: what a handler must know of a row to overwrite it. `OneScheduledPerDayAlways` has
an invariant of its own, `ScheduleInv`, for administrators who act one at a time
(`SequentialAdmins`): it needs nothing of drivers, who only take trips out of the
schedule.

*Accounts*, in layers, each with the knowledge one property needs.
- `OnlyLastIsLiveAlways`, of clients who wait for each answer (`SequentialSessions`) and
  may lose it. Between the check of a refresh and its transaction a reset or the job may
  revoke or delete the token. A session has one request at work (`OneAtWork`), so that
  whoever is about to rotate a token still holds the last of its session (`Tip`), and an
  id not drawn yet belongs to no session. All actions but the arrival of a token,
  `Issue` and `Rotate` are `Calm`: they revoke and delete at most.
- The others hold however requests overlap. `Typed` types rows and handlers, and one
  lemma each says which actions write users, codes, tokens, events and handlers.
- `EnabledInTimeIsKeptAlways`: an account on the clean-up's list, or without a wallet, is
  stale and was not enabled in time, and being enabled now comes too late (`KeptInv`).
- `GuessesBoundedAlways`: an attempt counter is at least the guesses made alone, what a
  guess is about to write is more than these, and a code that is not consumed has
  attempts left (`GuessInv`).
- `DisabledStaysDisabledAlways`: a registration code, and each handler that asked for it
  or verifies with it, goes back to a request from before the account was disabled, if
  it is (`Barred`); there is one account to a phone.
- `ResetEndsSessionsAlways`: once a reset has revoked the sessions, every live token and
  every handler with an older password is marked `overtaken`, and new ones come with
  the new password (`Ended`, `EndedStays`).
- `LockoutHoldsAlways`: the guard reads only the latest events of the trimmed
  identifier. That is enough because
  its window is longer than the list of lockouts (`GuardLooksFarEnough`, from
  `AccountAssumption`), and what an attempt waited for stays waited for when others are
  recorded (`WaitedStays`). Nothing is assumed of `Trim`: a failure that is recorded
  with spaces is one that no attempt waits for.

*Routes* (`CatalogProofs`). `CatalogWholeAlways`, `ChargedAsShownAlways`,
`FaresAsSentAlways`, `DeletedUnlessMissedAlways` and the types. The invariant says what
an edit at work knows of the stops and fares it read, and what an edit that began
since has made of that: an `updateFares` holds ids of stops that are of its route or
were until they were replaced (`Resolved`), an edit in its transaction has
deleted the fares of all editions that had committed when it began (`Saw`), the fares of
the last edition are its whole list (`AsSent`), and what a purchase will charge is
what was shown unless the route was edited since (`ToCharge`).

*What reports see* (`LifecycleProofs`). `KeepsLogAlways`: `Spec` implements `ScanLog`.
`ScanLog` states a step by the rows and the clock at its commit, while a handler writes what
it computed earlier; `LogInv` says that a time it carries is past, that a delivered scan
lies in the life of its ticket, and that only a request that is done has an event. With
`SafetyInv` (a claim is in time, a listed ticket is expired) a lemma for each component
says which step of `ScanLog` each action is.

*Audit and reports* (`ReportProofs`). `FlagsWarrantedAlways`: an audit at work carries
the verdict of its scan and has stored nothing yet (`AuditInv`).
`OnlyRefundsTakeBackAlways`: revenue is lost by a refund alone, and a ticket on a run's
list is past its hour (`WorldInv`). `RapidRepeatExactAlways`: a window of maximal content may be
moved until it ends in a scan, which is where the query looks. `FiguresAgreeAlways`: each
figure that was answered shows the tickets as they once were, and still are but for those in
`changed` (`AsOnce`); sums over two such sets differ by at most the sum over
`changed`, and a sum of rounded parts from the sum by at most half a birr for each part
(`RoundedSums`).

The sums are folds of the community modules, recursive functions over the subsets of a
set. The induction theorems of the library cannot be used for them (they take an
operator as a parameter), so that `ReportProofs` proves what it needs by hand: of a set of
finite sets that are counterexamples take a smallest (`SmallestSet`, `LeastNumber`, both
from the well-foundedness of the subset ordering and of <). This gives that the recursion
defines a function (`TableExists`), that the order of the elements does not matter
(`SumSplits`), and that groups add up (`SumOfGroups`).

Proving changed the model in two places. `FiguresAgree` used to allow for a changed ticket
once in the dashboard; within the bound of the run that is so, but a ticket that is
bought, refunded and then found used while one report is put together is counted
twice against no purchase, and the property now says so. The lockout was
computed by a filter on sequences and is now stated on sets of positions.

The assumptions are those named in the modules, which TLC evaluates on every run:
times, fares, limits and distances are numbers, amounts of top-ups positive; NULL is no
value; sets of routes and of stop ids are finite; at least one guess is allowed, there
is a lockout and the guard looks at no fewer events than there are lockouts
(`AccountAssumption`; 20 and the list are constants of `auth-rate-limit.guard.ts`); a list of fares has one amount for a
pair of stops (`CatalogAssumption`: the unique key of fares refuses another), and the seed
data is a catalogue (`SeedAssumption`); the ids of online and offline scans differ
(`LifecycleAssumption`: they are primary keys of one table). The hypotheses beyond these are in the theorems
that need them: `OneRun`, `Serial`, `SequentialDrivers`, `SequentialAdmins`,
`SequentialSessions`, `~Interim`, `Calls = {c}`.

Only model-checked: liveness (`ExpiredIsSettled`, `ScansEnd`, `RecordedIsCredited`), as
fairness and ENABLED are beyond the prover, and the counterexamples of
`topup_duplicate` and `lifecycle_refund`.

## Not modelled

Formatting, localisation and pagination; the content of QR codes and signatures
(a code is genuine or it is not), of webhook signatures and request bodies; HTTP
plumbing, guards by role; access tokens, which are stateless. Of analytics, the trips
report and its export, the suggestions of drivers for a route, their metrics and the
layout of the exports: reads of one statement each, with nothing between them. Of
notifications, everything but text messages; of users, reading and editing one's
details, which decide nothing. `markUsed` and `expireAndRefund` of
`tickets.service.ts`, `updateSegments` and `softDelete` of `routes.service.ts` are
called by nothing but tests. Seed data is what `Init` or `Seed` starts from.

Amounts are integers, where the columns are Float: in `Reports` an amount counts the
smallest unit in which fares differ, `PerBirr` to a birr, and sums are exact, so that a total of
the database may differ from it by the error of floating point; elsewhere rounding
decides nothing. Several processes of the server
are any interleaving of handlers here.

## Plan

Done: tickets, idempotency, top-ups, trips, accounts, routes, audit, reports; every
safety property and both refinements proved. Next, in this order:

1. What overlapping handlers still promise of a ticket: a weaker promise than
   `TicketPromise` (admitted once, charged at most its fare once more than refunded) that
   the lifecycle implements for any `MaxInFlight`.
2. A lemma library of sums, now part of `ReportProofs`, for the ledger: what the
   balance of a wallet adds up to when its handlers do not overlap.
3. Shorter proofs where a lemma is stated for one property and would serve two
   (`MaxIsThere` and `Largest` in `AccountProofs`, `Bigger` in `ReportProofs`).
