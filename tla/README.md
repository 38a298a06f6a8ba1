# Formal model of the road-inspection system

TLA+ modules, TLC runs and TLAPS proofs about the server of the repository
(`apps/api`, NestJS with PostgreSQL, Redis and BullMQ). Definitions follow the
source files named in `PROJECT.json` under `map`; comments and documents of the
repository are only quoted as claims to check.

## 1. The system

Processes: `api` (several instances), `tiles`, `case-worker`, `report-worker`,
`mail-worker`, `scheduler`, behind nginx. They share one PostgreSQL database, one
Redis and the BullMQ queues in it. There is no shared memory between requests
except a few per-process maps; everything interesting happens between
transactions, between a transaction and Redis, or between a queue and the
database.

| Component | State | Operations | What is hard | What makes it correct |
|---|---|---|---|---|
| Case numbers (`case-encode`) | `case_sequences(prefix, seq_date, last_number)` | `next`, `nextMany`, `seedCounters`, back-fill | many transactions on the same counters, failing callers, a seed script that numbers and corrects outside any transaction, lock order | no number twice, no gap but the script's, no deadlock |
| Version history (`case-history`) | `case_histories`, keyed by entity and version | `record`, `recordMany`, `restore`, previous value | MAX + 1 outside any lock, `save()` that may update, swallowed failures | versions without holes, nothing overwritten |
| Work orders (`work-order`) | order, status, workers, photos | create, update, status change with delete / withdraw / restore, photos | decisions from rows read before the transaction, any order of requests | crew and status agree, reported orders are not deleted, finished ones do not change |
| Inspections (`maintenance`) | inspection, status | create, update, batch status change, delete, restore | as above; checks of another table without a lock | a live order keeps its inspection |
| Road cases (`case-patrol`) and their ingestion | case, status, address, ingest job | add, update, status, batch; worker and daily task fill in the road | at-least-once jobs, crash between commit and dispatch, two geocoders and a user | every stored case gets a road, once |
| Idempotent requests (`http/guards`) | a Redis key per request | begin, finish, release | expiry, crash, late finish | one execution per key, replays of the right answer, no client shut out |
| Queues (`queue`) | BullMQ jobs with ids | ingest, mail, report processors | retries, stalled jobs, kept job ids | a job's effect happens once, its row reaches a final state |
| Reports, mail | `report_jobs`, `mail_jobs` | request, retry, remove | a row that is reset while its job still exists | a row that is done has its file, a mail is not sent twice, a queued row is settled |
| Tasks (`task`) | running flag, Redis lock, timeout | `run` of twelve tasks | timeout that does not stop the work, unconditional unlock | no two rounds overlap |
| Accounts and companies (`auth`) | companies, grants, user limits, accounts | create a company, grant, change a limit, create an account | check first and write later, cascade of revocations | no right below that is missing above, no account beyond the limit |
| Fleet (`fleet`, `vehicle-comm`) | sockets and contexts of a process, session in Redis, state of the vehicle's row | connect, close, heartbeat, messages, commands, edits, track reports | a reconnection overlaps the end of the old connection, dead connections | a connected device is reachable, an absent one is not ONLINE, commands end |
| Sift (`sift`) | status, judge and reviewer of a case, its history | judge and review batches | a transaction that needs a second connection of its pool, stale rejections | history tells the status, settled verdicts stay, batches end |
| Surveys (`survey`) | orders, stretches, cases, their history | intake from phones, edit, delete, restore, transfer, close | repeated intake, calls that read before they write | stretch, history and closure agree; what a phone sent is answered |
| Login guard, API keys | failure counter, cached keys | login failure, revoke | counter without expiry, cache filled after a revocation | – |
| Realtime (`websocket`) | sessions, presence, edit locks | connect, heartbeat, lock | several tabs, expiry between read and delete | presence and lock follow their owner |
| Others | master data, statistics, map tiles | mostly reads | – | – |

Interactions: `WorkOrder.create`, `Maintenance.create`, `CasePatrol.addCase`,
`Survey.appIntake` and `createAccount` take numbers inside their transactions; the seed script takes
employee numbers in statements of their own and corrects the counters afterwards.
Handlers change rows in one transaction and call `record` afterwards in another;
`Sift.apply` calls `recordMany` while its own transaction is open.
`WorkOrder` writes the status of its source (case or inspection) and its
history; `Maintenance` reads the status of its order before a deletion; `restore`
of the history writes statuses directly. `addCase` runs behind the idempotency
interceptor and adds an ingest job; the worker, or a daily task, fills in the road later.
Everything that happened is published on Redis, best effort.

`PROJECT.json` lists every component with its status and every hazard with its line.

## 2. Modules

| Module | Models | State |
|---|---|---|
| `NumberLedger` | abstract promise of the numbering: a ledger per counter, appended by one transaction at a time, all or nothing; lines without owner only where the seed script corrects | `book` |
| `CaseEncode` | `nextMany` as the row-by-row execution of its statement with PostgreSQL's row locks, commit, rollback, the accounts of the seed script and its correction (`seedCounters`); implements `NumberLedger` | counters, row locks, progress of each transaction and of the correction, numbers passed over |
| `CaseHistory` | `record`/`recordMany`: read MAX, look up, insert or update, fail in any way | progress of each call, author of each version |
| `Dispatch` | work orders, inspections, cases, status history | rows, history of statuses, the pending part of each request, inspections that may be lost |
| `TaskRunner` | `run` of one scheduled task in several processes: flag, Redis lock, timeout, crash | progress of each call, flags, lock, work that goes on |
| `Jobs` | a row of `report_jobs` or `mail_jobs`, its BullMQ job, the clients and the worker | row, file, job, worker, clients, counts of attempts and deliveries |
| `Idempotency` | the interceptor around any handler: the abstract handler only begins, succeeds or fails | record under each key, place and answer of each request |
| `Ingest` | `addCase` behind `Idempotency`, the ingest queue, its worker, the task that fills in missing roads, a user who types one; implements `Idempotency`, and `NumberLedger` for one project | handler, counter, cases, roads, jobs, what each geocoder is doing |
| `Companies` | the tree of companies: grants, cascade, limits, accounts | companies, grants, limits, accounts, the pending write of each request |
| `VehicleComm` | gateway and service of one device's connections | sockets, contexts, heartbeat, held socket, session, row, commands |
| `Sift` | judge and review batches over a pool of connections | status rows, histories, progress and locks of each batch, queue of the pool |
| `Survey` | orders, stretches and cases of pavement surveys, requests of phones and desk calls | rows, history of status and moves, pending part of each call |
| `...Proofs` | proofs about the module of that name; `IngestProofs` also about `Idempotency`, `HistoryProofs` about `CaseHistory` and `Dispatch`, `BackgroundProofs` about `TaskRunner` and `Jobs` | – |
| `MC...` | instances for TLC | – |

How actions correspond to code:

* `CaseEncode`: `Send` is everything `nextMany` does before `db.query`; `Raise(t,k)` is one
  conflicting row of the statement, which waits for the row's lock; `Commit` and
  `Rollback` end the caller's transaction. A statement reads the row it
  raises after it has got the lock, which is what `ON CONFLICT DO UPDATE` does
  under READ COMMITTED. The text of a number is abstracted to its sequence
  number: prefix and date are the counter row, and rows are known by their rank
  in the sort order. `Legacy` is the highest number a row had when the table was
  made; the block up to it counts as used. A crash of a process is a rollback.
  `Bare` transactions are the accounts of the seed script (`seed.ts:370-414`): `next()` without an executor commits alone (`loose`), and
  the user is saved later (`SaveUser`) or never. After its accounts the script reads, for every company, the highest employee
  number of all years (`ReadMax`, `Highest`: `Years` names the rows of a company) and sends `seedCounters` for the row of one year:
  `SeedRow` locks a row of that statement, in any order, `SeedCounters` is its end. `jumped` remembers the numbers a correction has passed over and influences nothing.
* `CaseHistory`: three steps per call, because `save()` of TypeORM (external) is
  a SELECT and then an INSERT or an UPDATE. A failed INSERT fails the call (`Fail`), as the primary key does; `Break` is any other failure
  the same `catch` swallows. A batch is a set of entities: every caller lists rows of its table, each once, although `recordMany` could number one twice.
  An INSERT that meets an uncommitted row waits for it; the model has
  no separate commit step because the wait ends with the same outcomes. `met` records which calls
  ever ran at the same time as another on a common entity; it influences nothing.
* `Dispatch`: each client has at most one request. `...Check` is the part of a
  handler up to its transaction: the rows it reads, its early returns and the
  status it decides on; `...Write` is the transaction; `Record` the history
  written after it. `MaintWrite` writes its version itself because that handler
  records while its transaction is open and holds the row. Handlers whose
  reads decide nothing (photos, `SetNeedRepair`, version restore) are one step.
  `uploadImages` of several photos is one step that leaves the required set complete or not.
  A batch of inspections is a request per inspection: the rows of a batch
  influence each other only through the common transaction. Statuses are the integers of the code; action codes
  8 (restore) and 9 (withdraw) are requests and never statuses. The trail of an
  entity is the sequence of `status` (`needRepair` for cases) in its snapshots.
  `LossyHistory` lets any version be lost, as the swallowed failure of `record`
  does. `exposed` marks the inspections that a live order may have lost: an order was made or restored while a deletion of the inspection had looked and not
  written (`Dispatches`), or came back to life by a way that does not look at the inspection (`Revives`), or a version was restored. It influences nothing.

* `TaskRunner`: one action between any two points where `run` awaits something
  or a timer may come first. `working` is apart from `stage` because
  `Promise.race` stops waiting without stopping `jobFn`; `late` remembers the calls
  whose timer has fired. A call that throws on a broken Redis connection, before
  or after the lock was set, is `AcquireFails`; `Unlock` may fail in the same way.
  `InstanceDies` empties the memory of a process. Whether a
  task is enabled is left out: a call that returns at that test changes nothing.
  Two assumptions about time and Redis: a call that is going to delete its lock does so
  before the lock expires (30 s after the timeout), and a DEL that has taken effect is not sent again.

* `Jobs` follows one row, a report or a mail (`kind`, chosen in `Init`): job ids are made from row ids, so
  rows do not meet in the queue. Client actions are the awaited steps of `createReport`, `deleteReport`,
  `enqueue`, `retry` and `remove`; a client that dies stops between two of them. `ReportReset` is the `save()` of
  a row that was read earlier: it overwrites any state, keeps `file_key` (undefined values are not written) and
  inserts a row that has been deleted in the meantime (`reborn`). Worker actions are the awaited steps of `process`. BullMQ is external:
  an id that exists is not added, an active job is not removed, a failed attempt waits again
  up to `Attempts`, the job of a dead worker stalls and is run again `MaxStalled` times. The
  lock of a living worker is taken as always renewed. Every statement of a worker may fail, before or after it took effect
  (`DatabaseFails`): in front of the `try` the attempt just ends, a result that cannot be stored goes to the `catch` although the mail is sent
  (`StoreFails`), and an error of the `catch` ends the attempt without a word. `unstored` counts the second, `unsaid` marks a job whose last
  attempt ended in one of the other ways; they influence nothing. `send()` (`mail.transport.ts:30-40`) either returns or throws before it has handed the mail over.

* `Idempotency` has one action per Redis command, since each is awaited, and `Succeed` and `Fail` where the handler
  ends. The final SET or DEL is not awaited in the code: `Store` and `Release` happen after the client has its answer. When such a
  command fails, its promise is rejected with nobody to handle it, which ends the process: that is `Crash`. A comment of
  the interceptor (line 21) promises 422 for another body under the same key; the code answers 409. Either refuses.
* `Ingest` extends `Idempotency` and splits "the handler runs" into the awaited steps of `addCase`. `InsertIgnored` is an insert that
  `orIgnore()` dropped because another request has stored the case since `Known` looked, or because the same detection is stored under another
  external id (`detectionOf`); then the row is looked for by the new id and not found. `Neighbour` is such a request, without repetition or key of its own: its transaction, after which its
  server stops; the daily task finds the case. A case whose project is not known takes no number and always fails, since the
  table has a CHECK that the number is there (`Projected`; the run has no such case, the theorems do). Geocoders look, ask the service, and write
  in separate steps. `CrashOfServer` ends every request at its step and leaves database, queue and keys. A crash may
  so lose the job of a stored case. The daily task is `Scan` (the list of cases without a road) and one case after the other, and does not overlap itself, by the lock of `TaskRunner`.
* `Companies`: `...Check` is what a request reads and tests, `...Write` its transaction. Transactions run one after the other:
  how the statements of two of them could interleave under READ COMMITTED is not modelled. Which requests overlap harmfully is
  recorded in `overtaken`, which influences nothing; `skipped` records grants that the platform makes past a contractor.
* `VehicleComm`: handlers of a process run one at a time between awaits. `Attach` is `attach()` up to its first statement on the row and `Mark` the rest, `Disconnected`
  the synchronous part of `handleDisconnect` and `detach`, `LookUp` and `MarkOffline` its statements. A connection that is cut gives no event until
  the next `Beat` (ping without pong) terminates it. `Edit` and `Report` are the two endpoints of the fleet that also write the state; `OFFLINE` stands
  for `IDLE` too. There is one instance of the API. A `detach()` whose statement fails is
  a rejection nobody handles, which ends the process: that is `Restart`.
* `Sift`: the steps of `apply` between its statements. Row locks are taken by the UPDATE and held to the end of the transaction;
  `recordMany` needs another connection of the same pool, whose queue is first come, first served. `IdleTimeout` is
  `idle_in_transaction_session_timeout` of the connection options. `Order` and `SetStatus` are the other writers of the rows: orders, and
  `updateStatus` of the cases, which looks at none of the rules of `rejectReason`. Marks (`unlogged`, `overlapped`) influence nothing.
* `Survey`: a call reads, then writes in one step. `WriteBatch` and `WriteTransfer` may lose their history, or keep it although the commit fails.
  As in the code, saving an order without a state makes it a draft again, `upsertCase` and `appIntake` do not look at whether the order
  is closed, `transfer` tests only the target, and `upsertCase` with another order keeps the old stretch and writes no history.
  With `STATE = DELETED`, `upsertCase` sets the state column alone; that column is left out.

## 3. Runs

| Run | Instance | Shows |
|---|---|---|
| `encode` | 3 transactions, one of them an account of the seed script, 4 counters: one of cases with a legacy number, two years of a company with employees, one of a company without; batches of 1–2 | numbers unique, gaps only where and as the script leaves them, no statement waits for ever, refinement of `NumberLedger` |
| `history` | 3 calls, 2 entities | versions without holes; a key is only a duplicate for a rival; a failed batch leaves nothing; an undisturbed version stays |
| `dispatch_seq` | 1 client, 1 order id, a case and an inspection, 1 worker, up to 5 versions of the order | the rules that span several endpoints, for requests one after the other |
| `dispatch_conc` | 2 clients, 1 order id, 1 inspection, 1 worker, up to 2 versions of each, lost history | a live order has an inspection, but for the marked ways to lose it |
| `tasks` | 4 calls of one task, three in one process, one in another | one call waits for work; only late work overlaps; every call returns |
| `jobs` | one row of either kind, 2 clients, 2 attempts, one death of the worker, statements that fail | row, file and deliveries agree; a queued job settles its row |
| `ingest` | a request and its repetition, 1 key, their case and one of a neighbour with the same detection, 2 workers and the daily task, 2 attempts, 2 faults | one handler at a time, no second version from a repeated job, every case gets a road, the device its answer unless the neighbour was first |
| `companies` | platform, contractor and subcontractor, 2 requests, 1 action, limits up to 1 | grants nest, limits are kept, but for the marked ways around |
| `vehicle` | 2 connections, 1 command, 1 fault | who is served is held, watched, and dropped when dead; an absent device is not ONLINE; commands end |
| `sift` | 3 batches, 1 case, a pool of 3, 1 failure or status set by hand | history tells the status, settled verdicts stay, batches end |
| `survey` | 2 orders, 1 stretch, 1 case, 2 phones, 2 desk calls, 1 failure, 1 further edit | stretch, history and closure agree; every case is answered |
| `device_reconnect` | as `vehicle` | violated (finding) |

Why the bounds are enough. A deadlock or a duplicate needs two transactions and two
rows; the third transaction lets a row be free and be taken again in between. A correction needs a company with an
older year to pass over numbers (rows 2 and 3), a company without to do nothing (row 4), and a row it has no part in (row 1). In
the history, a lost version needs two calls, and a batch needs two entities; a third call sees what two have left. In `dispatch_seq`
five versions of an order allow create, report, withdraw, delete and restore in one
behaviour; `MaxVersions` is the only bound and only stops new requests from starting.
In `jobs`, `Attempts = 2` (mails: 5) has a first and a last attempt; `MaxCrashes = 1` is also the number of
stalls after which BullMQ still runs a job: with a second death it gives the job up and the row
stays RUNNING; `MaxQueued = 2` allows one repetition. Races between check and write involve two requests. A source has one order for ever, so
one order id is enough for one inspection. `SYMMETRY` (clients) is used in
`dispatch_conc`, which has an invariant only. In `tasks`, two calls of a process pass the flag
together and a third finds it set or cleared; the fourth meets their lock from another process.

In `ingest` everything is about one case and the requests for it: the request, and the repetition that races it, follows it or finds its
remains; and about one case of a neighbour that has the same detection, which is all that cases can take from each other besides numbers. Two workers are an attempt and the one BullMQ starts when the first seems to have stalled. Two faults allow a crash and then an
expiry in a bad moment. Cases influence each other only through the counter, which `encode` covers.
In `companies` three tiers are all that the code allows; a single action and limit suffice because both are compared only with themselves.
In `vehicle` a reconnection involves two connections; a socket is used again for a later one, so chains of reconnections
are covered. In `sift` the smallest pool full of batches that wait for themselves has two; with three, one holds the rows, one waits for the
rows and one for the pool. Batches are numbered in the order they are asked in, which loses nothing. More
cases in a batch behave like the case whose lock is waited for. In `survey` two requests race for the unique index and two desk calls for the
same case; the third writer is the form. Every bounded counter (`MaxFaults`, `MaxEdits`, `MaxVersions`, `MaxCrashes`, `MaxQueued`, `MaxUsers`) only keeps further
faults or requests from happening.

`CHECK_DEADLOCK FALSE` is set where every transaction or call of an instance happens once, or requests stop at a bound, so that
the instance ends by design; `companies` and `vehicle`, whose requests never run out, are checked for deadlock. That nothing is stuck elsewhere is
checked by `EveryStatementEnds`, `EveryCallReturns`, `QueuedJobSettlesRow`, `EveryCaseGetsARoad`, `EveryDeviceIsAnswered`, `EveryBatchEnds` and `EveryCaseLands`.

Fairness. `CaseEncode`: strong fairness of the raising of rows, since
PostgreSQL serves the waiters of a row lock, and weak fairness of commits, since a
caller that has its numbers goes on to commit or throw, and the same of the rows and the end of `seedCounters`; nothing is assumed of
`Send`, `Rollback`, `SaveUser`, `ReadMax` or `SeedFails`. `TaskRunner`: weak fairness of the steps of a call, its
timer included; none of the work itself, which may hang,
of the expiry of the lock, nor of crashes. `Jobs`: weak fairness of the worker and of BullMQ, whose timers run for ever (an attempt is
assumed to end, by its result, an exception or a failing statement), and of `Dispatch`, since a client that has written its row goes on unless the API dies.
`Ingest`: weak fairness of the steps of a request, its repetition included, of the expiry of keys and of the daily task, which the scheduler
starts every day; that a client repeats its request until it is answered is what the interceptor is written for. The workers need not run at all, and faults
are finitely many. `VehicleComm`: the heartbeat, the sending of a command and its timeout; the device and the network owe nothing. `Sift`: weak fairness of the steps of a batch, of which the idle timeout is one. `Survey`:
weak fairness of a request's steps and of the phone's repetition of what was not answered.

## 4. Findings

`device_reconnect`: `attach()` closes the old connection of a device that reconnects and stores the new one. The
close event of the old connection arrives afterwards, and `detach()` deletes the entry and the session of the device and sets the vehicle
OFFLINE, whichever connection they belong to. Commands to the connected device are refused until it reconnects once more; `ServedIsHeld` says that this is the only way to lose the entry.

Known disagreements. These properties are in the modules and TLC refutes them when they are added to the configuration named; no run
checks them, so that each remaining run answers a question of its own:

* `CrewDecidesStatus` (`DispatchSequential.cfg`): plain status changes do not look at the crew (`work-order.service.ts:457`), so the "system
  invariant" of `docs/internal/architecture.md:108`, that people mean "working" and nobody means "pending", does not hold.
* `DeletedOrderFreesSource` (`DispatchSequential.cfg`): a deleted order blocks its source for ever (`work-order.service.ts:92`), whose comment at line 499
  wants it dispatchable again.
* `RestoredOrderDispatchesSource` (`DispatchSequential.cfg`): restoring an order does not bring its source back from
  "watching" to "dispatched" (`work-order.service.ts:530-538`).
* `LiveOrderKeepsInspection` (`DispatchConcurrent.cfg`): `updateStatus` of the inspections reads the order without a lock and `softDelete` then writes by id
  (`maintenance.service.ts:282`, `330-372`): an order that is created or restored in between is alive while its inspection is deleted, against
  `docs/internal/architecture.md:113`. `LiveOrderHasInspection` is what is left of it.
* `ClosedCrewIsFrozen` (`DispatchConcurrent.cfg`): `update` of an order tests the status it has read before its transaction (`work-order.service.ts:236-242`) and does not look
  again: the crew of an order that was finished or deleted in between changes, which lines 241-242 refuse.
* `ResentDetectionIsAnswered` (`Ingest.cfg`): a detection whose time, photo and number are stored under another external id finds no row of its own
  (`case-patrol.service.ts:172`) and is answered with an error however often it is repeated. The comment at 74-77 and `docs/api.md:62-65` count the unique key of the three
  among the layers that make repetition safe, and promise a repetition success.
* `AppendOnly` (`CaseHistory.cfg`): `save()` overwrites a version that has the same number instead of failing (`case-history.service.ts:168`).
* `RequestedReportEnds` (`Jobs.cfg`, with one client and `MaxCrashes = 0`): a failed report that is asked for again is never made while the queue keeps its old job
  (`report.service.ts:93`).
* `ReviewedStays` (`Sift.cfg`): a judge who read a case before its review was committed overwrites the reviewed verdict afterwards, and the status endpoint
  asks nothing (`sift.service.ts:180`, `case-patrol.service.ts:418`).
* `NoOrphans` (`Companies.cfg`): a subcontractor can keep a grant that its contractor has lost or never had (`company-tree.service.ts:277`, `319`).

Seen while reading, named by the properties rather than refuting one: the seed script leaves gaps in the numbers of employees
(`seed.ts:374`, `425-440`; `OnlySeedLeavesGaps` says which), where `docs/internal/architecture.md:150` reports none of the counters, measured without the script; and a report whose last
attempt meets a failing database stays RUNNING, which `deleteReport` and `createReport` both refuse (`report.processor.ts:44`, `56`; `QueuedJobSettlesRow`).

## 5. Proofs

Every theorem holds for all values of the constants that satisfy the named assumptions of its module: any sets of
transactions, calls, requests, companies, sockets, batches, orders, and any bounds. The assumptions keep values of different kinds apart
(no transaction is called "legacy", no worker is called like the marker of a typed road, orders are not sources, a company's rows include the one the script corrects), and make the sets that are counted finite:
the counter rows of `CaseEncode` (`KeysAssumption`), the calls of one behaviour in `CaseHistory` (`WriterAssumption`), the external ids in `Ingest` (`ExtAssumption`).

`CaseEncodeProofs`: `Inductive`, `TypeCorrect`, `GapsAreTheSeedScripts`, `NumbersAreUnique`, `CountersImplementLedger`.
Neither `OnlySeedLeavesGaps` nor `NoDuplicateNumber` is inductive. `IInv` adds how the locks, the
rows still to be raised and the counters fit together: a transaction holds exactly the rows it has raised, the base of
a held row is the counter, and the pools of finished transactions lie
below it and apart from each other. `CoverInv` says that every number up to a counter is used, unsaved or passed over, `JumpInv` that what was passed over
lies below a number in use in the same company, and `ReadInv` that what the script has read still does, because numbers in use never leave; `FiniteMax` finds the maximum it reads. `NthInjective`, `NthBounds` and `NumberInPool` lead from pools
to single requests; uniqueness then follows because pools of live transactions
are disjoint (`LivePoolsApart`). For the refinement, `OwnersFit` says that the owner of a number is the committed transaction whose pool it is in;
only `Commit` changes the ledger, by one pool at the end of every row it holds (`CommitMoves`, `CommitEnters`), `SeedCounters` only adds lines without owner
(`SeedRowAccounts`, `BookGrows`, `CorrectionPassesOver`), and every other step leaves counters and committed pools alone (`BookStands`).

`HistoryProofs`, first part: `HistoryInductive`, `HistoryTypes`, `VersionsHaveNoHoles`, `SoloVersionsAreKept`, `RefusalsHaveRivals` and `OverwritesAreRaces`.
The last one is the positive side of `AppendOnly`: a version changes its author only if the old and the new author have both overlapped with another call.
`HistoryIInv` adds who wrote what (`AuthorsSaved`), that a computed number follows a version that exists (`NumbersFollow`), that two calls under way for one entity
have both been marked (`RivalsMet`), and that the number of an unmarked call is free while it is under way (`FreshNumbers`) and no one's target after it (`SoloApart`).
A call that breaks in any way is in no version (`RefusalsHaveRivals`).
That `MAX + 1` stays within `1 .. Cardinality(Writer)` is a counting argument (`NextVersionFits`: every version has an author of its own, and the caller is not among them).

`HistoryProofs`, second part, about `Dispatch` with any clients, orders and sources: `DispatchInductive`, `DispatchTypes` and `LiveOrdersHaveInspections` hold however requests
overlap and whatever history is lost. `IInv` adds that the versions of a source show statuses of sources (`SourceTrails`), since a restore writes back what a version
says, and that a pending status request has found its row (`JobsFit`). `Resolved` and `MaintResolved` say what the action codes of the endpoints can resolve to.
For the inspections, `LiveInv` adds to the property that no deletion of the inspection of a live order is under way unless it is marked: a deletion begins only when it sees no live order (`LookKeepsLive`), and whoever
makes or revives one afterwards marks the inspection (`DispatchKeepsLive`, `NothingRevived`).
The rules that span several endpoints hold for requests that come one after the other, as in `dispatch_seq`; their theorems have the hypothesis `OneRequest` (there is
one client; a second one may change what a handler has read). `ChecksHoldUntilWritten` proves that what a handler has checked is
still true when it writes (`AllChecked`), and `LockedOrdersStay` and `FinishedOrdersHavePhotos` follow with the one lemma
`StatusOfStep` about what a step does to a status. `OrderTrailsAreCurrent` needs besides that history can be written (`LossyHistory = FALSE`);
its invariant `TrailsFollow` says that an order whose newest version is behind is about to be recorded, with the status it has.

`BackgroundProofs`, about `TaskRunner`: `TaskInductive`, `TaskTypes`, `SupervisorOwnsLock`, `FlagIsExact` and `OverlapIsLate`.
The invariant adds `OrphansAreLate`: work that nobody waits for has had
its timeout. Two calls whose work is in time are therefore both being waited for, both own the one lock, and
are the same call.

`BackgroundProofs`, about `Jobs`: `JobsInductive`, `JobsTypes`, `DoneReportsHaveFiles`, `SendsAreCounted` and `MailsAreNotRepeated`. The
parts of the invariant: an attempt that may still deliver has a
queueing, a death or a result that was not stored to its account (`CreditInv`, `Owes`), an attempt that sends has been counted (`CountInv`), the file is there
from its upload on, before the row says so (`FileInv`), and neither job nor client is there before the row (`RowInv`).

`IngestProofs`: `IdemInductive` proves for the interceptor around any handler that a request which will still write its key owns the record there, unless
the key is tainted by a request that ran without it; and that stored and replayed answers fit key and body. `KeyExcludes` and `ReplaysFit` follow.
`IngestImplementsIdempotency` shows that every step of the ingestion maps to a step of the interceptor or a stutter, so `OneCaseAtATime` and
`IngestAnswersFit` come for free.

Also in `IngestProofs`, about `Ingest` itself: `IngestInductive`, `IngestTypes`, `OneVersionPerRoad` and `CasesFormLedger`. `NumbersFit` ties the counter to the stored cases: as
many cases as numbers, every number on one case. With it the counter that `addCase` takes in one step is the ledger of `NumberLedger` with one row, which is what
`CaseEncode` provides: the two modules meet in the abstract one. `WorkFits` has the invariant of the geocoders: a job that may run has an attempt left, the daily task has no case both in hand and in its
list, and a case that was never written behind a geocoder's back (`Undisturbed`) is looked up by nobody once it has a road, and recorded by at most one. `RepeatedJobWritesNoSecondVersion` alone is not inductive, since it does not
know how many records are on their way.

`CompaniesProofs`: `CompanyTypes`, `QuotaHolds` and `GrantsAreCovered`. What a request is going to write must already fit:
`QuotaInv` and `GrantInv` say of every pending write that it fits the limit or the grants of the parent, or that its company is marked as overtaken.

`VehicleCommProofs`: `DeviceTypes`, `DeviceWatched`, `DeviceReachable` and `DeviceOffline`. `HeldInv` extends `ServedIsHeld` to connections whose `attach()`
has set the entry and waits for the row. `OnlineInv`: a vehicle that is ONLINE has a context or a `detach()` on its way that will look at it.

`SiftProofs`: `SiftTypes`, `SettledCasesStay` and `HistoryTellsStatus`. `LocksApart` (no two batches hold a row) and `ReadStands` (a row that was read is as it was
read, unless marked) form `SettledInv`; `LinesTell` says whose line is the last while a batch has recorded and not committed.

`SurveyProofs`: `SurveyTypes`, `StretchOfItsOrder`, `AppNumbers`, `DeletedHasItsLine`, `MovesAreTold` and `FrozenWhenClosed`. `StretchInv`, `DeletedInv`, `MovesInv` and `OpenInv`
extend the properties to cases that do not exist yet and to what pending requests will write.

Only model-checked: liveness (`EveryStatementEnds`, `EveryCallReturns`, `QueuedJobSettlesRow`, `EveryCaseGetsARoad`, `EveryDeviceIsAnswered`, `DeadAreDropped`,
`EveryCommandEnds`, `EveryBatchEnds`, `EveryCaseLands`), because the prover has no way to reason about fairness or about whether a step is
possible, and for the same reason the absence of deadlock in `companies` and `vehicle`. All other properties of the passing runs are proved.

## 6. Plan

Done: `CaseEncode`, `NumberLedger`, `CaseHistory`, `Dispatch`, `TaskRunner`, `Jobs`, `Idempotency`, `Ingest`, `Companies`, `VehicleComm`, `Sift`, `Survey`. Left, in this order:

1. Proofs: variants of `LockedOrderNotDeleted` and `ClosedCrewIsFrozen` for overlapping requests, with marks as in `LiveOrderHasInspection`.
2. Realtime: sessions, presence keys and edit locks of several tabs and instances.
3. `LoginGuard` and the cache of API keys, on the expiry of `Idempotency`.
4. Creation of inspections with their pothole numbers in `Dispatch`.

## 7. Not modelled

Reads (lists, statistics, map queries, diff, compare), formatting of numbers and
messages, storage of files, master data, tokens and passwords, the web client, notifications
(sent best effort; nothing depends on their arrival).
Photos, fields and pothole numbers of inspections are not in
`Dispatch`; `Init` has the source rows that `create` and `addCase` leave.
In surveys, `upsertDetail`, measurements, the write-back of PCI to road segments and order numbers
(COUNT + 1 without a lock); in the fleet, positions, simulated devices and a device's connections to several instances. The web client
and the seed data are most of the lines of the repository; neither has state that others depend on.
