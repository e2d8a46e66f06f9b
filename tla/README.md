# Refund API: a TLA+ verification project

The Refund API is a FastAPI service in which employees ask for refunds and
administrators decide and pay them. One process, one asyncio event loop, one
PostgreSQL database behind a connection pool, three file storages (receipts,
payments, avatars; a local directory or a prefix of an S3 bucket), and two
command-line jobs. This directory models the parts of it whose correctness
depends on order, failure and time. The paths below are those of the repository.

## 1. Inventory

"Hard" names the behaviour a test hardly reaches; "correct" what has to hold
of it. `PROJECT.json` lists the hazards line by line.

| component (source) | state | operations | hard | correct |
|---|---|---|---|---|
| refund creation (`refund_creator_controller.py`, `refunds_repository.insert_refund`) | table `refunds`, storage receipts | save, insert, compensate, re-read | a failure before, at or after the commit; `round()` between save and `try`; a deletion before the re-read | a row has its receipt, a receipt without a row has a known cause |
| refund deletion (`refund_deleter_controller.py`) | `refunds`, receipts | read, `DELETE … WHERE status='pending'`, delete the file | the status is checked in an earlier transaction; two deletions; a decision in between | only undecided refunds disappear, their file after them |
| refund review (`refund_reviewer_controller.py`, `refund_status_repository.py`, `refund_reviews_repository.py`) | `refunds`, `refund_reviews`, row locks | `SELECT … FOR UPDATE`, update, insert, commit | waiting reviewers and payers, `lock_timeout`, a failure between the two writes | status and history change together; paid is terminal; nobody decides their own |
| refund payment (`refund_payer_controller.py`) | the same, storage payments | read without lock, save, conditional update, insert, commit, compensate, re-read | a second payment or a rejection between read and update; a commit that raises; a session that fails to close | one payment, its file kept, no file of a lost race left |
| refund life cycle (`docs/business-rules.md`, entities) | a claim and its history | create, delete, decide, pay | many writers | BR-015, 016, 017, 022 |
| unit of work, sessions (`unit_of_work.py`, `database_connection_handler.connect`) | open transactions, locks | commit, rollback, close | rollback or close raising | no lock outlives its transaction |
| storages, quiet deletion (`file_storage.py`, `s3_file_storage.py`, `file_cleanup.py`) | sets of files | save, delete, list, sign | a delete that fails, a file that vanishes between two system calls | failures are logged, callers go on |
| avatars (`avatar_uploader_controller.py`, `avatar_remover_controller.py`) | `users.avatar_filename`, storage avatars | read, save, update, delete the previous file | overlapping requests of one user; a durable update that raises | the column never names a deleted file |
| orphan sweep (`jobs/orphan_sweep.py`, `init/sweep_orphans.py`) | a process of its own over database and storages | read references, list, delete | rows and files change during the sweep; two sweeps; kills | never removes what a row names or will name; misses no old orphan |
| rate limiter (`middlewares/rate_limit.py`, `routes/auth_routes.py`) | a deque per (scope, client) | `allow` | the window's boundary, a deque that forgets, restarts | no window holds more than the limit |
| connection pool (`database_connection_handler.build_engine`, `unit_of_work.py`) | 15 connections | borrow, wait, time out | lock waiters hold connections that others need; whatever ends a session has to give its connection back | a full pool never waits for itself, nobody is refused a connection because of a few blocked rows, every request ends |
| listing, summary, calendar, statistics (`refunds_repository.py`, `users_repository.py`, their controllers) | none | several `SELECT`s per answer, day arithmetic | statements with different snapshots, pages with moving offsets, equal sort keys, midnight, leap days and December | a quiet listing is complete, a write costs at most one row, the endpoints agree |
| accounts (register, login, `promote_admin.py`, `jwt_handler.py`) | table `users`, signed tokens | register, log in, promote | two registrations of an email, a promotion, a token that outlives it | one account per email that never shrinks, a stale role expires with its token |
| finders, signed file URLs (`*_finder_controller.py`, `file_routes.py`, the storages' `get_url`) | links in the clients' hands | check and sign, serve | the grant is checked once and used later, rows and files change in between | a link shows nothing its reader is not entitled to, ends, and works while a row names the file |
| server, middlewares, problem details (`server.py`, `middlewares/`, `logging_config.py`) | context variables, log lines | six layers down and up | the order of the layers, tasks that copy the context, exceptions that pass every layer | an answer's id is that of its log lines, one access line each, no token in a log |
| refund finder, review lister, user finder | none | one `SELECT` | – | the ownership check |
| settings, migrations | none over time | configuration | – | – |

How they interact: a controller calls repositories (each call a session and a
transaction of its own, except inside a `UnitOfWork`) and storages
(synchronous, so no other coroutine runs during a storage call). Requests meet
only in the database - committed rows and row locks - and in the storages. The
sweep meets the requests in both, without any lock. The limiter is memory of
the process and its `allow` contains no `await`. Tokens and links carry a
decision away from the database: whoever has one is not looked up again. Every
request passes the middlewares, which share nothing but the sequence of ids.

## 2. Modules

| module | what it is |
|---|---|
| `RefundLifecycle` | abstract: what may happen to one refund |
| `RefundApi` | detailed: the four operations that write refunds, as concurrent requests |
| `RefundApiProperties` | its properties, its inductive invariant, the refinement |
| `MCRefundApi` | users, seeds and call sets for TLC |
| `RefundApiProofs` | theorems about `RefundApi` |
| `AvatarApi`, `MCAvatarApi`, `AvatarProofs` | uploads and removals of avatars |
| `OrphanSweep`, `MCOrphanSweep`, `SweepProofs` | the sweep next to the API |
| `SlidingWindow` | abstract: a limit per rolling window, from the whole history |
| `RateLimiter`, `MCRateLimiter`, `RateLimiterProofs` | the deques of `allow` |
| `ConnectionPool`, `MCConnectionPool`, `PoolProofs` | sessions, connections, row locks and both timeouts |
| `Calendar` | dates and the half-open windows of every report |
| `Reports`, `MCReports`, `ReportsProofs` | listings and summaries, statement by statement, against writers |
| `Accounts` | accounts, logins, tokens and their age |
| `SignedFiles`, `MCSignedFiles`, `SignedFilesProofs` | links to files; extends `Accounts` and composes with it |
| `RequestPipeline`, `MCRequestPipeline`, `PipelineProofs` | the middlewares, ids, log lines and headers |

### RefundApi

An action is what a request does between two awaits. `pc[r]` is where the
coroutine of request `r` is suspended; the labels are named after the statement
it will execute next.

| code | actions |
|---|---|
| `RefundCreatorController.create` | `CreateRefund` (validation, `save`, `round`), `InsertRefund`, `UndoReceipt`, `CreateReread` |
| `RefundDeleterController.delete` | `DeleteRead`, `DeleteRow` (the conditional `DELETE`), `DeleteCommit`, `DeleteReceipt` |
| `RefundReviewerController.review` | `ReviewRefund` (validator, role), `SelectForUpdate`, `UpdateStatus`, `InsertReview`, `Commit`, `Rollback` |
| `RefundPayerController.pay` | `PayRefund` (validator, role, read, save), `MarkAsPaid`, `InsertReview`, `Commit`, `Rollback`, `UndoPayment`, `PayReread` |
| `lock_timeout=3000` | `LockTimeout` |
| the process dies | `Crash`: requests end, PostgreSQL discards open transactions, files stay |

State: `refunds` and `reviews` hold committed rows; `staged` the uncommitted
writes of a unit of work, published as a whole by `Publish`; `lock` the row
locks; `receipts`, `payments` the files; `logged` the deletions that
`delete_quietly` could only log; `seen` the row a request read last, which is
how stale reads become visible. READ COMMITTED is modelled by what the code
relies on: a statement reads the committed rows of the moment it runs, and an
`UPDATE` or `DELETE` that waited for a lock evaluates its `WHERE` again.

The statement and its commit are separate actions where others can see the
difference (deletion, review, payment). `insert_refund` is one action: nobody
can refer to the new row before its commit.

Failures are chosen from `Faults`: a statement or commit that fails (`db`), a
commit that is durable although its answer is lost (`ack`), a session whose
closing raises (`close`), a save that raises and may leave part of a file
(`save`), a deletion that raises (`delete`), a crash (`crash`).

Data is abstract. Amounts are five classes (nonpositive, below half a cent,
ordinary, beyond an INTEGER column, nan/inf) because the code treats each
differently; `form` stands for all remaining form checks. A serial key and a
uuid4 are fresh, so a request's refund and its file are both named after the
request.

### AvatarApi

The same style for `users.avatar_filename`: `UploadRead`/`RemoveRead`,
`UpdateAvatar`, `CommitAvatar`, `DeletePrevious`, `UndoUpload`. The `UPDATE` is
unconditional, so nothing tells a request that it overwrote another one's
picture. `updates` is a history variable, the committed updates with what each
replaced and which requests had read the column by then; it only exists to say
why a picture was left behind.

### OrphanSweep

The sweep in full, on the local back end: the two `SELECT`s as two snapshots,
the cutoff computed after them, per storage a listing (`List`), the stat of
every name (`Stat`, which raises if a name vanished between `isfile` and
`getmtime`), and for every orphan `os.path.exists` (`Visit`) and `os.remove`
(`Unlink`) as separate system calls, because the API is another process. The
API is reduced to the life of each file (unsaved, inflight, named, dropped,
gone), the projection of what `RefundApi` and `AvatarApi` do to one file when
no commit is left in doubt. `owedSince` is when a request saved the file or let go
of it: until its row is committed or the deletion has been tried, the request owes
the file that, and `Tick` lets no request take longer than `RequestTime` over it.
Several sweeps may run, one after the other or overlapping. On S3 the last two steps are one idempotent call, and a listing
does not raise when a file vanishes: those behaviours are among the modelled ones.
The clock of the storage and that of the job are taken to agree.

### RateLimiter

`Allow(k)` is `allow` for the key `(scope, client)`: drop what has expired from
the left, refuse or append. `Tick` advances `time.monotonic()`, `Restart` is a
new process with empty counters. `accepted` is a history variable, every
accepted attempt since the start; it is the state of `SlidingWindow`. `reset()`
is for tests and is left out.

### ConnectionPool

`Plan` lists, for each operation, the sessions it opens one after the other and
which of them starts with a statement that waits for a row's lock; it is the
locking skeleton of `RefundApi` and `AvatarApi`. `Ask` opens a session,
`Borrow` gives it a connection, `Acquire` the row's lock; `Finish`, `Fail`,
`LockTimesOut` and `PoolTimesOut` are the ways out, all of which but the last go
through `Close` (`connect()`'s `finally`, `__aexit__`). `OutsiderLocks` is any
other transaction: psql, a migration, a process that hangs. Time is kept as
ages, and `Tick` lets no deadline pass; in particular no time passes while a
connection is free and somebody queues. `overtook[r]`, a history variable, is
who was given a connection while `r` queued. `pool_pre_ping` and `pool_recycle`
exchange a dead connection before a session sees it and are left out.

### Reports and Calendar

A reader asks for one report and runs its statements one by one: `Total` and
`Page` for each page of a listing (a client that pages to the end),
`SummarizeStatus`, `SummarizeCategory`, `SummarizeMonths` and `SelectYears` for
a summary. Between its first and its last statement other requests commit
whatever they commit: `Create`, `Decide`, `Delete`, `Register`. `Orderings` are
all the orders the `ORDER BY` leaves open. The endpoints of one statement -
daily counts, statistics of a user - are operators over the same tables and are
compared with the others in `EndpointsAgree`. A time of day is midnight or
later: the windows tell no more apart. `given` is the last id of the sequence
behind each key: an id is not given again when its row is gone (`NextId`,
`Give`). The filter by name and the text of a search are left out.

### Accounts and SignedFiles

`InsertUser` and `CommitUser` are registration: the `INSERT` waits for another
one of the same address, the commit may be durable or not. `Login` reads the
row, `CreateToken` signs what was read; between the two the script may
`Promote`. An attempt that the limiter or the password refuses changes nothing
and is no step.

`SignedFiles` adds the rows, the files and the finders. The writers are
`RefundApi` and `AvatarApi` reduced to the life of a file: `Save`, a commit that
names it (`Create`, `Pay`, `SetAvatar`), a commit that lets go of it (`Delete`,
`SetAvatar`), `GiveUp` and `Discard`. A commit whose answer is lost ends, as it does
there, with a file taken back that a row names (`Settle`, `doubted`). `Find` is
the finder's query with its check, `GetUrl` the signature, `Accepts` what the
/files route decodes from the token, or the bucket checks, `Fetch` a browser that keeps a copy
for `max-age`. Ages stop growing once nothing depends on them.

### RequestPipeline

`Order` is what the calls of `add_middleware` in `server.py` amount to. On the
way down each layer calls the next one in a task that starts with a copy of the
caller's context (`CallNext`); `Route` may log and ends with an answer, a problem
document or an exception. On the way up each layer does to the response what
its `dispatch` does after `call_next`; an exception goes through all of them and
is answered by the outermost handler. A request that waited on a keep-alive
connection inherits the context of the one before it (`Arrive`).

What a layer or uvicorn has to say becomes a line for each handler the record
reaches (`Written`): that of its logger and, as long as they propagate, those of
the loggers above. `LoggingOfUvicorn` is what uvicorn sets up before it imports
the application, `ConfigureLogging` what the application makes of it. uvicorn's
own line for every answer has the query as the client sent it; it reaches no
handler because `configure_logging` leaves `uvicorn.access` without one and does
not let it propagate. Lines below the level INFO are not modelled.

## 3. Runs

Deadlock is checked in every run but `request_pipeline`, where nothing happens
after the last answer. In the others a run that has served everything is a
stutter of its own (`Quiet`, or a reader that has its answer), an outsider may
come, or time passes.

| run | question | answer |
|---|---|---|
| `refund_races` | three concurrent requests, all mixes of the calls that go through, sessions may fail to close | rows, history and files stay together, paid is final, answers are true, `RefundLifecycle` is implemented |
| `refund_faults` | two requests out of everything a client may ask for, all failures, one crash | the same safety, no orphan without a cause, no lock left behind, every request ends |
| `receipt_after_close` | may a durable insert lose its receipt? | yes (finding) |
| `avatar_faults` | three uploads or removals of two users, all failures, one crash | a column never names a missing picture, but for a lost answer; every orphan has a cause |
| `replaced_picture` | does a success remove the previous picture? | not if two requests overlap (finding) |
| `orphan_sweep` | two sweeps beside the API, in sequence or overlapping, all failures | safe, and thorough when one ends |
| `vanished_file` | is the local `delete` idempotent? | not across processes (finding) |
| `rate_limiter` | two clients, two routes | the deque answers as the full history would; no window exceeds its limit |
| `connection_pool` | three requests share two connections; rows may be locked from outside | nothing leaks, the pool never waits for itself, a refusal means a crowd, every request ends |
| `reports` | every kind of report against two writes | quiet listings are complete, each write costs at most one row, the parts of a summary differ by at most the writes, employees see their own refunds and their aggregates only, the endpoints agree |
| `signed_files` | two people, one of whom may be promoted; a refund, a picture, their links | stale roles expire, links keep to their readers, end, and work as long as a row names the file, but for a lost commit answer |
| `request_pipeline` | two requests with every outcome, interleaved | ids, access lines and headers are right, with the exceptions named, and no logger writes a token |

### Properties worth reading

* `HistoryExplainsStatus`: the lines of `refund_reviews` are a walk through the
  allowed transitions that ends in the row's status; nobody decided their own
  refund; a row that was ever decided still exists; the payment file is there
  exactly when the row is paid.
* `ImplementsLifecycle`: refinement of the whole of `RefundApi` to four atomic
  operations, with `refunds` mapped to claims and `reviews` to the history.
* `AnswersAreTrue`: relates the answer of each finished request to the database
  and the storages in every later state.
* `FilesBehindRows`: names the exceptions the code really has, a lost commit
  answer for the payer, and any failure after the commit for the creator.
* `EveryOrphanHasACause`, `EveryOrphanAvatarHasACause`: complete lists of why a
  file without a row exists. The sweep's own comment lists two causes; the
  models have more.
* `SweepIsSafe`, `SweepIsThorough`: the two sides of the sweep's promise.
* `NoWindowExceedsLimit` and the refinement `ImplementsSlidingWindow`.
* `RefusedOnlyWhenCrowded`: why `lock_timeout` must be shorter than
  `pool_timeout`. A request that is refused a connection saw at least `Capacity`
  others get one; blocked rows alone cannot do that to it.
* `PoolNeverWaitsForItself`: row locks and connections are two resources that
  wait for each other, and yet there is always somebody inside who can go on.
* `EveryMissedRowHasAWrite`: what offset pagination loses, exactly: one row per
  write between two pages, however many pages there are. `QuietListingIsComplete`
  is where the tiebreaker on `id` is needed.
* `EndpointsAgree`: listing, summary, calendar and statistics compute windows in
  four places; the property compares them on days where they could differ.
* `StaleRolesExpire`, `LinksShowOnlyTheirReadersFiles`: a decision that travels
  in a token or a link stays true, or is wrong in one direction and for a
  bounded time. They rest on what no single file says: roles only grow, a uuid4
  is never used again, a refund never changes hands.
* `OnlyOwnRefunds`: what an employee is shown is computed from their own refunds
  and nothing else. It compares the rows and the total of a listing, and each
  count, amount and year of a summary, with the aggregates over their own rows,
  whatever filter they send.
* `TokensStayOutOfTheLog`: depends on two configurations of logging, one after
  the other, and on the mask of the middleware; a 413 or an unhandled exception
  is told by uvicorn alone.
* `AnswersMatchTheLog`, `AccessLinesTellTheAnswers`: relate an answer to the
  lines that three layers and the server logged about it. The exceptions of
  `AccessLinesTellTheAnswers` and `AnswersSayWhoMayEmbedThem` (a 413; an exception
  nobody handled) are facts about the order of the layers, see section 5.

### Bounds, and why they are enough

* Requests: every conflict is about one refund or one user. Two requests reach
  every pair of conflicting steps; the third lets a pair run against a decision
  or deletion (`refund_races`), or against a picture that is itself replaced
  (`avatar_faults`). Requests are interchangeable: symmetry, used only in runs
  without liveness.
* Seeds: a pending and an approved refund of one owner; rejected and paid ones
  arise within the run. Users: an owner, two administrators, and the owner as
  an administrator (a promoted employee).
* Calls: `RaceCalls` are those that pass validation, on seeds and on refunds
  created during the run; `FaultCalls` add refused forms, roles and amounts.
* `MaxCrashes = 1`: a crash ends every request in progress; a second one can
  only end requests that arrived later.
* Sweep: `MinimumAge` 3, `RequestTime` 1, `ReadTime` 1 - the smallest values
  with `RequestTime + ReadTime < MinimumAge` in which both times pass - and a
  clock of 4: a file saved at once becomes old enough for a sweep that begins
  during the run, while a later one is too young. A leftover and an avatar in
  two storages; the sweep treats files independently.
* Rate limiter: limits 2 and 1, window 2, clock 3: attempts exactly one window
  apart and a refused attempt followed by an accepted one both occur.
* Pool: two connections and a third request that queues; one refund and one
  user row. A review (one locking session) and a payment (a reading, a locking
  and a reading session) contain every kind of session and every step between
  them. `SessionTime` 2, `PoolTimeout` 3, `LockTimeout` 1 are the smallest values
  in the order of the code's (3 s, what a session takes, 10 s).
* Reports: two writes in a report's course, so that both can hit one pair of
  pages; two tables of three rows, with equal sort keys, on a leap day, the last
  day of a year and the first of the next, at midnight and in the evening;
  pages of one and of two rows; refused calls as well.
* Signed files: `TokenLife` and `LinkLife` 1, `CacheTime` 2, so that tokens and links
  expire and a copy outlives its link; one commit may be left in doubt
  (`MaxDoubts`). `RequestTime` 0: steps of a
  request interleave with everything but the clock (the theorems have no such
  bound). One token and one link are kept at a time, any of those there were.
* Pipeline: two requests, so that ids and contexts can mix; two queries, one of
  them with the token's name in upper case.

### Fairness

`refund_faults` (`FairSpec`): weak fairness of `Step(r)` for every request. It is
what the event loop gives a coroutine that can run, and what PostgreSQL gives a
statement: an answer, or `lock_timeout` (three seconds) if it waits for a row
lock. Arrivals and crashes are not fair. Under it `EveryRequestIsServed`: no
rollback, compensation or lock wait goes on for ever.

`connection_pool`: weak fairness of every request's own steps - its next session,
a free connection, a free lock, the end of a session, both timeouts - and of
`Tick`, for time passes. Arrivals, failures and the outsider are not fair: the
outsider may keep a row locked for ever, and `EveryRequestEnds` all the same.

## 4. Proofs

Everything here is checked by TLAPS for all values of the constants.

| theorem | module | states |
|---|---|---|
| `Invariance` | `RefundApiProofs`, `PipelineProofs`, `ReportsProofs`, and a theorem or lemma of that kind in the others | the inductive invariant `IInv` |
| `TypeCorrect` | each proof module | `TypeOK` |
| `HistoryCorrect` | `RefundApiProofs` | `HistoryExplainsStatus` |
| `LocksCorrect` | `RefundApiProofs` | `LocksAreHeldByTransactions` |
| `PaymentIsFinal` | `RefundApiProofs` | `PaidIsFinal` |
| `RefinesLifecycle` | `RefundApiProofs` | `ImplementsLifecycle` |
| `FilesInvariance` | `RefundApiProofs` | `FilesInv`, inductive relative to `IInv` |
| `FilesCorrect` | `RefundApiProofs` | `FilesBehindRows` |
| `AnswersCorrect` | `RefundApiProofs` | `AnswersAreTrue` |
| `OrphansExplained` | `RefundApiProofs` | `EveryOrphanHasACause` |
| `PicturesAreThere` | `AvatarProofs` | `AvatarIsThere` |
| `OrphansHaveCauses` | `AvatarProofs` | `EveryOrphanAvatarHasACause` |
| `SafeForEveryTiming` | `SweepProofs` | `SweepIsSafe` |
| `NoOrphanSlips` | `SweepProofs` | `SweepIsThorough` |
| `BurstsAreBounded` | `RateLimiterProofs` | `NoWindowExceedsLimit` |
| `RefinesSlidingWindow` | `RateLimiterProofs` | `ImplementsSlidingWindow` |
| `SessionsLeakNothing` | `PoolProofs` | `NothingLeaks` |
| `PoolGoesOn` | `PoolProofs` | `PoolNeverWaitsForItself` |
| `RefusalsAreCrowds` | `PoolProofs` | `RefusedOnlyWhenCrowded` |
| `TokensCatchUp` | `SignedFilesProofs` | `StaleRolesExpire` |
| `RolesStay` | `SignedFilesProofs` | `RolesOnlyGrow` |
| `LinksKeepToTheirReaders` | `SignedFilesProofs` | `LinksShowOnlyTheirReadersFiles` |
| `LinksEnd` | `SignedFilesProofs` | `NothingIsShownLate` |
| `LinksWork` | `SignedFilesProofs` | `LinksWorkWhileARowNamesTheFile` |
| `AnswersCorrect` | `PipelineProofs` | `AnswersMatchTheLog` |
| `AccessLinesCorrect` | `PipelineProofs` | `AccessLinesTellTheAnswers` |
| `FramingCorrect` | `PipelineProofs` | `AnswersSayWhoMayEmbedThem` |
| `TokensCorrect` | `PipelineProofs` | `TokensStayOutOfTheLog` |
| `QuietListingsCorrect` | `ReportsProofs` | `QuietListingIsComplete` |
| `MissedRowsCorrect` | `ReportsProofs` | `EveryMissedRowHasAWrite` |
| `SummaryCorrect` | `ReportsProofs` | `SummaryAddsUp` |
| `OwnRefundsCorrect` | `ReportsProofs` | `OnlyOwnRefunds` |
| `EndpointsCorrect` | `ReportsProofs` | `EndpointsAgree` |

**RefundApi.** `HistoryExplainsStatus` is not inductive: to append a line a
reviewer must know that the status it read is still the row's. `IInv` adds what
each request knows at each label - which operation it is and what the validator
let through (`CallInv`); that the labels between lock and commit hold the lock,
and that nobody else's label does (`LockInv`); where the files a row names come
from (`RowInv`); that a reviewer's `seen` equals the row, a payer's row is
approved and not its own (`SeenInv`); that the staged writes are those of the
operation (`StagedInv`). The proof has one lemma per conjunct for arrivals and
one for steps, and `LongerWalk` for the appended line. `PaymentIsFinal` and
`RefinesLifecycle` follow from `IInv`: every commit maps to one abstract
operation and everything else stutters. Assumptions: the constants are sets of
the right kind (`RequestsAssumption`, `CallsAssumption`, `FaultsAssumption`,
`SeedsAssumption`, `ClaimsAreNotNone`) and the rows and histories at the start
agree (`SeedsAreCoherent`).

The files are the subject of a second invariant, `FilesInv`, which is inductive
once `IInv` is known. What a row's file and a client's answer depend on is which
failure a request met on its way, and the code keeps that in no variable: it is
in where the request is and in what it was answered. So there is one part per
operation (`CreatorInv`, `DeleterInv`, `ReviewerInv`, `PayerInv`) that says what
the tables and storages hold at each label and after each answer, `RowFileInv`
for the files behind a row and `CauseInv` for those behind none. A file that a
row names disappears only behind an answer 500 whose commit was durable
(`ReceiptOK`, `PaymentOK`), and a deletion that fails is in the log from then on.

**AvatarApi.** `AvatarIsThere` needs to know that what a request is about to
delete is named by no column any more (`SeenInv`), which holds because a column
changes only by an update and a picture is in one column at most once
(`NamedInv`). The orphan theorem adds what became of every replaced picture
(`ReplacedInv`, `AccountedInv`).

**OrphanSweep.** The argument of the code ("an hour is far longer than any
request here can take") made precise: the references are read before the cutoff
is computed, so the minimum age has to cover a request *and* the reading,
`RequestTime + ReadTime < MinimumAge` (`TimingAssumption`), strictly, because a
file modified exactly at the cutoff is removed. `FileOK` keeps every request that
owes a file something within its time. `Spared` is the heart of `IInv`: a
file that was not among the references either can never be named, or was saved
so late that no cutoff computed in time reaches it. `PassedOK` accounts for the
orphans that a sweep has not come to, storage by storage.

**RateLimiter.** The deque is the end of the history and what is missing from
it has expired (`DequeIsTail`), attempts are in order (`InOrder`); hence the
length of the pruned deque reaches the limit exactly when the `Limit`-th last
accepted attempt is inside the window. That the `popleft` loop stops at a first
attempt inside the window is the well-foundedness of the naturals.

**ConnectionPool.** `LongWaitIsCrowded` carries the argument: when a request has
queued longer than a session may last, everybody who had a connection when it
came has given it back, so the `Capacity` connections that are out now were all
given to others while it queued. `EldersAreOld` says the same of a shorter wait:
whoever was not seen getting a connection has had it as long as the wait.
`AgesAreBounded` is what the two timeouts do. Assumptions (`PoolAssumption`): a
session, its wait for a lock included, is shorter than `pool_timeout`; the
former is about the database and not checked anywhere in the code.

**SignedFiles.** `RolesAreRemembered`: what a token or a login in flight says was
true no longer ago than its age; it needs that a registration in flight is the
only one of its address, or a late commit would take a promotion back.
`RowsHaveTheirFiles`: what a row names is neither being saved nor about to be
deleted, the order every writer keeps unless it did not learn of its commit. `GrantsWereAllowed`: the entitlement that a
finder saw still holds, because entitlements only grow. `CopiesAreYoung` bounds
the browser's copy by the link it came through.

**RequestPipeline.** An id is taken from the sequence in the first layer
(`IdsInv`: the sequence counts the requests that have one, and two of them never
agree), and every layer a request has passed runs in a task whose context holds
it (`ContextOK`), whatever the connection's earlier request left behind. On the
way up the invariant says which layer has added what: the framing header in
the fourth layer, the access line in the third, the id in the first
(`ResponseOK`, `LinesOK`). `WrittenOnce` and `NeverWritten` follow a record from its
logger to the handlers: all but uvicorn's access line are written once, by the
handler of the root, and that one never. There is a lemma per conjunct: `StepIds`, `StepContext`, `StepResponse`, `StepLines`. Assumption
(`PipelineAssumption`): finitely many requests, paths and queries of the right
kind.

**Reports.** Two thirds of the proof are about the operators. Sums over a finite
set do not depend on the order in which `CHOOSE` picks its elements
(`SumByPick`), so counts and amounts by status, category, month, day and user
add up to those of the whole (`SumOverParts`); the order of the numbers of the
days is that of the dates, and each instant of a month lies in the window of
exactly one of its days (`MonthIsItsDays`, `YearInside`), which gives
`EndpointsAgree` of every table. Ids break the ties of every sort key, so the
order of a listing is total, each row has a `Place` of its own and every answer
of `ORDER BY` is the same (`PlaceInOrdering`). The invariant compares the rows
shown with the first `Reached` rows of the table as it is *now* (`SlipsOK`):
a steady row among them that was not shown is missed already, a shown row behind
them will come again, and rows beyond the last total are out of reach. One write
changes one row, moves every other by at most one place (`PlacesMoveByOne`), and
so lets at most one id slip across the edge (`OneSlipsIn`, `OneSlipsOut`). A row
of the steady ones cannot be missed *and* another be pushed beyond the total by
the same write: only an insertion makes the table longer, and its row is not
steady (`SlipsOfAWrite`). `QuietOK` and `SummaryInv` are the same comparison for a
table that nobody writes and for the parts of a summary. Assumption
(`ReportsAssumption`): the tables at the start keep their keys and foreign keys,
viewers and filters are ids, and dates are dates; nothing is assumed of sort
keys, page sizes, statuses or years, which the validators have to refuse.

`ReportsProofs` needs induction over data and gets it without the library's
schematic theorems, which take an operator: a set of natural numbers that is not
empty has a least element (`LeastNat`, from `NatLessThanWellFounded`), so a
counterexample of the smallest size is contradicted.

Only model-checked, not proved: the two liveness properties,
`EveryRequestIsServed` and `EveryRequestEnds`. Liveness, `ENABLED` and modules
that reach a `RECURSIVE` operator are out of the prover's reach; no module here
declares one. Every invariant and every other action property or refinement of
a passing run is proved.

## 5. Findings

1. *A receipt lost after its commit* (`refund_creator_controller.py:38`, run
   `receipt_after_close`). Closing the session, or the answer to the commit,
   fails; the compensation deletes the receipt of a refund that exists. The
   comment at 44-48 says the boundary is the payer's; the payer's flag is set
   before the session closes.
2. *A replaced picture stays* when two requests of one user overlap
   (`avatar_uploader_controller.py:46`, run `replaced_picture`); UC-008 (47-48) and
   UC-009 (41-42) say it does not.
3. *The local `delete` is not idempotent across processes* (`file_storage.py:47`,
   run `vanished_file`); the S3 driver's comment says the two agree
   (`s3_file_storage.py:91-93`). The run: a refund or an avatar lets go of a file
   that was saved long ago, a sweep that read the references after that commit
   finds it to exist, the request deletes it, and the sweep's `os.remove` raises,
   which ends the sweep.

Also noticed, without a run of their own:

* "Refund was already paid by another admin" also answers a payer that lost
  against a rejection (`refund_payer_controller.py:85`), and "Only pending refunds
  can be deleted" a deleter whose refund is gone
  (`refund_deleter_controller.py:41`). `AnswersAreTrue` states what the answers do
  imply.
* `rate_limit.py:43` never drops a key that nobody uses again; the comment and a
  test's comment say that this is what the dropping is for.
* `database_connection_handler.py:34-36` calls `SELECT … FOR UPDATE` the only
  place that takes a lock, and `refund_status_repository.py:32-35` says
  `mark_as_paid` closes the race without one. Updates and deletes wait for row
  locks as well, with a connection in their hand: `Plan` in `ConnectionPool`.
* A 413 gets no access line (`access_log.py:1`), and neither a 413 nor a 500 of
  an exception nobody handled gets security or CORS headers: both come from
  outside those layers.
* `auth_routes.py:17-20` promises a `Retry-After` header that `problem_response`
  does not set.
* A listing up to 9999-12-31 answers 500 (`refunds_repository.py:118`).
* A browser may show a served file for a minute longer than its link lives
  (`file_routes.py:54-58`): `NothingIsShownLate` has the bound.
* The sweep takes the `.gitkeep` of each upload directory for an orphan once it
  is an hour old.

## 6. Not modelled, and why

* Refund finder, review lister, user finder: one `SELECT` each, nothing between
  two steps. The finder's ownership check is that of `SignedFiles.MaySee`.
* Views, composers, the wording of validators and problem documents: no
  behaviour over time. What they decide is in the actions.
* Settings: read and validated once at the start; the values are the CONSTANTS.
* Migrations: run by hand with the service stopped.
* The contents of files, the encoding of URLs and tokens, passwords and their
  hashing; the filter and the order by a requester's name.
* A rollback that itself raises: the session is closed and its connection given
  back all the same (`unit_of_work.py:36-40`), and a refusal would be answered 500;
  it has no outcome of its own in `RefundApi` or `ConnectionPool`. What DEBUG-level lines of libraries say.
* TLS, the bucket, PostgreSQL and the pool's internals, but for what the code
  relies on.

## 7. Plan

Done: the core (`RefundLifecycle`, `RefundApi`), avatars, the sweep, the limiter,
the pool, the reports, accounts with signed files, the pipeline, and the proofs
of section 4. What is left, in order:

1. That `RefundApi` and `AvatarApi` without commits in doubt implement the file
   lives that `OrphanSweep` and `SignedFiles` take for granted, which would
   compose the four.
