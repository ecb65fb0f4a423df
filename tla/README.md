# onecrawler-backend: a verification project

TLA+ specifications of the OneCrawler backend (FastAPI, PostgreSQL, Redis with
arq, and a crawl worker), the TLC runs that check them on small instances, and
proofs of their safety properties that TLAPS checks. Paths are relative to the
repository; `tasks.py`, `router.py` and `models.py` stand for
`src/worker/tasks.py`, `src/api/v1/crawler/router.py` and `src/db/models.py`.

    tlc -config one_job.cfg MCCrawl      # crawl runs; see section 3 for the others
    tlc -config accounts.cfg MCUsers
    tlapm CrawlServiceProofs.tla         # about 3 minutes, as CrawlReadsProofs; the others less

## 1. The system

| Part | State | Operations that change state | Talks to |
| --- | --- | --- | --- |
| Crawl API (`router.py`) | none of its own; a request holds the rows it read | create, scrape, retry, cancel, delete, delete a discovered URL | PostgreSQL, the queue |
| Crawl worker (`tasks.py`, `src/worker/settings.py`) | a SQLAlchemy session per execution: the job as read, counters, uncommitted pages | `run_crawl_job` and its four loops | PostgreSQL, the crawl engine |
| Job queue (arq, a library) | queued ids, number of tries | enqueue, deliver, finish, give up | API, worker |
| Crawl tables (`models.py`) | `crawl_jobs`, `discovered_urls`, `crawl_result_items`, `log_lines` | one transaction each | - |
| Sessions and tokens (`src/core/sessions.py`, `src/core/security.py`, `src/api/users/{login,logout,refresh,sessions}`) | `refresh_sessions`, Redis blocklist | login, refresh (rotate), logout, revoke, revoke all | PostgreSQL, Redis |
| Accounts (`src/api/users/{register,account}`, `main.py`) | `users` | register, rename, change email or password, seed the admin | PostgreSQL |
| Settings store (`src/api/v1/settings`) | templates, provider keys | create, update, delete; set, clear | PostgreSQL |
| Settings builder (`src/worker/settings_builder.py`) | none | builds engine settings and the filter chain | provider keys |
| Reads: crawl lists and details, dashboard, usage, data | none; a request puts its answer together from several statements | none | PostgreSQL |
| Migrations (`src/alembic`) | the schema, `alembic_version` | nine revisions, up and down | PostgreSQL |
| Configuration, logging, routing | none | none | - |

API processes and workers share only PostgreSQL and Redis. Nothing takes a lock
on purpose and no transaction covers a read and the write that depends on it:
the database runs READ COMMITTED, the sessions keep what they read
(`expire_on_commit=False`, `src/db/pg.py:6`), and every `await` is a point where
another request or another execution may act. What is hard here:

- a status that was read, tested and acted upon later (cancel, delete, start,
  settle: each overwrites whatever the row says by then);
- at-least-once delivery: a worker that crashes is given the job again, a job
  whose outcome is committed but not yet reported is run again;
- executions that end in ways the code does not catch: `job_timeout` raises
  CancelledError, and a session whose flush has failed refuses the commit of
  the `except` block as well;
- the shallow loop, which keeps pages in the session and, through autoflush,
  a row lock, until its list is through;
- counters written as absolute values beside rows that requests delete.

What makes each part correct:

- *crawl API and worker*: the status moves only as the lifecycle allows;
  counters agree with rows; a cancel stops an execution after at most one page;
  time stamps and error agree with the status; no lock survives its session;
  each request is answered and each queued job leaves the queue;
- *sessions*: a session lives once and is revoked for good; after a password
  change no session from before it is live; an answered logout is complete;
  a token that can be refreshed can be seen and revoked;
- *accounts and settings store*: addresses and template names stay unique
  though they are tested in one statement, if at all, and written in another;
  there is an admin whenever a process serves; overlapping writes of one row
  neither resurrect it nor lose what was answered;
- *builder*: no job runs with the key of another user, no filter is dropped;
- *reads*: how far one answer, made of several statements, can disagree with
  itself; that an export selects what the list shows;
- *migrations*: the tables follow the revision whatever led to it, upgrades lose
  no row, and rows have owners from the revision on that wants them.

## 2. Modules

| Module | What it is |
| --- | --- |
| `CrawlStore` | The tables of a crawl; each operator is the effect of one transaction. |
| `ArqQueue` | The queue, modelled from how the code uses it (external). |
| `CrawlApi` | The handlers of `router.py`; EXTENDS the two above. |
| `CrawlWorker` | `run_crawl_job`; EXTENDS the same two. |
| `CrawlService` | API and worker composed; all properties and strengthenings. |
| `CrawlLifecycle` | The abstract specification: what may happen to a status. |
| `UserStore` | What the user handlers share: `users`, `refresh_sessions`, the blocklist, the clock, requests in flight. |
| `Sessions` | Login, refresh, logout, revocations; EXTENDS `UserStore`. |
| `Accounts` | Register, changes of name, address and password, processes and the admin; EXTENDS `Sessions`. |
| `UserService` | The above composed; all properties of the user side. |
| `SessionLife` | The abstract specification: what may happen to a session. |
| `SettingsStore` | Templates and provider keys. |
| `KeyRegister` | The abstract specification: what overlapping calls for a provider key promise. |
| `SettingsBuilder` | What the engine is given, as functions of a payload and the keys; EXTENDS `SettingsStore`, whose keys it reads. |
| `CrawlQueries` | The queries of the reading handlers, as functions of the tables. |
| `CrawlReads` | Those handlers, a statement per step, among the commits of others. |
| `Migrations` | The revisions 0001 to 0009 over a database in use. |
| `MCCrawl`, `MCUsers`, `MCSettings`, `MCReads`, `MCMigrations`, `*.cfg` | Instances for TLC. |
| `InductionLemmas` | Lemmas: induction over finite sets and integers, functions defined by recursion, sums. |
| `CrawlServiceProofs` | Theorems: types, ids, counters, late pages, locks, stamps, pages of a job. |
| `CrawlRefinement` | Theorems: the inductive invariant of the crawl service, and its refinement. |
| `UserServiceProofs` | Theorems: all properties of `UserService`, its refinement included. |
| `SettingsStoreProofs` | Theorems: the properties of `SettingsStore`, its refinement of `KeyRegister` included. |
| `SettingsBuilderProofs` | Theorems: the properties of `SettingsBuilder`. |
| `CrawlReadsProofs` | Theorems: the inductive invariant of the readers, and all properties of `CrawlReads`. |
| `MigrationsProofs` | Theorems: all properties of `Migrations`. |

The user side, the settings, the reads and the crawl service meet in rows that
only one of them writes. A crawl job belongs to one user for good and no user
is ever deleted, so they are modelled apart; the one value that crosses, the
provider key a job is built with, is read in `SettingsBuilder` from
`SettingsStore`.

### State and code

| Variable | In the code |
| --- | --- |
| `job[j]` | row of `crawl_jobs`: status, mode, seed_urls, the counters, and whether started_at, finished_at and error are set. Before its INSERT the status is "unused", after its DELETE "deleted". |
| `disc[j]`, `results[j]` | its `discovered_urls` (in order) and the number of its `crawl_result_items`. |
| `locked` | rows of `crawl_jobs` that an open transaction has updated. |
| `queue`, `tries` | arq's queue and its `job_try`. |
| `req[h]` | what a request has still to do, with the id (and, for an INSERT, the columns) it took from rows read earlier. |
| `exec[j]` | the execution of job j: `pc`, the attributes its session holds, `pend` (pages added and not committed), `left` (pages the engine can still yield). |
| `removed`, `exec[j].late` | history, for the properties only: URLs the user deleted; pages committed after a cancel. |

User side (`UserStore`, `Sessions`, `Accounts`):

| Variable | In the code |
| --- | --- |
| `user[u]` | row of `users`: address, admin or not. |
| `session[s]` | row of `refresh_sessions`: owner, created_at, revoked_at set or not. A login or refresh issues an access token with it: s names both. |
| `block[s]` | when `blocklist:<jti>` of that access token expires in Redis. |
| `now` | the time in half seconds: two ticks with one `int(time.time())`. |
| `req[h]` | what a request has still to do, with what it read; "sweeping" is an UPDATE of all sessions that ran and is not committed. |
| `api[p]` | an API process: down, seeding the admin, or up. |
| `sweeps`, `session[s].born`, `answered` | history, for the properties only: revocations of all sessions begun and committed; how many had begun when s was inserted; the tokens of logouts that were answered. |

Settings (`SettingsStore`): `template[t]` is a row of `crawl_settings_templates`,
one not inserted yet or one deleted; `key[u][p]` an api_key; `req[h]` a request
with the columns it loaded and those it sent, or what the client of a key was
told last (a history, for `KeyRegister`). Reads (`CrawlReads`): `job`, `disc`
and `results` hold counters and times of rows, `reader` the request that reads,
its answers so far, and as history what was committed meanwhile. Migrations:
`rev` is alembic_version, `schema` the columns and keys of all tables, `rows`
what they hold.

`LINK_EXTRACTION` is two loops that commit differently, so it is two modes,
"shallow" and "deep". The executions of a job never overlap (arq holds an
in-progress key for the id), hence one `exec[j]` per job.

### Actions and code

A request is the read (`CancelRead`, `DeleteRead`, `RetryRead`, `ScrapeRead`)
and the commit (`CancelCommit`, `DeleteCommit`, `InsertRead`), then `Enqueue`;
`CreateCrawl` reads nothing first, and `RemoveDiscovered` is one step because the
row it reads never changes. The commit of a cancel or delete waits while the row
is locked. `HandlerDies` ends a request at any of its awaits.

An execution goes `Deliver`, `Get` (or `GetSkips`), `Begin`, `LogStart`, `Build`
(or `BuildRaises`), then `Check` for each page and `Save` for its commit,
`EngineStops` or `EngineRaises`, `Settle`, `ArqFinish`. `Check` is `is_cancelled`
with the autoflush it causes; `Warn` is the log line after a positive check,
which commits what the session still holds; `CloseRaises` is an exception from
leaving `async with`. `RowGone` is a flush on a deleted row, after which nothing of the
session can be committed, the FAILED of the `except` block included; `Killed`
is job_timeout or a statement that PostgreSQL fails; `Aborted` is a crash or
shutdown of the worker, after which arq delivers the id again, up to its limit.

A request of the user side goes through `Authorise` (get_current_user) unless
it is a login, a refresh or a registration, then through its own steps:
`LoginRead`, `LoginCommit`; `RefreshRead`, `RefreshCommit`; `LogoutBlock` (Redis),
`LogoutSession` (PostgreSQL); `RevokeOne`; `RevokeAll`, or `PasswordRead` and
`PasswordSweep`, each followed by `SweepCommit`; `RegisterRead` and `RegisterCommit`
or `RegisterRaises`; `EmailRead` (or `EmailTaken`) and `EmailCommit` or
`EmailRaises`; `Rename`. A few things in them are worth knowing:

- `RefreshCommit` does not read the session again: `db.get` returns the object
  that the check loaded (identity map), so a logout or a revocation that commits
  in between does not stop the rotation. `SessionLife` says so.
- The read and the commit of `RevokeOne` and `LogoutSession` are one step: a
  revoked session stays revoked, so that nothing can happen in between that
  would make a difference. `EmailRead` makes two reads, but acts on the second.
- Sweeps hold their rows and, in a password change, the row of the user until
  they commit. Sweeps wait for each other in the order of their UPDATEs, so
  nobody waits in a circle.
- Nothing clears `is_active`, nothing deletes a user or a session row.
- A refresh is accepted by a token's `exp`, in whole seconds, and by
  `expires_at`, in milliseconds; the list looks at `expires_at` alone.

A settings request reads its row (`PutTemplate`, `DeleteTemplate`, `ReadKey`) and
commits (`UpdateCommit`, `DeleteCommit`, `KeyCommit`, `ClearCommit`) or raises
(`UpdateFails`, `KeyRaises`); `CreateTemplate` only inserts. A stored key is read
once more for the answer (`KeyRefresh`), which raises if it was cleared in between. The UPDATE that
SQLAlchemy sends has the columns that differ from what was loaded (`Written`).
In `CrawlReads` a `Statement` is one SELECT of `Detail`, `Overview` or `Usage` in
its order (or the usage's reading of the clock, `month_start`, by which its two
statements on the month go); `WalkCount` and `WalkPage` are those of `GET /crawls` for a client that
turns its pages; the rest are commits of others. In `Migrations` a command takes
all its revisions or none, since `env.py` runs it in one transaction; `Adds` and `Drops` are the upgrades,
`Undo0001` to `Undo0009` the downgrades, each as its `downgrade()` is written.
`ListData` and `Export` are, like the code, two translations of the same filters.

Each definition is mapped to its lines in `PROJECT.json`.

## 3. Properties and runs

| Property | What it says |
| --- | --- |
| `TypeOK` | types; tries never exceed arq's limit |
| `IInv` | the inductive invariants of the proofs (section 4), of the crawl service and of the reads: types, and how the steps still to come can depart from what was read |
| `CountersMatchRows` | urls_discovered = rows listed + rows the user deleted; urls_scraped = result rows |
| `AtMostOneLatePage` | one execution commits at most one page after a cancel |
| `LocksAreHeld` | a locked row belongs to an execution that still holds uncommitted pages |
| `StampsAgree` | started_at, finished_at and error against the status |
| `PagesWithinTries` | a job accumulates at most MaxTries times what one engine run yields |
| `RefinesLifecycle` | the status moves as `CrawlLifecycle` allows |
| `QueueDrains`, `RequestsEnd` | each queued id leaves the queue, each request is answered |
| `JobsSettle` | without failures, each queued job reaches a final status or is deleted |
| `RefinesSessionLife` | sessions live once, are revoked for good, and are rotated only by requests that saw them live |
| `LiveAfterSweep` | after a committed revoke-all or password change, no session lives that was there when its UPDATE ran |
| `LogoutIsComplete` | the tokens of an answered logout are refused, whatever the rounding of lifetimes |
| `UsableIsListed` | a token that can be refreshed is in its owner's list |
| `EmailsUnique`, `AdminExists` | no two accounts share an address; a process serves only if there is an admin |
| `NamesUnique`, `DeletedStays`, `QuietPutSticks` | templates under overlapping writes |
| `RefinesKeyRegister` | overlapping sets and clears of a key behave as a register: answered calls took effect once, at one moment; one that raises because of another left nothing that the other has not undone |
| `KeyIsOwn` | no job is built with a key that another user stored |
| `ChainDecides`, `SlashesDoNotMatter` | each filter has a say, by AND or by OR; slashes around a keyword do not change its pattern |
| `HistoriesMatchRows` | the histories count each row once, at its second |
| `DetailNotBehind`, `TotalsDrift`, `RecentNotBehind` | how far one answer can disagree with itself |
| `WalkSeesSteadyJobs`, `TotalNearPage` | what paging by offset misses, and when it cannot |
| `ExportMatchesList` | an export selects what the list shows, by filters or by ids, a filter given as "" included; of a whole job, as many rows as its counter says |
| `SchemaFollowsRevision`, `UpgradesKeepRows` | the tables follow from the revision alone; upgrades lose no row |
| `DowngradesLoseOnlyOwners` | a downgrade loses the tables it drops and, of other rows, only owners whose column goes; it fails rather than make two rows one |
| `OwnersKnown`, `WrappedOnce` | what becomes of rows without owners and of text that is no JSON |

| Run | Instance | Properties | States |
| --- | --- | --- | --- |
| `one_job` | 1 job, all 5 modes, 2 concurrent requests, all failures, 3 tries, 2 pages per engine run | `TypeOK`, `CountersMatchRows`, `AtMostOneLatePage`, `LocksAreHeld`, `StampsAgree`, `IInv` (which has `PagesWithinTries` as well), `RefinesLifecycle` | 74 k |
| `two_jobs` | 2 ids (the second can come from a retry or a scrape of the first), 1 request at a time, 1 worker slot, crashes, 2 tries | `PagesWithinTries`, `RefinesLifecycle` | 568 k |
| `liveness` | 1 job, list modes, 2 requests, all failures, 2 tries | `QueueDrains`, `RequestsEnd` | 17 k |
| `settle` | 2 jobs, streaming modes, 1 slot, engines and settings may raise, nothing else fails | `JobsSettle` | 149 k |
| `sessions` | 1 user, 3 sessions, 2 requests, any of login, refresh, logout, revoke-all, password change | `RefinesSessionLife`, `LiveAfterSweep` | 276 k |
| `accounts` | 2 users, 2 addresses, 2 processes, 2 requests, 1 session, 6 half seconds | `TypeOK`, `LogoutIsComplete`, `UsableIsListed`, `EmailsUnique`, `AdminExists` | 699 k |
| `settings` | 2 users, 2 templates, 2 names, 1 provider, 2 requests; every chain of up to 2 filters, every keyword of up to 4 characters | those of settings and builder | 202 k |
| `reads` | 2 jobs, 2 pages, 1 deleted URL, 2 ticks, pages of 1 job, one reader | those of reads, `IInv` | 1.07 M |
| `migrations` | 2 users, 2 jobs, 2 names, 1 provider, any commands | those of migrations | 1.5 k |
| `cancel_sticks`, `delete_active`, `content_objects` | small | the findings of section 5, violated | |

*Bounds.* Two pages per run are the least with which the shallow loop flushes
one page while it checks for the next, the case the lock is about; a third page
repeats the second. Two requests are the least that race with each other and the
execution (a cancel and a delete, a retry and a delete). Three tries let a job be
redelivered after a redelivery and still be given up; the service leaves arq's
default of 5, and allows 4 executions at a time (`max_jobs`). One URL suffices:
rows are counted, and compared only by the scrape of a job's rows, where one
URL in several rows is the case that matters (each is scraped once). Ids are
permuted by SYMMETRY in the safety runs only. `MaxFound`, `MaxTries`, `MaxJobs`,
`Jobs`, `Urls` and `Handlers` are all the bounds there are. A run with no fresh id
left may stop, so deadlock is not checked.

On the user side three sessions let one be rotated twice, or two of a user
overlap with a sweep; a single user suffices there because no step looks at
another user's sessions. `sessions` needs no clock: expiry only takes away
behaviours. In `accounts` access tokens live 2 seconds and refresh tokens 3, and the
clock runs for 3: tokens issued at the start expire within it, both kinds. `MaxSweeps` and `MaxNow` bound
histories; a run out of either may stop, hence no deadlock check. The second
user, address and process are what races about an address need. In `settings`
rows come and go for ever, so deadlock is checked, as it is in `reads` and
`migrations`. A build of engine settings reads one row at most: what it makes of
a payload does not depend on requests in flight and is examined when there are
none. In `reads` nothing is committed after the last statement of a request,
which could not tell; a page holds one job, so that two jobs make three pages
of a walk; `Second` and `Month` are 2 ticks and the clock starts at an odd one,
so rows fall in either half of a second, and before and after a month's start.
`RecentNotBehind` is stated for as many jobs as the overview lists (10 in the
code, both of them here), and of the usage for a month that holds all jobs:
otherwise either is a part of the sum. `ExportMatchesList` takes every assignment
of formats to jobs and every filter, with "" among the values, whenever no request
is being answered: it speaks of one state.
The migrations have no bound but their sets of ids: two users are what a clash
of names or keys needs, two jobs what text of two kinds side by side needs.

*Mutants.* The definitions commented "Mutant" are plausible bugs of the code
(a counter that starts from 0, a lock that is not freed, a cancelled job that is
run). `PROJECT.json` pairs each property with one whose substitution makes TLC
report that property.

*Fairness.* Weak fairness of each request's own steps and of each execution's
own steps, once for all steps of one actor together: the event loops run
each coroutine that can go on, and job_timeout ends an execution whose
engine never returns. Nothing is assumed of users (no request need ever be
made) nor of failures (none need ever occur). An engine that can yield may
also stop or raise, and is not assumed to choose fairly; it ends because `left` is finite, as
link_extraction_limit makes it. `JobsSettle` needs `Faults = {}`: a timeout or
a failed statement leaves a job RUNNING for good, which is what the code does.

## 4. Proofs

For every set of ids, URLs, users, addresses and handlers, every page limit,
every number of tries and slots, every set of failures, all lifetimes of tokens.
The only assumptions are those named in the modules: `MaxTries`, `MaxJobs`,
`AccessSecs` and `RefreshSecs` are positive, `MaxFound`, `MaxNow` and `MaxSweeps`
natural numbers, `NewModes` are modes, `AdminEmail` is an address, and `Nothing` is
no user, address or token (nor a job, nor a filter). `BuilderAssumption`: a filter
group is joined by AND or OR, a keyword is a sequence of characters, a genai
payload names a provider. `QueriesAssumption`, `ReadsAssumption`: the jobs are
finitely many, a page, a second, a month and the overview's limit are not zero,
and lists are asked for by statuses that exist.

The crawl service (`CrawlServiceProofs`, `CrawlRefinement`):

- `TypeCorrect`: TypeOK is inductive.
- `IdsAreUsedOnce`: with TypeOK, `IdsUsedOnce` is inductive: ids go through
  insert, enqueue and run once, in this order, so no INSERT hits a live job and
  nothing hangs from a job that does not exist. Everything below rests on it.
- `CountersCorrect`: a counter is written from the session, so the invariant must
  say what the session holds. `SessionMirrorsRow`: what it will write is what
  the row says plus the pages it has not committed, whoever else wrote the row.
- `LatePagesBounded`: `LatePages` says where pages may wait in the session, that
  two waiting pages have locked the row (so no cancel has come in), and
  that after a late page the row still says CANCELLED, so the next check ends
  the loop.
- `LocksReleased`: from the same strengthening.
- `StampsCorrect`: `StartedFirst`, an execution past Begin has stamped its row.
- `ServiceInvariant`: the conjunction `IInv`, which also has `StatusAsRead`: a job
  read as not QUEUED never is QUEUED again, and a job read RUNNING by an
  execution that has not begun is RUNNING, CANCELLED or deleted. Both are needed
  for the refinement: without them `DeleteCommit` could delete a QUEUED job, and
  `Begin` could leave COMPLETED on a job it starts.
- `ImplementsLifecycle`: under `status <- job[j].status` and `attempt` read off
  `exec[j].pc`, initial states map to initial states and every step to one action of the lifecycle or
  to a stutter, one lemma per action.

- `PagesBounded`: `EnqueuesOnce` (an id in the queue or about to be put there
  was never tried) and `PagesByTry`, for each job: what its row counts, what the
  session has not committed and what the engine can still yield are together no
  more than the tries begun times the limit of one engine run.

Each invariant there is a conjunction over jobs. A step touches the row of one job
and one execution, so each is proved for the job touched, by
action, and carried over for the others by the frame lemmas `WorkerFrame`,
`HandlerFrame` and `RequestFrame`. `IInv` is also an invariant of run `one_job`.

The user side (`UserServiceProofs`): all five invariants and the refinement. The
lemmas `StepWrites` (which actions write which table), `SessionMoves` (what a step
does to sessions: keeps, revokes or inserts) and `StepStarts` (how a request comes
to rotate, sweep or log out) are shared, so that each proof looks only
at the actions that matter to it.

- `TypeCorrect` also says that requests in flight name issued sessions
  (`NamesIssued`), without which a rotation could have no owner to pass on.
- `SweptStayDead`: the invariant is not inductive, as it does not say
  what an uncommitted sweep will do. `SweptInv`: a sweep in flight holds every
  live session of its user born before it, and no ticket exceeds the number of
  sweeps begun.
- `LogoutCompletes`: `LogoutInv` says that a token whose logout has reached
  PostgreSQL is blocked up to its `exp` at least (the arithmetic of rounding both
  times down is in `BlocksEnough`), and that a refresh session given with it is
  revoked or past its own `exp`; both last.
- `AdminServed`: `AdminFirst`, nothing is registered, in flight or served before
  there is an admin, and an admin stays one.
- `UsableListed` follows from types and arithmetic; `EmailsApart` is inductive.
- `ImplementsSessionLife`: under `life <- session[s].state` and `using` read off
  the rotations in flight; every request that ends is an Abandon or a stutter.

Settings (`SettingsStoreProofs`): the types (a stored key was sent by its own
user), `NamesUnique`, and the action properties of templates, which follow from the types
action by action. `KeysAreRegisters`: under `call <- CallOf(req[h])`, where a call is
taken once it is committed or if it asked for what it read, every step is one of
`KeyRegister` or a stutter. A request that raises is a `Refuse`: the key is not what
it would be had nobody else come. `StoreAssumption`: `Nothing` is no key.

Settings builder (`SettingsBuilderProofs`). `SlashesMakeNoDifference`: stripping
takes what lies between the least and the greatest place without a slash, and a
slash at either end moves the places but not what lies between (`Strip` is the
`strip("/")` of the code). `ChainsDecide` is about `build_filter_chain` with its
defaults. `KeysAreOwn` rests on the types of `SettingsStore`.

Induction. The library's induction theorems take an operator as a parameter,
which the provers cannot instantiate, so `InductionLemmas` starts from one that
does not: the strict subset order on finite sets is well founded. From it come the
least member of a set of natural numbers, induction along an interval or over a
finite set (`UpTo`, `ElementByElement`: what is to be shown is given as a set),
existence and unfolding of a function defined by recursion (`Recursion`), and
the sums of the folds (`Sums`, `Total`): that they exist, take up an
element, respect inequalities (`TotalLeq`, `TotalGrows`), and count a set by its
classes (`ClassesAddUp`).

Migrations (`MigrationsProofs`). `IInv`: the types, `OwnersKnown`, `WrappedOnce`,
and that the schema is `SchemaAt[rev]`, a function by recursion over the revisions.
`AddsAndDrops` checks, revision by revision, that each adds only what is new and drops
only what is there, and `UndoneRestores`, downgrade by downgrade, that each restores the
schema from before its upgrade.
A command passes through several revisions or fails at one: `UpgradedIs` and
`DowngradedFits` show by induction over them that the rows fit each one passed
(`Fit`: types, owners and wrapping of that revision) and what they have kept so far
(`Kept` going up, `KeptDown` going down, where `DownRowsKeep` needs that names and
providers do not clash at 0008). `UpgradesLoseNothing` and `DowngradesLoseOwnersAlone`
are the action properties, from the same lemmas.

Reads (`CrawlReadsProofs`). `IInv` says, for each kind of reader and each number of
statements it has still to take, how far the tables may have moved from what it has:

- `DetailSoFar`: a job that was not deleted meanwhile has no fewer rows than the
  counters that were read first;
- `TotalsSoFar`: the jobs there are differ from the counts that were read by
  `created` and `gone` at most, and no page leaves the sum while nothing is deleted
  (hence neither from that of a month with all the jobs);
  `GoneForGood`, a deleted job does not come back, makes each count once;
- `WalkSoFar`: while nothing that matched is lost, a steady job not yet seen has
  at least `at` newer ones before it, or one of its own age.

`EveryCommit` bounds what any commit does to the rows of any job; the lemmas
`CommitWhileDetail`, `CommitWhileTotals` and `CommitWhileWalk` carry the
invariant over a commit for each kind of reader; `DetailStep`, `TotalsStep`, `WalkCounts`
and `WalkPages` over the statements. Three facts about the queries carry the rest:
the counts by status add up to the jobs (`CountsAddUp`), the place of a job in an
`ORDER BY created_at DESC` is the number of newer ones unless there is a tie
(`PlaceOf`), and a page has what is due to it (`PageOf`, `NearlyDue`). `HistoriesAreExact` is
about buckets of any length: they can be enumerated in order
(`IncreasingEnumeration`), they partition the rows, and a running sum over the first ones
counts the rows up to their end (`CountsUpToCount`).

Every safety invariant and every action property that a run checks is also
proved. Only model-checked are the liveness properties (`QueueDrains`,
`RequestsEnd`, `JobsSettle`: fairness and ENABLED are out of TLAPS's reach here).
The runs that expect a violation show what does not hold.

## 5. Where the code and its documents disagree

- `cancel_sticks`. README.md:254 promises "Cancel a queued/running job". The
  worker reads the job (`tasks.py:68`), then commits RUNNING (`:72-74`): a cancel
  in between is answered CANCELLED and lost. Likewise `:100-102` over a cancel
  after the last check. `CrawlLifecycle` states what does hold.
- `delete_active`. README.md:256, "must not be active": the delete tests a status
  it has read and deletes whatever is there when it commits. A cancelled job
  that a worker had already read as QUEUED can be RUNNING by then.
- `content_objects`. `src/alembic/versions/0005_crawl_result_content_jsonb.py:24-26`
  wants to "wrap whatever doesn't parse as JSON so every row ends up a valid jsonb
  object". The function casts first and wraps only if the cast raises: text that
  is JSON but no object, a number say, is stored as it is. `WrappedOnce` is what holds.

Read but not a run: README.md:284-288 gives `POST /crawls` three modes; the schema
accepts `scraper` as well, and such a job has no URLs, scrapes nothing and ends
COMPLETED (`Loads` and `PagesWithinTries` cover it).

## 6. Plan

Done: the crawl core, the user side, settings and builder, reads, migrations,
and the proofs of section 4. What is left, in this order:

1. The lists of log lines and of discovered URLs as readers: they have the shape
   of `GET /crawls`, with the rows of one job that the worker adds to and a user
   deletes from, so that `WalkSoFar` has to be stated of rows instead of jobs.
2. An abstract specification of the templates, as `KeyRegister` is of the keys (a row is what one of the
   requests that wrote it left, column by column) and its refinement.
3. Refinements of the rows of a job: that `CrawlReads`, which makes its own
   commits, makes only such as `CrawlService` does.
4. A safety half of `JobsSettle`, for the proofs: an enqueued job that is not at a final
   status is in the queue or running, unless an execution failed.

## 7. What is not modelled

- A COMMIT whose answer is lost (the client cannot tell whether it happened): a
  failing statement is taken to have had no effect.
- Requests of other users: each handler selects by id and user and answers 404.
- The contents of pages, results and log lines. Of the crawl tables the log
  lines are left out: a log() is kept only as the commit it makes.
- `GET` handlers that return one row or the rows of one statement (templates,
  keys, `/me`), single items of the Data API, downloads, archive formats.
- In the settings builder, fields handed over as they are (browser, proxies,
  human behaviour) and the table of output-schema types, which a model could
  only copy.
- Passwords and names of accounts: a wrong password ends a request at once, and
  no property tells two names apart.
- In the migrations, indexes, server defaults and types other than that of
  `crawl_result_items.content`.
- arq beyond its queue, its tries and its slots: its result keys, and the
  delay between a crash and the redelivery.
- Configuration, logging and routing: they have no behaviour of their own.
