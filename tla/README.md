# OpportunityRadar: specifications, model checks and proofs

OpportunityRadar collects job postings of companies, keeps them in SQLite,
shows them in a web page and mails a digest of what changed. One backend
process (FastAPI, `backend/`, `server.py`) does most of it: request threads,
maintenance runs, two scheduler threads and the Chromium sessions of the
collectors share one database, one set of files and one mutation gate. Operator
commands work on the same database and on a workbook of companies. This
directory holds TLA+ models of the parts in which order, failure and time
matter, the TLC configurations that check them, and TLAPS proofs.

Paths are relative to the repository.

## The system

### Components

| Component | State | Operations | What makes it correct |
|---|---|---|---|
| Mutation gate, `backend/operation_gate.py` | the active operation, whether it accepts | acquire (refuses at once), release (only by its holder), stop and start accepting | at most one operation mutates; every lease comes back |
| Maintenance runs, `backend/utility_runs.py` | `maintenance_job_runs` rows; cancel events and threads by run; `_accepting` | start, cancel, `_execute`, shutdown, reconcile at start-up | one history per run, finished for ever, cancels honoured, no active row without somebody behind it |
| Lifecycle, `server.py` | the managers, one per process | start-up, ordered shutdown, `api_mutation` around each mutating endpoint | no mutation after the gate is closed; interrupted runs are reported as such |
| Maintenance scheduler, `backend/maintenance_scheduler.py` | `maintenance_schedules`, `settings.scheduler_timezone`, `_schedule_lock` | poll, claim an occurrence, start, release the claim, edit | no date run again unless an edit reopened it, no date lost, no wait for ever |
| Email digest, `backend/email_service.py`, `email_scheduler.py` | `email_settings`, `email_snapshot_jobs`, checkpoint, history | poll, claim, compare, mail, advance the checkpoint, edit | once per date, the snapshot is what readers were told |
| Browser launch lease, `backend/outbound_security.py` | lease, holder, process trees, close guards, watchdogs of calls | launch, close, disconnect, reclaim, bounded calls | the lease belongs to one browser and comes back; an exception meant for one call stays in it |
| Outbound request policy, same file | the held-back credentials of a session, the chain of redirects, intercepted requests | calls, redirects, route guard | only judged addresses are reached; credentials stay with their origin |
| Egress proxy and namespace, `browser_egress_proxy.py`, `browser_netns_runner.py` | proxy process, socket file, slots, tunnels, runner, watchdog | start, probe, relay, end | slots come back, a dead proxy is replaced, Chromium does not outlive its runner |
| Backup and restore, `backend/backup_restore.py`; migration, `backend/migration.py` | archives, database file and its log, quarantine, artifacts | back up, prune, restore, roll back, migrate | a crash at any point leaves the old or the new state, and the old one is never lost |
| Job collection, `collectors/`, `job_*.py` | the list being read; `jobs.json` | read a board page by page, merge, replace | a list returned as complete is complete; what was not read is kept |
| Repository, `backend/repository.py`, `db.py` | jobs, applications, companies | upsert, prune, expire, edit, import, delete, re-key | one row per identity, no user data lost by a refresh |
| Utility tasks, `backend/utility_tasks.py`, `company_information.py` | the pool of a review | review companies, collect, import | what a finished lookup found is saved or reported; no data crosses from one company to another |
| Company tools, `main.py`, `website_audit.py`, `job_board_discovery.py`, `excel_tools.py` | `master.xlsx` | enrich, fill, audit, repair | marks and boards stay with their company through merges |
| Authentication, `backend/blueash_auth.py` | cookies, introspection cache | sign in, exchange, introspect, sign out, revoke | an ended session is out after the cache's time; a failed sign-in gives its token back |
| Health, `backend/health.py` | readiness cache | check, answer | answers are not older than their time, everybody is answered |
| Resumes, imports, exports | files | parse, match, export | formats |
| Frontend, `frontend/` | page state | load, poll, edit | display only |

### How they interact

`UtilityRunManager.start` takes the gate in the caller's thread, inserts the
row and hands gate and row to a daemon thread; that thread gives the gate back.
API requests (`api_mutation`) and the digest take the same gate for the length
of one operation. The maintenance scheduler calls `start` while it holds
`_schedule_lock`; an edit takes the gate first and `_schedule_lock` inside it.
The digest and the maintenance schedules both keep a copy of one timezone.

What runs under the gate is modelled in modules of its own (`JobRefresh`,
`CompanyRecords`, `EmailDigest`): `MaintenanceRuns` shows that one of them is at
work at a time, and they rely on it. A refresh asks the collectors
(`BoardCollectors`) whether a board was read completely; the collectors reach
the network through the sessions of `OutboundRequests` or through browsers,
which take the launch lease (`BrowserLease`), are started and closed by bounded
calls (`BoundedCall`), have their requests judged (`PageGuard`) and get out
through the proxy (`BrowserEgress`). Requests to the backend pass
authentication (`Sessions`) or ask for readiness (`ReadinessCache`). Shutdown
closes the gate, then the schedulers, then the manager; start-up reconciles the
rows that the last process left active.

### What is hard here

* threads: request threads, one per run, two schedulers, close guards,
  watchdogs, pools, proxy workers;
* two locks and a gate that are taken in different orders;
* one step of several failing: SQLite statements, thread starts, file moves,
  SMTP answers, browser launches and closes, calls to the Portal;
* a crash between two steps, and what the next process makes of what it finds;
* state that is read, used later and stale by then: snapshot files, caches, rows
  read before a lookup, a board that changes between two of its pages;
* time: local dates that move when the timezone does, caches, deadlines that
  expire as the work they bound is done.

`PROJECT.json` lists the hazards one by one, at their lines, with the
properties that guard against them.

## Modules

| Module | Models |
|---|---|
| `MaintenanceRuns` | gate, run manager, API writers, shutdown, crash, restart: the core |
| `RunContract` | what a client of runs may rely on; implemented by `MaintenanceRuns` |
| `MaintenanceScheduler` | daily schedules, their edits, the email settings edit, the clock |
| `EmailDigest` | digest, its scheduler, its settings, refreshes |
| `BrowserLease` | the one-Chromium lease, launches, closes, guards, reclaim |
| `BoundedCall` | the watchdog of a Playwright call and its asynchronous exception |
| `OutboundPolicy` | a lookup and its verdict: shared by the next three |
| `OutboundRequests` | one protected session and its chains of redirects |
| `PageGuard` | the route guard of browser pages |
| `BrowserEgress` | proxy process, relay, tunnels, runner, watchdog, Chromium |
| `DatabaseFiles` | database file and log under backup, restore, retention, migration |
| `BoardCollectors` | every collector's way through a board that changes |
| `JobRefresh` | from what was collected to rows, applications and snapshot |
| `CompanyRecords` | company identity, edits, imports and the review pool |
| `CompanyTools` | the commands over `master.xlsx` |
| `Sessions` | sign-in, requests, sign-out against the Portal |
| `ReadinessCache` | readiness checks and their cache |
| `BrowserStack` | `BrowserLease`, `BoundedCall`, `PageGuard`, `OutboundRequests` and `BrowserEgress` beside each other |
| `MC...` | instances for TLC; `MCJobTools` and `MCFrontDoor` put two parts beside each other |
| `MaintenanceRuns_proofs`, `MaintenanceScheduler_proofs`, `EmailDigest_proofs`, `DatabaseFiles_proofs`, `CompanyRecords_proofs` | proofs about the module they are named after |
| `BrowserStack_proofs` | proofs about the modules it composes, then about the composition |
| `JobTools_proofs` | proofs about `BoardCollectors`, `CompanyTools`, `JobRefresh` |
| `FrontDoor_proofs` | proofs about `ReadinessCache`, `Sessions` |

An operator whose comment begins with "Mutant of" is a plausible mistake in the
definition that follows it, in the same form; replacing the one by the other
must break the property named with it in `PROJECT.json`. No specification uses
them.

### MaintenanceRuns

`row` is the status column; `phase`, `gate`, `gateAccepting`, `accepting`,
`lock`, `registered` (the keys of `_cancel_events` and `_threads`) and
`cancelSet` are the fields of the process; `starter[r]` and `thread[r]` say
where the call of `start()` and the thread of run `r` are, `outcome[r]` what
the thread is about to record.

`start()` is `StartAcquire`, `StartInsert` or `StartInsertRefused` (a failing
statement or the unique index of active runs), `StartSpawn` or
`StartSpawnFails`, `StartReturn`. It keeps the manager's lock over these steps
up to the spawn; every other critical section is one step. `_execute` is
`ExecLoad`, `ExecBegin` (with its look at the cancel event), `WorkerReturns` or
`WorkerRaises`, `CheckCancelled`, `RecordOutcome`, `RecordFailure`,
`Unregister`, `ReleaseLease`. `Cancel` writes the row and sets the event.
Shutdown is `CloseGate`, `CloseManager`, one `SignalCancel` per event, `Exit`
(the join has a deadline, so threads may be cut short); `Crash` is the same
without any of it; `Restart` is the reconciliation, which goes on after a
database error. A request is served before the shutdown hook runs, so `Cancel`
is possible in the phase "serving" only.

Left out: progress notes and log lines, the stall watcher (it only reports),
rows of skipped runs (they are born final).

### RunContract

The abstract specification: a status per run and the set of those who mutate.
It admits at most one mutator, lets a run finish only once, and lets a new
process declare active runs failed. `MaintenanceRuns` implements it under
`status <- row`, `busy <- Mutators`; TLC checks this on the instance and TLAPS
proves it for every value of the constants.

### MaintenanceScheduler

One cycle of the scheduler thread is `CycleBegin` (the schedules are read once),
then per job `NotDue`, `ClaimLost` or `ClaimOccurrence`, then `SkipUnavailable`,
`StartRun`, `StartConflict` or `StartError`, then `ReleaseOccurrence` or
`ReleaseError`; `CycleAborts` and `CycleEnd` end it. `pc # "idle"` is the
possession of `_schedule_lock`. Edits of a schedule are `EditBegin` (the gate),
`EditApply` or `EditRejected` (the lock), `EditEnd`; edits of the email settings
are `MailBegin`, `MailSave` or `MailRejected`, `MailEnd` and never take the
lock. `OtherBegin` and `RunEnds` stand for everything else that holds the gate.

Time is counted in ticks, `Day` of them to a day, and a zone is its offset in
ticks: what the properties tell apart is the local date and whether the local
time has reached the schedule's. The column `updated_at`, which the code uses as
a version number, appears as the set `touched` of rows written since the thread
last saw or wrote them. `accounted` and `closed` are history: the account of a
job lists, in order, the dates it was run, the dates an edit waived (it enabled
the schedule for a time already past, and the date of the edit is stored as
done) and the dates an edit reopened (it enabled the schedule for a time still to
come, and the stored date is emptied, `maintenance_scheduler.py:107`). Only a
move of the timezone empties it, and a run counts for the timezone its claim was
made in. `OncePerDate` says that nothing but such a reopening, on that date, lets
a date that was run or waived be run again. Stopping the scheduler with the process is
covered by a refused start and by a crash.

### EmailDigest

The scheduler thread is `NothingDue` or `Poll`, `PollAcquires` or
`PollConflicts`, `ReadAgain`, `Claim` or `ClaimFails`, then the digest:
`DigestRefused`, `DigestReadsJobs`, `StoreBaseline`, `NoChanges`,
`RecordSending`, `Deliver`, `DeliveryFails` or `DeliveryInDoubt` (the server
accepted the message and the client did not learn of it), `AdvanceCheckpoint`
or `DigestFails`. `UserSends` starts the same digest by hand; `SaveSettings` and
`SaveSchedule` are the two editors of the timezone; a refresh changes the open
jobs one company at a time while it holds the gate. `told` is what a reader of
all the mails knows, `inDoubt` that a mail went out whose success was never
recorded, `claims` the dates claimed: history.

The compare-and-set of a claim always succeeds: its row is written only under
the gate, which the claimer holds. The history row of a digest cut short stays
"Sending" in the code; the model keeps only that its delivery is in doubt.
Message text, the test mail and the encryption of the password are left out.

### BrowserLease

A session is one use of a browser: `Ask`, `Acquire` or `WaitExpires`, then
`ReclaimCheck` and `ReclaimRelease` if the wait has expired, `LaunchSucceeds`
or `LaunchFails` and `ReapOrphan`, then `CloseBegins`, `CloseCallEnds`,
`FinishGuard`, `Reap`, `CloseReleases`; `GuardEscalates` and `GuardEnds` are the
guard thread, `TreeDies` and `Disconnected` the world. A process tree is alive,
exiting (its connection is gone, some process is not) or dead; processes are
named by pid and start time, so dead is for ever. `_release` has two critical
sections, of which the second only delays its caller: one step. Linux with
`/proc` is assumed; without it the code takes the fallback it describes as
unproven.

### BoundedCall

One thread makes calls one after the other (`Enter`, then `Returns` or `Wedge`);
each has a guardian that waits, fires its event, raises the exception into the
thread and ends. CPython delivers it at some later bytecode (`Deliver`), so it
may come while the call runs, in the join that follows it (`Absorbed`) or, were
the join not there, anywhere. A guardian that outlasts the five seconds of the
join is counted in `slow`: the exception may then come up later, and the
property is stated for `slow = 0`. Exceptions that Playwright itself swallows
are left out.

### OutboundPolicy, OutboundRequests, PageGuard

A lookup returns any non-empty set of addresses, another one each time; it is
approved if all are routable. A session's call looks its origin up (`Check`),
again when it connects (`Connect`), and looks at the target of a redirect before
it follows (`Redirected`). What a request holds is one of four kinds: the
credentials and the query parameters of the call, and those of the session. A
session makes one call at a time under its lock; each caller in the source has a
session of its own. What makes a URL acceptable, methods and bodies are left
out. In `PageGuard` each request of a page is intercepted, judged and settled
by a handler, redirects are intercepted anew, sockets are refused, and the page
may go away at any time; errors of the callback are swallowed by the code and
left out.

### BrowserEgress

`Launching` is the backend: the check of the runtime (cached once it has
succeeded), the proxy's start and probe, the launch. The proxy binds, serves and
ends, orderly or killed, and may leave its socket file; a worker that was never
started makes its join raise, which leaves the file too. A tunnel goes through
relay and proxy (`Open`, `Dial`, `Authorize`, `Connected`, `PumpEnds`,
`RelayEnds`) and takes a slot of both. The runner starts Chromium and tells the
watchdog; each of them may be killed. The bytes of a tunnel, the parsing of
headers, the interfaces and routes are left out, as are an end of the relay's
accept loop after a failed thread start, and the end of the backend (a change of
`getppid`).

### DatabaseFiles

A database value is the number of the commit that made it; `main` is the
database file, `wal` the log with the commits it leads from and to. The
application commits, checkpoints, stops and crashes; one operator command at a
time backs up and prunes, restores (`raw` diagnostic copy, backup, checkpoint of
the target, quarantine of the sidecars, replacement, validation, roll-back), or
migrates. The inspection of the current database has three outcomes
(`InspectCurrent`): it is sound and backed up, it is missing or fails the
inspection, or the inspection raises on a sound one (`blind`), which the code
treats like the second: no backup, no checkpoint, and the log goes into
quarantine unread. A backup that fails may have been published
(`BackupFails`: the directory is renamed before its parent is synced). Every step
can fail or be the last one; a crash is the end of a
process, and what it wrote stays. The `-shm` file carries no data. A file rots
only while no command runs; clock steps and two commands at a time are left
out; a migration runs while the application is down, as its documentation
demands.

### BoardCollectors

The providers with an interface share one loop and differ in what they check of
a page; a collector is a record of those checks (total stated on every page or
the first one, unique ids counted, a page limit and so on). `FetchPage` reads a
page of a board that `Churn` changes between two of them; `FetchFails` and pages
cut short or too long are the provider's faults; `RenderPage` is the generic
collector, which keeps what a browser rendered. Greenhouse and Lever are the
generic collector with another name. Which collector is picked, the parsing and
the details of a posting are left out.

### JobRefresh

`rows` and `apps` are the tables, `json` the snapshot file, `run` the refresh: a
full one, one company or a dry run (`BeginFull`, `BeginSingle`, `DryRun`), which
collects a list per company, complete or not (`Collect`), merges it with the
snapshot (`Merge`), makes the table equal to the result (`Replace`) and writes
the snapshot (`Finish`); `Cancel`, `Fail` and `Crash` come between any two.
Applications, imports and deletions come between runs. Titles and details of a
posting are fixed; a posting has a link and an id made from it, which another
may share, of its own company or of another (`make_job_id` cuts a link). A full
refresh renames the second of an id (`Prepared`, `_prepare_jobs`); the refresh of
one company does not, and its statement updates whatever row has the id: the row
it takes may be another company's (`Displaced`). The browser flag, limits and
filters all mean that some subset of the companies is collected. Companies are
deleted but neither added nor renamed, so the match by name of jobs without a
company id (`job_tools.py:578`) finds nothing that the match by id does not: a
company added under the name such a job has is left out.

### CompanyRecords

A row has a name, a website and a key that only one row of a name owns. `Change`
is an edit or an import; `RefreshOne` the lookup of one company; a review groups
the rows that may share a lookup, submits the groups to a pool and saves what
comes back, with cancels, interrupted lookups and failing rows. The description
stands for all the fields that are no website. An imported row brings an
official and a known website (`Brought`), the latter not tied to the former as it
is in an edit. Websites are identified with
their domains; edits of the careers page and the board, which reset the
verification too, ties of creation times and refused descriptions are left out.

### CompanyTools

A command reads the workbook (`StartFill`, `StartRepair`, `StartAudit`,
`StartEnrich`), looks rows up in any order (`LookUpBoard`, `RepairSite`,
`EnrichCompany`) and writes the merged rows in one step (`WriteMaster`); a dry
run writes nothing, and a command that stops writes nothing either. What a page,
a search or a browser finds is left open. A name stands for name and state.
`StoredBoardsStay` speaks of the commands that fill boards, repair and audit: the
rows of an enrichment may win over stored ones, with the board they bring
(`merge_company_rows`, `excel_tools.py:289`). The
export to `companies.json` and the audit files are left out.

### Sessions

One browser with several tabs. Requests are sent, arrive, are authenticated
(from the cache or by an introspection that takes time), served and come back
with new cookies; responses overtake each other. A sign-in is a start, a visit
of the Portal (external), a callback that exchanges a code, an introspection and
a cookie. The Portal ends sessions and calls are lost. The validation of the
configuration, return paths, identity fields and the size limit of the cache
are left out.

### ReadinessCache

Callers look up the one stored result, wait for the check of another or check
themselves, a part after the other, the database at two moments (`LookUp`,
`CheckPart`, `CheckEnds`, `CheckRaises`), while the storage changes. Whether a
part exists, can be read, has the schema and can be written is one verdict, so
that one component changes per behaviour loses nothing the property tells
apart. A woken caller gets the lock before the next tick and a check takes at
most `CheckTime`.

## Runs

| Run | Instance | Shows |
|---|---|---|
| `MaintenanceRuns_runs` | 2 runs of one job, 1 writer, 2 faults, 1 crash, fairness | `ActiveRowHasOwner`, `ImplementsContract`, `AcknowledgedCancelHonoured`, `LeaseComesBack`, `EveryRunSettles` |
| `MaintenanceScheduler_days` | 2 jobs, the second switched off, 2 timezones that move both ways, 2 edits, 1 fault, 1 crash, fairness | `OncePerDate`, `ClaimHasRun`, `EditCompletes`, `DueIsServed` |
| `EmailDigest_digest` | 2 jobs, 3 dates of which one is not scheduled, 4 operations, 2 faults, 1 crash, fairness | `ClaimedOncePerDate`, `SnapshotIsTold`, `DueDigestIsServed` |
| `BrowserStack_network` | 2 sessions of a browser; 3 bounded calls; 2 requests of a page; 2 origins, 2 addresses, 3 redirects; 3 tunnels through 2 slots, 2 faults; fairness | `LeaseMatchesOwner`, `ProvenReleaseMeansDead`, `StrandedLeaseRecovers`; `NoStrayUnwind`, `NothingHangs`; `OnlyApproved`, `SecretsStayHome`; `SlotsComeBack`, `ProxyRecovers`, `ChromiumFollowsRunner` |
| `DatabaseFiles_files` | 3 commits, 4 artifacts of which 2 are kept, 2 faults, 2 crashes, 1 damaged file | `NeverTorn`, `NoThirdDatabase`, `PriorIsKept`, `ReportIsTrue`, `KeepsKnownGood` |
| `DatabaseFiles_migration` | no backups, 1 crash | violated: finding 1 |
| `BoardCollectors_boards` | 7 postings, pages of 2, 3 pages, a cap of 6, 2 changes, 1 fault, symmetry of the plain postings | `NothingMissed` |
| `BoardCollectors_zero` | the same | violated: finding 2 |
| `JobTools_jobs` | 2 companies, 4 postings of which 3 share an id, 2 runs, 1 fault; 2 companies of a workbook, 2 websites, a fit and a refused board, 3 commands | `BoardIsShown`, `SnapshotAgrees`, `NothingLost`; `VerifiedIsEarned`, `StoredBoardsStay` |
| `JobRefresh_moved` | the first half of it | violated: finding 3 |
| `CompanyRecords_review` | 3 ids, 2 names, 2 websites, 2 workers, symmetry of the websites, three starts | `NamesApart`, `NoCrossFill`, `FinishedIsSaved` |
| `FrontDoor_requests` | 2 callers and the start-up; 2 tokens, 2 requests, 2 tabs, cache of 0 or 2, four starts | `Current`, `AskersAnswered`; `EndedIsOut`, `SignInSettles` |

`BrowserStack`, `JobTools` and `FrontDoor` check parts that share no state in one
run: a behaviour is one of one part, with the others at rest, so each part is
checked as if it were alone.

### Why the bounds are enough

* `MaintenanceRuns`: two runs of one job are needed for the unique index, a
  writer for the gate between runs and requests; with two failing statements
  both status writes of one thread can fail, or the statement and the repair
  that follows it. One crash gives two processes and the reconciliation between
  them; a shutdown gives more, without a bound. A run of another job meets the
  gate only, as the writer does; the theorems hold for any number.
* `MaintenanceScheduler`: a day of two ticks has a time before and a time after
  each schedule; three ticks see a midnight, in the later zone two, and a date
  claimed again would be claimed again on the next poll. Two edits enable and
  disable, or move the timezone there and back, by either editor. Jobs interact
  through the gate and the cycle only, so the second one stands for all that
  follow.
* `EmailDigest`: one scheduled date, one that is not, and one more; a fault for
  the mail and one for the bookkeeping after it.
* `BrowserStack`: two sessions are a holder and its successor; with two
  addresses one is routable and one is not; three redirects leave home, come
  back and leave again; two slots and three tunnels fill the proxy; a page
  request has a redirect and one too many; a call, its successor and one more
  for an exception that comes late.
* `DatabaseFiles`: three commits tell "before", "after" and "in the log" apart;
  two kept of four artifacts make retention delete; two faults hit a step and
  the roll-back of it; two crashes hit a command and the application.
* `BoardCollectors`: seven postings are three full pages and one over, more than
  the cap, so a list can be cut by a limit, by the provider or by neither; two
  changes are needed to cancel each other out.
* `JobRefresh`: of four postings three share an id, within a company and across
  companies; two and two share a link across companies; one is a record the
  collection refuses. Two runs are a refresh and one that starts from what it
  left.
* `CompanyRecords`: three starts, for two rows with two edits, two duplicates
  with a known website other than their own, and three duplicates under one
  review; a fault in the first two. Two threads let a lookup finish behind a
  later one.
* `CompanyTools`: two companies, one without a website, so that a repair can
  give one the website of the other; three commands are what it takes to find,
  repair and fill.
* `Sessions`: four starts (signed in; signed in with a second sign-in; a first
  sign-in; two tabs) with a clock long enough for the session to end and the
  cached answer to run out in the first. `RoundTrip` bounds a call of the Portal.
* `ReadinessCache`: a caller in a check, one that waits and the start-up.

Symmetry is used only in runs without liveness properties. The runs that switch
the deadlock check off are those whose system may stop: all sessions of a
browser are over, nobody edits any more, the database is left as it is.

### Fairness

* `MaintenanceRuns`: a call of `start()` and the bookkeeping of a thread go on;
  a writer ends (its operations are bounded); a shutdown once begun is carried
  out; the container runtime restarts a stopped backend. A worker is *not*
  obliged to end: the code only watches a stalled one. Nobody is obliged to
  start, cancel, shut down or crash.
* `MaintenanceScheduler`: the thread goes on and a request with the gate carries
  out its edit. `EditApply` has strong fairness: the lock is free for
  `poll_seconds` between two cycles, over and over, and a thread that waits for
  a Python lock for that long gets it. Runs need not end and the clock need
  not move.
* `EmailDigest`: the thread polls; SMTP calls have timeouts, so a digest ends;
  an edit ends. A refresh need not.
* `BrowserLease`: every wait on the way to a launch and inside `close()` has a
  timeout or a hard bound. The use of a browser need not end, nor a process
  tree die.
* `BoundedCall`: the calling thread and the guardians go on; a call may wedge.
  `PageGuard`: Playwright's dispatcher runs every handler.
* `BrowserEgress`: threads go on, waits of the proxy have timeouts, a browser
  that was launched is closed by its session and launches are asked for again.
* `ReadinessCache`: a thread that can go on does; a check may raise instead.

## Proofs

Every invariant and every action property that a passing run checks is proved as
well, for every value of the constants, from the named assumptions of the modules
alone: sets that have to be disjoint are, bounds are naturals, time spans
positive, the special values `None`, `Nothing`, `Nobody` are no members of what
they stand beside, postings and the inputs of an enrichment are finitely many,
and the legacy tables of `CompanyRecords` are tables (ids with rows, listed once
each in the order of their creation). Most modules first show that the variables
keep their types, then an inductive invariant, then what follows from it.

| Module | Theorems | Property of a run |
|---|---|---|
| `MaintenanceRuns_proofs` | `Invariance`, `TypeCorrect`, `Serialization`, `AtMostOneMutator`, `LeaseNeverLeaks`, `WorkerRowIsOpen`, `FinalityHolds`, `CancelledNeverWorks` | |
| | `ActiveRowsAreOwned`, `CancelsAreHonoured`, `Refinement` | `ActiveRowHasOwner`, `AcknowledgedCancelHonoured`, `ImplementsContract` |
| `MaintenanceScheduler_proofs` | `SchedulerTypes`, `LedgerInvariance`, `DatesRunOnce`, `SpentDatesHaveRuns` | `OncePerDate`, `ClaimHasRun` |
| `EmailDigest_proofs` | `DigestTypes`, `ReadersKnowTheSnapshot`, `DatesAreClaimedOnce` | `SnapshotIsTold`, `ClaimedOncePerDate` |
| `BrowserStack_proofs` | `LeaseInvariance`, `LeaseHasItsOwner`, `ReleaseIsProven` | `LeaseMatchesOwner`, `ProvenReleaseMeansDead` |
| | `ExceptionStaysInItsCall` | `NoStrayUnwind` |
| | `RequestInvariance`, `SecretsStay` | `SecretsStayHome` |
| | `ConnectionsAreJudged`, `PagesAreGuarded`, `StackTypeCorrect`, `OnlyApprovedAddresses`, `NoSlotIsLost` | `OnlyApproved` |
| `DatabaseFiles_proofs` | `FilesTypeCorrect`, `NeverReadsTorn`, `OldOrRestored` | `NeverTorn`, `NoThirdDatabase` |
| | `PriorStaysRecoverable`, `ReportHolds`, `RetentionKeepsKnownGood` | `PriorIsKept`, `ReportIsTrue`, `KeepsKnownGood` |
| `JobTools_proofs` | `CollectorsInvariance`, `CollectorsTypeCorrect`, `ReturnedMissesNothing` | `NothingMissed` |
| | `ToolsInvariance`, `ToolsTypeCorrect`, `MarksAreEarned`, `BoardsStay` | `VerifiedIsEarned`, `StoredBoardsStay` |
| | `RefreshInvariance`, `RefreshTypeCorrect`, `BoardShown`, `SnapshotIsTrue`, `NothingIsLost` | `BoardIsShown`, `SnapshotAgrees`, `NothingLost` |
| `CompanyRecords_proofs` | `CompaniesInvariance`, `CompaniesTypeCorrect`, `NamesStayApart`, `NothingIsCrossFilled`, `FindingsAreSaved` | `NamesApart`, `NoCrossFill`, `FinishedIsSaved` |
| `FrontDoor_proofs` | `CacheInvariance`, `AnswersAreCurrent`, `ReadinessTypeCorrect` | `Current` |
| | `SessionInvariance`, `SessionTypeCorrect`, `EndedSessionsAreOut`, `SignInsSettle` | `EndedIsOut`, `SignInSettles` |

Hardly any of the properties is inductive.

*MaintenanceRuns.* `Inv` is `TypeOK` with two groups of facts. `GateInv` says who
may be where: the manager's lock is held by the one `start()` that has the gate
and has not left its critical section (`LockInv`); a call that has started, a
thread that lives and a writer that writes are what the gate names
(`HolderInv`), and conversely (`NoLeakedLease`); a thread exists only where its
call has got as far as the spawn (`SpawnInv`). `HistoryInv` says what is in the
database meanwhile: which status each place of a thread allows (`RowInv`), that
a live thread is registered (`RegisteredInv`), that a row being cancelled
belongs to a set event (`EventInv`), that an active row has somebody to finish
it unless a statement failed (`OwnerInv`), and that a process that is down holds
nothing (`DownInv`). The parts lean on each other: a restart, which rewrites
rows, keeps `RowInv` only because of `DownInv`, and a thread's last status write
keeps `OwnerInv` only because `RowInv` says that what it is about to write is
final. What a cancel acknowledged at work leaves (`Honoured`: the event is set
until the result is decided, and the result is not Completed) is kept by every
step, crashes and restarts included, which gives the nested
`AcknowledgedCancelHonoured`. The refinement maps each action to an action of
`RunContract` or to a stutter, with `Inv` supplying the guards.

*MaintenanceScheduler.* For `OncePerDate`, as long as no statement has failed,
no date in the account of a job is later than today (`Kept`), and the date in its
row covers the account: it is no later than today, and no earlier than any date
run or waived since the last reopening (`Backs`). A claim at hand is of a date that is not in
that part of the account, and what its release would give back covers it too
(`ClaimIsNew`). All rest on local dates that grow with the clock. For
`ClaimHasRun`, the claim at hand is in its row, a row or timezone written since
is on record, and what a release would give back stands for a run itself
(`ClaimIsTraced`, `Traced`): a release is the step that would break the property
without the last part.

*EmailDigest.* `Known`: a digest is made under the gate, by a scheduler that is
past its claim or by a user, and only with a baseline; unless a delivery is in
doubt, readers know the snapshot, or, once the mail is out, what it is about to
become. `Ordered`: claimed dates
increase and none is beyond the settings' date, which is past. The latter needs
`OneZone`, an assumption of the theorem `DatesAreClaimedOnce`: see below.

*BrowserStack.* Each module has an invariant of its own; `StackInv` is each of
them while its module is at work. *BrowserLease.* `Ownership` ties the holder,
the places of the sessions and `current` together; `Evidence` says what a session
that has looked at the processes still knows when it releases: there is no
Chromium as long as the holder is the one it saw, and what `close()` has proven
dead stays dead. *BoundedCall.* While no guardian has outlasted the join, the
guardians of earlier calls are over (`Settled`), and a pending exception is of the
call the thread is in, whose guardian has fired and is over (`Aimed`).
*OutboundRequests.* What the session holds back during a call is what it held
before (`Kept`), what a hop still holds it is entitled to by the chain so far
(`Entitled`), and what is sent is both together (`Wire`). *PageGuard.* What is
let through was judged (`Judged`). *BrowserEgress.* A worker connects to judged
addresses only, and there is none while the relay still dials (`TunnelsSound`); the free slots and the workers of a running proxy add up to its
slots through every broken tunnel and failed thread start (`SlotsAccounted`, the
theorem `NoSlotIsLost`), which is the safety behind `SlotsComeBack`.

*DatabaseFiles.* `Control` says which commands exclude each other and when the log
is out of the way, `Progress` what a restore has found, moved and staged by each
of its places, `Retention` that what is doomed was spared for newer backups. A log
is read over the file it was written for, over a missing or damaged file, or over
the one it leads to (`Fits`); as long as no migration has put a file in front of
another's log (`overLog`, finding 1), all files and artifacts fit their logs
(`Untorn`), and a main file that has lost its log reads as it did with it
(`Detachable`), unless the inspection raised and the log was moved away before
its checkpoint. `NeverTorn` and `NoThirdDatabase` follow; `PriorIsKept` and
`ReportIsTrue` are parts of the invariant and need the others.

*BoardCollectors.* While a collector that was told a total is reading
(`Counted`), the length of the board against that total tells what has happened
to it (`SizeTells`); one that counts unique ids has only seen postings that were
there at first, as long as none was added (`FromTheStart`); one that counts
entries has seen the head of the board, as long as nothing changed (`InStep`).
*CompanyTools.* Marks are earned in the workbook and in the rows at hand
(`AllEarned`), keys are apart (`SheetApart`), and a command has the rows of the
workbook at hand, with what it must not touch as it was (`AtHand`). *JobRefresh.*
Rows are under ids made of their postings (`WellNamed`); while a run collects the
snapshot is the table (`Told`); what was found belongs to companies of the scope
(`Collected`); what was merged has one row of each link and misses none that has
to be kept (`MergedRight`). The lemmas say what walking along the list does: each
insertion keeps the ids apart or takes the row of an id (`Put`), and the lookup of
a free id ends.

*CompanyRecords.* `TableInv`: rows are typed, listed once each by age, and a key is
a name of its row and of no other's. `ReviewInv`: no company is in two lookups, no
more are under way than there are workers, the rows that share a lookup have one
domain between them (`Kin`) and what is not saved yet is at hand (`AtHand`).
`Kin` is what `NoCrossFill` needs at the moment a lookup is saved; the edits that
would break it are kept out by the gate.

*ReadinessCache.* If the component that changes last did so before a check
began, the check has seen it as it is (`SeenAsItIs`); and a stored result is
right if its check began after the last change, which its remaining lifetime
bounds (`StoredAsItIs`). For the types, at most one caller checks at a time
(`Alone`). *Sessions.* A session of the Portal ends when it says (`PortalHolds`);
a cached identity ends with its session and outlives one that was ended by the
cache's time and one round trip at most (`CacheHolds`); a request at hand knows
tokens of the Portal, has waited for a round trip at most, and an answer
"active" was right after it was asked (`CallHolds`).

Lists are walked by recursive functions in the models. Their values are proved
step by step, as invariants over the places of a list by well-founded induction on
the first place that would fail, because the library's theorems of induction
cannot be instantiated here.

Only model-checked: liveness (`LeaseComesBack`, `EveryRunSettles`,
`EditCompletes`, `DueIsServed`, `DueDigestIsServed`, `StrandedLeaseRecovers`,
`NothingHangs`, `SlotsComeBack`, `ProxyRecovers`, `ChromiumFollowsRunner`,
`AskersAnswered`), which rests on fairness and `ENABLED`.

The type invariants (`TypeOK`, `SessionTypeOK`, `EgressTypeOK` and so on) and
`MutationsSerialized`, `WorkerRowOpen`, `TerminalIsFinal`,
`CancelledBeforeStartNeverWorks` and `NoLeakedLease` are proved and not in a
configuration.


## Findings

1. *A migration may be replaced by the log of the database it replaced.*
   `apply_migration` activates the new file with `os.replace` and leaves the
   `-wal` of the old one (`backend/migration.py:225`). After a clean stop there
   is none; after a crash SQLite recovers it into the new file. README.md:46
   promises that what is activated was checked; the restore moves the log away
   first.
2. *An empty list for a board that was not rendered.* `PaycorCollector` swallows
   the timeout of `networkidle` and counts the links of a frame that has not
   rendered (`paycor_collector.py:63`); the generic collector accepts a list
   container without items. The refresh takes both for a board without jobs.
   job_tools.py:34 says what should be raised.
3. *Two postings may share an id.* `make_job_id` keeps 140 characters of a link
   (`job_tools.py:780`); which of the postings has the row an application hangs
   on depends on the order of the board.

## What TLC refutes

Statements that do not hold, met while modelling. Those with a name are
definitions of the module, to be added to a configuration; their comments say so.

* `RefusedMeansNotStarted` (`MaintenanceRuns`): `start()` reads the row back after
  the thread is live (`utility_runs.py:135`); if that read fails the caller gets
  an exception for a run that runs. The import endpoint then deletes the file the
  worker is about to read (`server.py:957`); the scheduler gives the occurrence
  back and runs the job again.
* `EditSparesClaim` (`MaintenanceScheduler`): `save_settings` rewrites
  `maintenance_schedules.updated_at` without `_schedule_lock`
  (`email_service.py:181`), so the release of a refused claim matches nothing;
  the comment at `maintenance_scheduler.py:135` says that they share the lock.
* `OncePerDay` (`MaintenanceScheduler`): a job that has run today runs again today
  when its schedule is edited to a later time:
  `update_schedule` empties the stored date (`maintenance_scheduler.py:107`).
  README.md:242 says that jobs are scheduled "once per day"; for a user who moves
  the time the second run may be what is wanted, so `OncePerDate` excuses it, and
  only it.
* A claim at hand while the email settings move the timezone back is run under
  its former date, and the same local date is run again in the new zone;
  README.md:242 says once per day. `Account` counts such a run for the former
  zone. A move that takes the local date back makes a job that has run due again
  in any case, because dates are compared for inequality only
  (`maintenance_scheduler.py:151`): `OncePerDate` starts new accounts on a move.
* Digest dates are claimed twice when the timezone moves there and back, for the
  same reason: hence `OneZone`, and one zone in the run.
* The digest keeps its old timezone when a schedule edit changes the
  application's (`maintenance_scheduler.py:112`); README.md:324 says it uses it.
* `GuardWoundDownBeforeNext` (`BrowserLease`): the disconnect event inside
  `close()` releases the lease (`outbound_security.py:1541`) while the guard of
  that close still runs; docs/BROWSER_LEASE_RECOVERY.md:45 says the guard is
  wound down first. And after a failed launch the lease is released whatever the
  reap of the orphan found (`outbound_security.py:882`), so that its processes
  may live beside the next browser.
* `JobRefresh`: an open job of a company that was not read completely need not
  stay open: one record is kept per link, the later one of the list, and an
  archived record may win. A stored record that `is_valid_job_record` refuses
  takes a valid one of its link along (`Shadowed`). The refresh of one company
  writes a job whose link is cut to the id of another company's over that row
  (`job_tools.py:780`, the `ON CONFLICT(id)` of `repository.py:820`), so a job of
  a company that was not refreshed may go (`Displaced`).
* `CompanyRecords`: the refresh of one company writes the final URL of the page
  over a verified website also when nothing was verified, and the mark stays; an
  import of the same id with a new website keeps the mark too; an import of
  another id with the same name can set it for the stored website.
* `CompanyTools`: a repair writes its rows also when no candidate was found and
  keeps the careers page and board of the former website; a row repaired to the
  website of another company is merged with it; the company id stays with the
  old domain, so a later row of that domain gets the same one; bounds on reading
  truncate a larger workbook on rewriting; a browser phase that raises loses the
  static results.
* `NoThirdDatabaseEver`, `FailureChangesNothing` (`DatabaseFiles`): a SQLite error,
  or a failed foreign key or schema check, in the inspection of a sound current
  database counts as a database that is not sound (`backup_restore.py:303`). The
  restore goes on without the `pre_restore` backup and without the checkpoint
  (`backup_restore.py:319`) and moves the log away; a crash before
  `os.replace` leaves the old pages without the last commits, and a failure whose
  log cannot be put back (`backup_restore.py:779`) reports that nothing changed
  when they are gone from what is read. They survive in the diagnostic copy
  (`PriorIsKept` has no exception). `NoThirdDatabase` and `ReportIsTrue` excuse
  this case by name (`blind`).
* docs/PHASE2_VALIDATION.md:72 says of an injected fsync failure that no artifact
  was published. The fsync after the rename of the directory
  (`create_sqlite_backup`) can fail as well: the backup then exists and the
  command says that it did not complete.
* `DatabaseFiles`: between the two halves of a roll-back a third database is read,
  which `NoThirdDatabase` leaves out; the backup before a migration
  (`create_backup`, `migration.py:381`) copies the file without its log; the
  validation of a migration runs no integrity check (`migration.py:308`), which
  README.md:46 lists.
* `BoardCollectors`: the changes that no total shows (`Undetectable`); iCIMS,
  Paylocity, Paycor and the generic collector state no total, and the generic one
  keeps the first hundred.
* `Sessions`: an introspection under way when its user signs out stores its
  identity again; the cookie a late 401 clears may be that of a newer sign-in; a
  second tab's attempt replaces the first's; a token that a new sign-in replaces,
  or whose exchange was answered in vain, is not revoked.
* `ReadinessCache`: a process that starts unready stays without its schedulers
  when health recovers (`server.py:1632`); a transaction longer than
  `busy_timeout` makes `/api/health` answer 503; a check that is killed leaves
  its probe file.
* `BrowserEgress`: the probe precedes the lease, so a proxy saturated by the
  running browser refuses the second launch rather than letting it wait; a
  runner killed between the start of Chromium and the write of its pid leaves it
  to the lease's reaper, and a watchdog killed later is not noticed (both are
  left out of `ChromiumFollowsRunner`); the relay gives up after ten seconds of
  silence, the proxy after thirty.

## Plan

Done: the core (`MaintenanceRuns`, `RunContract`), the schedulers, the way of a
browser to the network, the files of the database, the collection of jobs, the
companies and their commands, the front door; proofs of type correctness and of
every safety property a run checks.

Next: `RunContract` as the environment of `JobRefresh` and `CompanyRecords`
instead of their one actor at a time; the timezone as one state shared by
`MaintenanceScheduler` and `EmailDigest`.

## Not modelled

* The frontend: state of a page, which the next load replaces. Two answers to
  reloads may arrive out of order (`frontend/src/App.tsx`), and a rematch merges
  into the list it was started from.
* Parsing of external sites, the scoring of evidence, enrichment, resume
  matching, file formats, message texts: functions of their input, which no
  order or failure changes.
* Queries for display, the command line's options, logging and progress notes.
* The collectors' choice for a link, and what makes an address acceptable: a set
  in the models.
* Power loss: a crash is the end of a process, and what it wrote stays.

## Running

    tlc -workers 2 -config MaintenanceRuns_runs.cfg MCMaintenanceRuns.tla
    tlapm FrontDoor_proofs.tla

Each configuration `X_y.cfg` belongs to the module `MCX.tla`. The longest run
takes one to four minutes on two cores, a module of proofs half a minute to eight
minutes (`JobTools_proofs`).
