# Employee Safety Response System: TLA+ models, checks and proofs

The repository is a FastAPI backend (`src/backend/app`) on PostgreSQL and Redis,
run as three or more identical pods, and a React front end (`src/frontend`).
After an earthquake, a fire or a flood an administrator creates an *event*; every
active employee of the facilities concerned gets an unreported placeholder row
and reports `safe` or `need_help`; managers and administrators watch statistics
and send reminders. This directory models what can go wrong between those parts
when requests, background drains, pods, caches and polling pages interleave.

## 1. Inventory

| Component (source) | State | Operations | Talks to |
|---|---|---|---|
| Report write path (`modules/reports/router.py`, `cache.py`, `background.py`) | `safety_reports` rows, one Redis hash per event and user, one directory set per event, one drainer task per pod | `submit_report`, `buffer_report`, `drain_event_buffer`, `_batch_update_db`, `start_drainer`, `stop_drainer`, `get_my_report` | PostgreSQL primary and read replica, Redis |
| Statistics and team lists (`modules/reports/router.py` 252-442, `cache.py` 77-132) | Redis keys `stats:event:{id}:*` with a 5 s TTL | `get_event_stats`, `get_stats_by_department`, `get_team_status`, `get_all_status`, `cache_invalidate_pattern` | invalidated by the drainer, the fallback and the event handlers |
| Events (`modules/events/router.py`) | `events` rows, placeholders with organisation snapshots, gauge `ACTIVE_EVENTS`, list cache (10 s) | create, update (close, reopen, change severity), delete, list | writes placeholders, deletes reports and reminders |
| Reminders (`modules/notifications/router.py`) | `reminders` rows, unique per event and user | `trigger_reminders`, `get_reminders`, `get_my_reminders` | reads report rows (not the buffer) |
| Users and authentication (`modules/users`, `modules/auth`, `dependencies.py`) | `users` rows, Redis profile cache (600 s) | create, update, deactivate, login, `get_current_user`, `require_role` | every handler depends on the profile |
| Rate limiter (`rate_limiter.py`) | a Redis sorted set per user and action | `RateLimiter.__call__` | guards reports (5 in 10 s) and reminders (3 in 60 s) |
| Start-up and maintenance (`main.py`, `init_db.py`, `seed.py`, `prune_users.py`) | schema, snapshot backfill, demo data | migrations, seeding, top-up of placeholders, pruning | runs beside live pods |
| HTTP client (`frontend/src/api`) | retries left per request | axios interceptor: retry on network errors and 502/503/504 | submits reports again after an unknown outcome |
| Employee pages (`Home.tsx`, `ReportPage.tsx`, `ReminderBanner.tsx`) | report status, `submitted` lock, poll timers | load, report, poll | my-report, my-reminders |
| Manager and admin pages (`Dashboard.tsx`, `EventManagement.tsx`, `UserManagement.tsx`, `Analytics.tsx`) | selected event, filter, pages of rows | load, poll, filter, load more, edit | stats, team lists, events, users |
| Deployment, monitoring, tests (`k8s`, `monitoring`, `.github`, `tests`) | none that the program computes with | | |

What is hard here: everything is asynchronous, so every `await` is an
interleaving point with the other coroutines of the pod and with all other
pods; the report path keeps one fact in two stores and moves it with a
read-delete-write sequence that is not atomic; pods come and go; Redis commands
time out and are retried once by the client library; requests are retried by
the front end; responses of polls overtake each other; caches are invalidated
before the transaction that makes them stale has committed (`get_db` commits
after the handler has returned); a read replica lags.

What makes each part correct:

- Write path: an acknowledged report shows, never turns back to unreported, is
  one the user made, reaches the row, and is not replaced by an older one. The code
  does not keep all of this: what it keeps, and up to which expiry, is in section 3.
- Statistics: a cached value is a state of the rows, and stale for a bounded time.
- Events: every active employee concerned has exactly one placeholder, snapshots
  never change, deleting leaves nothing behind, a close is not undone by a concurrent edit.
- Reminders: only unreported employees of the sender's scope are reminded, each
  trigger counts once.
- Profiles: a deactivated or demoted user loses access within a bounded time, and
  a PATCH changes only what it was asked for.
- Rate limiter: a bound on accepted requests in every window, and eventual release.
- Front end: what was confirmed is shown, an older report does not come back while
  the user waits for a newer one, no page stays locked, a scrolled list has no gap.

## 2. Modules

`ReportBuffer.tla` models the write path. One action is one `await` of the code.

| Variable | Code |
|---|---|
| `db`, `replica` | the `status`, `message`, `reported_at` columns of `safety_reports`, for the pairs of `Placeholders`; on the primary and on the read replica |
| `buf`, `dir` | `buf:report:{e}:{u}` and `buf:events_with_pending:{e}` |
| `mode`, `pc`, `todo`, `cur`, `uids`, `records` | per pod: life cycle, next await of the drainer, `event_ids` left, `event_id`, `user_id_list`, `records` |
| `req` | submissions in flight, with the pod that handles them and what they have loaded |
| `read` | my-report reads in flight, with the buffered report found first and whether the answer is due to be a report |
| `clock`, `submitted`, `acked`, `lapsed` | history: the stamp `now_utc`, every submission, those answered 200, the pairs a hash of which has expired |

| Actions | Code |
|---|---|
| `Submit`, `BufferReport`, `SelectPlaceholder`, `DirectWrite`, `Respond` | `submit_report`, its pipeline (MULTI/EXEC), the SELECT with its 404, the fallback's flush and commit, the response |
| `BufferFails`, `BufferRetries`, `RequestFails` | `buffer_report` answers False (the pipeline may have run), redis-py runs it again (`retry_on_timeout`), a statement or the commit fails |
| `Scan`, `ReadMembers`, `DeleteDir`, `ReadHashes`, `UpdateDb`, `ClearBuffers`, `PassDone` | `drain_all_pending_events` and `drain_event_buffer` |
| `AbortDrain`, `RetryDelete`, `LookupFails` | the `except` branches of the drainer, and its retried deletes |
| `StopDrainer`, `Crash`, `StartDrainer` | graceful shutdown, death and start of a pod |
| `Expire`, `Replicate` | the 60 s of a hash and of a directory, the replica catching up |
| `ReadBuffer`, `ReadRow` | `get_my_report` |

Abstractions. A report is a status, an optional message and its time of
submission. Flush and commit of the fallback are one step: the row lock taken by
the flush keeps other writers out until the commit and readers see the old row;
for the same reason the batch UPDATE and its commit are one step (a deadlock of
two batches is a failing statement). A hash may expire in any
state, because nothing orders 60 s against a stalled or aborted drain; a
directory, which every submission refreshes, expires after the hashes it lists.
Expiry is not one of the `Faults`: it is always on. `CACHE_DISABLED=1` is the case
in which every `buffer_report` fails without an effect. The statistics cache invalidated by these handlers is not a variable
here: `cache_invalidate_pattern` swallows its errors and decides nothing.
An empty message is no message, as the buffered path makes it.

`SafetyView.tla` is the abstract specification: what users are promised,
whatever stores carry it. A pair of event and user shows nothing or a report each
column of which the user has submitted; a report is confirmed only when something
shows, or when a report of the pair has been lost to a time limit; a pair that has
been *settled* shows for ever; one that shows and is not settled becomes blank only
when it *lapses*. No order of the reports of a pair is promised. `ReportBuffer`
implements it with the refinement mapping `Promise`: the view is the buffer
overlaid on the row, a row with a status is settled, a pair a hash of which has
expired has lapsed, the confirmation is the 200. What is promised is as weak as
the code: the drain that loses a directory (a crash, a cancellation, a failed
UPDATE) leaves a report that will lapse.

`RateLimiter.tla` models one key of the limiter and the requests of one user on
any number of pods.

| Variables | Code (`rate_limiter.py`) |
|---|---|
| `log`, `expireAt` | the sorted set of the user and the action, its EXPIRE |
| `now`, `flight` | the clocks (the most advanced one), requests between reading theirs and their answer |
| `asked`, `accepted`, `refused` | history: all stamps, those let through and counted, the 429 answers |

`Arrive` reads a pod's clock, `Accept`, `OverLimit` and `ReplyLost` are outcomes
of the MULTI/EXEC one await later, `Refuse` is the ZRANGE after it and its
Retry-After, `Degrade` the failure of Redis at either await, which lets the
request through. A member of the set is the text of the stamp: two pods that
read the same clock value log one member, and so does a retried pipeline. Time
is counted in ticks, so `Retry-After` is exact up to the rounding of the code.

`StatsCache.tla` models the aggregates of one event, read through Redis.

| Variables | Code |
|---|---|
| `rows`, `held`, `writes` | the committed rows, a department and a status, `Absent` before, `Gone` after; history: what was committed in each tick; their number |
| `cache` | the entries `stats:event:{id}:*` with their expiry, and whether they were stored in a race |
| `reader` | `get_event_stats`, `get_stats_by_department`: query, then SET, then the answer |
| `writer` | a drain after its commit; a direct write or a deletion before theirs |

`Scan`, `Del`, `Invalidated` and `InvalidationFails` are
`cache_invalidate_pattern`. The handlers invalidate *before* `get_db` commits,
the drain afterwards; this is why an entry may outlive a change until its TTL.
`TopUp`, `Backfill` and `Prune` are the jobs of a deployment (`seed.py`,
`init_db.py`, `prune_users.py`): they commit rows beside live pods and invalidate
nothing (`Silent`), so that everything cached is late from then on.
`MaxAge` is the lag of the replica plus the time from a query to its SET. The
lists of events and of users are cached in the same way, under keys that hold
every filter, and are not modelled a second time.

`EventLife.tla` models events, placeholders and reminders. Each handler is one
transaction, one action is one of its statements under READ COMMITTED: it sees
what is committed, waits for row locks of others (a guard), and its writes
appear at the commit, which `get_db` makes after the handler has returned.

| Variables | Code |
|---|---|
| `event`, `user` | rows of `events` and `users`; `Absent` before, `Gone` after |
| `placed`, `written`, `buffered` | rows of `safety_reports`: the snapshot, whether there is a status, whether an acknowledged report still waits in Redis |
| `count` | `reminder_count` of each row of `reminders` |
| `tx` | transactions in flight: where they are, what they have read, and the rows they hold |
| `told` | history: how often a committed trigger has counted the user |

| Actions | Code |
|---|---|
| `CreateEvent`, `InsertPlaceholders`, `CommitCreate` | `create_event` |
| `UpdateEvent`, `FlushUpdate`, `CommitUpdate` | `update_event`: it loads the event, then writes the columns that differ |
| `DeleteEvent`, `DropReminders`, `DropReports`, `CommitDelete` | `delete_event` |
| `Prune`, `DropReminders`, `DropReports`, `CommitPrune` | `prune_users.py` |
| `StartTopUp`, `ReadMissing`, `InsertMissing`, `CommitTopUp` | the top-up of `seed.py` |
| `TriggerReminders`, `SelectExisting`, `UpdateReminders`, `InsertReminders`, `CommitTrigger` | `trigger_reminders` |
| `Rollback` | a violated constraint, a deadlock, a lost connection |
| `Report`, `Drain`, `Lose` | reports in brief: buffered, then written by a drain, or lost when no drain finds the hash before it expires |
| `CreateUser`, `UpdateUser`, `Backfill` | the users' handlers, `init_db.py` |

Abstractions. Manager, department and facility of a user are one value, and
`Unknown` is NULL in all three, as the backfill asks for. A user that the seed
creates is a `CreateUser`. The backfill is one step, because the ALTER TABLE of
its transaction locks the table. A constraint that does not hold is a disabled
statement, and the transaction can only roll back. A report that follows an
earlier, already written one is left to `ReportBuffer`. Two creations never draw
the same UUID. The gauge `ACTIVE_EVENTS`, which nothing in the program reads, is
not a variable.

`AtomicEvents.tla` is the abstract specification of these handlers: there are no
transactions in it, and an operation changes the tables in one step. `Create`
adds an event and rows for users who are there at that moment, `TopUp` rows for
pairs that had none, `Remove` takes an event or users with all their rows and
reminders and no others, `Remind` tells the sender of every user it was asked to
remind and counts those who are there. `EventLife` implements it (`HandlersAtomic`):
the tables are mapped to themselves, without the columns of an event and of a
user (`Presence`), and each transaction happens when it commits. A statement,
a rollback, a transfer and a report in the buffer are stuttering steps. An
operation of `AtomicEvents` looks at the tables of the step it is taken in, while
the code acts on what its statements have read some awaits before: that the two
come to the same is what the locks and the constraints are for.

`ProfileCache.tla` models who may do what, and how long.

| Variables | Code |
|---|---|
| `rows`, `held`, `writes` | the role and `is_active` of every row of `users`; history: the tables of each tick; the number of commits |
| `cache` | `user:profile:{id}`, 600 s, with a mark when it was stored in a race |
| `session` | when the last of a user's tokens expires |
| `req` | requests in flight: the step, the user or the target, what they have loaded |

| Actions | Code |
|---|---|
| `Login`, `IssueToken` | `login`: the SELECT and the check of `is_active`, then bcrypt in a thread, then the token |
| `Arrive`, `Query`, `Set` | `get_current_user` and `_get_user_by_id` with a hit, a miss, a Redis error |
| `RequireRole`, `Load`, `Flush`, `DelProfile`, `Commit` | `update_user` and `delete_user`, await by await, and `get_db` |
| `Create`, `Prune`, `Leave` | `create_user`, `prune_users.py`, every other end of a request |

A PATCH asks for a role, for `is_active` or for both; a field that the request
leaves out is `None` (`Patched`). The session of a handler keeps an object it has
loaded (`Loaded`), and an UPDATE has the columns that differ from what was loaded
(`Differing`). Every request carries a token:
what a token says is not a variable beyond its user and its end. Names,
departments and passwords of a user change nothing here.

`EmployeeApp.tla` composes the report page, the http client and Home with the
service.

| Variables | Code |
|---|---|
| `stored`, `sent`, `ran`, `lapsed` | the report the service shows, the attempts that may still reach it, those that have; whether a report that showed has expired |
| `call`, `try` | the promise of each press of a button and the attempts the interceptor of `client.ts` has made for it |
| `screen`, `page` | the page that is open, `submitted` with the presses it stands for |
| `loads`, `home` | Home's requests in flight and what it shows |
| `told` | history: presses whose success was toasted |

`Press`, `Accepted` and `Reject` are `handleReport` before and after its await,
`GiveUp`, `Retry` and `Refused` the interceptor, `Fetch`, `Answered` and `Show`
the effect of Home with its AbortController, `Reload` the redirect after a 401 or
the browser's reload. An attempt that the client has given up may run at any
later time. The service is what `ReportBuffer` leaves of the write path while Redis
answers and the replica does not lag: an attempt that arrives shows at once
(`Run`), racing drains may bring back an earlier report (`DrainedEarlier`), and a
report whose hash expires unwritten is gone (`Lapse`).

`TeamList.tla` models the paged list of the dashboard over one event.

| Variables | Code |
|---|---|
| `status`, `changes` | the rows of `safety_reports`, as the read replica has them; how often one has changed |
| `sel`, `list`, `total` | the filters, `reports` and `total` of `Dashboard.tsx` |
| `req` | requests in flight: the COUNT and the SELECT to come, or the answer on its way |
| `moves`, `coherent` | history: the rows that changed since the list was begun; whether it is made of pages of the current selection only |

`Rows` and `Page` are the ORDER BY, LIMIT and OFFSET of `get_team_status` (the place
of a row is the number of rows up to it), `Count` and `Select` its two statements, `Choose`, `Refresh`, `LoadMore` and `Arrive` the
callbacks `reloadAll` and `loadMore`. No request is cancelled, so the answer for
an older selection may replace or be appended to the list of the current one:
the code does show such a list until the next reload. The properties are about
the others. Rows that a top-up adds while a manager scrolls are left out.

The `MC*` modules give the sets and symmetries for TLC, the `*Proofs` modules
hold the theorems.

## 3. Runs

| Run | Instance | Question |
|---|---|---|
| `store_faults` (`visible.cfg`) | 2 pods, 1 user, 2 requests in flight, 3 reports; Redis and SQL may fail, hashes expire | does an acknowledged report show until its hash expires, does nothing else flip back? |
| `pod_churn` | 2 pods that crash, stop and restart, 2 users of whom one has no placeholder, one request at a time, 2 reports, one reader; SQL may fail, hashes expire, the replica lags | does the path implement `SafetyView`, does a read after the 200 see the report, are all stored values genuine? |
| `drain_progress` | 2 pods, 1 user, 2 requests in flight, 3 reports; no faults but expiry, fairness | does what cannot be removed unseen reach the row? |
| `rate_window` | 2 requests in flight, limit 2, window of 4 ticks, clocks and pipelines late by one tick, 7 ticks | does the limit hold in every window, is nobody refused for nothing? |
| `stats_fresh` | 2 users, an admin and a manager of a department that one user belongs to, 1 reader, 1 writer of every kind, top-up, backfill and pruning, TTL and lag of a tick, 2 commits | are the numbers served at most TTL + lag old and of the caller's scope, does an invalidation that ends leave no old entry behind? |
| `event_life` | 1 event, 2 users, 2 transactions of any kind but triggers, 3 organisations of which one is unknown | is each handler one step of `AtomicEvents`, is nothing orphaned, half deleted or reopened, are known snapshots kept? |
| `reminders` | 1 event, 2 users, 2 transactions of triggers, deletes and prunings, 2 reminders per user, reports, fairness | is each trigger one step of `AtomicEvents`, are the counts exact, does the banner of a user whose report is not lost go away for good? |
| `access` | an administrator and a user still to be created, 2 requests in flight, demotions, deactivations and both at once, every TTL and lifetime of a tick, 3 ticks, 2 commits, a pruning, failing DELs | is a request judged by a recent profile, does a deactivated account lose access, do concurrent PATCHes respect each other? |
| `employee` | 3 presses, 1 repeat each, drains that bring back earlier reports, lapses | does Home know what was toasted, can an older report arrive while the user waits, do buttons come back? |
| `team_list` | 3 users, a row per page, 3 selections, 2 answers in flight, 2 reports | what can a scrolling manager miss? |

`ReportBuffer`. Two pods are enough for every race of the drainers: the steps of
a drain touch only what it has captured, and a third pod repeats what the second
can do. `store_faults` has one user with three reports, so that one is buffered,
one is in a drain and one on its way through the fallback. `pod_churn` has two
users, one of whom the batch must not touch and the SELECT refuses. Larger
instances, with two events for the WHERE clause of the batch, are left to the
theorems.

What the runs and theorems say of an acknowledged report is relative to the expiry
of its hash, since the code loses reports there: a drain that has deleted the
directory and is aborted, cancelled or killed leaves a hash that no drain finds, and
after 60 s the report shows as unreported again. `ReportsVisible`, `NeverBlankAgain`
and `KeepsPromise` say that this is the only way, under any faults, and that a row
once written is never blank again. `ReadersSeeReports` says the same of an answer,
which the code reads in two steps; besides, a read is excused only when it did not
get what Redis had, or when it had no overlay and the replica was behind at that
moment.
No property promises an order: two pods do commit in the order opposite to their
reads, which `background.py` accepts ("the last writer wins").
`BufferedReachesRow` states the exact condition under which a buffered report is
safe from the drains (it was neither added between SMEMBERS and DEL of the
directory nor replaced between HGETALL and DEL of the hashes), and that it is
then delivered even when pods race, unless it expires first.

`RateLimiter`. The window must be longer than the delay for a stamp to outlive a
late pipeline, and the clock must run past a window for stamps to leave it: 4, 1
and 6. `MaxDelay` and `MaxSkew` bound the environment, the code bounds neither:
what the limiter promises is a limit in every stretch of `Window - MaxDelay`.

`StatsCache`. One reader stores what another would find, and the reader itself
asks again for either scope (by department, the answer that tells scopes apart), so
a second one adds no race of a kind that one reader and a writer do not have; three
ticks let an entry expire that was stored one tick late. One user has a row, the
other may get one by a top-up, with or without a department, and lose it by a
pruning; the backfill needs a top-up before it. `StaleOnlyByRace` names as its
exceptions the stores that overlap a change, a failed invalidation and the jobs,
for which `ServedFresh` is the bound.

`EventLife`. The races are between two transactions; one event is enough because
all locks and constraints are per pair. `MaxReminders` bounds the triggers.
`BannerEnds` says that the banner of a user whose report waits in Redis goes away
for good, unless the report is lost with its hash.

`ProfileCache`. Two requests hold every pair of steps that the properties
relate: two PATCHes, a PATCH and a reader that stores the profile across it, a
login and a deactivation. An administrator who acts on the own account and one
who acts on another are both there. Two users are enough because a step of one
request touches one profile. The PATCHes demote, deactivate or do both in one
commit, beside one that does the other; the theorems hold for every set of them.

`EmployeeApp`. `OlderOnlyUnawaited` needs an attempt of an older press that runs
after a newer one; the third press tells the newest from the one before. One
repeat tells the last attempt from the ones before; the theorems cover the two of
the code. `TypeOK` bounds the attempts of a press.

`TeamList`. With a page of one row each page boundary lies between two rows that
may change places; two reports move rows in both directions, and two answers in
flight overtake each other. The selections are everybody, a department and those
who are safe: users enter the last by reporting, and the dashboard opens on an
event where nobody has reported or all but one have. It is the selection users
enter that makes a report cost two rows at the end of the list: one that reports
between the COUNT and the SELECT pushes another behind the end that was counted.
Within the list a report costs one. Larger instances are left to the theorems.

Symmetry is used for pods, requests, transactions and, when all have
placeholders, users, in runs without liveness only. Deadlock is checked in the runs of
`ReportBuffer`; the other modules stop at their bounds (the last tick, the last
commit, an event that is gone).

Fairness:

- `FairSpec` of `ReportBuffer`: weak fairness of each request's next step and of
  each drainer's next step, since the event loop resumes a coroutine whose await
  has completed and the drainer loop never ends. No fairness of submissions,
  faults, expiry, restarts or reads.
- `LiveSpec` of `EventLife`: weak fairness of `Rollback`, since a transaction that
  neither commits nor goes on ends with its connection or its request; and weak
  fairness of `Drain \/ Lose`, since a hash that no drain writes expires. That a
  drain writes it is not assumed.
- `Fairness` of `EmployeeApp`: weak fairness of `GiveUp` and `Retry`, the timers of
  the browser: a request times out after 10 s, a repeat waits a second at most.
  Attempts, answers and the user owe nothing.

Two runs must be found violated:

| Run | Claim | What happens |
|---|---|---|
| `newer_report_lost` (`LatestKept`) | `cache.py` 270-272: the buffered value matches what was written | a report buffered between HGETALL and DEL is deleted unwritten |
| `lost_on_shutdown` (`NothingLostOnTermination`) | `background.py` 17-18: a final drain pass, so that nothing buffered just before termination is lost | the drain that is cancelled has deleted the directory, the final pass finds no event, and the report waits in a hash that no drain lists until it expires |

Neither is due to the expiry of a key: both properties except the pairs that have
lapsed.

Two more statements of the repository do not hold in the models, without a run
of their own: `docs/er-diagram.md` 85 (later transfers do not alter a snapshot: the
backfill of the init job takes the placeholder of a user without any organisation
for a row from before the migration), and `notifications/router.py` 151-152 (who has
reported does not see the banner: the banner looks at the row, which the drain
writes later; `BannerEnds` is what remains of it).

## 4. Proofs

Every theorem holds for all values of the constants: any sets of events, users,
pods, requests, transactions and scopes, any limits, delays and bounds.

`ReportBufferProofs.tla`:

| Theorem | Assumes | States |
|---|---|---|
| `TypeCorrect` | nothing | `TypeOK` |
| `AckedReportsVisible` | nothing | `ReportsVisible` |
| `NoNullFlicker` | nothing | `NeverBlankAgain` |
| `ReadsSeeAckedReports` | nothing | `ReadersSeeReports` |
| `ReportsGenuine` | no `"redis"` | `Genuine` |
| `ImplementsSafetyView` | nothing | `KeepsPromise` |

The expiry of hashes is part of all of them; only `ReportsGenuine` has an
assumption on the faults.

`ReportsVisible` is not inductive: `ClearBuffers` removes hashes, and must not
remove the last trace of a report. `VisibleInv` adds that whoever is listed in a
directory or in a drain's snapshot shows or has lapsed (`ListedShown`,
`DrainedShown`), that a
user whose hash was already missing when the drain read it has a reported row or has lapsed,
that after the UPDATE so has every user of the snapshot, and that a request
about to answer has been buffered or written (`RequestsShown`). The key lemma of
each step is `Kept`: what shows or has lapsed goes on to do so, and a written row
stays written. It holds because hashes are only deleted after the commit, which is
why the order "write first, then clear" matters. `ReadersInv` adds that a read
whose answer is due has either found the report in the buffer or will find the row
written. `GenuineInv` adds the reports carried by requests, reads, snapshots and
the replica. `ComposedInv` is what is left of it when Redis may fail: the fallback
updates the columns that differ from what it has loaded, so each column of a row,
and of the overlay, is one the user has submitted. The refinement maps a submission
to `Offer`, the response to `Confirm` and every other step to `Revise`, which `Kept`
and `ComposedInv` justify.

`RateLimiterProofs.tla`: `TypeCorrect`, `LimitHolds` (`WindowBound`) and
`NoUnjustRefusal` (`RefusalsJustified`). The invariant says that an accepted
stamp stays in the sorted set, under an expiry that does not come too early,
until it is a window old (`Remembered`); the set a pipeline counts then contains
all accepted stamps of the stretch.

`StatsCacheProofs.tla`: `TypeCorrect`, `Fresh` (`ServedFresh`) and `OnlyByRace`
(`StaleOnlyByRace`). The first invariant follows a value: it was true when it was
born, is stored within `MaxAge`, and its entry expires `TTL` after that. The
second follows the writers: an answer on its way to the cache is current unless a
commit, of a writer or of a job, has marked it (`AnswersCurrent`), and a handler that has scanned and has yet
to commit leaves only entries that it still has to delete or that were stored
behind its back (`Swept`).

`ProfileCacheProofs.tla`:

| Theorem | States |
|---|---|
| `TypeCorrect` | `TypeOK` |
| `Fresh` | `ProfileFresh` |
| `Ends` | `TokensEnd` |
| `Coherence` | `StaleOnlyByRace` |
| `Privilege` | `OnlyAdminsChange` |
| `FieldsKept` | `OtherFieldsKept` |

As in `StatsCache` the age of a profile is followed from the query to the entry
and to the request that is judged by it, and a token from the SELECT of its login.
`Coherence` and `FieldsKept` rest on the row locks: of the changes that have been
flushed one at most concerns a user, and its new row is the committed one with
fields of its own patch.

`EmployeeAppProofs.tla`: `TypeCorrect` (`TypeOK`), `HomeInformed` (`HomeKnows`) and
`Unawaited` (`OlderOnlyUnawaited`). The invariant says that after the first toast
something is stored, unless it has lapsed, and every answer on its way to Home was
given afterwards, since navigating aborts what was asked before; and that a page waits for one press, which is the newest one.

`EventLifeProofs.tla`:

| Theorem | States |
|---|---|
| `TypeCorrect` | `TypeOK` |
| `RowsHaveOwners` | `NoOrphans` |
| `CountsAreExact` | `CountsAreTriggers` |
| `DeletesAreWhole` | `NothingLost` |
| `SnapshotsKept` | `KnownSnapshotsFrozen` |
| `ClosesStay`, `CloseIsStamped` | `CloseStays`, `ClosedAtKnown` |
| `ImplementsAtomicEvents` | `HandlersAtomic` |

None of these is inductive: a commit acts on what statements have read long
before. The invariant therefore says of each transaction in flight what its
locks and the constraints keep true until it commits (`Held`: inserted
placeholders are new and refer to what stays, a reminder that was counted still
exists unless its event or user is gone, ...), and of any two that they do not
meet (`Apart`: no two insert the same row, none deletes a reminder another has
locked). A statement must establish its own claim (`OnlyTx`), a commit must keep
those of the others (`Finished`); the deletes are one lemma (`DroppedKeeps`),
since a delete takes an event and a pruning takes users with all their pairs.

The refinement has one lemma per kind of commit (`CreateIsAtomic`, `TopUpIsAtomic`,
`UpdateIsAtomic`, `DropIsAtomic`, `TriggerIsAtomic`), one for the steps without a
transaction (`OthersAreAtomic`), and `StepIsAtomic` puts them together. Each takes
what the transaction did from the lemma about its commit that the invariant uses
as well, and its guard in the abstract step from `Held`: the users and events that a
creation or a top-up refers to are still there because of its key locks, and the
event of a delete and the users of a pruning still exist or have at least existed
(`DropHeld` says so for this proof). `TriggerIsAtomic` also needs `NoOrphans`: a
reminder that is counted belongs to an event and a user who exist.

`TeamListProofs.tla`: `TypeCorrect`, `ReportsCostRows` (`MissesAtMostMoves`) and
`StillIsPrefix` (`PrefixWhileStill`). Places are a bijection between the selected
users and 1..n (`Places`, `RowsInPlace`), so a page is the set of users in a run of
places (`PageIsBetween`). A sequence `Covers` its places up to k of them, and a
report costs it one more (`ReportCovers`): of the rows between two places only the
one that changed, or the first, or the last leaves (`OneLeaves`). That the list
covers its places is not inductive, since the page to be appended was cut under
another table than the list: the page and the list each being k short might
make it 2k. The invariant therefore follows the pairs: a page on its way covers
its places together with the list, or with the first page on its way that will
replace the list, up to the later of the two counts of reports (`ListJoins`,
`PagesJoin`). A fresh page joins whatever is there (`FreshContinues`), and there is
one request for more at a time (`Alone`). The totals add that a selection outgrows
its COUNT by one row for each report.

Assumptions on the constants: the bounds are natural numbers (the window is
positive, the delay at most a window), placeholders are pairs of an event and a
user, facility lists and scopes are sets of organisations, and the values that
stand for "nothing" (`None`, `Idle`, `Absent`, `Gone`) are none of the others.

Only model-checked: liveness under fairness, which is out of the prover's reach:
`BufferedReachesRow`, `BannerEnds` and `LocksEnd`. Every other property of a passing
run is the conclusion of a theorem.

## 5. Not modelled

- `list_users` and `list_events` with their cached lists: they read, store and are
  invalidated as the aggregates of `StatsCache` are, with other TTLs.
- The gauge `ACTIVE_EVENTS`: it drifts with every restart and only feeds a chart.
- Creating tables and indexes and seeding an empty database: they run before any
  pod. Demo data.
- The retries of GETs in the client (one step that ends in an answer or an error),
  the reminder modal, the polling banner, the confirmation dialog.
- The dashboard's charts and their tick (they show what `StatsCache` serves), the
  admin pages (forms over one request at a time).
- Limits of PostgreSQL and its drivers, such as the number of parameters of the
  batch UPDATE, the detection of deadlocks and the connection pools: what they cause is
  a failing statement, which every module allows.
- Kubernetes manifests, monitoring, continuous integration and load tests (no
  program state), translations and rendering, the cryptography of passwords and
  tokens.

What remains to be done: the two list caches as instances of one module with
`StatsCache`.
