# MoviePilot-Server: a TLA+ verification development

MoviePilot-Server is the central service that MoviePilot installations talk to.
It is a FastAPI application run by several uvicorn workers over one relational
database (PostgreSQL, or SQLite in small deployments) and one Redis.  It relays
push messages, keeps shared subscriptions, workflows, ratings and statistics,
proxies the 115 login and has an administrator back end.  Workers share nothing
but the database and Redis; inside a worker asyncio interleaves requests at
every `await`.  What can go wrong lies between two of those calls, and that is
what the modules here describe.

## 1. The system

| Component | State | Operations | Correct when |
|---|---|---|---|
| Push binding registry (`services/push/registry.py`, `api/push.py`) | `PUSH_DEVICE` rows; pairing codes and their index in Redis; Redis locks per installation and per owner | register, subscribe with a code, unregister, create a code, unsubscribe, test, send and prune | device quota, one row per destination and installation, codes used once, a logout leaves nothing behind, users never lose each other's devices |
| Push instance credentials (`services/push/enrollment.py`, `admin/push.py`) | `PUSH_RELAY`, `PUSH_RELAY_KEY`; locks per key and per instance | enrol, rotate, revoke, switch on and off | one current key per instance, spent keys never return, retries are idempotent |
| Rate windows (`rate_limit`, `check_login_limit`) | Redis counters with a life time | count and refuse | at most the limit per window, counters die out |
| Push delivery (`services/push/delivery.py`) | HTTP client, cached signing key | send | a verdict "gone" only for answers that say so |
| Administrator accounts (`admin/users.py`, `auth.py`, `cli.py`) | `ADMIN_USER` with role, enabled, auth_version; sessions in Redis; a write-locked row | login, act, create, update, reset, change password, bootstrap | an enabled super administrator always remains, stale sessions do nothing |
| Data maintenance and cache (`admin/data.py`, `admin/invalidation.py`, `core/cache.py`) | public rows, a revision in Redis, a flag and the last seen revision in every process | edit, clear, increment the revision, poll, retry | a public answer does not stay stale after an edit |
| Plugin ratings (`services/plugin_rating.py`) | one rating per user and plugin, a summary row that orders the writers, cached summaries | submit, summarise, delete | the summary is the aggregate of the ratings, nobody is refused, a process that has written serves nothing older |
| Statistics (`subscribe_statistic.py`, `plugin_statistic.py`, `usage_statistic.py`) | counters | add, done, report, batch, delete | a retry after a lost insert race is enough, no lost reports where an atomic UPDATE counts, no invented ones where it does not |
| Shares (`subscribe_share.py`, `workflow_share.py`, `user_permission.py`) | shared items and owners, cached listings | share, delete, fork | a user's request deletes only the user's own share (refuted on SQLite); whoever changed the shares lists nothing older |
| 115 proxy (`api/u115_auth.py`) | a login session with its token in Redis | start, callback, poll | a token that was announced is there to be taken, one that was taken is not served again |
| Shared recognition (`media_recognize_share.py`) | one record per medium in Redis, in forms of three generations | report (read, merge, write), query with rewrite and fall-back, delete | what was reported is found, an answer is about what was asked |
| Media identity (`core/media.py`) | a source and an id, in old and new forms | normalise, store, migrate, serve | what the program reads in a request or an old row stays the same on every way through the system (disputed rows excepted) |
| Cleanup (`data_cleanup.py`) | Redis lock, old rows, audit records | run on a schedule or on request, release, cancel | one run at a time, the lock is not left behind, the audit is exact |
| Schema migration (`database_schema.py`) | tables of several ages, an advisory lock on PostgreSQL | migrate at the start of every worker | workers that start together do not make one another fail; what a fault leaves can be migrated |
| Life cycle (`main.py`, `db/redis.py`) | pools, tasks | start, stop, shed load | what is opened is closed |
| Push web page (`static/push/*.js`) | local storage, service worker | pair, unpair, show | page and server agree |

Components meet in four ways: database rows (every service), Redis keys (locks,
codes, sessions, caches, counters), calls inside a request (the push API calls
credentials, then the registry, then delivery), and background tasks (cleanup
and invalidation retry).  `PROJECT.json` lists every component with its status
and, under "hazards", the lines at which this code is hard to test.

## 2. What is modelled

Every component with state of its own has a module, but for the one row in which
`admin/config.py` keeps the feature switches (section 4).  They are checked in
three groups: push bindings, push credentials and administrator accounts, whose
behaviours are the deepest, have runs of their own; the interfaces that gather
data from clients are checked by `public_interface`, and the services behind
them by `services` (sections 2.4 and 2.5).  All passing runs use two requests or
two processes, because the hazards of this program are those of two requests
that meet at an await.

### 2.1 PushBinding: the registry of push bindings

`PushBinding.tla` models `registry.py` and the handlers of `api/push.py`.  A
worker in the model is one request in flight; `Workers` bounds how many there
are at a time.  One step is one call to Redis or the database, because that is
where asyncio and the other processes get their turn; what a handler computes
between two awaits belongs to the step after it.

| Code | Model |
|---|---|
| `PUSH_DEVICE` rows | `devices`, a set of records; `via` stands for `secret_hash` |
| `push:pair:<code>` | `pairing` (the value), `live` (the key exists) |
| `push:pairs:<ns>:<owner>:<installation>` | `IndexOf(n, o, i)`, a part of `index` |
| `binding_lock` | `lock`; `Take`, `LockBusy` (3 s over), `Unwind`, `Lapse` (lease over) |
| `register_device` | `Register`, `AcquireInstall`, then `save_device`, `Release` |
| `save_device` | `AcquireQuota`, `ReadExisting`, `CountDevices`, `EvictRivals`, `Upsert`, `ReleaseQuota` |
| `subscribe`, `claim_pairing`, `consume_pairing` | `Subscribe`, `AcquireInstall`, `ConsumePairing`, `RequireEnabledNamespace`, then `save_device` |
| `create_pairing` | `RequestPairing`, `CreatePairing` |
| `unregister_device`, `_remove_binding` | `Unregister`, `AcquireInstall`, `RemoveRows`, `FindCodes`, `DeleteCodes`, `DropIndex`, `Release` |
| `unsubscribe`, `test_subscription`, `send_message`, `prune_revision` | `Manage`, `SendMessage`, `Deliver`, `PruneRevision` |
| exceptions, death of a worker | `Fail` (locks given back), `Crash` (locks remain until their lease ends) |

Abstractions: a device's `id` and `revision` are the number of the save that
wrote it; the destination fingerprint is the destination; `updated_at` and the
display fields are left out.  Row locks of the database are modelled where two
transactions can meet (`LockedRows`, `DeadlockVictim`): a deleted row stays
locked until its transaction ends.  Only the rows a transaction deletes are
remembered, and the rest of the transaction is one step, which is READ
COMMITTED for statements that touch one row each.  `revoked` and `obs` are
history and no step of the program reads them.

#### Runs

All instances have two workers, which is what every hazard listed for this
component needs: the interesting schedules are those of two requests.

| Run | Question | Instance |
|---|---|---|
| `binding_quota` | Is the device quota kept, is a destination bound once whichever transactions cross, and does a row vanish only for an intended reason? | 2 users, 2 installations, 2 tokens, quota 1, 4 saves |
| `binding_codes` | Are codes used once and never after a logout; are the indexed ones dead once a logout has deleted what it found; is a logout free of rows until it ends; was the instance of a row enabled? | app and page, 2 codes, quota 2, 2 orphaned locks |
| `binding_live` | Is every request answered, whatever crashed workers left? | 1 installation, 1 page, crashes |
| `binding_overtaken` | refuted: a request in flight during a logout does not rebuild the binding | |
| `binding_survivor` | refuted: a logout revokes all unused codes of its installation | |

Bounds.  `MaxSaves` counts registrations and subscriptions that ever start: a
quota of 1 is exceeded by two, a takeover followed by a rotation takes three,
and two takeovers whose row locks cross, of which the database gives one up,
take four.  In `binding_quota` requests fail at every step, which gives their locks
back; locks that crashed workers leave behind, which keep others out, are in
`binding_codes` and `binding_live`.  Its two users stand for the accounts of one
instance or of two, whose transactions meet in the same way; the theorem
`BindingsUnique` has any number of both.  `MaxDevices` stands for 20; 1 and 2 show the same comparisons.  A code
is issued at most once (256 random bits).  `MaxOrphans` bounds the locks that
crashed workers leave at a time.

Fairness.  `FairSpec` has weak fairness of `Serve(w)` only: the event loop goes
on with a request whose awaited call has returned.  Nothing is assumed of
clients, crashes, expiry or leases.  No request is stuck waiting for a lock
because `LockBusy` is enabled as soon as a lock is taken: that is
`blocking_timeout=3`, and it is why `RequestsEnd` holds without any lease ever
ending.  Deadlock is checked in every run of this module.

#### Proofs

`PushBindingProofs.tla` and `PushBindingCodesProofs.tla` prove every safety
property of these runs for all values of the constants.

| Theorem | Property | Leases |
|---|---|---|
| `TypeCorrect` | `TypeOK` | may lapse |
| `BindingsUnique` | `UniqueBindings` | may lapse |
| `RowsLeaveFor` | `DevicesLeaveFor` | may lapse |
| `CodesBindOnce` | `OneBindingPerCode` | may lapse |
| `OnlyLicensedBind` | `DisabledNamespaceNeverBinds` | may lapse |
| `QuotaTheorem` | `QuotaHeld` | no section outlives its lease |
| `LogoutRevokesIndexed` | `IndexedCodesRevoked` | no section outlives its lease |
| `LogoutQuiet` | `LogoutWindowQuiet` | no section outlives its lease |
| `RevokedForGood` | `RevokedCodesNeverBind` | no section outlives its lease |

`UniqueBindings` is inductive: what keeps it is not a lock but the transaction
that writes, which deletes the former row of the installation and fails on the
unique constraint when a row of the destination has come in between.  `DevicesLeaveFor` needs that
a revision names one row for ever, since a delivery that comes back with "gone"
deletes by revision.

`QuotaHeld` is not inductive.  `QuotaInv` adds what a request names at each of
its steps (`Addressed`), that a worker inside a section holds the lock
(`LocksHeld`), and that there is room once it was found (`RoomLeft`): between
the count and the upsert the other rows of the owner number less than the
quota.  Other workers may delete rows of this owner, but only a holder of the
owner's quota lock may add one, so the bystanders' steps keep `RoomLeft`
(`RoomKept`), the worker's own count establishes it (`RoomFound`), and the
upsert turns it into the quota.  The proof uses that a crashed worker's lock is
held by `Dead` and not by another worker, and that without `LeaseMayLapse` only
such locks lapse.  The assumption is needed: when the section of one registration
outlives its lease after it has counted, a second one counts the same rows, and
both insert.

What a logout promises differs for apps and pages.  When an app logs out, its user
has neither a row of it nor one of a page paired from it until the logout ends
(`LogoutWindowQuiet`).  When a page logs out with its own request, the lock is the
page's, while a pairing writes the page's row under the lock of the app
(`registry.py:96`): the row may be back before the logout ends, and only rows that
name the page as their parent are excluded.  `IndexedCodesRevoked` speaks of the
codes that were live and indexed when the lock was taken (`obs[w].listed`), wherever
they are later; it needs the locks, because another logout of the same installation
that ran between SMEMBERS and DEL would take the index away.

For the codes, `CodesInv` adds where a code comes from (`Origins`: what was
stored for it when it was issued is what every later holder of it means) and,
between the SMEMBERS and the DEL of a logout, that the codes found are those the
logout must revoke.  That one code binds once rests on GETDEL: a code is live, in
the hands of one request, or in a row, and a row that a save replaces gives up
its claim.  `LogoutInv` puts the locks beside it: while a logout holds the lock
of its installation, nobody else is past `AcquireInstall` for it, hence the two
theorems with the assumption.

Only model-checked: `RequestsEnd`, which is liveness.

### 2.2 PushCredentials: the keys of push instances

`PushCredentials.tla` models `enrollment.py`, the operator's switch in
`admin/push.py` and their handlers, with requests, locks, leases, failures and
crashes as in `PushBinding`.

| Code | Model |
|---|---|
| `PUSH_RELAY`, `.enabled` | `relays`, `enabled` |
| `PUSH_RELAY_KEY`, `.relay`, `.active`, `.replacement` | `relayOf` (None: no row), `active`, `replacement` |
| `binding_lock` per key (enrolment) and per instance | `lock`; `Claim`, `ClaimBusy`, `Answer`, `Lapse` |
| `enroll` | `Enroll`, `Claim`, `Prior`, `Authenticate` or `Insert`, `Answer` |
| `rotate` | `Rotate`, `Find`, `Claim`, `Refresh`, `CheckRelay`, `CheckReplacement`, `CommitRotation`, `Answer` |
| `revoke_instance`, `set_enabled` | `Revoke`, `Authenticate`; `SetEnabled`, `Claim`; then `ReadRelay`, `Switch` |

A key is named by its digest and an instance by its random identifier, which is
never used twice.  Manually configured keys (`PUSH_RELAY_KEYS`) have no rows and
take no part.  `obs` is history: what an onlooker saw in the course of a request.

`PushInstances.tla` is the promise in its shortest form: an instance has one
current key, a rotation replaces it, spent keys stay spent, and the switch does
nothing else.  `KeepsPromise` says that `PushCredentials` implements it.

| Run | Question | Instance |
|---|---|---|
| `credentials_keys` | Exactly one current key, a complete line of replacements, answers that tell the truth and retries that are not refused (`RotationTruthful`), no service without a working key, spent keys that stay spent, refinement of the promise | 3 keys, 2 instances, 2 workers, 1 orphaned lock |
| `credentials_rotated_twice` | refuted: an old key can only repeat the rotation that succeeded | 1 instance, lapsing leases |

Three keys make an enrolment with two rotations, or a rotation that races another
rotation of the same key to different replacements; two instances let an
enrolment race a rotation for the same key.

Proofs (`PushCredentialsProofs.tla`).  Every property of `credentials_keys` is
proved.  `CredentialTypes`, `RetiredKeys` (a spent key never works again),
`SwitchesTakeEffect` and `LineageKept` hold with and without lapsing leases.
`OneCurrent`, `PromiseKept`, `RotationsTruthful` and `KeysServe` assume that no
section outlives its lease, and `credentials_rotated_twice` shows why.  Their inductive invariant `CredInv` adds
that a worker between the refresh and the commit holds the lock of its instance
and that what it has read of the old key is still so.  The refinement has one
step per action: `Insert`, `CommitRotation` and `Switch` map to steps of the
promise, every other action to a stutter.

* `SwitchInv`: the state a switch was asked for was there when it read the row,
  or is there since its commit; the request's notes (`obs`) say so.
* `KeptInv` and `AnswersInv` add to `CredInv` what a rotation has noted of its
  key at every step, so that an answer can be compared with the moment it speaks
  of.
* `LineageInv` for `Lineage`, whose walk along the replacements is a recursive
  function.  No induction over its length is possible here, so acyclicity is
  stated over sets: in every nonempty set of keys one key's replacement lies
  outside (`Acyclic`).  A walk of as many steps as there are keys that never
  ended would stay inside such a set.  The keys are finitely many, an assumption
  of this theorem only.

### 2.3 AdminAccounts: administrators, sessions and the first account

`AdminAccounts.tla` models `users.py`, the sessions of `auth.py`, the handlers
of `admin/api.py` that change accounts, and the commands of `cli.py`.

| Code | Model |
|---|---|
| `ADMIN_USER` | `exists`, `account` |
| `ADMIN_SETTING["__user_lock"]` | `latch` (the row is committed), `writer` (the transaction that has written it) |
| Redis sessions | `sessions`; `proof` and `role` are history: the password and the role at the login |
| `login` | `Login`, `ReadAccount`, `ReplaceSession`, `OpenSession` |
| `current_identity`, `administrator`, `super_administrator` | `Identify` |
| `lock_users` | `LockUsers`, `RefreshActor` |
| `create_user`, `update_user`, `reset_password` | `Create`, `Update`, `Reset`; then `ReadTarget`, `CountSupers`, `Commit` |
| `change_password`, `logout` | `Change`, `ReadOwnRow`, `Commit`, `DropSession`; `Logout`, `DropSession` |
| `bootstrap`, with and without `--recover` | `Bootstrap`, `InsertLatch`, `CountUsers`; `Recover`, `LockUsers`, `ReadRecovered`; `Commit` |
| exceptions, death of a worker | `Abort` (the transaction is rolled back) |

The database is READ COMMITTED: a read sees what is committed, an `UPDATE` of
the lock row waits for the transaction that wrote it, and so does a second
`INSERT` of its key.  Display names, audit records, CSRF tokens and the login
counters are left out.

`accounts_races` starts from the empty database and from one with two super
administrators (two users, two passwords, two requests at a time).  Three
changes and, in the first case, three logins are enough to found an account,
change its password and race for its demotion; from the second start two changes
and a login meet at every pair of steps.  When these are used up nothing need
happen, and the program too may rest when nobody calls, so deadlock is not
checked here; a transaction can always be rolled back.

`AdminAccountsProofs.tla` proves all the properties of that run for any number
of users, requests and changes, from one invariant, `AccountsInv`.  Neither
`LastSuperKept` nor `SessionsFresh` is inductive: the invariant adds that a
request past the lock is its only writer, that what it has read there of its
caller and of its target is still so (`UpToDate`), what its checks have shown
(`Checked`, with another super administrator found by counting), and that a
login under way knows either the present version of its account with the present
password and role, or an older version (`Fresh`).  The users are finitely many:
`UsersAssumption`.

### 2.4 The public interface

`MCPublicInterface` instantiates six components and the rate windows.  They have
no state in common, so each behaviour is about one of them, chosen in `Init`
(`part`); the variables of the others keep no value.  A property of this run
(`RatingsCorrect`, ...) is the conjunction of the type invariant and the named
properties of one component, which its module defines and explains.

`PublicCache` is one entry of the caches of `core/cache.py`, used by every module
whose answers are cached: `Query` (the miss and the query), `Store` (the answer is
stored, however late), `Forget`, `Expire`, `Vanish`.  Its `Fresh(p, v)` excepts an
entry whose reader was under way when the entry was deleted: that reader stores
what it has read before, in the code as in the model, and the entry then lives
until it expires.

| Code | Model |
|---|---|
| `plugin_rating.py`: `rate_plugin`, `_save_rating` (the lock on the summary row, the retry, the cache), `get_rating`; `delete_data` for ratings | `PluginRating`: `RatePlugin`, `Lock`, `Insert`, `Detail`, `Flush`, `Commit`, `Refresh`; `DeleteRating`; `Crash` |
| `plugin_statistic.py`: `install_plugin`, `batch_install_plugins`, `_record_install` with its look-up regardless of case | `InstallCounters`: `Report`, `UpdateExact`, `Lookup`, `UpdateById`, `InsertRow`, `Delete` |
| `subscribe_statistic.py`: add, batch report, done | `SubscribeStatistics`: `AddSubscribe`, `BatchReport`, `DoneSubscribe`, `Read`, `Commit`, `Refresh`, `Delete` |
| `usage_statistic.py`: report, throttled clearing, the six queries of the figures | `UsageStatistics`: `ReportUsage`, `Update`, `Insert`, `InvalidateStatisticsCache`, `Begin`, `Collect`, `StoreFigures`, ... |
| `subscribe_share.py`, `workflow_share.py`: share, delete, fork, listings | `Shares` (`table` chooses which): `CreateShare`, `DeleteShare`, `Read`, `Insert`, `Refresh`, `Delete`, `ClearCache`, `ForkShare`, ... |
| `media_recognize_share.py`: upsert, query, the rewrite of old records, the fall-back for music; `delete_recognition` | `MediaRecognition`: `Upsert`, `Query`, `Get`, `Rewrite`, `Set`, `RequestDelete`, `Delete`, `Confirm` |
| `rate_limit`, `check_login_limit` | `RateWindow` (`kind` chooses which): `ReadClock`, `Count`, `Unavailable`, `Tick` |

What is shown.

* Ratings: the summary is the aggregate of the committed rows whatever crosses
  (`SummaryMatches`), the one retry suffices (`NobodyRefused`), a process that
  has answered a submission serves nothing older (`RefreshedAfterRating`).
* Installations: each committed report counts once, under either spelling, and
  fails only for a concurrent deletion.  The interleavings are PostgreSQL's; on
  SQLite the first statement of every report is an `UPDATE`, which holds the write
  lock until the commit, so that its behaviours are the serial ones among them.
* Subscriptions: the code reads, computes and writes back without a lock.
  Overlapping requests may therefore lose a subscription; what is checked is
  what remains: no row counts zero or less, nothing is invented, and requests
  that do not overlap are counted exactly, also when a batch names a medium twice.
  On SQLite, where the id of a deleted last row is given again (see below), a
  write that comes late may reach the row of another medium (`Stale`,
  `ForeignWrite`); `NeverOvercounted` therefore is about PostgreSQL, the other two
  hold on both.
* Usage: each answered report counts in exactly one row; served figures are as
  new as the last clear; and the six queries, between which others commit, give
  figures that fit together because a reported row only ever moves towards the
  more recent and the narrower windows are asked first.
* Shares: a title is inserted twice only by overlapping creations, an id collides
  only when a payload brings its own, listings are fresh after an own change.
* Recognition: a reported medium is found in every spelling, never hidden by a
  rewrite, an answer is about what was asked, deletions are traced in the audit.
* Windows: a bucket's quota holds for requests that arrive late, at most twice
  the limit is admitted in any window, and refusals have a reason.
* `DeletionsEntitled`: a user's request deletes only its own share, where
  PostgreSQL draws the ids and payloads bring none of their own.  Both conditions
  are needed.  `models/base.py:21` makes an `INTEGER PRIMARY KEY` without
  AUTOINCREMENT on SQLite, which is the default database: a new row gets the id
  after the last one that is there (`NextId`), so that the id of a share that was
  the last one is given again, and the deletion that follows the look-up
  (`subscribe_share.py:60-64`) asks for nothing but the id.  `MCShares` is the
  component alone, with two installations and two requests; its run
  `shares_id_reused` refutes `OnlyOwnersDelete`, the same statement without the
  condition on the database.

Late answers and lost updates that the code does not prevent are in the models and
excepted by name in the properties: the fill of a cache by a reader who was under
way at the clearing (`Fresh`), two creations of a title that overlap (`raced` in
`OneShareAlone`), reports that overlap (`raced` in `CountedAlone`).  These
properties say that nothing else goes wrong, and `PROJECT.json` lists the hazards
themselves without a property that would catch them.

Bounds.  Two requests, two users and two processes (one for shares, whose listings
are cached like the ratings').  Three writes of ratings are a first rating that
races another one and a deletion; two marks whose average is not a tenth show the
rounding.  The figures have three windows, as in the code.  Six installations allow two batches of both spellings against each
other.  Two reports and a deletion reach every path of a usage report, and every
table starts with an arbitrary history.  Two creations, one reuse, two upserts and
one deletion are what can meet.  The kinds of music, whose records can stand in
for one another, are in Redis together; a series, whose key has a season and a
year, is a part of its own.  The clock of the windows runs for three windows
of two ticks with a limit of one.  `MaxFills` 1: one late reader is what stores an
old answer.  Requests, users and processes are symmetric; there is no liveness in
`public_interface`.  Deadlock is not checked: when the bounds are used up nothing need happen,
and the program too rests when nobody calls.

Proofs.  All the properties of this run are theorems, for any numbers of
requests, users, processes, titles, reports, ticks and so on; the constants are
assumed to be what the modules' own `ASSUME`s say.  `PublicInterfaceProofs.tla`
has the windows, the ratings, the shares and the recognition,
`PublicStatisticsProofs.tla` the counters.  Each component has an inductive
invariant of its own, and `Init` choosing the component makes them one theorem
each.

| Theorem | What its invariant adds |
|---|---|
| `WindowsHold` | `RateInv`: the counter of a bucket is what the bucket has admitted, up to the limit, and outlives everybody who can still count for it; what a login window and the time of a window before it have admitted |
| `RatingsHold` | `RatingInv`: past the summary row a request is its holder, and the totals it commits are those of the rows it leaves; a summary once there stays, so the retry of a lost `INSERT` finds it; no reader that can still store has what is older than its process's last refresh |
| `SharesHold`, `OwnersDelete`, `DeletionsHold` | `ShareInv`: on PostgreSQL the row a deletion has found still has the owner it was checked for, or is gone, since ids above the last one drawn are free, and on either database ids stay within the bound; creations that do not overlap are one at a time; readers as for the ratings |
| `RecognitionHolds` | `RecognitionInv`: what lies under a key says the medium of that key, because normalising twice is normalising once; after a report there is a record of the present form; a rewrite carries what belongs under its key (`Fits`); confirmed deletions and those still owed are on record (`Traced`).  The case of the series differs in its keys only, and its proof reuses the steps (`SeriesSteps`) |
| `InstallsHold` | `InstallInv`: counts and deleted counts together do not exceed the committed reports, and equal them without deletions |
| `UsageHolds` | `UsageInv`: the rows count the committed reports less the deleted; a retry finds its row unless it was deleted; what a collection has found so far is at most what is there now (`ReaderHolds`) |
| `PopularityHolds` | `CreditInv`: the committed subscriptions can be attributed to the rows such that the count of each row, and each count a request holds together with what it brings, is at most what is attributed to it; `AloneInv`: without overlap the rows sum up to what requests one after the other count (`tally`) |

Sums over rows are folds, and what a fold computes cannot be proved by
induction here.  `SumTheorems.tla` derives what is needed (a sum changes by what
one term changes, a sum of naturals bounds its terms, sums over disjoint parts
add) by minimal counterexample: of all finite sets that violate the
statement one has the fewest elements, and taking one out contradicts that.

### 2.5 The services behind the interfaces

`MCServices` does the same for five components, with two processes.

| Code | Model |
|---|---|
| `admin/invalidation.py`: `invalidate`, the poll | `CacheInvalidation`: `CommitEdit`, `ClearAll`, `Increment`, `Answered`, `GetRevision`, `Compare`; `LoseRedis`, `Recover`, `Restart` |
| `database_schema.py`, `main.py` `lifespan` | `SchemaMigration`: `Begin`, `CreateAll`, `Inspect`, `AddColumns`, `MoveRows`, `DropLegacy`, `CreateIndexes`, `EnsureConstraints`, `Commit`; `Fault`, `Restart` |
| `data_cleanup.py`, shutdown in `main.py` | `DataCleanup`: `Begin`, `SetLock`, `LockAnswer`, `DeleteRows`, `Commit`, `Finish`, `Release`, `Lapse`; `StopServices` (the cancellation), `CloseRedis`, `Crash`, `Start` |
| `api/u115_auth.py` | `U115Login`: `Load`, `Check`, `Exchange`, `Save`, `Discard`, `Answer`, `Tick` |
| `core/media.py`, the validators of `schemas/models.py`, the row migration of `database_schema.py` | `MediaIdentity`: `Accept`, `Migrate`, `Serve`, `SendBack` over the operators `NormalizeMediaSource`, `ResolveLegacyMediaIdentity`, `BuildLegacyMediaIdentity`, `Migrated`, ... |

What is shown.

* Invalidation: a process that has seen the revision serves all the edits it
  announces; a committed edit is announced or on its way; every edit reaches all
  processes through an outage of Redis, unless the process that knew of it dies
  (`EditsReachProcs`, liveness).
* Migration: workers that start together on PostgreSQL do not fail because of each
  other, what faults leave behind can be migrated, a worker that migrated serves
  with the final schema, and no worker waits for ever (`EveryoneServes`).  On
  SQLite, which has no advisory lock, a second starter may fail and serve with the
  schema as it is; that is in the model and excepted from `NobodyFails` only.
* Cleanup: one at a time unless a lease has lapsed, nobody releases another run's
  lock, cancelled and failed runs leave no lock behind, and the audit reports
  exactly the rows that went.
* 115: after the success page the token is there until it is taken, or until the
  session's last second is over, although its life time is cut to whole seconds at
  every write; tokens that were taken do not return.
* Identities: what is stored passes the table's constraint; the program reads in it
  the identity that it read in the request or in the row before
  (`IdentityKept`, where a row is read with its legacy columns, by
  `resolve_legacy_media_identity`); what was served is accepted when it comes back;
  and a migration leaves in the unified columns what the program read in the row
  (`LosslessMigration`), or nothing where it read nothing.

The last one has exceptions, the rows that `Disputed` describes, because the
program and the migration do not read the same in all rows.

* Without a valid pair the migration takes the first legacy column that is filled in
  (`database_schema.py:236-246`), the program the one of the declared source
  (`media.py:200-209`).  A row with the source douban, no id, tmdbid 12 and
  doubanid 12 is douban:12 to the program and themoviedb:12 after the migration.
* The constraint takes a source such as "1abc" that `normalize_media_source` does
  not know.  The migration keeps such a pair and drops the legacy columns
  (`database_schema.py:271-275`), from which the program would have read an identity.
* `strip` and `casefold` remove and fold more than `TRIM` and `LOWER`: a source with
  a tab and a blank around it is one to the program and invalid to the migration.

Of such rows `IdentityKept` says that what the migration has made of them stays.
`resolve_legacy_media_identity` calls itself the reader at the boundary to stored
data ("在旧客户端输入和存量数据边界解析旧媒体身份字段", `media.py:195`), and the
migration says only what it does ("无法从旧列补齐的身份不再保留",
`database_schema.py:248`), so which of the two is right is for the maintainers to
decide.

Bounds.  One edit, one outage, one late reader; three faults among two workers
over tables of five ages and two dialects; three cleanups over two rows with
shutdowns, crashes and lapses; two callbacks and two polls of one authorisation
over eight ticks, where a session lives five and a second has two, so that the
rounding of the life time shows.  `MediaIdentity` is checked over all
combinations of thirteen source texts, eight ids, three texts of old fields, declared
sources, keys and legacy columns.  What cleaning makes of a text is a parameter of
the module (`Stripped`, `Folded`, `Trimmed`, `Lowered`), bound by `TextLaws` only;
`MCServices` gives representatives: aliases and an extension, in capitals, with
blanks or tabs around them and with a letter that only casefold folds, numbers with
zeros in front, and texts that are no sources.  The run assumes `TextLaws` of them,
and they hold of both databases for ASCII letters; PostgreSQL in some locales makes
of a dotted capital I (U+0130) something else than casefold does, which is outside.
There is no symmetry set because of the liveness properties, and
deadlock is not checked for the reason given above.

Fairness.  Weak fairness of the steps of requests and of the poll in
`CacheInvalidation` (the event loop runs what is ready, and the poll sleeps three
seconds and goes on, whatever it catches) and of the return of Redis; weak
fairness of the steps of the workers in `SchemaMigration` (the database
executes what it is sent, one at a time).  Neither edits nor faults are fair.

`invalidation_overlap` has two administrators who edit through one process, which
`services` leaves out (`MaxEdits` 1): there `AnnouncementKept` is refuted.

Proofs (`ServicesProofs.tla`), for any numbers of processes, edits, rows,
faults, callbacks and ticks.

* `CleansUp`: `CleanupInv` says that while no lease has lapsed every run past its
  SET has the lock, and that one transaction at a time has deletions in it, of rows
  that are there.
* `Migrates`: `SchemaInv` says what each step has done to the table its worker
  sees (`Reached`), that what a worker inspected is behind that table and never
  ahead of it, and on PostgreSQL that only the holder of the advisory lock is
  past `Begin` and has seen the schema as it is.
* `LogsIn`: `LoginInv` says that the token of a callback that has not ended is
  nowhere but in its own copy of the session, and that a stored session lives into
  the last second of its life time.
* `SeenRevisionsClear`: a process that has seen the revision serves the edits it
  announces, for every number of edits and outages.  The other half of the
  component, `AnnouncementKept`, is proved (`InvalidationHolds`) if there is at
  most one edit or no outage: outside of that it is false, as `invalidation_overlap`
  shows.
* `IdentitiesHold`: an identity that the program resolves is in a normal form,
  which every later resolution, the migration and the composite key of
  an old client leave as it is; and of a row that is not disputed the
  migration makes the identity that the program resolves.  It holds for any
  texts and any functions that satisfy `TextLaws`.
* `StepsRightful`: the action properties of the components.

Only model-checked: `EditsReachProcs` and `EveryoneServes`, which are liveness.

### 2.6 What was found

| Run | Where | What |
|---|---|---|
| `binding_overtaken` | `api/push.py:137` | The lock is said to keep requests in flight during a logout from rebuilding the binding; it only orders them, and the later one rebuilds it. |
| `binding_survivor` | `registry.py:161` | A code that is issued between the SMEMBERS and the DEL of one logout survives also the next logout. |
| `credentials_rotated_twice` | `enrollment.py:96` | A rotation that outlives its lease retires the old key a second time, and two keys of the instance work. |
| `shares_id_reused` | `subscribe_share.py:64` | Only the sharer may delete, it says; on SQLite a deletion by id reaches the share of another installation that was given the id in between. |
| `invalidation_overlap` | `invalidation.py:33` | What is still to be announced is one flag per process: the answer to one announcement clears the flag set for another, which is then not retried. |

## 3. Plan

1. Done: the modules of section 2, checked; and every
   invariant and action property that a passing run checks, proved for all values of the
   constants (sections 2.1 to 2.5).
2. To prove next: `AnnouncementKept` from the weakest condition under which it is
   true (no edit of a process while its own announcement is on its way), in place
   of bounds on edits or outages; `RotationTruthful` and `ServedWithKey` where a
   lease lapses without a second rotation; short abstract specifications, as
   `PushInstances` is one, for the registry of bindings and the cleanup, with
   their refinements.
3. Within TLC's reach only: the liveness properties (`RequestsEnd`,
   `EditsReachProcs`, `EveryoneServes`), since their proofs need ENABLED of the
   fair actions; and that the representatives chosen for texts are enough, which is
   argued in the modules where they are defined.

## 4. Not modelled, and why

* Cryptography and wire formats (VAPID, JWT, HTTP/2) and the TMDB client: I/O
  without state.  The verdicts of the push services are inputs of `PushBinding`.
* `admin/config.py`: the feature switches are one row of `ADMIN_SETTING` that
  `save_features` replaces as a whole, with its audit record, in one transaction; of
  two saves the later one stays.
* Read-only endpoints, listings and previews, `user_permission.py`, `settings`:
  they change nothing.  The display fields of rows and the texts of answers are
  abstracted away everywhere.
* The rating of the own installation that `plugin_rating.py` caches besides the
  summary, and the cached listing of `plugin_statistic.py`, which expires and is
  not cleared by reports.
* In recognition a query that rewrites an old record may put it back over a
  report that came in between (`media_recognize_share.py:282`).  The model has that
  behaviour; no property forbids it, since the code and its documents promise
  nothing about which of two concurrent writes remains.
* The hour of the scheduled cleanup, and which rows fall under its conditions.
* The push web page and the Vue interface of the administrators, clients whose
  late, repeated and overlapping requests the server models contain; nginx and
  Docker files and the one-off genre script.
