# ARMS in TLA+

Models of the ARMS backend (Django, Celery, PostgreSQL, Redis), the TLC runs that
check them and the TLAPS proofs about them.  Every definition is translated from
the source; `PROJECT.json` gives the lines each one stands for.

## 1. The system

| component | source | state | operations | what is hard | what makes it correct |
|---|---|---|---|---|---|
| Job rows and leases | `reporting/services/job_state.py`, `job_dispatch.py`, `reporting/models/reports.py` | status, `task_id`, `attempt_count`, `heartbeat_at`, `result_payload`, `report_file` | claim, touch, prepare retry, mark failed, hand off, reserve | every writer races with every other; time decides who may take over | one execution works on a job at a time |
| Report and import execution | `reporting/tasks/reports.py`, `data_import/tasks.py`, `data_import/services`, `reporting/services/storage.py` | what a worker is doing, stored objects, source files, broker messages, imported rows | request, deliver, build, store, publish, import rows, hand off, retry, fail, cancel, delete | crashes, redelivery, time limits, failing storage and commits | a finished job has its file, an upload is kept until it is imported, every row is saved or reported |
| Job recovery and retention | `core/tasks/job_recovery.py`, `analytics/tasks/cleanup.py` | the running sweep | requeue or fail stale jobs, dispatch pending ones, delete old ones | judges with an old clock, races with live workers | every job ends |
| Equipment custody | `assignments/services/equipment_assignment.py`, `assignments/api/viewsets/equipment_assignment.py` | assignment row, status | assign, unassign, reassign, change status, condemn | one mutable assignment row per equipment | one holder, no silent takeover |
| Return requests | `assignments/services/asset_returns.py`, `asset_return_builders.py` | request, items, what the items are about | submit, approve, deny, per item or whole | status derived from items; items are not locked | a closed request leaves nothing undecided |
| Accessory stock | `assignments/api/viewsets/accessory_assignnment.py`, `access/services/asset.py` | quantity, open assignments | assign, return, use, condemn, restock, edit | row locks taken in two orders, reads before locks | nothing is promised twice, events explain holdings |
| Consumable stock | `assignments/api/viewsets/consumable_assignment.py`, `access/services/asset.py` | quantity, open issues, items of return requests | issue, use, return, report loss, restock, ask to return, approve, deny | a lock that ends before the write it protects; approvals that lock nothing | no unit is counted twice, issues say what is held |
| Sessions | `core/viewsets/auth_viewsets.py`, `core/viewsets/general_viewsets.py`, `core/models/sessions.py` | session rows, refresh-token hashes | refresh, logout, revoke, activity, expire, clean up | rotation with a grace window, concurrent refresh, reuse detection | an ended session stays ended, one token is current |
| Accounts and password reset | `core/serializers/auth.py`, `core/services/security`, `users/services` | password, locks, failure count, reset links, open sessions | login, failed login, lock, unlock, change, set and reset the password | rows saved as they were read, counters without a lock | the lockout comes, a lock stands, sessions follow the password |
| Agreements | `agreements/service.py`, `agreements/models/agreements.py`, `agreements/tasks` | lifecycle status, dates, history rows | create, terminate, extend, renew, edit, delete, expire | unlocked read-modify-write, periodic expiry from a stale list | history tells the row, what has ended stays ended |
| Agreement coverage | `agreements/services`, `agreements/api` | coverage rows, attached assets | cover, attach, offer, list | five formulations of "covers this room" | they agree |
| Access control | `access`, `core/permissions`, `core/utils/scope`, `users/api/viewsets/role_viewsets.py` | role assignments, active roles, the permission matrix, what sessions loaded | grant, change, revoke, switch, replace the roles of a code | a score of formulations of what a role reaches; decisions on what was read | nobody grants more than they govern, and lists and checks agree |
| Sites and placement | `sites`, `users/api/viewsets/user_viewsets.py` | departments, locations, rooms, seats | create, edit, move, delete, seat, transfer | scope follows placement; deletions orphan | nobody moves with its equipment |
| Asset records | `assets` | room, soft deletion | create, edit, delete softly, restore, delete | whole rows saved, cascades | an asset is where its row says |
| Pages, dashboards, reports of sites and users | `sites/api/viewsets`, `users/api/viewsets`, `reporting/services` | none | list, count, preview, export | each counts anew | they tell the same |
| Caches | `core/services/user_scope_cache.py`, `core/mixins/caching` | generations and entries in Redis | read through, renew | a renewal racing with a fill | no entry outlives its generation |
| Analytics | `analytics` | daily snapshots, generations, cached sections | collect, back-fill, read | the bump may be lost with the worker | answers are current in the end |
| Audit, notifications, e-mail | `core/mixins/audit.py`, `core/mixins/notifications.py` | append-only rows | write | best effort | |
| Pure I/O and tooling | serializers, workbook rendering, management commands, `docker`, `monitoring`, `perf` | none | | | |

Four parts interact only through the database.

*Jobs.*  A request stores a row and calls `enqueue_report_job`, which reserves a task
id in the row and publishes a message.  A worker claims the job for that id, refreshes
`heartbeat_at` between phases, stores a workbook and publishes it in one locked
transaction.  An import first imports its rows, commits its result payload, releases
the job and enqueues it again as a report.  The sweep requeues jobs without activity.
Users cancel imports and delete jobs at any time.

*Custody.*  Synchronous requests move equipment and units between the stock and its
users under row locks in PostgreSQL.  Return requests write the assignments of all
three kinds without the locks that the other endpoints take.

*Identity.*  A session and its refresh cookie; the account behind it.  A change of
the password, the matrix or a role revokes sessions.

*Administration.*  Roles are scoped by a tree of sites.  Every request reads its
caller's active role, decides, and saves later without a lock; deleting a site
cascades into roles, seats, assets and coverages, and leaves children without a
parent.  What a role reaches is written anew in every list, check, page and report.

## 2. Modules

| module | models |
|---|---|
| `JobState` | the job row and each conditional update, as functions of the row |
| `ReportJobs` | requests, dispatch, broker, workers, both tasks, sweep, cancel, delete, retention |
| `ImportRows` | extends `ReportJobs`: an import row by row |
| `JobLifecycle` | abstract specification of a job: the phases a user sees |
| `ReportJobsProofs` | type correctness, the lease theorems, what is kept in storage and imported once; `ReportJobs` implements `JobLifecycle`, `ImportRows` implements `ReportJobs` |
| `AssetCustody`, `AssetCustodyProofs` | equipment, its assignment row and the return requests that close it |
| `AccessoryStock`, `AccessoryStockProofs` | accessories and their assignments, transaction by transaction |
| `ConsumableStock`, `ConsumableStockProofs` | consumables, their issues and the return requests about them |
| `SessionRefresh` | a login session and the browser tabs that share its refresh cookie |
| `Accounts` | one account: password, locks, failed logins, reset links, number of sessions |
| `SignInProofs` | theorems about `SessionRefresh` and `Accounts` |
| `AgreementLifecycle`, `AgreementLifecycleProofs` | agreements, their history rows and the expiry task |
| `SiteTree` | departments, locations, rooms |
| `RoleGovernance` | extends it: role assignments, active roles, and every request on roles and sites |
| `AssetRecords` | extends it: equipment, accessories and consumables as records of a room |
| `Placement`, `AgreementCoverage` | extend it: seats, transfers and custody; coverages and attached assets |
| `ScopeRules` | the formulations of what a role reaches |
| `SitePages`, `UserPages` | what the pages of sites and of users show |
| `PermissionMatrix` | extends `RoleGovernance`: the permission codes of roles, the sessions that loaded them |
| `SiteAdministration`, `SiteAdministrationProofs` | composes the eight modules above; deletions cascade |
| `CachePromise` | abstract specification of a cache whose keys carry generations |
| `ScopeCache`, `AnalyticsCache`, `CacheProofs` | the two caches, and that they implement it |
| `MC...` | an instance for TLC: symmetry and the values of constants |

### `ReportJobs`

- One step is one database transaction, one broker call or one storage call.  The
  `pc` of a worker names the point between two of them (`build`, `render`,
  `workbook` end with `require_job_lease`; `save` is `save_report`; `finish` the
  final transaction; `load`, `rows`, `refresh`, `handoff` the import task;
  `discard`, `undo`, `retry`, `publish`, `fail`, `drop` the handlers).  A task that is
  over still has to acknowledge its message (`acks_late`): it waits for `Ack` in `ack`,
  or in `retried` if it has published its retry, and a worker lost there leaves the
  retry and the returned original in the queue, two messages of one task.
- `queue` is a set: of equal messages one is kept.
- `misled` is history: the tasks that had two messages, by a repeated delivery or by the
  loss just described, and those whose commit succeeded and was reported as an error.
  `claim_job` cannot tell a second message of a task from a resumption, and the task
  cannot tell that its workbook is published; the safety properties name what this
  costs, and exempt nothing else.
- `job` is the table.  A timestamp is kept as its age, saturating at `AgeCap`, so
  `heartbeat_at <= now - d` is `age >= d`, and no clock value is stored.  `started_at`
  and `finished_at` decide nothing that `heartbeat_at` and the status do not decide
  already in the rows these operations can meet, and are left out.
- `exec[w]` is what worker `w` is doing: the message it received, whether
  `stored_report_name` is set, whether the error it handles is transient, how long
  it has run.
- `enq[c]` is the `enqueue_report_job` call caller `c` is in: a request (`"view"`),
  a worker or the sweep.  One request at a time is enqueueing; other requests'
  calls differ only in the job.
- `sweep` is the list of candidates the running sweep has still to judge, the
  failed import whose file it has to delete, and how long ago it read its `now`.
  One sweep runs at a time.
- `store` holds objects by job and task id: the key is
  `<public_id>/<task_id>/<file name>`, so these two are all that tells keys apart.
- Task ids are fresh UUIDs: `Reserve` takes one that nothing in the system still
  holds (`InUse`), so a small set of ids is enough for any number of dispatches.
- `RetireObject` may take any finished job: the retention period is abstracted.
- `Legacy` are jobs stored by a version without task ids; any of them may exist at
  the start.

Failures are injected at most `MaxFaults` times, of the kinds in `Faults`: a crash of a
process, also of one that has only its acknowledgement left, a hard time limit, a transient or
other exception in a phase, a broker that refuses (or takes the message and reports an
error), a storage call that takes effect but raises, a commit whose success is reported
as an error, and a message delivered while its execution is alive (Redis' visibility
timeout).  No message is lost in the model, but a hard limit acknowledges one, a refused
publication drops one, and a crash returns one to the broker, so that a job without a
message is reached.

`TimingAssumption` is what `core/checks.py:213-226` enforces at deployment: the
stale threshold exceeds every hard time limit.  Tasks do not outlive their limit
and the sweep not its own.  The ages may saturate no earlier than a decision needs.

`ImportRows` refines the phase `rows`: a row is looked up (`LookUp`), then saved
(`SaveRow`) in a transaction of its own, and the lease is looked at before every
tenth row only (`CheckAt`).  An error in a row that is not an infrastructure error,
a refused permission, an invalid value or anything unexpected, is reported as skipped or
failed, and the loop goes on with the next row (`RowFails`, for the keys in
`Fragile`); only the others leave the loop.  All other steps are those of `ReportJobs`.
An asset is known by its dedupe key; `made` counts the assets of a key.  `issues` are
the rows that the results in a worker's hands report, `listed` those of the committed
results.  `early` is history: the workers that were importing when the results of
their job were committed by another.

### `AssetCustody`

- `holder[e]` is the one `EquipmentAssignment` row of `e` while it is open: a later
  assignment overwrites it.  `tx[h]` is the request that handler `h` serves and the
  statement it has reached.
- The assignment endpoints lock the equipment and read under that lock; the return
  endpoints lock the request or the row they loaded, and decide on what they loaded
  before.  Batches lock in the order of the primary key, so equipment is numbered.
- A commit that inserts an `EquipmentEvent` locks the equipment `FOR KEY SHARE`, as
  below.  `DeadlockAbort` is the database's answer to a circle.
- A return request holds at most one item of each equipment; `decide` is the
  decision on one item, `process` the batch of the admin's workflow, `whole` the
  approval or denial of the request.

### `AccessoryStock` and `ConsumableStock`

- The views are `transaction.atomic` blocks under READ COMMITTED; requests outside
  one commit each statement.  `tx[h]` is the request that handler `h` serves and the
  statement it has reached; what it read is kept in `seen`.  `owner` says which
  transaction holds the `FOR UPDATE` lock of a row.  A statement that needs a row
  another transaction holds waits, and reads the row anew when it gets it.
- A write is invisible to others until the transaction commits, and the rows a view
  writes are locked until then, so the writes belong to the step that commits.
  An endpoint that reads nothing before its only lock is one step.
- Every endpoint inserts an event row that refers to the accessory or consumable.
  Django's foreign keys are deferred, so PostgreSQL locks the referred row
  `FOR KEY SHARE` at commit, which waits for a `FOR UPDATE` lock: a commit needs the
  accessory even when the view did not ask for it.  `Needs` lists what each statement
  waits for.
- `get_or_create` does not lock what it finds.  The two races this leaves are kept:
  an accessory's open assignment may be closed and stay closed while the stale
  quantity is saved, or have changed (it cannot, and that is a property), and a
  consumable's issue closed by a use violates the check constraint of the table.
- `UseConsumableView` reads in an atomic block that ends with
  `ensure_user_can_use_consumable`, and writes after it; so the lock is gone
  when it writes (`UseRead`, `UseWrite`).  A use that leaves something is answered
  and not stored.
- `AskReturn` and `InsertItem` are the submission of a return request for a
  consumable: pending requests are looked for before the row is inserted.
  `ApproveItem` loads item, issue and consumable, and `SaveApproved` writes the
  quantities it computed from them; nothing is locked.  The endpoint for one item
  reads all three in one joined query; the approval of a whole request reads the same
  rows one after the other, which gives no more outcomes than the gap to the save.
- History variables: `ledger` adds up the `AccessoryEvent` rows; `held` is what a
  consumable user has in hand according to the answers it got, `supply` the units
  there are; `overtaken` are the consumables of which an approval wrote quantities
  that had changed since it loaded them.  Nothing in the code reads them.

### `SessionRefresh`

- `row` is one `UserSession`; sessions share nothing but the user.  `session_family`
  is unique to a session, so revoking the family revokes the row.  `used` is the age
  of `last_used_at` and, as both are written together, of `expires_at` less the idle
  timeout; `touched` says that `last_used_at` is not null.  The absolute lifetime, a
  locked account and a change of user agent may apply to any request (`Refuse`).
- `RefreshAPIView` and `LogoutAPIView` are `Start` (the clock is read), `Lock` (the
  row is locked and read), and one of the outcomes, which commits and answers.
  `owner` is the transaction that holds the row.  `SessionActivityAPIView` reads the
  row in the authentication and saves two columns of it later, under no lock (`Ping`,
  `Pinged`).  `End`, `Expire` and `Cleanup` are single updates that wait for the row.
- `tab` and `jar` are the browser, which is outside the code: the cookie is read when
  a request is sent and replaced or deleted when the answer arrives, and a tab that
  is told 409 or 500 tries again after `Retry-After`.
- Hashes are modelled as the tokens they identify.
- `lost` is history: an `"answer"` with a new token that never arrived, or a
  `"request"` that two rotations have overtaken (`Overtakes`), so that the row has
  forgotten its token.  With two tabs the second cannot happen (`TwoTabs`): whoever
  rotates next must first have got the answer of its own rotation, and has no reason
  to refresh again before its new access token expires.
- `SessionAssumption` relates the delays.  A request is served and answered within
  `Latency`, which is less than the life of an access token, and three of them fit
  into the grace period: the request with the replaced token, the retry, and an
  activity report that was read before the rotation and sets `last_used_at` back when
  it is saved after it.  With a grace period of two delays TLC finds the false alarm.

### `Accounts`

- `user` is the `User`: which password it has (passwords are told apart by when they
  were made), `is_locked`, `locked_until`, the count of failed logins.  `h[r]` is what
  a request or e-mail task does, with what it read: logins read twice with the hash
  in between, and save some of the columns; a password change and a profile or
  administrative edit save every column (`Copy`).
- `lockout` is the policy's switch for temporary locks, which is off by default
  (`core/models/security.py:27`).  Both values are possible at the start and stay.  The
  lock for good does not depend on it.
- Times are left open: a temporary lock, a link or the window for failures may end at
  any time.  A login counts sessions, revokes at most one and creates its own, in
  three statements; `sessions` is in the order of creation, which those that are left
  keep when others end (`After`).
- `failures` counts failed logins since the count was last made anew, and `loose`
  marks a session whose login had read the password before another was made.

### `AgreementLifecycle`

A client is a caller between the load of an agreement and the save of the copy it
validated, the sweep the expiry task between its query and its last agreement.  Dates
are days; `Storable` is the check constraint.  `history[a]` are the rows
`AgreementHistory` of `a`; a service function saves its fields and its history row in
one transaction, but the view that creates saves them one after the other, and the
plain update writes none.

### Administration: `SiteTree` to `SiteAdministration`

- `parent` is the tree; a deletion leaves `NoSite` in the children (`SET_NULL`).
  Renaming changes nothing that is modelled.  `Relocate` is the relocation endpoint,
  which asks for no role and saves in its own transaction.
- `request[u]` is what the one request of user `u` is about to save.  It is decided on
  when it is read (`Actor(u)` is the caller's active role with its scope) and saved in
  a later step, unconditionally, as the views do; the constraints of the database and
  the foreign keys are checked again by the save, and a save they refuse is `Fail`.
- `founders` is every assignment the system started with, `under` every parent a site
  has had, `givenIn` where the holder of an asset sat when it got it: history that
  the properties need to say what may have changed meanwhile.
- `Bug...` operators are mutated forms of the definition that follows them; no
  specification uses them.
- `ScopeRules`, `SitePages` and `UserPages` have no state: each operator is one
  formulation of the code, a query filter, an object check, a page or a report,
  named for where it is found.
- `PermissionMatrix`: `granted` are the `RolePermission` rows, `session[u]` the codes
  a session loaded.  An update reads, writes the difference and picks the sessions to
  revoke inside one transaction (`"put"`, `"written"`), which others may overlap.
- One agreement is modelled, coverages as the set of their scopes, attached assets
  as a set.  An asset is equipment (`RoomChecked`) or stock; both are held by
  one user at a time here, as units are the business of the stock modules.

### `CachePromise`, `ScopeCache`, `AnalyticsCache`

- `CachePromise` says what a reader gets: an answer made of the sources it asked for,
  each at least as new as it was when the reader's generation was last renewed before
  the question.  `floor` and `asked` record that; both caches map to it.
- A version of a source is the number of commits to it.  Keys are made of what the
  code puts into them: user, role and the two generations for a list of sites; the
  generations of a section's kinds for analytics.  Redis commands are atomic and may
  fail; a renewal runs in `on_commit` and may be lost with the process.
- `Flush` loses every key.  `ScopeCache` makes generations of fresh ids, which a loss
  does not repeat; `AnalyticsCache` counts, and is modelled as long as Redis keeps its
  generations (section 5).

## 3. Runs

| run | bounds | shows |
|---|---|---|
| `report_safety` | 1 report, 2 workers, 2 failures of 8 kinds, deletion | `TypeOK`; `LeaseExclusive`, `WorkingOwnsLease`: two executions work on a job, or one that does not own its row, only if its task was misled; `DoneFileStored`: a published workbook is kept, unless its own task was; `ImplementsLifecycle` |
| `import_safety` | 1 import of 3 rows, 2 workers, 1 failure of 5 kinds (redelivery and an unreported commit among them), cancel | `UploadKept`, `NoOrphanObject`: the source file is kept while it may be needed, no object is left behind; `AllRowsAccounted`: no row is left out, however many executions it took; `NoImportAfterPayload`: committed rows are not imported again; `TwiceOnlyAtOnce`: only two executions about to save a row at the same time make its asset twice |
| `import_recovery` | 1 import or legacy job, 1 worker, 1 failure of 5 kinds, fairness, prompt delivery | `JobSettles`: every job ends |
| `asset_custody` | 2 pieces of equipment, 2 users, 1 return request, 2 requests at a time, every endpoint | `NoSilentTakeover`: equipment changes hands only by a reassignment that names its holder; `ClosedHasNoPending` |
| `accessory_stock` | 1 accessory, 2 users, 2 requests at a time, 3 rows, 2 units, fairness | `OneOpenAssignment`, `HoldingsMatchEvents`; `OnlyEditsOverAssign`: only an edit leaves more units assigned than owned; `RequestsAnswered` |
| `consumable_stock` | 1 consumable, 2 users of whom one uses units, 2 requests at a time, 3 issues, 1 item of a return request, 2 units | `NoUnitsInvented`, `HoldingsTracked`, but where the approval of a return was overtaken |
| `session_refresh` | 2 tabs, 4 tokens, 1 failure, fairness | `OneWinner`: a token is exchanged once; `CredentialKept`, `SignedOutIsEnded`, `NoFalseAlarm`: what the tabs do to each other; `TabsServed` |
| `accounts` | 2 handlers, lock after 2 failures, if enabled, and for good after 3, 1 session allowed, 1 link, 1 new password | `LockoutComes`, `LockStands`, `SessionsFollowPassword`, `LimitHolds` |
| `agreement_lifecycle` | 1 agreement, 2 callers and the expiry task, 3 days, 3 history rows, 1 plain update | `HistoryTellsRow`; `EndsUnlessStale`: an ended agreement is brought back only by a plain update or a copy loaded before the end |
| `site_administration` | see below | `AuthorityFlowsDown`, `VisibleIffManageable`, `HoldersStayPut`, `CoverageAgrees`, `ReachAgrees`, `PagesAgree`, `ContextFresh` |
| `scope_cache` | 1 user, 1 role, 2 requests over and over, 2 commits or losses of the cache | `KeepsPromise`: `ScopeCache` implements `CachePromise` |
| `analytics_cache` | 2 kinds, 1 section, 2 requests, 1 snapshot task, 2 days, 2 rows, fairness | `KeepsPromise`; `AnswersCatchUp`: a lost bump is made good by the expiry of entries |

Every module of state has a `TypeOK`.  It is listed in a run where it says more than
a type: that no path exceeds the limits of attempts (`report_safety`).

Jobs: time is counted in units of the hard time limit (`TimeLimit` 1, `StaleAfter` 2,
`DispatchGrace` 1, `SweepLimit` 1, `AgeCap` 3), which keeps every order of the
thresholds the settings allow (the defaults are 1800, 2100, 120 s).  One job and
two workers are enough for every race on a row, since jobs share nothing but
workers and the sweep; `MaxAttempts` 2 reaches exhaustion by each path.  Task ids
are enough that none is ever missing: with two attempts two tasks at most claim a
report.  Two failures reach the loss of a worker between its retry and the
acknowledgement (an error and the crash), with both messages then claimed and one of the
executions publishing; one repeated delivery does the same to an import, where a second
execution goes through the file beside the one that commits.  The file of
`import_safety` has a key twice, whose rows may end with an error, and one with a
serial number; the lease is looked at before the third row.  That run leaves out crashes
and hard limits: for the rows they are what the loss of a lease is, and a worker lost
after its retry leaves what a redelivery does; the theorems have them.  `NoOrphanObject`
excludes what has no clean-up in the code: crashes, hard limits and storage calls that
take effect but raise, and deletions, which may read the row before its workbook is
published.

Custody and stock: rows of different accessories or consumables are never locked
together, so one is enough; equipment is locked in batches, so there are two pieces.
Two concurrent requests race on a row, and a third comes between them when one has
answered.  Two users with two units let one user's request decide about the last unit
another wants; a quantity of two tells a partial return from a complete one.
Three rows are one for each user and one to insert.  Only one piece of equipment
changes its status (`Changeable`): the endpoints concerned lock nothing else.
A consumable is followed until the approval of a return request for it was overtaken,
after which its quantities mean nothing; that is why `consumable_stock` may stop.

Sessions: the ages count units of the one second of `Retry-After`.  A request is out
for at most one unit (`Latency`); the grace period, the gap between activity reports,
the life of an access token and the idle timeout keep the order they have in the
settings (5 s, 30 s, minutes): 3, 3, 4 and 6.  The grace period is the least that the
assumption allows, and an idle timeout of 6 the least in which a session can live
through a rotation, an activity report and a late request, the order that raises a
false alarm when the grace period is shorter.  Four tokens are the row's two, the
cookie's, and one that a request carries besides.  The proofs hold for any number of
tabs; three tabs can replace a token twice while a request is out (section 5), which
`CredentialKept` and `SignedOutIsEnded` then exempt as a lost request.

Accounts: two handlers are a request that reads while another writes; a third would
read what one of them left.  `PermanentAfter` is one more than `LockAfter`, so that a
temporary lock comes and ends before the permanent one, and temporary locks are both on
and off.  One reset link can be confirmed
twice at a time; an older link beside it would set a password in the same way.  The
proofs hold for any number of each.  Agreements: three days
leave a date before, at and after any other; the run stops when its history rows and
days are used up, hence `CHECK_DEADLOCK FALSE`.

Administration: two users, two departments, locations and rooms, three rows of role
assignments, one piece of equipment and one of stock, three seats and three
permission codes.  A behaviour starts from one of 45 scenarios (`MCScenario`): who
has which role on which tree, what the requests may be about (`topics`), and how many
may be made (`limit`).  Requests about roles and sites go two deep on two branches and
three deep with the second location not yet created; custody, seats, assets and sites
in four combinations, three deep; agreements with sites or assets three deep; the
matrix alone and with roles two deep.  Each request is two steps, and the requests of
the two users overlap in every way.  Three requests are what it takes for one to
change the tree under a second while a third relies on it; the disagreements met while
the formulations were written down (section 5) all appear after one or two.  The run
stops when the requests are used up, hence `CHECK_DEADLOCK FALSE`.  `PagesAgree` looks
at the stored rows when no request is under way (`AtRest`): pages depend on nothing
else, and any request may fail and leave the rows as they are.  The proof does without
`AtRest`.

Caches: a fill that overlaps a commit, its renewal and a second request needs two
requests and one event; the second event is another commit or the loss of everything.

Fairness.  Jobs: idle workers take waiting messages, a handler that can go on does,
Beat starts the sweep again and again, clocks advance.  Users and failures owe
nothing.  `import_recovery` also sets `Prompt`: time does not pass while a message
waits and a worker is idle, that is, messages are taken within the dispatch grace.
Without it `JobSettles` is false (section 5).  Stock: strong fairness of
each handler's next step, since PostgreSQL queues the transactions that wait for a
row; users owe no further request.  Sessions: requests are served and answered, a
request that waits for the row lock gets it, the tab sends what it needs to, and time
passes.  `TabsServed` holds of a tab that the others leave alone in the end: two tabs
can keep each other in conflict for as long as both refresh.  Analytics: a request is
served, and each entry expires, since Redis keeps it with a timeout; nothing is
assumed of the snapshot tasks.  No liveness is claimed of agreements:
`sync_expired_agreements` is in no schedule.

What the properties exempt is named in them: a task with two messages or a misreported
commit (`misled`), an execution that was importing when another committed (`early`), an
approval that was overtaken
(`overtaken`), a copy loaded before the end (`EndsUnlessStale`), a session opened
while the password or the matrix changed (`loose`, `stale`), a lost answer and a
request overtaken by two rotations (`lost`), an assignment made while
a transfer was under way and the endpoints that do not look (`givenIn`), assets
without a room (`ReachAgrees`, `PagesAgree`).  Section 5 says what happens in these cases.

## 4. Proofs

`ReportJobsProofs`, for every number of jobs, workers, attempts, retries and failures:

- `TypeCorrect`: `Spec => []TypeOK`.  Inductive as `TypeInv`, which adds that a
  busy worker holds a message of a job and that attempts are counted only below
  their limits: a retry is published only while one is left.
- `LeaseIsExclusive` and `WorkingKeepsLease`.  The inductive invariant is `LeaseInv`:
  `TypeInv`, `OneCarrier` and `LeaseOK`.  `OneCarrier` says that a task id that was not
  misled is carried by one message, one execution or one dispatching call, never by two,
  and that an execution in `retried` no longer carries its own (`Carry`).  `LeaseOK`
  says that such a task owns its row while it works, and that the row's heartbeat is no
  older than the task; with `TimeLimit < StaleAfter` no claim and no sweep can then find
  the row stale.  `LeaseExclusive` follows from both.
- `WorkbookKept` (`DoneFileStored`) and `Refinement` (the specification implements
  `JobLifecycle` under the mapping that `ImplementsLifecycle` uses).  The invariant
  `RefInv` adds to `TypeInv` and `OneCarrier` that a task id, with its messages,
  executions and workbook, is of one job (`OneJob`), so that a misled task disturbs no
  other; that the task of a published workbook is done with it, unless it was misled
  (`PublishedQuiet`); that a worker about to publish has stored its object, and which
  payload and file each kind of row may have in each status.  `JobLifecycle` says what
  is left of the promise where a task was misled: the workbook may come and go, but
  the job stays published.
- `SourceFileKept` (`UploadKept`).  The source file is deleted by
  the sweep, by a finished import, by cancel and by delete, each on what it read of
  the row earlier.  `FilesInv` therefore says what they may still rely on when they do
  it: a job whose file somebody is about to delete has committed its rows or has ended
  for good (`DoomedSpent`), a job that is done has committed them (`DonePaid`), and a
  report is made of an import only after that (`KindOK`).
- `NothingLeftBehind` (`NoOrphanObject`), from `Undisturbed`: nothing is deleted, no
  process dies, no task times out, no storage call raises after it took effect.  Each stored
  object is published or belongs to an execution that will publish or delete it.
- `RowsImplement`: each step of `ImportRows` is a step of `ReportJobs` or leaves its
  variables alone, whatever the file, so that every theorem above holds of imports row
  by row.  `RowAssumption` says of the file only that its rows have keys, and that the
  lease is looked at before some of its rows.
- `TwiceOnlyInARace` (`TwiceOnlyAtOnce`).  `LoopInv` says what a task in the loop can
  rely on: every row behind it is in or reported, and so is a key it has seen
  (`Passed`); a row about to be saved whose asset is there already was saved by another
  task in between (`Warned`).
- `EveryRowAccounted` (`AllRowsAccounted`).  `Complete` follows the rows from the end of
  the loop to the committed results: whoever is past the loop has all rows in or
  reported, and so has every live row with a payload.  It holds across attempts since
  assets are never removed by an import.
- `CommittedOnce` (`NoImportAfterPayload`): `ImportingEarly` says that the row of an
  execution that imports has no payload or has ended, or that the execution is in `early`
  and its task misled.  A payload is stored by the holder of the lease (`LeaseInv`) or
  with a failure, and no delivery that finds one starts to import.

Only `NothingLeftBehind` has a condition; the others hold whatever fails.

`AccessoryStockProofs`, for every number of accessories, users, rows and requests:

- `StockTypeCorrect`, `AssignmentIsUnique`: `StockInv` is `TypeOK` with what each
  transaction holds: its locks (`TxOK`, `LockOK`), and, while it holds the accessory
  and found no open assignment, that there is none (`NoneFound`).
- `EditsAloneOverAssign` (`OnlyEditsOverAssign`).  `RoomInv` adds that the units a
  transaction was granted are still available until it commits (`RoomOK`).  An edit
  keeps this although it may take away units that are assigned: it waits for the lock
  of the accessory, so that no grant is open when it commits.  Each step leaves an
  accessory enough units or is the edit of that accessory (`FitsOn`).
- `NeverOverAssigned` (`NoOverAssignment`) then follows from `"edit" \notin Endpoints`.
- `EventsExplainHoldings`: `HoldingsInv` adds that what a transaction read from an
  assignment without locking it is still its quantity when it writes, unless it was
  closed (`SeenOK`).

`ConsumableStockProofs`, for every number of consumables, users, issues, items and
requests and every quantity, from `ConsumableAssumption`:

- `StockTypes`: `StockInv`, on which the other two rest, is `TypeOK` with what each
  request knows (`Knows`), the locks it holds (`Holds`), and what it has read under
  them (`ReadStands`): an issue found by the unlocked `get_or_create` keeps its quantity
  until the request writes, or was closed by a use.
- `StockIsCovered` (`NoUnitsInvented`).  The units in hand are a set of pairs
  (`Units`), and `UnitsSplit` and `UnitsChange` say how its cardinality changes when one
  issue row does; every write of stock is then one row (`Written`, one lemma for each
  endpoint) whose change and the change of the stock cancel.
- `HandsAreTracked` (`HoldingsTracked`), by the same `Written`.

`AssetCustodyProofs`, for every set of equipment, users, requests and handlers, from
`CustodyAssumption`:

- `CustodyTypes`; `NobodyIsRobbed` (`NoSilentTakeover`): `CustodyInv` says that a
  transaction about to write an assignment has locked all its equipment
  (`WriteLocked`); a reassignment compares the holder under that lock.
  `AssignmentsExclude` is the same fact as a state property, `OneWriterEach`.
- `ClosedRequestsAreDecided` (`ClosedHasNoPending`): nothing locks the request when an
  item is decided, so the invariant is that a verdict once computed stays true until it
  is saved (`VerdictStands`): items are decided and never become pending again.

`AgreementLifecycleProofs`, for every number of agreements and callers, every calendar
and every history, from `RowAssumption` (what clients send are rows, a row differs from
the marks for none):

- `AgreementTypes`; `HistoryIsTrue` (`HistoryTellsRow`).  A creation saves its history
  row after the row, and others may save theirs in between, so the invariant tells the
  fields apart: each field is what the last history row about it says (`Tells`), and a
  creation under way agrees with the fields nobody has told of yet (`Stands`).  The
  lemmas `ToldIsLast` and `ToldAppend` say what one more history row changes.
- `EndIsFinal` (`EndsUnlessStale`).

`SignInProofs` on `SessionRefresh`, for any number of tabs and tokens and all delays that
`SessionAssumption` allows:

- `SessionTypes`, `TokensAreExchangedOnce` (`OneWinner`), `CredentialsStay`
  (`CredentialKept`), `SignedOutForGood` (`SignedOutIsEnded`), `SiblingsAreNotSuspected`
  (`NoFalseAlarm`), all from `SessionInv`.  `Winner` says that the answer with the
  current token is the only place where that token is, so that nobody can exchange it;
  `Cookie` and `Known` say which of the row's two tokens the browser and each request
  have; `Timely` bounds the age of `last_used_at` by the age of any request that still
  carries the replaced token; `Slower` orders two tabs' refreshes.

`SignInProofs` on `Accounts`, for any number of handlers and links and every limit and
bound that `AccountAssumption` allows:

- `AccountTypes`: `AccountInv` says what each handler has read and is going to save
  (`AllWork`).  An account that is not locked for good has a count of failures below
  the limit, and so has each copy that may be saved (`Sane`): an old count is saved
  over a newer one, but never past the limit.
- `SessionsEndWithPasswords` (`SessionsFollowPassword`): whoever sets a password
  ends the sessions with it, an edit that puts an older one back leaves them `loose`, and
  a login opens a session of the password that it has checked, `loose` if there is
  another by then.
- `LocksAreLifted` (`LockStands`) and `OneLoginKeepsLimit` (`LimitHolds`), action by
  action.
- `LockoutIsReached` (`LockoutComes`).  Failures overwrite each other's count, so that
  the count may fall; what climbs is the set of all counts that somebody may still add
  one to.  `Ladder` says of each count below the limit how many handlers can count from
  less.  A failure takes one handler from below some count, and no more are below
  the lower ones, which makes the ladder lexically smaller (`Later`); no other step
  makes it larger unless the count is made anew.  Hence there are never more failures
  than ladders above the present one (`FailuresClimb`), and ladders are nondecreasing
  functions from `ShutAfter - 1` counts to `0 .. Cardinality(Handler)`, where `ShutAfter`
  is the least count that shuts the account: `PermanentAfter`, or `LockAfter` if
  temporary locks are on and it is no more.  Of these there are
  `choose(ShutAfter + Cardinality(Handler) - 1, Cardinality(Handler))` (`LaddersAre`), by
  Pascal's rule (`ClimbsSplit`, `NextClimbs`) for the least sum of both numbers that
  would fail it (`LeastOf`).

`SiteAdministrationProofs`, for every tree of sites, every number of users, rows, seats,
assets and requests, and every start that `ScenarioAssumption` allows (rows and a tree of
the right types; `RoleInit`, `SiteInit` and `PlacementInit` ask for what the database
enforces: parents and scopes stand, rows are unique, an active role is its user's, a user
has one current seat):

- `AdministrationTypes`: `TypeInv` adds to `TypeOK` that a site is only placed where a
  site of its level may lie and that an active role is an assignment.  Most steps leave
  most variables alone, so each kind of step has a lemma that says which requests it
  makes (`Only`), and the other invariants have a frame lemma to cite with it.
- `AuthorityFlowsDownAlways` (`AuthorityFlowsDown`), from `AuthorityInv` and
  `GrantsPermitted`: what a request is about to save was within the power of a founder
  when it was decided on, and stays so, because `under` and `founders` only grow; that
  the save comes later, when its author may have lost the role, does no harm.  The
  lemmas are about the rules: `Manages` is transitive (`ManagesTransitive`), what a role
  may manage it contains (`ManageMeans`, `WithinContained`), an update gives what the
  author could have given anew (`UpdateGives`), boundaries rise with the rank
  (`BoundariesRise`).
- `ContextFreshAlways` (`ContextFresh`), from `SessionsInv`: an update that is not
  committed is going to revoke every session that its difference makes stale.
- `HoldersStayPutAlways` (`HoldersStayPut`), from `SeatsInv`: a row that a request is
  about to change may vanish and come back but stays its user's (`ClaimsStand`), who has
  one current seat (`OneSeat`) and held nothing when the transfer was asked for
  (`TransfersEmpty`).
- `VisibleIffManageableAlways`, `CoverageAgreesAlways`, `ReachAgreesAlways`: every
  formulation is shown to mean the one rule (`ManageMeans`, `CoversMeans`, `ReachMeans`:
  a site admin reaches all rooms, others those `Within` their site), from `TypeInv` and,
  for users, `OneSeat`.
- `PagesAgreeMeanwhile` and with it `PagesAgree`, in every state and not only between
  requests.  The rooms of each page are those `Below` its site, so that pages, dashboards
  and reports count the same; `OwnersInv`, that everybody's active role is its own, is
  what lets a summary name a role its user has.

`CacheProofs`, for every number of users, roles, kinds, sections, tasks and requests,
and every loss that the models allow:

- `ListsKeepPromise` (`KeepsPromise`) and `ScopeTypes`, from `CacheAssumption`.  The
  invariant is `ScopeInv`.  Its core are `EntriesFresh` and `BuildsFresh`: what is kept
  under a key, or is going to be, is no older than what was promised to every request
  that may still look for that key (`Reaches`), and, while the generations in the key
  are the present ones, to every request to come.  A renewal raises the promise and
  makes the key unreachable at once; this needs that a generation is never drawn twice
  (`UuidIsNew`: finitely many things hold one, `HeldFinite`, so another is left).  That
  an entry need not be written by those who read it is why the invariant is about keys.
- `DashboardsKeepPromise` and `DashboardTypes`: the same for `AnalyticsCache`, which
  is brought in as an instance (`Dash`) with variables of its own.  `DashAssumption`
  states what `AnalyticsAssumption` says of the constants it uses.  `DashInv` has the
  same core (`EntriesRecent`, `FillsRecent`); generations are new here because they
  count up (`DashGrows`), so that a request never holds one that is still to come.
- The assumptions fix the encoding (`None` is neither an id nor an answer, a section
  depends on at least one kind), and that the requests of `ScopeCache` are finitely many.

Only model-checked: liveness, which is beyond the prover (`JobSettles`,
`RequestsAnswered`, `TabsServed`, `AnswersCatchUp`).  Every other property that a run
checks is a theorem.

## 5. What the models say about the code

Promises that the code does not keep, and which the properties above therefore leave
out or exempt:

- The lease does not prevent duplicate execution, as `settings/celery.py:11-13` says it
  does, when a task has two messages: Redis delivers one again after the visibility
  timeout although its execution is alive, or a worker is lost after it has published
  its retry and before it has acknowledged the original.  Both messages carry one task
  id, and `claim_job` takes the second for a resumption, counts an attempt, or fails the
  job if none is left, while the first works on.  One of the two publishes the
  workbook; the other finds its lease gone and deletes the object, which has the same
  key (`reporting/tasks/reports.py:226`; the comment at 159-162 has it that each
  execution stores under a key of its own).  The workbook is also deleted when the final
  commit succeeds and the connection reports an error.  The job stays done, without its
  workbook.
- An import that is doubled in this way and whose other execution commits the results
  goes on importing rows until it looks at its lease again, at most ten rows later
  (`data_import/tasks.py:121`: never repeated).
- With a backlog longer than the dispatch grace each message is overtaken by a new
  reservation and skipped as `reserved`; with a backlog that stays, the job never runs.
- A use of a consumable that leaves something is answered and not stored
  (`consumable_assignment.py:194`).
- A refresh that finds its token replaced twice is refused, and the answer deletes the
  cookie that a sibling tab has just been given (`general_viewsets.py:615`, against
  450).  The session stays active with nobody able to refresh it, until it idles out.
  A logout with such a token leaves the session active.  It takes three tabs.
- An activity report saves `last_used_at` as it was when the report was read.  If a
  rotation commits in between, the grace period is counted from the earlier time, and
  a sibling's request with the replaced token, within five seconds of the rotation, can
  be reported as reuse.  It takes requests slower than a third of the grace period.
- Decisions on different items of a return request at the same time each compute its
  status from the rows they see (`asset_returns.py:79`): it stays pending with nothing
  left to decide, against `test_admin_return_item_workflow.py:119-120`.  A request
  that is partly decided counts as `PARTIAL` while items are pending, and
  request-level approval then refuses it.
- Approving an old return request closes the assignment of the equipment's present
  holder, as the row is the same (`asset_returns.py:107`).  Approvals for accessories
  and consumables write the quantities they loaded: what was issued, returned or
  restocked meanwhile is lost.
- Saves of a whole row (password change, profile and administrative edits, updates of
  roles, sites and assets) undo what was saved since the row was read, a lock or a
  new password among it, and insert a row again that was deleted.
- Repeated failed logins lock an account for a while only where `enable_account_lockout`
  has been turned on; with the default they run on to the permanent threshold, four
  times as high by default.  `revoke_sessions_on_password_change` is read nowhere:
  sessions are always revoked.
- Two logins at the same time exceed the limit on sessions for good, since each later
  login revokes one at most.  Two confirmations of one reset link both succeed.  A
  login under way across a password change opens a session with the old password.
- Two executions of one import at the same time can make an asset without a serial
  number twice; a retried import reports the rows of the earlier attempt as
  "Duplicate asset already exists".
- Generations of analytics are counters.  If Redis loses them but keeps entries they
  count up again through keys that are still there (against the comment in
  `settings/redis.py` that generations control freshness).  `ScopeCache` is safe from
  this: its generations are fresh ids.

Facts about the code that the models follow and a maintainer may want to know:

- Custody: a full return of stock through a return request leaves the row open with
  quantity 0, which blocks a transfer and does not show on the user's own pages.
  Batches of assignments skip the scope check of the equipment.
- Accounts: `register_failed_login` returns nothing, so the audit of an account lock
  never runs.  A retried reset e-mail meets the cooldown of two minutes and gives up.
- Agreements: the object-level permission of coverages and agreements reads a field
  `room` that agreements do not have (`access/permissions/agreements.py:88-91`); the
  lifecycle is modelled as if it passed, detaching and removing a coverage are left out.
- Imports: `EquipmentImporter` upper-cases the status and compares it with lower-case
  choices, so every import becomes "ok".  Duplicates in a file are found without
  regard to case, duplicates in the database with it.
- Placement: a user cannot be moved back to a former room (`UserPlacement.clean`).
  A transfer raises `serializers.ValidationError` in a module that does not import
  `serializers`.  Creating, changing or deleting a placement skips the check for active
  assets.  A transfer asks for no scope.
- Sites: renaming and relocating a site ask for authentication only.  A room that
  somebody sits in cannot be deleted.
- Reach: assets without a room are listed to a site admin and refused to everyone by
  `can_access_room`.  `filter(x=None)` means `IS NULL`, so the admin of an orphaned
  location or room finds agreements, coverages and items without a department.  Room
  roles of an orphaned room raise `AttributeError` in the policies of agreements, the
  inventory report and the summary of its users likewise.
- Pages: the site asset report, the stock lists of a room and its equipment dashboard
  include soft-deleted assets.  The overview of a room asks for authentication only.
  In inventory reports the condition `active_assignment__returned_at__isnull=True`
  counts equipment that was never assigned as assigned.
- Roles: an update that changes the level of a role is always refused.
  `AdminUpdateUserPermission` uses `is_user_in_scope` without importing it.
- Clean-up tasks take an advisory lock and leave it to the connection to release it.
- No caller: `core/cache/service.py` and `invalidation.py`, `validate_status` in
  `assets/api/serializers/equipment.py:214` (it is outside its class), most of
  `access/permissions`.

## 6. Not modelled

- Return requests for accessories: their approval is that for consumables, on a row
  without a check constraint.
- Scope checks inside the custody modules: what a role reaches is the business of
  `ScopeRules`, and nothing about stock or custody depends on who asked.
- The full creation of a user with role and seat in one request; deactivation of
  accounts; changes of the security policy; expiry of passwords.
- Changes of roles or rooms during an import.
- What reports count: averages, login statistics, audit and password events; the cap
  of 20 rows of previews; units in the pages of holdings.
- `ScheduledTaskRun`, audit entries, notifications and their retention, e-mail: rows
  and messages that nothing reads back into a decision.
- A Redis that goes back to an earlier state.
- Serializers and rendering; seeding and generators, `seed_role_permissions` among
  them; deployment, monitoring and load generation.
