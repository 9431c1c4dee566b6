# Verification of the HRIS backend

The repository is a human-resources API in Go (Gin, GORM, PostgreSQL, Redis).
This directory holds TLA+ specifications of the parts whose correctness depends
on concurrency, failures or arithmetic, the TLC configurations that check them,
and proofs checked by TLAPS. Every definition is translated from the source;
`PROJECT.json` names the lines behind each of them.

Check a model with `tlc -workers 2 -config MCLeave_workflow.cfg MCLeave.tla`
(the module is the part of the cfg's name before the underscore), and proofs
with `tlapm LeaveProofs.tla`.

## The system

One API process serves requests in parallel goroutines; each service method is
one PostgreSQL transaction under READ COMMITTED, so what a call sees can change
between two of its statements unless a row lock (`SELECT ... FOR UPDATE`), a
UNIQUE or a CHECK constraint prevents it. Redis counts requests per client. The
seed is one transaction too, run by hand beside the API; the worker process has
no handlers.

| Component | State | Operations that change it | What makes it correct |
|---|---|---|---|
| Leave workflow and balances (`internal/leave`) | `leave_requests`, `leave_approvals`, `leave_balances`, `leave_types` | Submit, ManagerApprove, HRApprove, Reject, Cancel, SetEntitlement, AdjustBalance, CreateType, UpdateType | approval rows agree with the status; decisions are atomic and final; no balance is overdrawn; active requests of an employee never share a day |
| Date ranges (`internal/leave/policy.go`) | none | parseDateRange | the duration is the number of calendar days, in every `APP_TIMEZONE` |
| Employees (`internal/employee`) | `employees` with `user_id`, `manager_id`, `department_id`, `position_id` | Create, Update | no two employees become each other's manager (longer cycles are not excluded, see below); a user is linked to one employee |
| Attendance (`internal/attendance`) | `attendance_records` | ClockIn, ClockOut | one record per day, on the right day, clock-out after clock-in and made once |
| Rate limiting (`internal/middleware/http.go`) | a Redis counter per client | RateLimit | a limited client is served again later; windows are not stretched |
| Sessions (`internal/auth`) | `refresh_sessions`, the browser's cookie | Login, Refresh, Logout | rotation is atomic and seen by every later refresh; the cookie a browser is left with works |
| Access (`internal/middleware/auth.go`, `internal/rbac`, `cmd/seed`) | `users`, `roles`, `permissions`, `user_roles`, `role_permissions` | Authenticate, CreateUser, AssignRoles, CreateRole, the seed | a user's roles are those of one assignment; once nobody may manage roles only a seed changes that, and a seed does; deadlocks end |
| Departments and positions (`internal/department`, `internal/position`) | `departments`, `positions` | Create, Update | a department or position named in a request exists and is active when it is checked; nothing holds it active afterwards |
| Notifications, audit (`internal/notification`, `internal/audit`) | `notifications`, `audit_logs` | written by the other components; Read | written if and only if the change they tell of commits |
| Processes (`cmd/api`, `cmd/worker`), routes, configuration, responses, passwords and tokens | none that outlives a call | | |

How they interact: the middleware resolves the caller's user, employee and
permissions before a handler runs, outside the handler's transaction. Submit,
CheckScope and the notifications read `employees.manager_id` and
`employees.user_id`, which the employee component writes. Employees are placed
into the departments and positions that the catalog activates and deactivates. The
leave workflow reads the flags of leave types when a request is submitted and
again at HR approval. Every writing service appends its audit entry, and the leave
workflow its notifications, inside its own transaction.

What is hard: several approvers and the owner deciding one request at once; one
balance debited, adjusted and re-entitled at once; checks that read without
locking (overlap, manager's manager, clock-in count, active departments);
permissions read before the transaction they admit; a seed that locks rows in
the order of a Go map; a clock read before a wait for
a lock; a statement, a process or a Redis command that fails in the middle; and
wall-clock dates in zones that change their clocks at midnight. The `hazards` of
`PROJECT.json` list these line by line with the properties that cover them.

## Modules

| Module | What it is |
|---|---|
| `LeaveRows` | rows of requests and balances, their CHECK constraints and arithmetic; shared by the next two |
| `LeaveLifecycle` | the abstract specification: every decision and every balance change is one atomic step |
| `Leave` | the detailed specification: concurrent transactions, statement by statement, with row locks |
| `LeaveProofs` | the inductive invariant of `Leave` and what follows from it |
| `LeaveImplements` | `Leave` implements `LeaveLifecycle`; balances under way, scope, overlaps, the trail, waits for locks and the ledger of used days |
| `AccessRows` | users, roles, permissions and their links; shared by the next two |
| `AccessControl` | the abstract specification: every call and every run of the seed is one atomic step |
| `Access`, `AccessProofs` | the detailed specification, statement by statement, and theorems about it |
| `Catalog` | departments and positions |
| `EmployeeHierarchy`, `HierarchyProofs` | employees with their references, composed with `Catalog`, and theorems about both |
| `Attendance`, `AttendanceProofs` | clock-in and clock-out around midnight, and theorems about it |
| `DateRange`, `DateRangeProofs` | the counting loop of `parseDateRange` over wall-clock times, and theorems about it |
| `RateLimit`, `RateLimitProofs` | the Redis counter, and theorems about it |
| `Sessions`, `SessionsProofs` | refresh sessions and the cookie that carries them, and theorems about them |
| `MCLeave`, `MCAccess`, `MCHierarchy`, `MCAttendance`, `MCDateRange`, `MCRateLimit`, `MCSessions` | instances for TLC |

### Leave

A member of `Tx` is a transaction. `pc[t]` names the statement it is about to run,
`call[t]` is the call it serves and `seen[t]` what it remembers of rows read
earlier. Every statement that reads shared rows or waits for a lock is a step:
ReadEmployee, ReadManager, CheckType, CheckOverlap, CheckBalance for Submit;
LockRequest for all four decisions; CheckScope, ReadType and LockCharged after it;
LockEntitlement and LockAdjusted for balances. The writing statements of a
transaction are one step with its commit (SubmitWrite, ManagerApproveWrite, ...):
nobody sees them earlier, and the rows they update are locked or new. `Abort` may
end a transaction before any statement: it stands for an error, a lost connection,
a cancelled context or the end of the process, and undoes everything.
`requestLock` and `balanceLock` are the locks of FOR UPDATE; a missing row locks
nothing.

Notifications are sets of (type, recipient) per request and the audit log a
sequence of events per request, because the properties are about who was told
and what is on record, not about texts. Reasons, timestamps and names are left
out. `types` are the ids of leave types that exist: `CreateType` adds one, always
active and with `requires_balance`, because GORM inserts the columns' default
TRUE in place of FALSE; rows with other flags come from `UpdateType` and from the
seed. A balance can only be set for a type that exists. `charged` is a history
variable: the requests whose approval debited a balance.

Accounts are not employees. `account` is `employees.user_id`, and
`UpdateEmployee` changes it with `manager`, at any moment, within the
assignments of the constant `Linkings`, which respect the UNIQUE constraint.
`Permitted` is what the route and the middleware let through, and `Identify` the
middleware's read of the caller's employee, which `seen[t].employee` keeps for
the whole call. So CheckScope compares a manager read now with an employee
identified earlier, an account may belong to somebody else when the decision
commits, and a notification goes to the account the owner has at that moment or,
if there is none, to nobody. The set of users who may approve for HR is fixed in
this module; `Access` changes roles. `CreateType`, `UpdateType` and
`UpdateEmployee` touch one row once each, so each is one step.

`Leave` implements `LeaveLifecycle` (`ActsAtomically`): reads, locks and aborts
are stutters, each commit is one abstract step. Amounts are integers up to
`Limit`, the largest value of the NUMERIC columns; a debit beyond it fails.

### DateRange

A time is a pair of day and hour; a zone may skip the first hour of one day.
`DateIn` is how Go resolves a wall time that does not exist (with the offset
before the change ahead of UTC, with the one after it behind UTC), and `NextDay`
is `AddDate(0, 0, 1)`, which keeps the hour. One skipped midnight per year is
enough: zones change their clocks forward once a year. Changes at other hours
leave the times met here as they are. `MaxDays` bounds the counter, so that a
loop that never ends would be a state that stops and violate `LoopEnds`.

### Access

A member of `Tx` serves a call or runs the seed. A call passes `authenticate`
(the middleware, which reads user and permissions outside the transaction),
`check` (the references exist), `insert` of a user or role or `update` of the
user whose roles are replaced, `replace` (the links) and `commit`. A seed runs
`upsert` once per permission and then once per role, in any order, since both
loops range over Go maps; then `admin`, `insert` or `update`, `replace` and
`commit`. `lock` holds the rows a transaction has inserted or updated until it
ends: PostgreSQL makes a second INSERT of the same key wait as an UPDATE would.
`added` and `gone` are the links it has written, which appear at its commit.

What GORM sends is modelled from how the code uses it (`external` in the map, or
noted at the definition): saving an association updates the owner's `updated_at`
and inserts the rows referred to with ON CONFLICT DO NOTHING, which waits for
their locks; `Replace` then deletes the other links. So two assignments to one
user take turns by a lock the code never mentions, and `ActsAtomically` shows
that nobody ends up with a mixture. A seed in the middle of its maps can wait for
a call that waits for it; `BreakDeadlock` ends one of them, as PostgreSQL does.

`is_active` of users is no variable, since no operation makes it false. A call
keeps what the middleware read (`authenticate`) however its caller's roles change
afterwards. `OnlyASeedRestores` delimits what that can do: from a state in which
nobody may manage roles and no call that was let in is under way (`LockedOut`),
no sequence of calls leads out, only the commit of a seed.

### EmployeeHierarchy and Catalog

`validateReferences` reads the new manager, then counts an active department and
an active position, without locks; each is a step, and the write is one with the
commit. Its loop up the managers amounts to the first lookup (`ReadManager`): it
reuses the row variable of the previous manager as the destination of the next
lookup, GORM (`gorm.io/gorm v1.31.1`, not part of this repository) adds the
primary key that a destination already holds to the condition, and the query for
two ids finds no row, upon which the loop breaks. Calls about other columns only
fail or succeed (`Abort`, no change of these rows).

`Rooms == INSTANCE Catalog` brings in departments and positions with their own
requests, which run between any two statements of the employee calls. Rows are
never deleted, so the SELECT and the UPDATE of a department are one step; a
position's department is checked in a step of its own, before its transaction and
on another connection. Names and their duplicates only make requests fail. That a
department or position may be deactivated between its check and the write is what
the code permits, so no property is about it.

### Attendance

`now` is read before the transaction begins, as in the code, and the work date
is derived from it; the clock ticks between any two statements. The count of
ClockIn locks nothing and the UNIQUE constraint decides (`Vacant`); ClockOut
holds the row from its FOR UPDATE to its commit. A day has `DayLength` equal
instants.

### RateLimit

One key, shared by the requests of one client. INCR is answered, or counted and
its answer lost; EXPIRE is sent by the request that read 1, and may be lost;
`Crash` ends every request. Any of these losses may happen at any time. A failed
INCR that never reached Redis changes nothing and is no step. The counter stops at
`MaxCount`, since every value above `Limit` has the same effect.

### Sessions

A session is its row and its token at once, since tokens are random and stored
as hashes. `Lookup` is the SELECT of Refresh with the checks that follow it;
reading the clock and the account a little later gives no other outcome, because
a failed check and a failed statement are answered alike and accounts are never
deactivated. `Revoke` is its UPDATE, which waits for the row lock and does not
ask again whether the row is revoked; the insert and the commit are `Issue`,
which is also all that a login does. `Logout` is one statement. `Receive` is the
browser storing the cookie, in any order of the answers, and `Lose` an answer
that never arrives, or a commit that succeeds without the handler learning of
it. `Expire` lets the time to live of any session run out. A browser that drops
its cookie by its own Max-Age only has fewer cookies than here. The history
variables `parent` and `issuer` say which session a refresh replaced and which
transaction did it; `lost` remembers tokens whose request was not answered.

## Runs

| Run | Question | Bounds |
|---|---|---|
| `leave_workflow` | Do status, approval rows, audit log and notifications of a request stay together, and are decisions atomic and final, however calls interleave? | 3 transactions, 1 request, 2 employees, 3 accounts (one owner is HR as well), 3 linkings of accounts to employees: each their own, the owner's lost, the owner's given to the manager |
| `leave_ledger` | Are never more days approved on a balance than it grants, is it never debited beyond what a check saw and always the sum of what approvals charged, and does every chain of waits for row locks end at a transaction that can go on? | 2 transactions, 2 requests sharing a balance, entitlements 0 and 2, adjustments by 1 either way, a `requires_balance` that flips |
| `leave_turns` | Does the overlap check hold when each employee submits one request at a time, and is every call answered? | 2 transactions, 2 requests, periods within 2 days, one type, which has balances |
| `leave_overlap_race` | The overlap check under two concurrent submissions: violated | 2 transactions, 2 requests, 1 day |
| `organisation` | With the lookups GORM makes, do no two employees become each other's manager, while other calls clear managers and departments and positions change? | 2 employee calls, at most one of which names a manager, 3 employees, 1 user, 1 request about a position, 1 department, 1 position |
| `hierarchy_long_cycle` | Does the check exclude longer cycles: violated by a cycle of three | 1 employee call at a time, 3 employees |
| `attendance_days` | Do racing clock-ins and clock-outs around midnight keep records right, and are they answered? | 3 transactions, 1 employee, 2 days of 2 instants |
| `dates_zones` | Which requests lose a day, and does the loop end? | every pair of dates of 9 days, every skipped midnight or none, both sides of UTC |
| `dates_skipped_midnight` | Is the duration the number of calendar days in every zone: violated | as above |
| `rate_lossy` | With lost commands, does an EXPIRE only ever meet its own key, and is losing it all that can keep a client out? | 3 requests, limit 2, window of 2 ticks |
| `access_roles` | Are calls and seeds atomic, seeds one at a time, deadlocks a seed's, only seeds the way back when nobody may manage roles, and every call answered? | 2 transactions, 2 users, 2 roles, 2 permissions; `createRole` makes the second role, `createUser` gives it, `assign` at most one role |
| `sessions_cookies` | Is a rotation seen by later refreshes, and does the cookie left in a browser work, whatever overlaps, fails or is lost? | 1 browser, 2 requests at once, 3 sessions |

Why the bounds are enough to be interesting. Three transactions on one request are
a winner, a loser that waits for the lock and a third that begins after the
commit; with one request every decision contends. Overdrawing needs two requests
on one balance, each covered alone and not together: entitlement 2 against
durations 1 and 2, plus one call that changes the balance. Overlap needs two
requests; `TurnSpec` admits any calls beside a submission but a second one of the
same employee, and AdjustBalance, which waits for a single lock as SetEntitlement
does, is left out of that run. Browsers share nothing, since a token is known to
one of them; three sessions are a login, its replacement, and a second replacement
or login, the least that lets two refreshes contend for one session. Three
employees are a pair that could manage each other and one beside it. In the
organisation run rooms are given to one employee, by calls without a manager, and
the user to the other two, because those references are read one after the other
and independently; calls that name a manager are made one at a time
(`OneManagerAtATime`), any others run beside them. Two transactions of `Access`
are two calls, a call and a seed, or two seeds, and every cycle of waits TLC finds
has two members; an administrator and one more user are a caller who loses the
right to manage and one who takes it away. Two instants a day put midnight before,
inside and after every call. Three requests with limit 2 are below, at and above
the limit, and `LiftedUnlessLost` speaks of the client that is above it. The
ledger and workflow runs use symmetry in transactions and request ids, the session
run in transactions and sessions, the organisation run in transactions and the two
employees that are treated alike, which no definition orders or names; runs with
liveness properties use none. `CHECK_DEADLOCK FALSE` is used only for `DateRange`,
a function that returns.

The workflow run leaves out balances and the ledger run leaves out rejection and
cancellation to stay small: rows of one do not influence the other except
through HRApprove, which both contain.

### What the violated runs show

* `leave_overlap_race`: Submit counts overlapping requests without a lock
  (`service.go:207`), so two submissions of the same days both commit, against
  its own answer "Leave dates overlap an active request".
* `hierarchy_long_cycle`: after the first manager the loop asks for a row with
  two ids (`service.go:173`), finds none and stops, so only cycles of two are
  refused, although the answer says "Manager hierarchy cannot contain a cycle".
* `dates_skipped_midnight`: in a zone ahead of UTC that skips a midnight (such as
  Africa/Cairo) a request across it is one day short (`policy.go:26`), against
  `policy_test.go:18`. `DaysCounted` says exactly which requests are. The default
  zone, Asia/Jakarta, never changes its clocks.

Two updates that name a manager at the same time are a different matter: under
`Spec` instead of `OneManagerAtATime`, TLC finds that two employees become each
other's manager, since each call reads the other's row before either writes and
nothing locks or constrains the pair. The premise of the organisation run leaves
exactly that out.

That a client whose EXPIRE was lost (`http.go:49`) stays limited for good is no
run of its own: `LiftedUnlessLost` says that it is the only way to stay out.

### Fairness

`Leave` and `Attendance` assume strong fairness of each transaction's statements:
a statement that waits for a row lock is enabled whenever the row is free, and
PostgreSQL serves waiters in turn, so none is overtaken for ever.
`Access` assumes the same, and weak fairness of `BreakDeadlock`: PostgreSQL looks
for cycles of waits after `deadlock_timeout` and ends one of them.
`RateLimit` assumes that time passes (`Tick`) and that
requests proceed; nobody has to send a request, and nothing is assumed about
which commands are lost. `LiftedUnlessLost` takes as premise that every key
without a time to live still has a request about to set it. No run assumes that
a call is ever made or succeeds.

## Proofs

For every value of the constants that satisfies the modules' assumptions:

| Theorem | Property |
|---|---|
| `LeaveProofs!TypeCorrect` | `TypeOK` |
| `LeaveProofs!StagesAgree` | `StagesInStep`: approval rows agree with the status |
| `LeaveProofs!DecisionsHoldTheirRequest` | `RequestHeld`: a decision keeps the lock and the status it was admitted for |
| `LeaveProofs!NoDecisionIsLate` | `DecidedRowStillPending`: the row it decides is still PENDING |
| `LeaveProofs!Finality` | `DecisionsAreFinal`, a property of steps |
| `LeaveImplements!Implements` | `ActsAtomically`: `Leave` implements `LeaveLifecycle` |
| `LeaveImplements!BalanceStillCovers` | `CheckedBalanceStillCovers`: what a check found in a locked balance still holds at the update |
| `LeaveImplements!NobodyDecidesOwnLeave` | `NobodyManagesOwnLeave`: whoever decides the manager stage was identified as an employee other than the owner |
| `LeaveImplements!TrailIsComplete` | `TrailTellsHistory` |
| `LeaveImplements!NoOverlapOneAtATime` | `NoOverlap`, under `OneAtATime` |
| `LeaveImplements!NoCircularWait` | `WaitsEndAtRunner`: no set of transactions waits in a circle, and nobody is waited for who has ended |
| `LeaveImplements!UsedDaysAreCharged` | `UsedIsApprovedCharges` |
| `LeaveImplements!BalancesCover` | `ApprovedIsGranted`: no more days are approved on a balance than it grants |
| `LeaveImplements!NoDayChargedTwice` | under `OneAtATime`, `used` counts different days |
| `AccessProofs!Implements` | `ActsAtomically`: `Access` implements `AccessControl` |
| `AccessProofs!NoWayBackButASeed` | `OnlyASeedRestores`: out of a state in which nobody may manage roles, only the commit of a seed leads |
| `AccessProofs!SeedsOneByOne`, `DeadlocksNeedASeed`, `TypeCorrect` | `SeedsTakeTurns`, `DeadlocksTakeASeed`, `TypeOK` |
| `HierarchyProofs!NoMutualManagersOneAtATime` | `NoMutualManagers`, under `OneManagerAtATime` |
| `HierarchyProofs!TypeCorrect` | `TypeOK`, under `Spec` |
| `AccessProofs!SeedRestores` | a seed that commits leaves the administrator every permission and each role of the seed exactly its own |
| `AttendanceProofs!Kept`, `ClockOrder`, `OnWorkDate`, `TypeCorrect` | `RecordsAreKept`, `UpdateSatisfiesClockOrder`, `TimesOnWorkDate`, `TypeOK` |
| `DateRangeProofs!Durations`, `TypeCorrect` | `DaysCounted`, `TypeOK` of `DateRange`, for years of every length and every zone of the module |
| `DateRangeProofs!DurationsBehindUTC` | `InclusiveDays`, where no zone ahead of UTC skips a midnight |
| `DateRangeProofs!BoundNeverMet` | the bound of the counter takes no step away from the loop |
| `RateLimitProofs!OnlyALossStrandsAKey` | `KeyWillExpire` only ends in a step that loses the EXPIRE of the key |
| `RateLimitProofs!ExpiryIsForItsKey`, `TypeCorrect` | `ExpireMeetsItsKey`, `TypeOK`, whatever is lost |
| `SessionsProofs!CookiesWork`, `RotationIsSeen`, `TypeCorrect` | `CookieUsable`, `HeirsOverlapped`, `TypeOK` |

The argument for `Leave`. That approval rows agree with the status is not
inductive: a decision writes what its earlier statements found, so one has to
know that nothing changed since. The invariant `TypeOK /\ StagesInStep /\
RequestHeld` says so: a decision past LockRequest holds the lock of its request,
which is still in the status the decision was admitted for. A step that changes a
status is a decision's write, its transaction holds the lock, and a lock has one
holder, so no other decision under way is about the same request
(`DecisionFacts`). Submissions write ids without a status, which no decision
holds. `NoDecisionIsLate` and `Finality` follow from the same invariant.

`LeaveImplements` adds one invariant for each further question. `BalanceHeld` is
`RequestHeld` for balances: a debit or an adjustment about to be written holds the
lock of its balance, which covers it; whoever changes a balance holds its lock or
inserts it (`ChangedByHolder`). With it, and with `ValidCalls` (periods were
validated before their transaction), each commit is the abstract step of the same
name and every other step leaves the abstract state alone. `ScopeHeld` says that
the employee remembered by a transaction at the decision of a manager stage is
not the owner, because the CHECK `employees_not_own_manager` held when CheckScope
compared the two; the owner of a request never changes, so later changes of
managers and accounts do not matter. It does not say that the account still
belongs to that employee at the commit, which the code does not ensure. `Told`
states the audit log of a request as a function of its status and approval rows
(`Story`) and bounds the notifications by it; that the submission was announced
follows from `AddresseesKnown`, since Submit remembers the manager's account that
it read. `NoOverlapOneAtATime` needs `OneAtATime`, an employee's submissions that
take turns, since the overlap run shows that the code does not exclude two; then a
count taken by a submission stays true until it writes (`Counted`), for all others
make requests inactive or insert requests of other employees.

`NoCircularWait` says what `CallsAnswered` rests on, and unlike it needs no
fairness and holds for any number of transactions. It needs to know who holds what
(`HoldersKnown`): a request is held by a decision that got past its lock, a
balance by an HR approval about to write or by a call about balances. Somebody who
waits for a request is at his first statement and holds nothing, so nobody waits
for him; an HR approval that waits for a balance is waited for by others, but what
it waits for is held by a transaction that waits for nothing.

`UsedDaysAreCharged` is about a sum over a set that grows. It needs no induction
over that set: the sum is the number of pairs of a charged request and one of its
days (`DaysCharged`), a debit adds the pairs of one more request (`DebitCounted`),
and the library's theorems about cardinality say that disjoint finite sets add up.
That the request was not charged before follows from its status (`LedgerRight`:
charged requests are APPROVED, and a decision under way holds one that is not).
`BalancesCover` combines it with `NoneOverdrawn`, which the CHECK of the table
gives: what is left of a balance is not negative, and what was taken from it are
the approved days. `NoDayChargedTwice` combines it with `NoOverlap`: charged
requests are active, so under `OneAtATime` their days differ, and the pairs are as
many as the days.

The argument for `Access`. The locks are exactly the rows that `pc` says a
transaction has written (`LocksHeld`), so whoever writes the links of a row holds
it; what `added` and `gone` say of those links stays true of the committed ones
until the commit (`WritesOK`), and what a call's check found stays true as well,
since rows are never deleted (`RequestOK`). A commit is then the abstract step of
its call or seed. In a cycle of waits without a seed, a call that another waits
for holds one row, which it inserted or, in an assignment, a user, and it waits
for rows that are committed and no users: nobody can be waiting for it in turn.
Two seeds past the permissions would both hold `role.manage`.
`NoWayBackButASeed` goes through the steps: only a commit changes users and links
(`RowsGrow`), in a locked-out state only a seed is in a position to commit, and
the middleware turns every other caller away (`Authenticate`). `SeedRestores` says
that such a commit gives the right back. It rests on `WritesOK`: what a seed has
written of the links of a row it holds is all that is committed of them.

The argument for `EmployeeHierarchy`: what ReadManager found of the new manager,
that it is hired, another employee and not managed by the one being written,
stays true until the write (`Checked`, `CheckedKept`). Other calls may run in
between, as long as they name no manager (`OneManagerAtATime`): an update without
one clears `manager_id`, which can only take a manager away (`OthersOnlyClear`).
Nobody can have the employee as manager while it is being created, since its id
is not known yet.

The argument for `DateRange`: the cursor of the loop is a function of how many
days were counted (`CursorAt`), and it is past the end after as many rounds as
there are days, or one fewer where the skipped midnight lies within. Behind UTC a
skipped midnight sets the cursor back by an hour, which is never past the end, so
`DurationsBehindUTC` follows from `DaysCounted`.

The argument for `Attendance`: a clock-out about to write (`ClockingOut`) holds
the lock of an open record whose clock-in is not later than its `now`; locks are
per record, and inserts only touch records that are not there. For `RateLimit`,
`ExpireMeetsItsKey` needs that at most one request is about to send EXPIRE
(`OneExpires`) and that a missing key has no time to live (`NoKeyNoExpiry`).
`OnlyALossStrandsAKey` names the three steps after which a key can be without a
time to live for good: a lost answer of the first INCR, a lost EXPIRE, a process
that ends between them. It is the step of `LiftedUnlessLost` that needs no fairness.

The argument for `Sessions`. A refresh past its lookup has not replaced its
session before (`NotReplacedBefore`): if its transaction had, the session would
be revoked (`ReplacedIsRevoked`) and the lookup would have refused it, so two
replacements of one session come from two transactions. `CookieUsable` rests on
who can know a token. One that is on its way to its browser is in no cookie and
in no request, and not revoked (`FreshReply`); one that has arrived is known to
that browser only (`OneBrowser`). So whoever revoked the token in a cookie was a
request of the same browser, and its answer replaces the cookie when it arrives.

The assumptions are those of the modules, each evaluated by the runs: days are
natural numbers with a year, accounts belong to one employee, `None` is no value
of any other kind, amounts are integers, windows and limits are positive.

Two premises are about the callers, `OneAtATime` and `OneManagerAtATime`. The
code enforces neither; `leave_overlap_race` and the race of two updates described
above show that they are needed. Other calls are unrestricted, and so are
submissions of other employees and updates that name no manager. `TurnSpec` of
the run is `OneAtATime` with fairness.

Only model-checked are the liveness properties, `CallsAnswered` of `Leave`,
`Attendance` and `Access`, `LoopEnds` and `LiftedUnlessLost`: fairness and ENABLED
are outside the prover's reach. Every safety property the passing runs check is a
theorem. The type invariants of `DateRange` and `RateLimit` are proved and no run
repeats them.

## Not modelled

* Reads (lists, queues, balances shown, `Get` after a commit): they change
  nothing. A failed `Get` after a commit makes a client repeat a decision; the
  repeated call is an ordinary call of `Leave`.
* `Read` of a notification, which sets one timestamp of the caller's own row.
* Binary fractions: `Available` adds float64 values of decimal columns; the
  models use whole units.
* Routes, validation of request bodies, wording, pagination, logging, tokens,
  password hashes and configuration: no shared state, or functions of their
  inputs.
* The worker, which has no handlers, and start-up. The seed's departments and
  leave types are the rows that `Catalog` and `Leave` create one by one.
* The permissions of leave handlers: `Permitted` takes them as given, and
  `Access` shows what becomes of permissions that change.
* That a session is replaced at most once: two overlapping refreshes may both
  succeed, which `HeirsOverlapped` delimits. Likewise a logout ends the session
  of its cookie and not one that an overlapping refresh issues.
* That a row may be created inactive: GORM inserts the default, no document says
  otherwise, and `CreateType` and `Inserted` do what the code does.

That a logout leaves such a session, and that a row is created active, are hazards
without a property, and so are these: two employees linked to one user (the UNIQUE
constraint is the guard of the write itself); a department or position that is
deactivated between its check and the write (permitted, nothing holds it);
`requires_balance` flipped between submission and approval (no document says which
value counts); a session issued after its predecessor expired while it waited; a
shift across midnight; a work date whose midnight a zone behind UTC skips; and
amounts with binary fractions. A property would restate a guard or decide what no
document decides. Their notes in `PROJECT.json` say so one by one.

## Plan

Done, in this order: the leave workflow with its abstract specification; the
hierarchy, attendance, date, rate and session models; access control with its
abstract specification; departments and positions composed with the hierarchy;
leave types; changes of managers and accounts beside the leave workflow; proofs of
every safety property the passing runs check, both refinements among them; and
theorems beyond the runs, about waits for locks, days charged twice, lost expiries
and what a seed restores.

What could follow:

1. `Permitted` of `Leave` as the outcome of `Authenticate` in `Access`.
2. The liveness properties as proofs, once the prover supports fairness.
