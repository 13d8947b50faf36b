# Formal model of the order workflow, its screens and its sessions

The repository is a business application of a service company: orders are
written, dispatched as tasks to technicians, worked on, confirmed by the
customer with a signed photo, revised when the customer is not content. The
backend (`src/backend/app`, FastAPI, SQLAlchemy, PostgreSQL) keeps everything in
database rows, one transaction per request; the frontend (`src/frontend/src`,
React, react-query) is a PWA over it. This directory holds TLA+ models of the
parts where order of events, concurrency and stored derived state make the code
hard to test, the TLC runs that check them and TLAPS proofs of what matters most.
Roughly: five modules are about the server (what it stores, in which
transactions, behind which locks), four about what people do with answers that
may be old.

## 1. The system and its parts

| Part (source) | State | Operations | Talks to |
|---|---|---|---|
| Orders (`modules/orders`) | `orders` row: status, `revision_no`, version; lines, contact, CSAT; `order_revisions` | create, update, lines, submit, recall, cancel, cancel_active, complete, request_revision, confirmation upload, CSAT, revision request of customer care; the system transitions start_dispatch, undispatch | called by dispatch and assignments (`reevaluate_dispatch_state`, `lock_order`); audit, notifications, files |
| Dispatch (`modules/dispatch`) | `tasks` (stored status, cancelled, cycle, revisions), `defect_records` | create_task, update_task, add/remove assignee, cancel_task, reopen_task | orders, assignments |
| Assignments (`modules/assignments`) | `assignments`: status, cycle | accept, reject, start, complete; system transition all_tasks_done | dispatch (status of the task), orders |
| Guards and state machine (`modules/workflow`, `src/spec/state_machines.yaml`) | none; data read at start-up | guards named in the YAML | every command |
| Audit (`modules/audit`) | `audit_events`, append only | record, list | **read back** by orders (badge of a pending revision request) and dispatch |
| Identity (`modules/identity`) | employees' password, failure counter, lock; `sessions` (token families); reset tokens | login, refresh with rotation and reuse detection, logout, change/forgot/reset password | employees, frontend `client.ts` |
| Employees, departments | employee rows, roles, `is_active`; departments | create, update, set_roles, deactivate, activate; the last active manager must stay | identity (sessions), workflow (who is on duty) |
| Catalog, groups, price history, customers, gifts, company profile | rows with a version each | create / update / deactivate, CSV import | orders copy prices into their lines |
| Notifications (`modules/notifications`) | notification rows, push subscriptions, websocket connections | rows written in the transaction, broadcast after commit, mark read | every command; frontend polls and listens |
| Files | images on disk and their rows | sniff, store, serve | orders, company |
| Dashboard, KPI, revenue | none of their own | queries | read tasks, defects, orders |
| Core (`core/db.py`, `sequences.py`) | the transaction; code sequences | one READ COMMITTED transaction per request, committed before the answer is sent; row locks | all |
| Frontend: page of an order (`features/orders`) | query cache, form of a draft, tabs, write queue, dialogs | create, save, line writes, commands, photo and completion; a cache of the order that only moves forward | the API |
| Frontend: screens of tasks (`features/dispatch`, `features/my-tasks`) | sheets, pickers, dialogs, list of a technician | what a lead and a technician are offered, and the command it becomes | the API |
| Frontend: master data (`features/employees`, `products`, `services`, `customers`, `groups`, `departments`, `gifts`) | a list, a sheet over one row, a confirm dialog, an upload | create, save, activate, deactivate, reset, upload | the API |
| Frontend: client (`app/`, `lib/`, `features/auth`) | access token, one refresh in flight, query client | every request | the API |

`PROJECT.json` ("components") has the same list with the status of each part.

### What is hard in it

* **One order is one aggregate.** Every command on an order, its tasks or its
  assignments takes the row lock of the order and compares `orders.version`.
  The rest of the state is spread over five tables that must stay consistent:
  `tasks.status` is a *stored copy* of what the assignments derive; the status
  of the order follows from tasks and assignments, but only at the places in the
  code that re-evaluate it; reopening a task closes a *cycle* of assignments
  whose rows stay in the table.
* **Reads are not protected by the lock.** A screen is filled by several
  statements in READ COMMITTED; technicians' commands load their rows *before*
  waiting for the lock; answers overtake each other; a form may be older than
  the version it is sent with.
* **Facts read back from history**: the badge of a pending revision request
  comes from the latest of two audit actions; KPI from the defects that a reopen
  recorded; the signature of the customer from photos filed under a revision.
* **Sessions**: rotation with reuse detection against lost answers, several
  tabs, and a logout that does not take the lock refresh takes.
* **Rules over several rows**: the last active manager, unique codes, prices
  that chain over time.

`PROJECT.json` ("hazards") lists these at the line where they bite, with the
properties that would notice.

### What makes each part correct

* *Orders, dispatch, assignments*: the stored status of a task is the derived
  one; the customer is asked to confirm only finished work, and after a revision
  only when that revision shows work of its own; a completed order is signed for
  its current revision; open assignments exist only where somebody can still act
  on them; closed cycles do not change; defects are exactly the work sent back.
* *Transactions and screens*: a command changes what the person who gave it was
  looking at; rows read before the lock are valid under it; a cache does not go
  back; every command ends.
* *Identity*: a family of tokens has one live token at most and never comes back
  once it is over; nothing stays signed in to an inactive account or with an old
  password; the reuse detection ends what a thief refreshed and never what only
  the browser did; the password cannot be tried more often than the lock-out
  allows, and nobody gets into a locked account by having waited, except a change
  of the password that a logout overlaps (section 3).
* *Employees*: some active manager is left whatever two managers do to each other
  at once; commands take their locks in one order, so that they do not wait for
  each other in a circle; a code is not given twice.
* *Master data pages*: a save overwrites nothing its form has not shown; a
  confirmed command does what its dialog said; a second command of the same sheet
  does not fail because of the first.
* *Page of an order*: its queued writes do not collide with one another; one form
  makes one order; what is typed survives whatever arrives; a completion that is
  offered has its photo.
* *Screens of tasks*: what an up-to-date screen offers the server accepts, and
  open work is on it.
* *Notifications*: what was announced is shown, no screen goes back, and the badge
  catches up without the websocket.

## 2. Modules

### `Workflow`: one order, its tasks, assignments, photos and events

Every command is one atomic step: it runs in one transaction that holds the row
lock of the order. What the lock is worth is the question of
`OrderTransactions`. The upload of a confirmation photo takes no lock: it files the
photo under a revision it has read before, perhaps an earlier one. A refused
command rolls back and is no step.

| TLA+ | Code |
|---|---|
| `status`, `revision` | `orders.status`, `orders.revision_no` |
| `confirmed` | revisions under which a CUSTOMER_CONFIRMATION photo is filed |
| `task`, `asg` | rows of `tasks` and `assignments` (`NoTask`, `NoAssignment`: not inserted) |
| `defects` | `defect_records.assignment_id` |
| `trail` | latest audit event with a from and a to status |
| `care` | latest of the two audit actions the badge reads |
| `onDuty` | technicians whose account is active |
| `Submit` ... `RequestRevisionFromCustomerCare` | the order commands of `orders/service.py` |
| `CreateTask`, `AddAssignee`, `RemoveAssignee`, `CancelTask`, `ReopenTask` | `dispatch/service.py` |
| `Accept`, `Reject`, `Start`, `CompleteAssignment` | `assignments/service.py`; `CompleteAssignment` includes all_tasks_done |
| `Deactivate`, `Activate` | `employees/service.py`, at any time |
| `ReevaluateDispatchState` | the shared system transition, part of every command that calls it |

Reasons, hours, due dates, signer names and titles are input the caller may or
may not get right: they do not depend on the state and are left out. Scopes and
permissions restrict who may call, never what a call does.

### `OrderLifecycle`: what an order promises

The abstract specification: status, round of work, whether the round is signed
and whether it shows finished work. `Workflow` implements it
(`Lifecycle == INSTANCE OrderLifecycle WITH ...`, property `LifecycleSpec`).

### `OrderTransactions`: screens, locks and versions

Reads statement by statement, the answers on their way, the cache, the form
filled from it, and commands that wait for the lock, compare the version and
commit or roll back. The content of the order is five groups of columns; the
value of a group is the version that last wrote it, so "nobody wrote in between"
is equality. The three kinds of screens differ in what the code behind them does:

* `OrderScreens`: `get_order` reads the row, then the lines; commands answer with
  the whole order; `freshestOrder` keeps the newer one; header forms are filled
  once and sent with the version of the cache.
* `TaskSheets`: `get_task` reads the task, then the order with the version, then
  the assignees.
* `MyLists`: one statement; commands load assignment and task before the lock.

The lock queue, the connection and react-query are outside `src/`; they appear
as the code uses them: one holder of the lock, one fetch per query at a time,
answers and commands that get lost. The gap of one microtask between
`freshestOrder` and the write to the cache is not modelled.

### `Sessions`: one account, its refresh tokens and a browser

| TLA+ | Code |
|---|---|
| `account` | the employee row: `is_active`, the failure counter, `locked_until`, and a stamp for each password it had; `wrong` is a history of the wrong passwords tried |
| `row` | `auth_sessions`: family (named by its first token), password stamp, revoked or live |
| `tx` | the writes of the request that holds the row lock of the employee, seen by nobody until `Commit` |
| `request` | requests that wait for the lock, have found their session live under it, have executed their statements, or whose answer is on its way |
| `jar` | the cookies of the browser |
| `tainted` | history: families that somebody else refreshed, or a new token of which got lost |
| `Login`, `LoginElsewhere`, `LoginWrong` | `login`, in the browser, on another device, with a wrong password |
| `SendRefresh`, `Refresh`, `RefreshElsewhere` | `refresh`: rotation, reuse detection; by the browser, by whoever has a copy |
| `SendLogout`, `Logout` | `logout`: takes no lock on the employee; sees the rows committed when its statement starts and re-checks those it waited for |
| `SendChange`, `CheckSession`, `ChangePassword`, `GuessPassword` | `change_password`, with the right and with a wrong current password |
| `ResetPassword`, `ManagerResetsPassword`, `Deactivate`, `Activate` | `reset_password` of identity and of employees, `deactivate`, `activate` |
| `OneRefresh`, `Arrive`, `Lose` | `client.ts` (one refresh in flight in all tabs), `Set-Cookie` of an answer, requests and answers that get lost |

A transaction is two steps, its statements and its commit, because readers
without the lock (logout, the check of the access token) come in between. A change
of the password is three: between the check of its session and its writes a logout
may commit. A live session may be refused at any time, which covers its expiry; the
browser has Web Locks, so that its tabs refresh one after the other, and a page that
is left while it refreshes counts as somebody else (`RefreshElsewhere`): nobody gets
that answer. Left out: how the e-mailed link of a reset is made and used up and
its rate limit, the password that must be changed at the first login, audit
events, and the retry of a call that met a 401.

### `Staff`: employees and the locks of the requests that change them

| TLA+ | Code |
|---|---|
| `row` | employees: with a MANAGER role or not, active or not, the number in the code |
| `open` | `departments.is_active` of the one department considered |
| `lastValue` | `code_sequences` of the scope "employee"; 0 while there is no row |
| `request` | the transactions that are open: command, locks held and still to take, writes nobody sees yet |
| `Plan(q)` | the locks of a command in the order its statements take them: advisory lock of the managers, rows of employees and departments, sessions, reset links, the sequence, and last the row that the foreign key of the audit event points at |
| `Command`, `Ordinary` | a request arrives: `employees/service.py`, `departments/service.py`, and the requests of `identity` and `orders` that lock the same rows |
| `Take`, `Commit`, `RollBack` | one lock; the end of the transaction |
| `CreateManager` | `scripts/create_manager.py`: gives a code by hand |

The sessions of one employee are one lock, and so are his reset links. An update
that leaves the department alone takes fewer locks than its plan, which adds no
circle. `RollBack` covers a stale version, a refused input, a lost connection and
PostgreSQL breaking a deadlock. Such deadlocks remain only through foreign keys:
two managers who change each other hold each other's row `FOR UPDATE` when their
audit events ask for `FOR KEY SHARE` on it; one of the two is answered 500.
A department may be deactivated between the check of a form and its insert; the
code allows this.

### `FormSheets`: the pages of the master data

Seven pages share one protocol: a list in the cache, a sheet over one of its rows,
a form filled from the row, commands with the row's version. They differ in what
a sheet does with an answer (whether it adopts it, refetches, closes, sends a
second command for the roles) and in who may do what; those differences are
operators over `kind`, the rest is shared. Fields are abstracted to the version
that last wrote them. Left out: a second record after the answer to a creation
was lost, filters that hide the record, the sheet of one's own account, missing
cost prices, validation, Enter in the one-field forms of a stale sheet, more than
one request per channel at a time, the dialog of a temporary password, prices and
their history.

### `OrderPage`: one visit of the page of an order

| TLA+ | Code |
|---|---|
| `row`, `photos` | the orders in the database and their confirmation photos |
| `path`, `page` | the address, and the one instance of the component that serves it: the form, its defaults, whether it is saved |
| `cache`, `get`, `seen` | query cache, the GET under way, the photos in the cache |
| `queue`, `flight` | the write queue: writes go one after the other with the version the cache holds at their turn |
| `direct`, `dialog`, `warned` | a command beside the queue, the sheet or dialog that gives it, the banner "others changed this" |
| `theirs`, `made` | histories: versions that something else than the queue wrote or whose answer was lost; orders this form has created |

Sending a request and executing it is one step, since an execution that comes
late is one of a request sent late; answers come at any later time or never.
Banners above the tabs are a refetch; dismissing a stale sheet forgets its
staleness; the user has every capability. Leaving the form closes its dialogs; in
the code the dialog of a form that comes back may still be open. Left out: which
tab is open, the text of a line, the feedback of a revision request, pickers, the print button, and links
from one order to another (the page keeps the first, see below).

### `TaskScreens`: the sheets of the technical lead and "my tasks"

Extends `Workflow` by the version of the order and by the screens of one person,
while everybody else gives commands at any time. A screen offers what the code
computes from an answer of any age; giving the command is a step of `Workflow`
with the version of that answer, refused when it is old. The task in a sheet of the
lead is read as `get_task` does, in three statements with commands of others between
them: `ReadTaskRow` the row of the task, `ReadTaskOrder` the order with the version,
`ReadTask` the team; `fetch` is what has been read, and the `at` of a row says at which
version it was. What the other screens need of an answer comes from one statement.
The last read and showing the answer are one step, and so are a command and its
execution; what a save of torn columns overwrites is shown in `OrderTransactions`, a
failing GET of the order belongs to `OrderPage`. One request of the
user at a time. Left out: fields, suggested hours, wording, filters and tabs of
"my tasks", banners. The dispatch queue and the tab of the order open the same
sheet (`OpenCreateSheet`).

### `Notifications`: rows, messages and the two queries that show them

| TLA+ | Code |
|---|---|
| `row` | a notification: not there, in an open transaction, unread, read |
| `sending`, `connected` | messages after the commit that wait for the event loop or are on the wire; the websocket of the tab |
| `query` | the badge (`/me`) and the list: what is shown and the fetch in flight |
| `post`, `listOpen` | the request that marks rows as read; the page is mounted |
| `told` | history: what the next answer must show, because it was announced or marked |
| `Write`, `Commit`, `RollBack`, `Restart` | `_create` inside a command, `_broadcast_after_commit`, `get_session`, the one server process |
| `Receive`, `OwnCommand`, `Poll`, `Read`, `Arrive`, `Fail` | the hook's `onmessage`, invalidation, `refetchInterval`, react-query |

Left out: who is notified of what, push delivery, pages of a long list, another
account signing in in the same tab.

### `MC...` modules

Symmetry sets, the constants of the instances, and statements of the documents
that the code does not keep. `MCTaskScreens` starts from orders that were just sent
to dispatch, are half done or came back, `MCNotifications` from one old row and one to be written.

### `...Proofs` modules

See section 4. Operators named `Mut...` are plausible bugs of the definition
that follows them; each property is shown to notice one (`PROJECT.json`, "mutants").

## 3. Runs

| Run | What it shows | Bounds |
|---|---|---|
| `workflow` | types, eight invariants, the frozen cycles and the refinement of `OrderLifecycle` under every interleaving of all commands | 2 tasks, 4 assignment rows, 2 technicians, 2 revisions; symmetry in all three sets; about 290 000 states |
| `all_tasks_done_reevaluated` | *violated*: an order can stay in progress with every task done | 2 tasks, 3 assignment rows, 2 technicians, 1 revision; symmetry |
| `transactions` | no blind overwriting, no torn screen, a cache that does not go back, early reads valid under the lock; every command ends | an order screen and a technician's list; 2 commits; 1 answer on its way besides the fetch in progress; about 280 000 states |
| `task_sheet_overwrites` | *violated*: a task sheet can save old columns over new ones with a version that passes | an order screen, a task sheet, 1 commit |
| `sessions` | one live token per family, sessions that follow the account, reuse that ends a family for good and never strikes the honest browser, bounded guessing, a lock-out that only a change of the password beside a logout slips through | 3 tokens, 2 requests of the browser, lock-out at 2 wrong passwords, 1 change of the password; symmetry in tokens and requests; about 610 000 states |
| `logout_races_refresh` | *violated*: a logout that overlaps a refresh leaves the session live | those of `sessions` |
| `staff` | a manager is left; locks form no circle but through foreign keys; numbers are not given twice | 2 employees, 2 overlapping requests, numbers up to 3, two of them by hand; symmetry; 264 000 states |
| `forms` | saves and confirmations meet what they showed; own work is fresh | all 7 pages, one record, versions up to 3; 665 000 states |
| `order_page` | queued writes do not collide, one order per form, typed text survives | 2 orders, from an empty form, a draft or an order in dispatch; versions up to 3, 2 texts, 2 writes in the queue; others send the order to dispatch; 1.0 million states |
| `order_page_tabs` | a completion that is offered has its photo | 2 orders, from one that awaits confirmation; versions up to 4, 2 texts, 1 write in the queue; others ask for a revision and finish it; 800 000 states |
| `task_screens` | what an up-to-date screen offers is accepted, open work is on it, a lead is refused only for a cause | 1 task, 2 assignment rows, 2 technicians, 1 revision; 4 commands beside a technician, 3 beside the lead (2 on an order just sent); `FewAside`: photos only of the current revision and once they are asked for, 1 technician at least on duty; symmetry; 1.5 million states |
| `notifications` | what was announced is shown, screens do not go back, the badge catches up | 2 rows; 236 000 states |

Why the bounds are enough to meet the interesting cases. *Workflow*: two tasks
are needed for "one done, the other not"; two technicians on one task for
"one refuses, the other has finished"; four rows let a task be staffed, reopened
and staffed again; two revisions let a photo and a reopen of an earlier revision
meet a later one. *OrderTransactions*: a torn read, a lost update and an
overtaken answer each need one commit between two steps of somebody else; the
second commit lets this happen to a screen that has been refreshed before.
Commands stop at `MaxVersion`; everything else goes on.
*Sessions*: three tokens let a family be rotated twice, or once beside another
family, so that an old token, its successor and a stranger meet; two requests
let a refresh overlap a logout, a change of password or a login and their answers
overtake each other; a limit of two lets the counter be half full, lock, be reset
and fill again; one change of the password gives an old and a new stamp.
*Staff*: two employees are two managers who change each other at the same time,
or one and a row that two requests want to insert; two requests are a circle of
locks of length two, the proof covers longer ones and more employees; three numbers
let the counter meet two given by hand.
*FormSheets*: three versions are the one shown, the user's own write and somebody
else's between or after. *OrderPage*: two orders let a second creation show; a write
under way and one behind it let a late GET fall between them; an order that exists
has been written before (version 2), so its first write is the third; the photo needs
two changes by others, hence four versions in the second run. *TaskScreens*: two rows let one technician refuse or be
removed while the other works, and a row of a closed cycle lie beside a new one; three
commands let a sheet be opened, one of them come between two of its reads, and another
make it old and be seen by the next read; two are enough to create a task
and to change it. Without `FewAside` photos nobody has asked for would multiply the
states, although no screen here shows them. One task
is enough because a sheet shows one and a second one changes only the status of
the order, which others' commands change anyway. *Notifications*: one row that was
there and one that comes, for an old answer beside a new message.

Deadlock is checked in `workflow`, `transactions`, `task_screens` and
`notifications` and the violation runs over the first two. It is off for
`sessions` and `logout_races_refresh` (tokens are never used twice), `staff` (rows
and numbers run out), `forms` and the two pages of an order (versions and texts
run out; a page that was left stays left): there the bounded system really stops.

Fairness. `Workflow`, `Sessions`, `Staff`, the forms and the screens have none:
nothing obliges people to act, and they state safety only. `OrderTransactions`
assumes that a request received is worked off (`FindOwnAssignment` and the end of a
transaction are weakly fair: a server thread runs to its commit, or to the rollback
in `get_session`) and that PostgreSQL serves those who wait for a row lock
(`LockOrder` strongly fair, because others may hold the lock again and again).
Nothing is assumed of users, of answers, or of fetches. Under it `EveryCommandEnds`.
`Notifications` assumes that the timer of `useMe` runs (`Poll`) and that requests
for `/me` do not fail for ever (`Read("badge")`, `Arrive("badge")` strongly fair);
the tab is visible, since polling pauses in a hidden one and a focus fetches again.
Nothing is assumed of the websocket. Under it `BadgeCatchesUp`.

### Findings

1. `all_tasks_done` is evaluated only when an assignment is completed, while
   `state_machines.yaml` says after every change. Two technicians work on the only
   task; one completes his part, then the other is removed (or refuses): the task is
   done and the order stays in progress with nothing left to do. Cancelling the last
   unfinished task beside one that is done leaves the same state.
2. `get_task` reads the version *after* the task: a commit in between gives old
   columns a current version, and the sheet saves the whole form. Reading the
   order first (as `get_order` does) makes the stale version fail instead.
3. `logout` takes no lock on the employee. Its `UPDATE` waits for the row that an
   overlapping refresh is revoking, then skips it and does not see the row the
   refresh has inserted: it answers 204 and the session goes on. AC-AUTH-012 and
   the comment in `features/auth/api.ts` count on the opposite.

Each is quoted with its sources in `PROJECT.json` ("findings").

Met while modelling, and modelled as the code does it, without a run of its own:

* A refusal can make a task DONE; adding an assignee does not re-evaluate the
  order, which may stay in PENDING_DISPATCH; a confirmation photo may be uploaded
  in any status, before there is work.
* The header form and the contact sheet send the version of the cache with the
  values the form was filled with; a refresh behind an open form thus lets old
  values pass (AC-ORD-096 expects the version of the moment the sheet was opened).
* After a recall the form shows the header as it was before; a form that was just
  saved counts as changed until it is filled again.
* "Tải lại" of the sheets of gifts, departments and groups only closes them; an
  upload's callback can bring back an older row of a product.
* The page of an order keeps the first id when a link of the same route is
  followed (`useState(orderId)` in `DraftOrderForm`).
* A command beside the write queue may be refused as stale because of the page's
  own queued write.
* The list of notifications has no polling, and `onopen` of the hook does not
  invalidate: a list left open misses what was announced while the socket was
  down, until it is opened again. A message that arrives during the very first
  load is not fetched for; the badge catches it with the next poll.
* "Mark all" also marks rows that were never shown.
* Two requests for a forgotten password at once both pass its rate limit.
* A change of the password that has found its session live goes on when a logout
  ends that session behind it: the browser is signed in again. If wrong passwords
  at the sign-in had locked the account, the lock-out ends too (the exception in
  `LockedOutStaysOut`).
* The torn sheet of finding 2 also offers what the server refuses at that version:
  "Lưu" on a task that was finished between the two reads (`Torn` in
  `LeadIsRefusedForCause`).

## 4. Proofs

All theorems hold for every number of tasks, assignment rows, technicians,
screens, orders, employees, requests, notifications and every bound, from the
assumptions named in the modules. These say only that bounds are large enough for
the initial states (`ExistingOrdersFit`: an existing order has version 2), that the
markers "no row", "no token", "idle", "closed" are none of the records they stand
beside, that no screen is of two kinds, and that the sets of an instance (kinds of
pages, capabilities, statuses) are sets of the code's. TLC evaluates all of them.

Every property of every passing run is stated by a theorem, except the two
liveness properties.

* `WorkflowProofs`: each action is first reduced by an *effect* lemma to a few
  kinds of change to the rows (inserting pending assignments, updating the status
  of one, storing a derived status, ending a cycle). The inductive invariant
  `RowsInv` says that rows are well typed and refer to tasks that exist, that
  the stored status of a task is the derived one, and that whatever is open
  belongs to the current cycle of a task that is not over. The derived status
  needs the last part: otherwise a row of a closed cycle could come back to life
  and the copy would be wrong. From it: types, the stored status, one active
  assignment per technician and task, frozen cycles, defects.
* `WorkflowProofs`, second part: `OrderInv` ties the order to its rows: drafts have no
  tasks, tasks belong to rounds the order has had, every task is over while the
  customer is asked, a cancelled order holds nothing open, a revision that was
  presented shows work of its own. The last two clauses are what makes the
  refinement of `OrderLifecycle` provable: `worked` is a fact about tasks, and
  `AllTasksDone` must imply it. Theorem `ImplementsLifecycle` maps initial states
  and every step. All properties of the run `workflow` are theorems.
  Three more are theorems without a run, because their proof is short and says all
  there is: a completed order is confirmed (`CompletedIsConfirmed`), a pending request
  of customer care is visible (`PendingRequestIsVisible`), work in progress is staffed
  (`InProgressHasActiveAssignment`).
* `OrderTransactionsProofs`: whatever was read is never newer than the database
  (`x.version <= db.version`), and where the version is read no later than the
  rest it is *honest*: if its version is still current, everything in it is.
  A commit raises the version, so all earlier snapshots become merely past; the
  lock keeps the version still from the comparison to the commit. The invariant
  leaves out what task sheets read and what is sent from a form, exactly the two
  places where the runs find overwriting. Five of the six properties of the run
  `transactions` are theorems.

* `SessionsProofs`: what is committed is good because what was about to be
  committed was good when its statements were executed and has stayed so.
  `GoodWrites` says this of the open transaction (it revokes every session that
  does not fit the account it writes; a token it issues is new and becomes the
  only live one of its family; nobody is signed in by a locked account but by a
  change of the password that found its session live), and the proof shows that the
  one writer that does not take the lock, `logout`, keeps it true, because it only
  revokes and leaves the rows alone that the transaction revokes. What it can take
  away is the session such a change has just checked: the exception in
  `LockedOutStaysOut`. Guessing needs the clause `Guesses`: while the account is
  locked, the counter runs once more to its limit, and the step that reaches it ends
  every session. Six theorems.
* `SessionsProofs`, last part: `HonestBrowserIsNotStruck`. Every token in the
  browser's hands is *fresh*: the live one of its family, unless the family is
  tainted or over. A rotation makes exactly one token stale, and it is the one
  the rotating request carried (`OwnRotation`); nobody else of the browser holds
  it but the cookie, which the answer under way replaces. All seven properties
  of the run `sessions` are theorems.
* `StaffProofs`: one rank over the locks of all kinds, in which the plan of every
  command ascends as long as it is not at a foreign key; what a request holds is
  below what it waits for, so the request that waits for the highest lock waits
  for nobody in the circle. `LocksExclude` says that two requests never hold the
  same lock; with the advisory lock held through `Counted`, what a request counted
  among the managers is still so when it commits, which gives `AManagerIsLeft`.
  `NumbersFit` and `OneAtATime` do the same for the sequence.
* `FormSheetsProofs`: every copy of the row on the client (in the list, the sheet, a
  dialog, a request) is a row it once was: older, or the row itself
  (`SnapshotsArePast`). A save is accepted where the version fits, so the copy it
  was sent from is the row, which is `SavesWhatItShowed`; a dialog is open over a
  record its command still applies to, or over one the row has left behind
  (`DialogsAskWhatApplies`), which is `ConfirmsWhatItShowed`. `OwnWorkIsFresh` needs
  most: an undisturbed sheet holds the row or the answer that makes it so is on its
  way, the copy of a request in flight is still the sheet's, and the one exception,
  an upload of a product that puts an older copy back, can only do so over a copy
  that was disturbed (`UploadsPutBack`). The server accepts a version once, so a save
  and a confirmation in flight together never both write (`AnswersAreWritten`).
  The tables of the seven screens enter by one lemma (`ScreenTables`).
* `OrderPageProofs`: `Known(o)` is the set of rows of an order that are anywhere
  between the database and the screen: in the cache, in a GET, in an answer of the
  queue or of a command. A step adds at most the row as it now is, and a row is only
  written with the next version (`RowMoves`), so one lemma (`SnapshotsStep`) gives
  that all of them are past and that two of one version are equal. Completion rests
  on the second: a version that has not moved since the dialog was opened means the
  revision whose photo was seen. `WritesAreKnown` says that the order has not moved
  past what the queue knows (the cache, or the answer that is being applied) unless
  something else wrote it; with "the cache keeps the newer of two" it is what keeps
  the queue from meeting itself. `PageHasItsOrder` says that a creation is under way
  only while the page has no order, from which one form makes one order; and
  `FormIsFilled` that a form is filled at most once for its order, from which typed
  text survives. Actions fall into four kinds, each with one lemma that keeps the
  whole invariant: those that leave the order and its cached row alone
  (`QuietStep`), those that cache a row that is known (`CacheStep`), writes of others
  and of commands (`OthersStep`), and the queue's requests (`RequestEffects`).
* `TaskScreensProofs`: every step of a screen is a step of `Workflow` or leaves its
  variables alone, so `RowsInv` and the rest hold here too; rows and status change
  only together with the version; hence a screen with the current version shows the
  current rows, and what it offers is what the guards ask. The sheet of a task is
  weaker (`FetchIsFresh`, `TaskIsFresh`): the status of the order and the team are
  current, the row of the task is if it was read at that version too; otherwise
  it may be `Torn`, and then the lead may be refused. The theorems are about
  `SpecScreens`, from every initial state of the workflow, not only those of the run.
* `NotificationsProofs`: for those who read, rows only go forward (`RowsGrow`), so
  a message, an answer and what a query shows are true for ever once they were true.
  `QuerySound` adds that an answer is no older than what it replaces and that no
  fetch in flight settles less than the query was told to show; each thing that
  can happen to a query (sent, read, arrived, failed, invalidated, forgotten, left)
  keeps it sound by a lemma of its own. Both safety properties are theorems.

Only model-checked: `EveryCommandEnds` and `BadgeCatchesUp` (liveness under fairness
is out of the prover's reach), and the three violations. The type invariants of
`Workflow`, `OrderTransactions` and `Sessions` are checked and proved; those of
`TaskScreens`, `Staff`, `Notifications`, `FormSheets` and `OrderPage` are proved as the
first part of an inductive invariant and are part of no run.

## 5. What is not modelled

* CSV import: one transaction that validates rows and inserts all or none; string
  parsing with table-driven unit tests.
* Prices, their history and the arithmetic of lines: rows written in the
  transaction of their product; decimal rounding.
* Which links of a reset are live and how they are used up (only their locks).
* Company profile (the protocol of `FormSheets` for one row), files on disk and
  image sniffing, push delivery.
* Dashboards, KPI and revenue: queries without state; the facts they rest on
  (stored task status, defects, cycles) are properties of `Workflow`.
* Rendering, menus, filters, printing, migrations, scripts besides
  `create_manager`, deployment.

## 6. Plan

Done, in the order of the plan: `Workflow`, `OrderLifecycle`, `OrderTransactions`,
`Sessions`, `Staff`, the screens (`FormSheets`, `OrderPage`, `TaskScreens`) and
`Notifications`, each with its proofs.

Left:

1. `ResetLinks`: forgot_password and its rate limit, links that are used up or
   replaced, beside a change of the password; extends `Sessions`.
2. `OrderContent`: the content an order may have in each status, line totals with
   the code's rounding as functions checked against a reference over bounded
   prices; the price history as a chain.
3. `CsvImport`: the pure algorithm against a reference definition.
