------------------------------ MODULE Workflow ------------------------------
(***************************************************************************)
(* The life of one order: its tasks, the assignments of technicians to     *)
(* those tasks, the customer's signed confirmation photos and the audit    *)
(* events a later command reads back.                                      *)
(*                                                                         *)
(* Every command of the API that changes the rows of an order, its tasks   *)
(* or its assignments runs in one database transaction that holds the row  *)
(* lock of the order (lock_order), so here a command is one atomic step;   *)
(* what the lock and the order's version number are worth is the subject   *)
(* of OrderTransactions.  The upload of a photo takes no lock: the         *)
(* revision it files the photo under was read at some earlier time.  A     *)
(* command that the code refuses rolls back and is no step at all.  Guards *)
(* on the form of the input (a reason of five characters, positive hours,  *)
(* a due date to come, the header an order needs before it is submitted)   *)
(* do not depend on this state: the caller may or may not satisfy them.    *)
(*                                                                         *)
(* An operator named Mut... is a plausible bug of the definition that      *)
(* follows it.  No specification uses it: it is put in the place of that   *)
(* definition to see that a property would notice the bug.                 *)
(***************************************************************************)
EXTENDS Integers, Functions

CONSTANTS
    Tasks,          \* identities of task rows
    Assignments,    \* identities of assignment rows
    Technicians,    \* employees holding the TECHNICIAN role
    NoTask,         \* a task identity not inserted yet
    NoAssignment,   \* an assignment identity not inserted yet
    MaxRevision     \* bound on revision_no

NeverReopened == -1     \* last_reopened_in_revision IS NULL

OrderStatus == {"DRAFT", "PENDING_DISPATCH", "IN_PROGRESS", "AWAITING_CONFIRMATION",
                "COMPLETED", "REVISION", "CANCELLED"}
TaskStatus == {"NEEDS_ASSIGNEE", "PENDING_ACCEPTANCE", "ACCEPTED", "IN_PROGRESS",
               "DONE", "CANCELLED"}
AssignmentStatus == {"PENDING", "ACCEPTED", "REJECTED", "IN_PROGRESS", "DONE", "REMOVED"}

MutOpenIncludesDone == {"PENDING", "ACCEPTED", "IN_PROGRESS", "DONE"}
Open == {"PENDING", "ACCEPTED", "IN_PROGRESS"}
Active == Open \cup {"DONE"}

Task == [status : TaskStatus, cancelled : BOOLEAN, cycle : Nat \ {0},
         createdIn : Nat, reopenedIn : Nat \cup {NeverReopened}]
Assignment == [task : Tasks, employee : Technicians, cycle : Nat \ {0},
               status : AssignmentStatus]

ASSUME MaxRevisionIsNat == MaxRevision \in Nat
ASSUME NoTaskIsNoRow == NoTask \notin Task
ASSUME NoAssignmentIsNoRow == NoAssignment \notin Assignment

VARIABLES
    status,         \* orders.status
    revision,       \* orders.revision_no
    confirmed,      \* the revision_no's of the CUSTOMER_CONFIRMATION attachments
    task,           \* the task rows of the order
    asg,            \* the assignment rows of those tasks
    defects,        \* defect_records.assignment_id
    trail,          \* the latest ORDER audit event with a from and a to status
    care,           \* the latest of the audit actions revision_requested, request_revision
    onDuty          \* technicians whose account is active

vars == <<status, revision, confirmed, task, asg, defects, trail, care, onDuty>>

(***************************************************************************)
(* Reading the rows                                                        *)
(***************************************************************************)
Inserted == {t \in Tasks : task[t] # NoTask}

\* The non-rejected, non-removed assignments among rows of task t in cycle c.
ActiveOf(rows, t, c) ==
    {a \in Assignments : /\ rows[a] # NoAssignment
                         /\ rows[a].task = t
                         /\ rows[a].cycle = c
                         /\ rows[a].status \in Active}

OpenRows == {a \in Assignments : asg[a] # NoAssignment /\ asg[a].status \in Open}

\* Any assignment of the order, of any task and any cycle, counts here.
HasActiveAssignment(rows) ==
    \E a \in Assignments : rows[a] # NoAssignment /\ rows[a].status \in Active

MutDeriveDoneWhenOneIs(statuses, cancelled) ==
    IF cancelled THEN "CANCELLED"
    ELSE IF statuses = {} THEN "NEEDS_ASSIGNEE"
    ELSE IF "DONE" \in statuses THEN "DONE"
    ELSE IF "IN_PROGRESS" \in statuses THEN "IN_PROGRESS"
    ELSE IF "PENDING" \in statuses THEN "PENDING_ACCEPTANCE"
    ELSE "ACCEPTED"

DeriveTaskStatus(statuses, cancelled) ==
    IF cancelled THEN "CANCELLED"
    ELSE IF statuses = {} THEN "NEEDS_ASSIGNEE"
    ELSE IF statuses \subseteq {"DONE"} THEN "DONE"
    ELSE IF statuses \cap {"IN_PROGRESS", "DONE"} # {} THEN "IN_PROGRESS"
    ELSE IF "PENDING" \in statuses THEN "PENDING_ACCEPTANCE"
    ELSE "ACCEPTED"

DerivedStatus(rows, t, c, cancelled) ==
    DeriveTaskStatus({rows[a].status : a \in ActiveOf(rows, t, c)}, cancelled)

NonCancelled(tasks) == {t \in Tasks : tasks[t] # NoTask /\ ~tasks[t].cancelled}

\* Tasks created or reopened in the revision the order is in.
RevisionWork(tasks) ==
    {t \in NonCancelled(tasks) : revision \in {tasks[t].createdIn, tasks[t].reopenedIn}}

(***************************************************************************)
(* Guards shared by several commands                                       *)
(***************************************************************************)
Dispatchable == status \in {"PENDING_DISPATCH", "IN_PROGRESS", "REVISION"}

\* The task commands update, add_assignee and cancel apply to unfinished tasks.
Unfinished(t) ==
    /\ t \in Inserted
    /\ task[t].status \in {"NEEDS_ASSIGNEE", "PENDING_ACCEPTANCE", "ACCEPTED", "IN_PROGRESS"}

(***************************************************************************)
(* The order row                                                           *)
(***************************************************************************)
\* The transitions of the order that an endpoint invokes.
Transition ==
    [submit           |-> [from |-> {"DRAFT"}, to |-> "PENDING_DISPATCH"],
     recall           |-> [from |-> {"PENDING_DISPATCH"}, to |-> "DRAFT"],
     complete         |-> [from |-> {"AWAITING_CONFIRMATION"}, to |-> "COMPLETED"],
     request_revision |-> [from |-> {"AWAITING_CONFIRMATION", "COMPLETED"}, to |-> "REVISION"],
     cancel           |-> [from |-> {"DRAFT", "PENDING_DISPATCH"}, to |-> "CANCELLED"],
     cancel_active    |-> [from |-> {"IN_PROGRESS", "AWAITING_CONFIRMATION", "REVISION"},
                           to |-> "CANCELLED"]]

\* A status change and the audit event that records it.
OrderMoves(to) ==
    /\ status' = to
    /\ trail' = [from |-> status, to |-> to]

OrderStays == UNCHANGED <<status, trail>>

ApplyTransition(command) ==
    /\ status \in Transition[command].from
    /\ OrderMoves(Transition[command].to)

ReevaluateDispatchState(rows) ==
    \/ /\ status = "PENDING_DISPATCH"
       /\ HasActiveAssignment(rows)
       /\ OrderMoves("IN_PROGRESS")
    \/ /\ status = "IN_PROGRESS"
       /\ ~HasActiveAssignment(rows)
       /\ OrderMoves("PENDING_DISPATCH")
    \/ /\ ~(status = "PENDING_DISPATCH" /\ HasActiveAssignment(rows))
       /\ ~(status = "IN_PROGRESS" /\ ~HasActiveAssignment(rows))
       /\ OrderStays

(***************************************************************************)
(* Order commands                                                          *)
(***************************************************************************)
Init ==
    /\ status = "DRAFT"
    /\ revision = 0
    /\ confirmed = {}
    /\ task = [t \in Tasks |-> NoTask]
    /\ asg = [a \in Assignments |-> NoAssignment]
    /\ defects = {}
    /\ trail = [from |-> "DRAFT", to |-> "DRAFT"]
    /\ care = "none"
    /\ onDuty = Technicians

work == <<task, asg, defects>>

Submit ==
    /\ ApplyTransition("submit")
    /\ UNCHANGED <<revision, confirmed, work, care, onDuty>>

Recall ==
    /\ ApplyTransition("recall")
    /\ Inserted = {}
    /\ UNCHANGED <<revision, confirmed, work, care, onDuty>>

Cancel ==
    /\ ApplyTransition("cancel")
    /\ Inserted = {}
    /\ UNCHANGED <<revision, confirmed, work, care, onDuty>>

\* A photo of an earlier revision will do.
MutCompleteWithAnyPhoto ==
    /\ ApplyTransition("complete")
    /\ confirmed # {}
    /\ UNCHANGED <<revision, confirmed, work, care, onDuty>>

Complete ==
    /\ ApplyTransition("complete")
    /\ revision \in confirmed
    /\ UNCHANGED <<revision, confirmed, work, care, onDuty>>

RequestRevision ==
    /\ revision < MaxRevision
    /\ ApplyTransition("request_revision")
    /\ revision' = revision + 1
    /\ care' = "request_revision"
    /\ UNCHANGED <<confirmed, work, onDuty>>

\* The tasks are cancelled, the open assignments forgotten.
MutCancelActiveKeepsAssignments ==
    /\ ApplyTransition("cancel_active")
    /\ revision \notin confirmed
    /\ task' = [t \in Tasks |->
                  IF t \in Inserted /\ task[t].status # "DONE"
                  THEN [task[t] EXCEPT !.cancelled = TRUE, !.status = "CANCELLED"]
                  ELSE task[t]]
    /\ UNCHANGED <<revision, confirmed, asg, defects, care, onDuty>>

\* Open assignments are removed and every task that is not DONE is cancelled.
\* The code looks the task of each removed assignment up among the tasks it
\* has just cancelled: an open assignment of a DONE task would be a KeyError
\* and the transaction would roll back.
CancelActive ==
    /\ ApplyTransition("cancel_active")
    /\ revision \notin confirmed
    /\ \A a \in OpenRows : task[asg[a].task].status # "DONE"
    /\ asg' = [a \in Assignments |->
                 IF a \in OpenRows THEN [asg[a] EXCEPT !.status = "REMOVED"] ELSE asg[a]]
    /\ task' = [t \in Tasks |->
                  IF t \in Inserted /\ task[t].status # "DONE"
                  THEN [task[t] EXCEPT !.cancelled = TRUE, !.status = "CANCELLED"]
                  ELSE task[t]]
    /\ UNCHANGED <<revision, confirmed, defects, care, onDuty>>

MutUploadForNextRevision ==
    /\ confirmed' = confirmed \cup {revision + 1}
    /\ UNCHANGED <<status, revision, work, trail, care, onDuty>>

\* No status is checked, and no lock is taken: the photo is filed under the revision
\* that was read, though the order may have come to a later one by the insert.
UploadConfirmation ==
    /\ \E read \in 0..revision : confirmed' = confirmed \cup {read}
    /\ UNCHANGED <<status, revision, work, trail, care, onDuty>>

\* The request already counts as the revision.
MutCareRequestCounts ==
    /\ status = "COMPLETED"
    /\ revision < MaxRevision
    /\ revision' = revision + 1
    /\ care' = "revision_requested"
    /\ UNCHANGED <<status, confirmed, work, trail, onDuty>>

\* Customer care asks the technical lead to look at a completed order again.
RequestRevisionFromCustomerCare ==
    /\ status = "COMPLETED"
    /\ care' = "revision_requested"
    /\ UNCHANGED <<status, revision, confirmed, work, trail, onDuty>>

(***************************************************************************)
(* Task commands of the technical lead                                     *)
(***************************************************************************)
\* The new rows belong to the first cycle, whatever the cycle of the task.
MutWithPendingFirstCycle(who, t, c) ==
    [a \in Assignments |->
        IF a \in DOMAIN who
        THEN [task |-> t, employee |-> who[a], cycle |-> 1, status |-> "PENDING"]
        ELSE asg[a]]

\* asg with one PENDING row in cycle c of task t for each identity in DOMAIN who.
WithPending(who, t, c) ==
    [a \in Assignments |->
        IF a \in DOMAIN who
        THEN [task |-> t, employee |-> who[a], cycle |-> c, status |-> "PENDING"]
        ELSE asg[a]]

\* Identities for the rows a command inserts.
Fresh == {a \in Assignments : asg[a] = NoAssignment}

WithStatus(a, s) == [asg EXCEPT ![a].status = s]

\* The assignments are read before the change is flushed.
MutRederiveBeforeFlush(rows, t) ==
    task' = [task EXCEPT ![t].status =
                DerivedStatus(asg, t, task[t].cycle, task[t].cancelled)]

\* The status of t is stored again after a change to the assignment rows.
Rederive(rows, t) ==
    task' = [task EXCEPT ![t].status =
                DerivedStatus(rows, t, task[t].cycle, task[t].cancelled)]

CreateTask(t) ==
    /\ Dispatchable
    /\ t \notin Inserted
    /\ \E new \in (SUBSET Fresh) \ {{}} : \E who \in Injection(new, onDuty) :
          asg' = WithPending(who, t, 1)
    /\ task' = [task EXCEPT ![t] =
                  [status |-> DeriveTaskStatus({"PENDING"}, FALSE), cancelled |-> FALSE,
                   cycle |-> 1, createdIn |-> revision, reopenedIn |-> NeverReopened]]
    /\ ReevaluateDispatchState(asg')
    /\ UNCHANGED <<revision, confirmed, defects, care, onDuty>>

\* An assignee who is done is given the task again.
MutAlreadyOpen(t, e) ==
    \E a \in OpenRows : asg[a].task = t /\ asg[a].cycle = task[t].cycle /\ asg[a].employee = e

AlreadyActive(t, e) == \E a \in ActiveOf(asg, t, task[t].cycle) : asg[a].employee = e

\* The order is not re-evaluated here.
AddAssignee(t, a, e) ==
    /\ Unfinished(t)
    /\ Dispatchable
    /\ a \in Fresh
    /\ e \in onDuty
    /\ ~AlreadyActive(t, e)
    /\ asg' = WithPending([x \in {a} |-> e], t, task[t].cycle)
    /\ Rederive(asg', t)
    /\ UNCHANGED <<status, revision, confirmed, defects, trail, care, onDuty>>

\* The assignment is looked up by its task alone: neither the status nor the
\* cycle of the task is checked.
RemoveAssignee(t, a) ==
    /\ t \in Inserted
    /\ a \in OpenRows
    /\ asg[a].task = t
    /\ Dispatchable
    /\ asg' = WithStatus(a, "REMOVED")
    /\ Rederive(asg', t)
    /\ ReevaluateDispatchState(asg')
    /\ UNCHANGED <<revision, confirmed, defects, care, onDuty>>

CancelTask(t) ==
    /\ Unfinished(t)
    /\ Dispatchable
    /\ asg' = [a \in Assignments |->
                 IF a \in OpenRows /\ asg[a].task = t
                 THEN [asg[a] EXCEPT !.status = "REMOVED"] ELSE asg[a]]
    /\ task' = [task EXCEPT ![t].cancelled = TRUE, ![t].status = "CANCELLED"]
    /\ ReevaluateDispatchState(asg')
    /\ UNCHANGED <<revision, confirmed, defects, care, onDuty>>

\* The assignments a reopened task closes its cycle with.
DoneOf(t) == {a \in ActiveOf(asg, t, task[t].cycle) : asg[a].status = "DONE"}

\* A defect for whoever was ever asked, refusals and removals included.
MutRecordDefectsForAll(t) ==
    defects' = defects \cup {a \in Assignments : /\ asg[a] # NoAssignment
                                                 /\ asg[a].task = t
                                                 /\ asg[a].cycle = task[t].cycle}

RecordDefects(t) == defects' = defects \cup DoneOf(t)

\* Each DONE assignee gets a defect record and the same job again, in a new
\* cycle; whether the account is still active is not asked.
ReopenTask(t) ==
    LET c == task[t].cycle + 1
    IN  /\ t \in Inserted
        /\ task[t].status = "DONE"
        /\ status = "REVISION"
        /\ \E new \in SUBSET Fresh : \E heir \in Bijection(new, DoneOf(t)) :
              asg' = WithPending([a \in new |-> asg[heir[a]].employee], t, c)
        /\ task' = [task EXCEPT ![t].cycle = c, ![t].reopenedIn = revision,
                                ![t].status = DerivedStatus(asg', t, c, FALSE)]
        /\ RecordDefects(t)
        /\ UNCHANGED <<status, revision, confirmed, trail, care, onDuty>>

(***************************************************************************)
(* Assignment commands of the technician who holds the assignment          *)
(***************************************************************************)
\* Assignment a exists, is in state from and its employee can sign in.
Mine(a, from) ==
    /\ asg[a] # NoAssignment
    /\ asg[a].status = from
    /\ asg[a].employee \in onDuty

Accept(a) ==
    /\ Mine(a, "PENDING")
    /\ Dispatchable
    /\ ~task[asg[a].task].cancelled
    /\ asg' = WithStatus(a, "ACCEPTED")
    /\ Rederive(asg', asg[a].task)
    /\ UNCHANGED <<status, revision, confirmed, defects, trail, care, onDuty>>

Reject(a) ==
    /\ Mine(a, "PENDING")
    /\ asg' = WithStatus(a, "REJECTED")
    /\ Rederive(asg', asg[a].task)
    /\ ReevaluateDispatchState(asg')
    /\ UNCHANGED <<revision, confirmed, defects, care, onDuty>>

Start(a) ==
    /\ Mine(a, "ACCEPTED")
    /\ Dispatchable
    /\ ~task[asg[a].task].cancelled
    /\ asg' = WithStatus(a, "IN_PROGRESS")
    /\ Rederive(asg', asg[a].task)
    /\ UNCHANGED <<status, revision, confirmed, defects, trail, care, onDuty>>

\* One task done is enough.
MutAllTasksDoneOnFirst(tasks) ==
    /\ status \in {"IN_PROGRESS", "REVISION"}
    /\ \E t \in NonCancelled(tasks) : tasks[t].status = "DONE"
    /\ status = "REVISION" => RevisionWork(tasks) # {}

\* Guards of the system transition all_tasks_done, over the tasks as stored.
AllTasksDone(tasks) ==
    /\ status \in {"IN_PROGRESS", "REVISION"}
    /\ NonCancelled(tasks) # {}
    /\ \A t \in NonCancelled(tasks) : tasks[t].status = "DONE"
    /\ status = "REVISION" => RevisionWork(tasks) # {}

\* The one command that evaluates all_tasks_done.
CompleteAssignment(a) ==
    LET t == asg[a].task
    IN  /\ Mine(a, "IN_PROGRESS")
        /\ ~task[t].cancelled
        /\ asg' = WithStatus(a, "DONE")
        /\ Rederive(asg', t)
        /\ IF task'[t].status = "DONE" /\ AllTasksDone(task')
           THEN OrderMoves("AWAITING_CONFIRMATION")
           ELSE OrderStays
        /\ UNCHANGED <<revision, confirmed, defects, care, onDuty>>

(***************************************************************************)
(* Accounts of technicians                                                 *)
(***************************************************************************)
\* Neither looks at the assignments the employee holds.
Deactivate(e) ==
    /\ e \in onDuty
    /\ onDuty' = onDuty \ {e}
    /\ UNCHANGED <<status, revision, confirmed, work, trail, care>>

Activate(e) ==
    /\ e \in Technicians \ onDuty
    /\ onDuty' = onDuty \cup {e}
    /\ UNCHANGED <<status, revision, confirmed, work, trail, care>>

(***************************************************************************)
(* Specification                                                           *)
(***************************************************************************)
OrderCommand ==
    \/ Submit \/ Recall \/ Cancel \/ Complete \/ RequestRevision \/ CancelActive
    \/ UploadConfirmation
    \/ RequestRevisionFromCustomerCare

TaskCommand ==
    \E t \in Tasks :
        \/ CreateTask(t) \/ CancelTask(t) \/ ReopenTask(t)
        \/ \E a \in Assignments :
              \/ \E e \in Technicians : AddAssignee(t, a, e)
              \/ RemoveAssignee(t, a)

AssignmentCommand ==
    \E a \in Assignments :
        \/ Accept(a) \/ Reject(a) \/ Start(a) \/ CompleteAssignment(a)

AccountCommand == \E e \in Technicians : Deactivate(e) \/ Activate(e)

Next == OrderCommand \/ TaskCommand \/ AssignmentCommand \/ AccountCommand

Spec == Init /\ [][Next]_vars

(***************************************************************************)
(* Properties                                                              *)
(***************************************************************************)
TypeOK ==
    /\ status \in OrderStatus
    /\ revision \in 0..MaxRevision
    /\ confirmed \subseteq 0..revision
    /\ task \in [Tasks -> Task \cup {NoTask}]
    /\ asg \in [Assignments -> Assignment \cup {NoAssignment}]
    /\ defects \subseteq Assignments
    /\ trail \in [from : OrderStatus, to : OrderStatus]
    /\ care \in {"none", "revision_requested", "request_revision"}
    /\ onDuty \subseteq Technicians

\* Every command that touches the assignments of a task stores the status
\* derived from them, so a list that filters on the stored column shows the
\* task where its assignments put it.
StoredStatusIsDerived ==
    \A t \in Inserted :
        task[t].status = DerivedStatus(asg, t, task[t].cycle, task[t].cancelled)

\* The customer is asked to confirm, and the order is completed, only with at
\* least one task left and every task that is left done.
ConfirmationWaitsForAllTasks ==
    status \in {"AWAITING_CONFIRMATION", "COMPLETED"} =>
        /\ NonCancelled(task) # {}
        /\ \A t \in NonCancelled(task) : task[t].status = "DONE"

\* A completed order holds a photo signed in its current revision: one from
\* before the last revision request is not enough.
CompletedIsConfirmed == status = "COMPLETED" => revision \in confirmed

\* Nobody is left with work to accept, start or finish on an order that is
\* not being worked on: recalled, cancelled, waiting for the customer, done.
OpenWorkOnlyWhileDispatchable == OpenRows # {} => Dispatchable

\* cancel_active looks up the task of every open assignment among the tasks
\* that are not DONE: none may be missing.
NoOpenWorkOnDoneTask == \A a \in OpenRows : task[asg[a].task].status \notin {"DONE", "CANCELLED"}

\* A technician holds at most one active assignment of a task in a cycle, by
\* the guards alone (the unique index of the table is not modelled).
OneActiveAssignment ==
    \A a, b \in Assignments :
        /\ asg[a] # NoAssignment /\ asg[a].status \in Active
        /\ asg[b] # NoAssignment /\ asg[b].status \in Active
        /\ asg[a].task = asg[b].task
        /\ asg[a].employee = asg[b].employee
        /\ asg[a].cycle = asg[b].cycle
        => a = b

\* Counters and workload lists that do not filter on the cycle are right:
\* whatever is still open belongs to the current cycle of its task.
OpenWorkIsOfCurrentCycle == \A a \in OpenRows : asg[a].cycle = task[asg[a].task].cycle

\* An order stays in progress only while somebody holds, or has done, work on it.
InProgressHasActiveAssignment == status = "IN_PROGRESS" => HasActiveAssignment(asg)

\* After a revision request the customer is asked again only when some task
\* was added or reopened for that revision.
RevisionShowsWork ==
    status \in {"AWAITING_CONFIRMATION", "COMPLETED"} => RevisionWork(task) # {}

\* KPI: there is one defect for each assignment that was done in a cycle
\* closed by a reopen, and no other.
DefectsAreClosedWork ==
    defects = {a \in Assignments : /\ asg[a] # NoAssignment
                                   /\ asg[a].status = "DONE"
                                   /\ asg[a].cycle < task[asg[a].task].cycle}

\* A request of customer care is pending only on a completed order, where the
\* badge that reads the audit trail looks for it.
PendingRequestIsVisible == care = "revision_requested" => status = "COMPLETED"

\* Assignments of a closed cycle are history: no command changes them.
ClosedCyclesAreFrozen ==
    [][\A a \in Assignments :
          asg[a] # NoAssignment /\ asg[a].cycle < task[asg[a].task].cycle
             => asg'[a] = asg[a]]_vars

\* The order implements the abstract lifecycle.
Lifecycle == INSTANCE OrderLifecycle WITH
    signed <- revision \in confirmed,
    worked <- \E t \in RevisionWork(task) : task[t].status = "DONE"

LifecycleSpec == Lifecycle!Spec
=============================================================================
