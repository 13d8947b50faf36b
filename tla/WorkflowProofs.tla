--------------------------- MODULE WorkflowProofs ---------------------------
(***************************************************************************)
(* Proofs about Workflow for any number of tasks, assignments,             *)
(* technicians and revisions.                                              *)
(***************************************************************************)
EXTENDS Workflow, TLAPS

(***************************************************************************)
(* Rows                                                                    *)
(***************************************************************************)
AsgRows == [Assignments -> Assignment \cup {NoAssignment}]
TaskRows == [Tasks -> Task \cup {NoTask}]

\* The foreign key of an assignment, and the cycle it was given out in.
RowsHaveTasks ==
    \A a \in Assignments : asg[a] # NoAssignment =>
        /\ asg[a].task \in Inserted
        /\ asg[a].cycle <= task[asg[a].task].cycle

Rows == TypeOK /\ RowsHaveTasks

\* A row is a record with the fields of its table.
LEMMA AssignmentRow ==
    ASSUME NEW rows \in AsgRows, NEW a \in Assignments, rows[a] # NoAssignment
    PROVE  /\ rows[a] \in Assignment
           /\ rows[a].task \in Tasks
           /\ rows[a].employee \in Technicians
           /\ rows[a].cycle \in Nat \ {0}
           /\ rows[a].status \in AssignmentStatus
BY DEF AsgRows, Assignment

LEMMA TaskRow ==
    ASSUME TypeOK, NEW t \in Inserted
    PROVE  /\ t \in Tasks
           /\ task[t] \in Task
           /\ task[t].status \in TaskStatus
           /\ task[t].cancelled \in BOOLEAN
           /\ task[t].cycle \in Nat \ {0}
           /\ task[t].createdIn \in Nat
           /\ task[t].reopenedIn \in Nat \cup {NeverReopened}
BY DEF TypeOK, Inserted, Task

\* The status derived for a task is one a task can have.
LEMMA DerivedIsTaskStatus ==
    ASSUME NEW S, NEW b
    PROVE  DeriveTaskStatus(S, b) \in TaskStatus
BY DEF DeriveTaskStatus, TaskStatus

\* What WithPending inserts.
LEMMA WithPendingRows ==
    ASSUME TypeOK, NEW t \in Tasks, NEW c \in Nat \ {0},
           NEW new \in SUBSET Assignments, NEW who \in [new -> Technicians]
    PROVE  /\ WithPending(who, t, c) \in AsgRows
           /\ \A b \in Assignments \ new : WithPending(who, t, c)[b] = asg[b]
           /\ \A b \in new : /\ WithPending(who, t, c)[b] # NoAssignment
                             /\ WithPending(who, t, c)[b].task = t
                             /\ WithPending(who, t, c)[b].employee = who[b]
                             /\ WithPending(who, t, c)[b].cycle = c
                             /\ WithPending(who, t, c)[b].status = "PENDING"
<1> DEFINE rows == WithPending(who, t, c)
           row(b) == [task |-> t, employee |-> who[b], cycle |-> c, status |-> "PENDING"]
<1>1. \A b \in new : rows[b] = row(b)
  BY DEF WithPending
<1>2. \A b \in Assignments \ new : rows[b] = asg[b]
  BY DEF WithPending
<1>3. rows = [b \in Assignments |-> rows[b]]
  BY DEF WithPending
<1> HIDE DEF rows
<1>4. \A b \in new : row(b) \in Assignment
  BY DEF Assignment, AssignmentStatus
<1>5. rows \in AsgRows
  <2>1. \A b \in Assignments : rows[b] \in Assignment \cup {NoAssignment}
    BY <1>1, <1>2, <1>4 DEF TypeOK
  <2> QED
    BY <1>3, <2>1 DEF AsgRows
<1>6. \A b \in new : rows[b] # NoAssignment
  BY <1>1, <1>4, NoAssignmentIsNoRow
<1>7. ASSUME NEW b \in new
      PROVE  /\ rows[b].task = t
             /\ rows[b].employee = who[b]
             /\ rows[b].cycle = c
             /\ rows[b].status = "PENDING"
  <2>1. rows[b] = row(b)
    BY <1>1
  <2> QED
    BY <2>1
<1> QED
  BY <1>2, <1>5, <1>6, <1>7, Zenon DEF rows

(***************************************************************************)
(* What a step may do to the assignment rows: insert some, or change the   *)
(* status of some that are open; and what it may store in one task row.    *)
(***************************************************************************)
Inserts(new, t, c) ==
    /\ asg' \in AsgRows
    /\ new \subseteq Fresh
    /\ \A b \in Assignments \ new : asg'[b] = asg[b]
    /\ \A b \in new : /\ asg'[b] # NoAssignment
                      /\ asg'[b].task = t
                      /\ asg'[b].cycle = c
                      /\ asg'[b].status = "PENDING"

Updates(rows, s) ==
    /\ asg' \in AsgRows
    /\ rows \subseteq OpenRows
    /\ \A b \in Assignments \ rows : asg'[b] = asg[b]
    /\ \A b \in rows : /\ asg'[b] # NoAssignment
                       /\ asg'[b].task = asg[b].task
                       /\ asg'[b].employee = asg[b].employee
                       /\ asg'[b].cycle = asg[b].cycle
                       /\ asg'[b].status = s

\* The task rows other than t are left alone, and of t only the status changes.
Stores(t) ==
    /\ task' \in TaskRows
    /\ t \in Inserted
    /\ Inserted' = Inserted
    /\ \A u \in Tasks \ {t} : task'[u] = task[u]
    /\ task'[t].status = DerivedStatus(asg', t, task[t].cycle, task[t].cancelled)
    /\ task'[t].cancelled = task[t].cancelled
    /\ task'[t].cycle = task[t].cycle
    /\ task'[t].createdIn = task[t].createdIn
    /\ task'[t].reopenedIn = task[t].reopenedIn

\* Task t, and no other, gets a new row or a new content.
Replaces(t, row) ==
    /\ task' \in TaskRows
    /\ Inserted' = Inserted \cup {t}
    /\ \A u \in Tasks \ {t} : task'[u] = task[u]
    /\ task'[t] = row

LEMMA RederiveStores ==
    ASSUME TypeOK, NEW t \in Inserted, Rederive(asg', t)
    PROVE  Stores(t)
<1> DEFINE d == DerivedStatus(asg', t, task[t].cycle, task[t].cancelled)
<1>1. d \in TaskStatus
  BY DerivedIsTaskStatus DEF DerivedStatus
<1>2. task \in TaskRows /\ t \in Tasks /\ task[t] \in Task
  BY TaskRow DEF TypeOK, TaskRows
<1>3. task' = [task EXCEPT ![t].status = d]
  BY DEF Rederive
<1> HIDE DEF d
<1>4. task'[t] = [task[t] EXCEPT !.status = d]
  BY <1>2, <1>3 DEF TaskRows
<1>5. [task[t] EXCEPT !.status = d] \in Task
  BY <1>1, <1>2 DEF Task
<1>6. \A u \in Tasks \ {t} : task'[u] = task[u]
  BY <1>2, <1>3 DEF TaskRows
<1>7. task' \in TaskRows
  BY <1>2, <1>3, <1>5 DEF TaskRows
<1>8. Inserted' = Inserted
  BY <1>2, <1>4, <1>5, <1>6, NoTaskIsNoRow DEF Inserted
<1> QED
  BY <1>2, <1>4, <1>6, <1>7, <1>8 DEF Stores, Task, d

\* A technician answers, or is taken off, an open assignment.
LEMMA RespondEffect ==
    ASSUME Rows, NEW a \in OpenRows, NEW s \in AssignmentStatus,
           asg' = WithStatus(a, s), Rederive(asg', asg[a].task)
    PROVE  Updates({a}, s) /\ Stores(asg[a].task)
<1>1. asg \in AsgRows /\ a \in Assignments /\ asg[a] # NoAssignment
  BY DEF Rows, OpenRows, TypeOK, AsgRows
<1>2. asg[a] \in Assignment
  BY <1>1, AssignmentRow
<1> DEFINE row == [asg[a] EXCEPT !.status = s]
<1>3. /\ row \in Assignment
      /\ row.task = asg[a].task
      /\ row.employee = asg[a].employee
      /\ row.cycle = asg[a].cycle
      /\ row.status = s
  BY <1>2 DEF Assignment
<1>4. asg' = [asg EXCEPT ![a] = row]
  BY DEF WithStatus
<1> HIDE DEF row
<1>5. asg' \in AsgRows /\ asg'[a] = row /\ \A b \in Assignments \ {a} : asg'[b] = asg[b]
  BY <1>1, <1>3, <1>4 DEF AsgRows
<1>6. Updates({a}, s)
  BY <1>3, <1>5, NoAssignmentIsNoRow DEF Updates
<1>7. asg[a].task \in Inserted
  BY <1>1 DEF Rows, RowsHaveTasks
<1> QED
  BY <1>6, <1>7, RederiveStores DEF Rows

LEMMA PendingEffect ==
    ASSUME TypeOK, NEW t \in Tasks, NEW c \in Nat \ {0},
           NEW new \in SUBSET Fresh, NEW who \in [new -> Technicians],
           asg' = WithPending(who, t, c)
    PROVE  /\ Inserts(new, t, c)
           /\ \A b \in new : asg'[b].employee = who[b]
<1>1. new \in SUBSET Assignments
  BY DEF Fresh
<1> QED
  BY <1>1, WithPendingRows DEF Inserts

LEMMA CreateTaskEffect ==
    ASSUME Rows, NEW t \in Tasks, CreateTask(t)
    PROVE  \E new \in SUBSET Fresh :
              /\ new # {}
              /\ Inserts(new, t, 1)
              /\ \A a, b \in new : asg'[a].employee = asg'[b].employee => a = b
              /\ t \notin Inserted
              /\ Replaces(t, [status |-> "PENDING_ACCEPTANCE", cancelled |-> FALSE,
                              cycle |-> 1, createdIn |-> revision,
                              reopenedIn |-> NeverReopened])
<1>1. PICK new \in (SUBSET Fresh) \ {{}} : \E who \in Injection(new, onDuty) :
            asg' = WithPending(who, t, 1)
  BY DEF CreateTask
<1>2. PICK who \in Injection(new, onDuty) : asg' = WithPending(who, t, 1)
  BY <1>1
<1>3. who \in [new -> Technicians]
  BY DEF Injection, Rows, TypeOK
<1>4. Inserts(new, t, 1) /\ \A b \in new : asg'[b].employee = who[b]
  BY <1>2, <1>3, PendingEffect DEF Rows
<1>5. \A a, b \in new : asg'[a].employee = asg'[b].employee => a = b
  BY <1>4 DEF Injection, IsInjective
<1> DEFINE row == [status |-> "PENDING_ACCEPTANCE", cancelled |-> FALSE, cycle |-> 1,
                   createdIn |-> revision, reopenedIn |-> NeverReopened]
<1>6. task' = [task EXCEPT ![t] = row]
  BY DEF CreateTask, DeriveTaskStatus
<1>7. row \in Task
  BY MaxRevisionIsNat DEF Task, TaskStatus, Rows, TypeOK
<1> HIDE DEF row
<1>8. Replaces(t, row)
  <2>1. task \in TaskRows
    BY DEF Rows, TypeOK, TaskRows
  <2>2. task' \in TaskRows /\ task'[t] = row /\ \A u \in Tasks \ {t} : task'[u] = task[u]
    BY <1>6, <1>7, <2>1 DEF TaskRows
  <2>3. Inserted' = Inserted \cup {t}
    BY <1>7, <2>2, NoTaskIsNoRow DEF Inserted
  <2> QED
    BY <2>2, <2>3 DEF Replaces
<1>9. t \notin Inserted
  BY DEF CreateTask
<1>10. new \in SUBSET Fresh /\ new # {}
  BY <1>1
<1>11. WITNESS new \in SUBSET Fresh
<1> QED
  BY <1>4, <1>5, <1>8, <1>9, <1>10 DEF row

LEMMA AddAssigneeEffect ==
    ASSUME Rows, NEW t \in Tasks, NEW a \in Assignments, NEW e \in Technicians,
           AddAssignee(t, a, e)
    PROVE  /\ Inserts({a}, t, task[t].cycle)
           /\ asg'[a].employee = e
           /\ Stores(t)
<1>1. t \in Inserted /\ {a} \in SUBSET Fresh
  BY DEF AddAssignee, Unfinished
<1>2. task[t].cycle \in Nat \ {0}
  BY <1>1, TaskRow DEF Rows
<1> DEFINE who == [x \in {a} |-> e]
<1>3. asg' = WithPending(who, t, task[t].cycle)
  BY DEF AddAssignee
<1>4. who \in [{a} -> Technicians] /\ who[a] = e
  OBVIOUS
<1> HIDE DEF who
<1>5. Inserts({a}, t, task[t].cycle) /\ \A b \in {a} : asg'[b].employee = who[b]
  BY <1>1, <1>2, <1>3, <1>4, PendingEffect DEF Rows
<1>6. Stores(t)
  BY <1>1, RederiveStores DEF AddAssignee, Rows
<1> QED
  BY <1>4, <1>5, <1>6

\* Removing the open assignments of some tasks.
LEMMA RemoveEffect ==
    ASSUME TypeOK, NEW gone \in SUBSET OpenRows,
           asg' = [a \in Assignments |->
                     IF a \in gone THEN [asg[a] EXCEPT !.status = "REMOVED"] ELSE asg[a]]
    PROVE  Updates(gone, "REMOVED")
<1> DEFINE row(a) == [asg[a] EXCEPT !.status = "REMOVED"]
<1>1. asg \in AsgRows
  BY DEF TypeOK, AsgRows
<1>2. ASSUME NEW a \in gone
      PROVE  /\ row(a) \in Assignment
             /\ row(a).task = asg[a].task
             /\ row(a).employee = asg[a].employee
             /\ row(a).cycle = asg[a].cycle
             /\ row(a).status = "REMOVED"
  <2>1. asg[a] \in Assignment
    BY <1>1, AssignmentRow DEF OpenRows
  <2> QED
    BY <2>1 DEF Assignment, AssignmentStatus
<1>3. \A a \in Assignments : asg'[a] = IF a \in gone THEN row(a) ELSE asg[a]
  OBVIOUS
<1> HIDE DEF row
<1>4. \A a \in Assignments : asg'[a] \in Assignment \cup {NoAssignment}
  BY <1>1, <1>2, <1>3 DEF AsgRows
<1>5. asg' \in AsgRows
  BY <1>4 DEF AsgRows
<1>6. gone \subseteq Assignments
  BY DEF OpenRows
<1> QED
  BY <1>2, <1>3, <1>5, <1>6, NoAssignmentIsNoRow DEF Updates

\* A task that is cancelled.
LEMMA CancelledRow ==
    ASSUME TypeOK, NEW t \in Inserted
    PROVE  LET row == [task[t] EXCEPT !.cancelled = TRUE, !.status = "CANCELLED"]
           IN  /\ row \in Task
               /\ row.cancelled = TRUE
               /\ row.status = "CANCELLED"
               /\ row.cycle = task[t].cycle
               /\ row.createdIn = task[t].createdIn
               /\ row.reopenedIn = task[t].reopenedIn
<1>1. task[t] \in Task
  BY TaskRow
<1> QED
  BY <1>1 DEF Task, TaskStatus

LEMMA CancelTaskEffect ==
    ASSUME Rows, NEW t \in Tasks, CancelTask(t)
    PROVE  /\ t \in Inserted
           /\ Updates({a \in OpenRows : asg[a].task = t}, "REMOVED")
           /\ Replaces(t, [task[t] EXCEPT !.cancelled = TRUE, !.status = "CANCELLED"])
<1>1. t \in Inserted
  BY DEF CancelTask, Unfinished
<1> DEFINE gone == {a \in OpenRows : asg[a].task = t}
           row == [task[t] EXCEPT !.cancelled = TRUE, !.status = "CANCELLED"]
<1>2. asg' = [a \in Assignments |->
                IF a \in gone THEN [asg[a] EXCEPT !.status = "REMOVED"] ELSE asg[a]]
  BY DEF CancelTask
<1>3. Updates(gone, "REMOVED")
  BY <1>2, RemoveEffect DEF Rows
<1>4. row \in Task
  BY <1>1, CancelledRow DEF Rows
<1>5. task' = [task EXCEPT ![t] = row]
  BY DEF CancelTask
<1> HIDE DEF row
<1>6. Replaces(t, row)
  <2>1. task \in TaskRows
    BY DEF Rows, TypeOK, TaskRows
  <2>2. task' \in TaskRows /\ task'[t] = row /\ \A u \in Tasks \ {t} : task'[u] = task[u]
    BY <1>4, <1>5, <2>1 DEF TaskRows
  <2>3. Inserted' = Inserted \cup {t}
    BY <1>4, <2>2, NoTaskIsNoRow DEF Inserted
  <2> QED
    BY <2>2, <2>3 DEF Replaces
<1> QED
  BY <1>1, <1>3, <1>6 DEF row

LEMMA CancelActiveEffect ==
    ASSUME Rows, CancelActive
    PROVE  /\ Updates(OpenRows, "REMOVED")
           /\ task' \in TaskRows
           /\ Inserted' = Inserted
           /\ \A t \in Tasks :
                 task'[t] = IF t \in Inserted /\ task[t].status # "DONE"
                            THEN [task[t] EXCEPT !.cancelled = TRUE, !.status = "CANCELLED"]
                            ELSE task[t]
<1>1. Updates(OpenRows, "REMOVED")
  BY RemoveEffect DEF CancelActive, Rows
<1> DEFINE row(t) == [task[t] EXCEPT !.cancelled = TRUE, !.status = "CANCELLED"]
<1>2. \A t \in Inserted : row(t) \in Task
  BY CancelledRow DEF Rows
<1>3. task' = [t \in Tasks |-> IF t \in Inserted /\ task[t].status # "DONE"
                               THEN row(t) ELSE task[t]]
  BY DEF CancelActive
<1> HIDE DEF row
<1>4. task \in TaskRows
  BY DEF Rows, TypeOK, TaskRows
<1>5. \A t \in Tasks : task'[t] = IF t \in Inserted /\ task[t].status # "DONE"
                                  THEN row(t) ELSE task[t]
  BY <1>3
<1>6. task' \in TaskRows
  BY <1>2, <1>3, <1>4 DEF TaskRows
<1>7. Inserted' = Inserted
  BY <1>2, <1>5, NoTaskIsNoRow DEF Inserted
<1> QED
  BY <1>1, <1>5, <1>6, <1>7 DEF row

\* One new row for each DONE assignment of the cycle that is closed.
Heirs(new, heir, t) ==
    /\ heir \in Bijection(new, DoneOf(t))
    /\ \A b \in new : asg'[b].employee = asg[heir[b]].employee

LEMMA ReopenTaskEffect ==
    ASSUME Rows, NEW t \in Tasks, ReopenTask(t)
    PROVE  LET c == task[t].cycle + 1
           IN  /\ t \in Inserted
               /\ Replaces(t, task'[t])
               /\ task'[t].status = DerivedStatus(asg', t, c, FALSE)
               /\ task'[t].cancelled = task[t].cancelled
               /\ task'[t].cycle = c
               /\ task'[t].createdIn = task[t].createdIn
               /\ task'[t].reopenedIn = revision
               /\ \E new \in SUBSET Fresh :
                     /\ Inserts(new, t, c)
                     /\ \E heir : Heirs(new, heir, t)
<1> DEFINE c == task[t].cycle + 1
           d == DerivedStatus(asg', t, c, FALSE)
           row == [task[t] EXCEPT !.cycle = c, !.reopenedIn = revision, !.status = d]
<1>1. t \in Inserted
  BY DEF ReopenTask
<1>2. /\ task[t] \in Task
      /\ task[t].cancelled \in BOOLEAN
      /\ task[t].cycle \in Nat \ {0}
      /\ task[t].createdIn \in Nat
  BY <1>1, TaskRow DEF Rows
<1>3. c \in Nat \ {0}
  BY <1>2
<1>4. d \in TaskStatus
  BY DerivedIsTaskStatus DEF DerivedStatus
<1>5. PICK new \in SUBSET Fresh : \E heir \in Bijection(new, DoneOf(t)) :
         asg' = WithPending([a \in new |-> asg[heir[a]].employee], t, c)
  BY DEF ReopenTask
<1>6. PICK heir \in Bijection(new, DoneOf(t)) :
         asg' = WithPending([a \in new |-> asg[heir[a]].employee], t, c)
  BY <1>5
<1> DEFINE who == [a \in new |-> asg[heir[a]].employee]
<1>7. heir \in [new -> DoneOf(t)]
  BY DEF Bijection, Injection
<1>8. \A a \in DoneOf(t) : asg[a].employee \in Technicians
  BY AssignmentRow DEF DoneOf, ActiveOf, Rows, TypeOK, AsgRows
<1>9. who \in [new -> Technicians]
  BY <1>7, <1>8
<1>10. \A b \in new : who[b] = asg[heir[b]].employee
  OBVIOUS
<1>11. asg' = WithPending(who, t, c)
  BY <1>6
<1> HIDE DEF who, c
<1>12. Inserts(new, t, c) /\ \A b \in new : asg'[b].employee = who[b]
  BY <1>3, <1>9, <1>11, PendingEffect DEF Rows
<1>13. Heirs(new, heir, t)
  BY <1>10, <1>12 DEF Heirs
<1>14. /\ row \in Task
       /\ row.status = d
       /\ row.cancelled = task[t].cancelled
       /\ row.cycle = c
       /\ row.createdIn = task[t].createdIn
       /\ row.reopenedIn = revision
  <2> HIDE DEF d
  <2>1. revision \in Nat
    BY MaxRevisionIsNat DEF Rows, TypeOK
  <2> QED
    BY <1>2, <1>3, <1>4, <2>1 DEF Task
<1>15. task' = [task EXCEPT ![t] = row]
  BY DEF ReopenTask, c
<1> HIDE DEF row
<1>16. Replaces(t, row)
  <2>1. task \in TaskRows
    BY DEF Rows, TypeOK, TaskRows
  <2>2. task' \in TaskRows /\ task'[t] = row /\ \A u \in Tasks \ {t} : task'[u] = task[u]
    BY <1>14, <1>15, <2>1 DEF TaskRows
  <2>3. Inserted' = Inserted \cup {t}
    BY <1>14, <2>2, NoTaskIsNoRow DEF Inserted
  <2> QED
    BY <2>2, <2>3 DEF Replaces
<1>17. /\ Replaces(t, task'[t])
       /\ task'[t].status = d
       /\ task'[t].cancelled = task[t].cancelled
       /\ task'[t].cycle = c
       /\ task'[t].createdIn = task[t].createdIn
       /\ task'[t].reopenedIn = revision
  BY <1>14, <1>16 DEF Replaces
<1> QED
  BY <1>1, <1>12, <1>13, <1>17 DEF c, d

\* An open assignment gets another status and its task is derived again.
Responds(a, s) == Updates({a}, s) /\ Stores(asg[a].task)

LEMMA AssignmentCommandResponds ==
    ASSUME Rows, NEW a \in Assignments
    PROVE  /\ Accept(a) => Responds(a, "ACCEPTED")
           /\ Reject(a) => Responds(a, "REJECTED")
           /\ Start(a) => Responds(a, "IN_PROGRESS")
           /\ CompleteAssignment(a) => Responds(a, "DONE")
           /\ \A t \in Tasks : RemoveAssignee(t, a) => t = asg[a].task /\ Responds(a, "REMOVED")
<1>1. ASSUME Accept(a) PROVE Responds(a, "ACCEPTED")
  BY <1>1, RespondEffect DEF Accept, Mine, OpenRows, Open, Responds, AssignmentStatus
<1>2. ASSUME Reject(a) PROVE Responds(a, "REJECTED")
  BY <1>2, RespondEffect DEF Reject, Mine, OpenRows, Open, Responds, AssignmentStatus
<1>3. ASSUME Start(a) PROVE Responds(a, "IN_PROGRESS")
  BY <1>3, RespondEffect DEF Start, Mine, OpenRows, Open, Responds, AssignmentStatus
<1>4. ASSUME CompleteAssignment(a) PROVE Responds(a, "DONE")
  BY <1>4, RespondEffect DEF CompleteAssignment, Mine, OpenRows, Open, Responds, AssignmentStatus
<1>5. ASSUME NEW t \in Tasks, RemoveAssignee(t, a)
      PROVE  t = asg[a].task /\ Responds(a, "REMOVED")
  BY <1>5, RespondEffect DEF RemoveAssignee, Responds, AssignmentStatus
<1> QED
  BY <1>1, <1>2, <1>3, <1>4, <1>5

\* What a step may do to the rows of tasks and assignments.
LEMMA WorkSteps ==
    ASSUME Rows, [Next]_vars
    PROVE  \/ UNCHANGED <<task, asg>>
           \/ CancelActive
           \/ \E a \in Assignments, s \in AssignmentStatus : Responds(a, s)
           \/ \E t \in Tasks : CreateTask(t) \/ CancelTask(t) \/ ReopenTask(t)
           \/ \E t \in Tasks, a \in Assignments, e \in Technicians : AddAssignee(t, a, e)
<1>1. CASE UNCHANGED vars
  BY <1>1 DEF vars
<1>2. CASE OrderCommand
  BY <1>2 DEF OrderCommand, Submit, Recall, Cancel, Complete, RequestRevision,
      UploadConfirmation, RequestRevisionFromCustomerCare, work
<1>3. CASE AccountCommand
  BY <1>3 DEF AccountCommand, Deactivate, Activate, work
<1>4. CASE AssignmentCommand
  BY <1>4, AssignmentCommandResponds DEF AssignmentCommand, AssignmentStatus
<1>5. CASE TaskCommand
  BY <1>5, AssignmentCommandResponds DEF TaskCommand, AssignmentStatus
<1> QED
  BY <1>1, <1>2, <1>3, <1>4, <1>5 DEF Next

(***************************************************************************)
(* Type correctness                                                        *)
(***************************************************************************)
LEMMA RowsStayTyped ==
    ASSUME Rows, [Next]_vars
    PROVE  asg' \in AsgRows /\ task' \in TaskRows
<1>1. CASE UNCHANGED <<task, asg>>
  BY <1>1 DEF Rows, TypeOK, AsgRows, TaskRows
<1>2. CASE CancelActive
  BY <1>2, CancelActiveEffect DEF Updates
<1>3. ASSUME NEW a \in Assignments, NEW s \in AssignmentStatus, Responds(a, s)
      PROVE  asg' \in AsgRows /\ task' \in TaskRows
  BY <1>3 DEF Responds, Updates, Stores
<1>4. ASSUME NEW t \in Tasks, CreateTask(t)
      PROVE  asg' \in AsgRows /\ task' \in TaskRows
  BY <1>4, CreateTaskEffect DEF Inserts, Replaces
<1>5. ASSUME NEW t \in Tasks, CancelTask(t)
      PROVE  asg' \in AsgRows /\ task' \in TaskRows
  BY <1>5, CancelTaskEffect DEF Updates, Replaces
<1>6. ASSUME NEW t \in Tasks, ReopenTask(t)
      PROVE  asg' \in AsgRows /\ task' \in TaskRows
  BY <1>6, ReopenTaskEffect DEF Inserts, Replaces
<1>7. ASSUME NEW t \in Tasks, NEW a \in Assignments, NEW e \in Technicians,
             AddAssignee(t, a, e)
      PROVE  asg' \in AsgRows /\ task' \in TaskRows
  BY <1>7, AddAssigneeEffect DEF Inserts, Stores
<1> QED
  BY <1>1, <1>2, <1>3, <1>4, <1>5, <1>6, <1>7, WorkSteps

\* A row found after an update was there before; its status is the new one or
\* the one it had.
LEMMA UpdatedRow ==
    ASSUME NEW rows, NEW s, Updates(rows, s), NEW a \in Assignments
    PROVE  /\ asg'[a] # NoAssignment <=> asg[a] # NoAssignment
           /\ asg[a] # NoAssignment =>
                 /\ asg'[a].task = asg[a].task
                 /\ asg'[a].employee = asg[a].employee
                 /\ asg'[a].cycle = asg[a].cycle
                 /\ asg'[a].status = IF a \in rows THEN s ELSE asg[a].status
BY DEF Updates, OpenRows

\* A row found after an insertion was there before, or it is new and pending.
LEMMA InsertedRow ==
    ASSUME NEW new, NEW t, NEW c, Inserts(new, t, c), NEW a \in Assignments
    PROVE  /\ a \in new => /\ asg[a] = NoAssignment
                           /\ asg'[a] # NoAssignment
                           /\ asg'[a].task = t
                           /\ asg'[a].cycle = c
                           /\ asg'[a].status = "PENDING"
           /\ a \notin new => asg'[a] = asg[a]
BY DEF Inserts, Fresh

LEMMA RowsStayLinked ==
    ASSUME Rows, [Next]_vars
    PROVE  RowsHaveTasks'
<1>0. /\ RowsHaveTasks
      /\ \A t \in Inserted : t \in Tasks /\ task[t].cycle \in Nat
      /\ \A a \in Assignments : asg[a] # NoAssignment => asg[a].cycle \in Nat
  BY TaskRow, AssignmentRow DEF Rows, TypeOK, AsgRows
<1>1. CASE UNCHANGED <<task, asg>>
  BY <1>0, <1>1 DEF RowsHaveTasks, Inserted
<1>2. CASE CancelActive
  <2>1. \A t \in Inserted : task'[t].cycle = task[t].cycle
    BY <1>2, CancelActiveEffect, CancelledRow, TaskRow DEF Rows
  <2>2. Updates(OpenRows, "REMOVED") /\ Inserted' = Inserted
    BY <1>2, CancelActiveEffect
  <2> QED
    BY <1>0, <2>1, <2>2, UpdatedRow DEF RowsHaveTasks
<1>3. ASSUME NEW a \in Assignments, NEW s \in AssignmentStatus, Responds(a, s)
      PROVE  RowsHaveTasks'
  <2>1. \A t \in Inserted : task'[t].cycle = task[t].cycle
    BY <1>0, <1>3 DEF Responds, Stores
  <2> QED
    BY <1>0, <1>3, <2>1, UpdatedRow DEF RowsHaveTasks, Responds, Stores
<1>4. ASSUME NEW t \in Tasks, CreateTask(t)
      PROVE  RowsHaveTasks'
  BY <1>0, <1>4, CreateTaskEffect DEF RowsHaveTasks, Inserts, Replaces
<1>5. ASSUME NEW t \in Tasks, CancelTask(t)
      PROVE  RowsHaveTasks'
  <2>1. \A u \in Inserted : task'[u].cycle = task[u].cycle
    <3>1. /\ t \in Inserted
          /\ Replaces(t, [task[t] EXCEPT !.cancelled = TRUE, !.status = "CANCELLED"])
      BY <1>5, CancelTaskEffect
    <3>2. task'[t].cycle = task[t].cycle
      BY <3>1, CancelledRow DEF Replaces, Rows
    <3>3. \A u \in Inserted \ {t} : task'[u] = task[u]
      BY <1>0, <3>1 DEF Replaces
    <3> QED
      BY <3>2, <3>3
  <2>2. /\ Updates({a \in OpenRows : asg[a].task = t}, "REMOVED")
        /\ Inserted' = Inserted
    BY <1>5, CancelTaskEffect DEF Replaces
  <2> QED
    BY <1>0, <2>1, <2>2, UpdatedRow DEF RowsHaveTasks
<1>6. ASSUME NEW t \in Tasks, ReopenTask(t)
      PROVE  RowsHaveTasks'
  <2>1. PICK new \in SUBSET Fresh : Inserts(new, t, task[t].cycle + 1)
    BY <1>6, ReopenTaskEffect
  <2>2. /\ Inserted' = Inserted
        /\ t \in Inserted
        /\ task'[t].cycle = task[t].cycle + 1
        /\ \A u \in Tasks \ {t} : task'[u] = task[u]
    BY <1>6, ReopenTaskEffect DEF Replaces
  <2> QED
    BY <1>0, <2>1, <2>2, InsertedRow DEF RowsHaveTasks
<1>7. ASSUME NEW t \in Tasks, NEW a \in Assignments, NEW e \in Technicians,
             AddAssignee(t, a, e)
      PROVE  RowsHaveTasks'
  <2>1. \A u \in Inserted : task'[u].cycle = task[u].cycle
    BY <1>0, <1>7, AddAssigneeEffect DEF Stores
  <2> QED
    BY <1>0, <1>7, <2>1, AddAssigneeEffect DEF RowsHaveTasks, Inserts, Stores
<1> QED
  BY <1>1, <1>2, <1>3, <1>4, <1>5, <1>6, <1>7, WorkSteps

\* What the commands that may move the order do to it.
LEMMA TransitionStaysTyped ==
    ASSUME TypeOK,
           NEW command \in {"submit", "recall", "complete", "request_revision", "cancel",
                            "cancel_active"},
           ApplyTransition(command)
    PROVE  status' \in OrderStatus /\ trail' \in [from : OrderStatus, to : OrderStatus]
BY DEF TypeOK, ApplyTransition, OrderMoves, Transition, OrderStatus

LEMMA ReevaluateStaysTyped ==
    ASSUME TypeOK, NEW rows, ReevaluateDispatchState(rows)
    PROVE  status' \in OrderStatus /\ trail' \in [from : OrderStatus, to : OrderStatus]
BY DEF TypeOK, ReevaluateDispatchState, OrderMoves, OrderStays, OrderStatus

LEMMA OrderStaysTyped ==
    ASSUME Rows, [Next]_vars
    PROVE  /\ status' \in OrderStatus
           /\ revision' \in 0..MaxRevision
           /\ confirmed' \subseteq 0..revision'
           /\ defects' \subseteq Assignments
           /\ trail' \in [from : OrderStatus, to : OrderStatus]
           /\ care' \in {"none", "revision_requested", "request_revision"}
           /\ onDuty' \subseteq Technicians
<1> DEFINE Typed == /\ status' \in OrderStatus
                    /\ revision' \in 0..MaxRevision
                    /\ confirmed' \subseteq 0..revision'
                    /\ defects' \subseteq Assignments
                    /\ trail' \in [from : OrderStatus, to : OrderStatus]
                    /\ care' \in {"none", "revision_requested", "request_revision"}
                    /\ onDuty' \subseteq Technicians
<1>0. TypeOK /\ revision \in Nat /\ MaxRevision \in Nat
  BY MaxRevisionIsNat DEF Rows, TypeOK
<1>1. CASE UNCHANGED vars
  BY <1>0, <1>1 DEF vars, TypeOK
<1>2. CASE OrderCommand
  <2>1. CASE Submit \/ Recall \/ Cancel \/ Complete \/ CancelActive
    BY <1>0, <2>1, TransitionStaysTyped
    DEF Submit, Recall, Cancel, Complete, CancelActive, work, TypeOK
  <2>2. CASE RequestRevision
    BY <1>0, <2>2, TransitionStaysTyped DEF RequestRevision, work, TypeOK
  <2>3. CASE UploadConfirmation
    <3>1. PICK read \in 0..revision : confirmed' = confirmed \cup {read}
      BY <2>3 DEF UploadConfirmation
    <3>2. confirmed' \subseteq 0..revision
      BY <1>0, <3>1 DEF TypeOK
    <3> QED
      BY <1>0, <2>3, <3>2 DEF UploadConfirmation, work, TypeOK
  <2>4. CASE RequestRevisionFromCustomerCare
    BY <1>0, <2>4 DEF RequestRevisionFromCustomerCare, work, TypeOK
  <2> QED
    BY <1>2, <2>1, <2>2, <2>3, <2>4 DEF OrderCommand
<1>3. CASE TaskCommand
  <2>1. PICK t \in Tasks :
          \/ CreateTask(t) \/ CancelTask(t) \/ ReopenTask(t)
          \/ \E a \in Assignments :
                \/ \E e \in Technicians : AddAssignee(t, a, e)
                \/ RemoveAssignee(t, a)
    BY <1>3 DEF TaskCommand
  <2>2. CASE CreateTask(t) \/ CancelTask(t)
    BY <1>0, <2>2, ReevaluateStaysTyped DEF CreateTask, CancelTask, TypeOK
  <2>3. CASE ReopenTask(t)
    BY <1>0, <2>3 DEF ReopenTask, RecordDefects, DoneOf, ActiveOf, TypeOK
  <2>4. ASSUME NEW a \in Assignments, NEW e \in Technicians, AddAssignee(t, a, e)
        PROVE  Typed
    BY <1>0, <2>4 DEF AddAssignee, TypeOK
  <2>5. ASSUME NEW a \in Assignments, RemoveAssignee(t, a)
        PROVE  Typed
    BY <1>0, <2>5, ReevaluateStaysTyped DEF RemoveAssignee, TypeOK
  <2> QED
    BY <2>1, <2>2, <2>3, <2>4, <2>5
<1>4. CASE AssignmentCommand
  <2>1. PICK a \in Assignments : Accept(a) \/ Reject(a) \/ Start(a) \/ CompleteAssignment(a)
    BY <1>4 DEF AssignmentCommand
  <2>2. CASE Accept(a) \/ Start(a)
    BY <1>0, <2>2 DEF Accept, Start, TypeOK
  <2>3. CASE Reject(a)
    BY <1>0, <2>3, ReevaluateStaysTyped DEF Reject, TypeOK
  <2>4. CASE CompleteAssignment(a)
    <3>1. \/ OrderStays
          \/ OrderMoves("AWAITING_CONFIRMATION")
      BY <2>4 DEF CompleteAssignment
    <3>2. UNCHANGED <<revision, confirmed, defects, care, onDuty>>
      BY <2>4 DEF CompleteAssignment
    <3> QED
      BY <1>0, <3>1, <3>2 DEF OrderMoves, OrderStays, TypeOK, OrderStatus
  <2> QED
    BY <2>1, <2>2, <2>3, <2>4
<1>5. CASE AccountCommand
  BY <1>0, <1>5 DEF AccountCommand, Deactivate, Activate, work, TypeOK
<1> QED
  BY <1>1, <1>2, <1>3, <1>4, <1>5 DEF Next

\* Every row stays typed and linked.
THEOREM RowsInvariant == Spec => []Rows
<1>1. Init => Rows
  BY MaxRevisionIsNat
  DEF Init, Rows, TypeOK, RowsHaveTasks, OrderStatus
<1>2. Rows /\ [Next]_vars => Rows'
  BY RowsStayTyped, RowsStayLinked, OrderStaysTyped
  DEF Rows, TypeOK, AsgRows, TaskRows
<1> QED
  BY <1>1, <1>2, PTL DEF Spec

\* No command stores a value outside the columns' domains.
THEOREM TypeCorrect == Spec => []TypeOK
<1>1. Rows => TypeOK
  BY DEF Rows
<1> QED
  BY <1>1, RowsInvariant, PTL

(***************************************************************************)
(* The stored status of a task                                             *)
(***************************************************************************)
\* The rows of other tasks do not count.
LEMMA DerivedUntouched ==
    ASSUME NEW u, NEW c, NEW x,
           \A a \in Assignments :
              \/ asg'[a] = asg[a]
              \/ /\ asg[a] # NoAssignment => asg[a].task # u
                 /\ asg'[a] # NoAssignment => asg'[a].task # u
    PROVE  DerivedStatus(asg', u, c, x) = DerivedStatus(asg, u, c, x)
<1>1. ActiveOf(asg', u, c) = ActiveOf(asg, u, c)
  BY DEF ActiveOf
<1>2. \A a \in ActiveOf(asg, u, c) : asg'[a].status = asg[a].status
  BY DEF ActiveOf
<1>3. {asg'[a].status : a \in ActiveOf(asg', u, c)} = {asg[a].status : a \in ActiveOf(asg, u, c)}
  BY <1>1, <1>2
<1> QED
  BY <1>3 DEF DerivedStatus

\* What a DONE task tells of its assignments.
LEMMA DoneTask ==
    ASSUME StoredStatusIsDerived, NEW t \in Inserted, task[t].status = "DONE",
           task[t].cancelled \in BOOLEAN
    PROVE  /\ task[t].cancelled = FALSE
           /\ ActiveOf(asg, t, task[t].cycle) # {}
           /\ \A a \in ActiveOf(asg, t, task[t].cycle) : asg[a].status = "DONE"
<1> DEFINE S == {asg[a].status : a \in ActiveOf(asg, t, task[t].cycle)}
<1>1. DeriveTaskStatus(S, task[t].cancelled) = "DONE"
  BY DEF StoredStatusIsDerived, DerivedStatus
<1>2. \A a \in ActiveOf(asg, t, task[t].cycle) : asg[a].status \in S
  OBVIOUS
<1>3. ActiveOf(asg, t, task[t].cycle) = {} => S = {}
  OBVIOUS
<1> HIDE DEF S
<1>4. task[t].cancelled = FALSE /\ S # {} /\ S \subseteq {"DONE"}
  BY <1>1 DEF DeriveTaskStatus
<1> QED
  BY <1>2, <1>3, <1>4

LEMMA StoredUnlessTouched ==
    ASSUME StoredStatusIsDerived, NEW u \in Inserted,
           task'[u] = task[u],
           \A a \in Assignments :
              \/ asg'[a] = asg[a]
              \/ /\ asg[a] # NoAssignment => asg[a].task # u
                 /\ asg'[a] # NoAssignment => asg'[a].task # u
    PROVE  task'[u].status = DerivedStatus(asg', u, task'[u].cycle, task'[u].cancelled)
BY DerivedUntouched DEF StoredStatusIsDerived

LEMMA StoredStaysDerived ==
    ASSUME Rows, StoredStatusIsDerived, [Next]_vars
    PROVE  StoredStatusIsDerived'
<1>0. \A t \in Inserted : t \in Tasks /\ task[t].cancelled \in BOOLEAN /\ task[t].cycle \in Nat
  BY TaskRow DEF Rows
<1>1. CASE UNCHANGED <<task, asg>>
  BY <1>1 DEF StoredStatusIsDerived, Inserted, DerivedStatus, ActiveOf
<1>2. CASE CancelActive
  <2>1. SUFFICES ASSUME NEW t \in Inserted
                 PROVE  task'[t].status =
                            DerivedStatus(asg', t, task'[t].cycle, task'[t].cancelled)
    BY <1>2, CancelActiveEffect DEF StoredStatusIsDerived
  <2>2. CASE task[t].status = "DONE"
    <3>1. task'[t] = task[t]
      BY <1>0, <1>2, <2>2, CancelActiveEffect
    <3>2. Updates(OpenRows, "REMOVED") /\ \A a \in OpenRows : task[asg[a].task].status # "DONE"
      BY <1>2, CancelActiveEffect DEF CancelActive
    <3>3. \A a \in Assignments :
              \/ asg'[a] = asg[a]
              \/ /\ asg[a] # NoAssignment => asg[a].task # t
                 /\ asg'[a] # NoAssignment => asg'[a].task # t
      BY <2>2, <3>2, UpdatedRow DEF Updates
    <3> QED
      BY <3>1, <3>3, StoredUnlessTouched
  <2>3. CASE task[t].status # "DONE"
    <3>1. task'[t].cancelled = TRUE /\ task'[t].status = "CANCELLED"
      BY <1>0, <1>2, <2>3, CancelActiveEffect, CancelledRow DEF Rows
    <3> QED
      BY <3>1 DEF DerivedStatus, DeriveTaskStatus
  <2> QED
    BY <2>2, <2>3
<1>3. ASSUME NEW a \in Assignments, NEW s \in AssignmentStatus, Responds(a, s)
      PROVE  StoredStatusIsDerived'
  <2>1. SUFFICES ASSUME NEW t \in Inserted
                 PROVE  task'[t].status =
                            DerivedStatus(asg', t, task'[t].cycle, task'[t].cancelled)
    BY <1>3 DEF Responds, Stores, StoredStatusIsDerived
  <2>2. CASE t = asg[a].task
    BY <1>3, <2>2 DEF Responds, Stores
  <2>3. CASE t # asg[a].task
    BY <1>0, <1>3, <2>3, UpdatedRow, StoredUnlessTouched DEF Responds, Stores, Updates
  <2> QED
    BY <2>2, <2>3
<1>4. ASSUME NEW t \in Tasks, CreateTask(t)
      PROVE  StoredStatusIsDerived'
  <2>1. PICK new \in SUBSET Fresh :
            /\ new # {}
            /\ Inserts(new, t, 1)
            /\ t \notin Inserted
            /\ Inserted' = Inserted \cup {t}
            /\ \A u \in Tasks \ {t} : task'[u] = task[u]
            /\ task'[t].status = "PENDING_ACCEPTANCE"
            /\ task'[t].cycle = 1
            /\ task'[t].cancelled = FALSE
    BY <1>4, CreateTaskEffect DEF Replaces
  <2>2. ActiveOf(asg', t, 1) = new
    <3>1. \A a \in Assignments : asg[a] # NoAssignment => asg[a].task # t
      BY <2>1 DEF Rows, RowsHaveTasks
    <3> QED
      BY <2>1, <3>1, InsertedRow DEF ActiveOf, Active, Open, Fresh
  <2>3. {asg'[a].status : a \in ActiveOf(asg', t, 1)} = {"PENDING"}
    BY <2>1, <2>2, InsertedRow DEF Fresh
  <2>4. task'[t].status = DerivedStatus(asg', t, task'[t].cycle, task'[t].cancelled)
    BY <2>1, <2>3 DEF DerivedStatus, DeriveTaskStatus
  <2>5. ASSUME NEW u \in Inserted
        PROVE  task'[u].status = DerivedStatus(asg', u, task'[u].cycle, task'[u].cancelled)
    BY <1>0, <2>1, InsertedRow, StoredUnlessTouched
  <2> QED
    BY <2>1, <2>4, <2>5 DEF StoredStatusIsDerived
<1>5. ASSUME NEW t \in Tasks, CancelTask(t)
      PROVE  StoredStatusIsDerived'
  <2>1. /\ t \in Inserted
        /\ Inserted' = Inserted
        /\ \A u \in Tasks \ {t} : task'[u] = task[u]
        /\ task'[t].cancelled = TRUE
        /\ task'[t].status = "CANCELLED"
    <3>1. /\ t \in Inserted
          /\ Replaces(t, [task[t] EXCEPT !.cancelled = TRUE, !.status = "CANCELLED"])
      BY <1>5, CancelTaskEffect
    <3>2. task'[t].cancelled = TRUE /\ task'[t].status = "CANCELLED"
      BY <3>1, CancelledRow DEF Replaces, Rows
    <3> QED
      BY <3>1, <3>2 DEF Replaces
  <2>2. Updates({a \in OpenRows : asg[a].task = t}, "REMOVED")
    BY <1>5, CancelTaskEffect
  <2>3. task'[t].status = DerivedStatus(asg', t, task'[t].cycle, task'[t].cancelled)
    BY <2>1 DEF DerivedStatus, DeriveTaskStatus
  <2>4. ASSUME NEW u \in Inserted \ {t}
        PROVE  task'[u].status = DerivedStatus(asg', u, task'[u].cycle, task'[u].cancelled)
    <3>1. \A a \in Assignments :
              \/ asg'[a] = asg[a]
              \/ /\ asg[a] # NoAssignment => asg[a].task # u
                 /\ asg'[a] # NoAssignment => asg'[a].task # u
      BY <2>2, UpdatedRow DEF Updates
    <3> QED
      BY <1>0, <2>1, <3>1, StoredUnlessTouched
  <2> QED
    BY <2>1, <2>3, <2>4 DEF StoredStatusIsDerived
<1>6. ASSUME NEW t \in Tasks, ReopenTask(t)
      PROVE  StoredStatusIsDerived'
  <2>1. PICK new \in SUBSET Fresh : Inserts(new, t, task[t].cycle + 1)
    BY <1>6, ReopenTaskEffect
  <2>2. task[t].cancelled = FALSE
    BY <1>0, <1>6, DoneTask DEF ReopenTask
  <2>3. task'[t].status = DerivedStatus(asg', t, task'[t].cycle, task'[t].cancelled)
    BY <1>6, <2>2, ReopenTaskEffect
  <2>4. ASSUME NEW u \in Inserted \ {t}
        PROVE  task'[u].status = DerivedStatus(asg', u, task'[u].cycle, task'[u].cancelled)
    <3>1. task'[u] = task[u]
      BY <1>0, <1>6, ReopenTaskEffect DEF Replaces
    <3> QED
      BY <2>1, <3>1, InsertedRow, StoredUnlessTouched
  <2>5. Inserted' = Inserted
    BY <1>6, ReopenTaskEffect DEF Replaces
  <2> QED
    BY <2>3, <2>4, <2>5 DEF StoredStatusIsDerived
<1>7. ASSUME NEW t \in Tasks, NEW a \in Assignments, NEW e \in Technicians,
             AddAssignee(t, a, e)
      PROVE  StoredStatusIsDerived'
  <2>1. Inserts({a}, t, task[t].cycle) /\ Stores(t)
    BY <1>7, AddAssigneeEffect
  <2>2. SUFFICES ASSUME NEW u \in Inserted
                 PROVE  task'[u].status =
                            DerivedStatus(asg', u, task'[u].cycle, task'[u].cancelled)
    BY <2>1 DEF Stores, StoredStatusIsDerived
  <2>3. CASE u = t
    BY <2>1, <2>3 DEF Stores
  <2>4. CASE u # t
    BY <1>0, <2>1, <2>4, InsertedRow, StoredUnlessTouched DEF Stores
  <2> QED
    BY <2>3, <2>4
<1> QED
  BY <1>1, <1>2, <1>3, <1>4, <1>5, <1>6, <1>7, WorkSteps

\* Each command that changes assignments of a task stores the status derived
\* from them, and no command changes one without the other.
THEOREM StoredStatusCorrect == Spec => []StoredStatusIsDerived
<1>1. Init => StoredStatusIsDerived
  BY DEF Init, StoredStatusIsDerived, Inserted
<1>2. Rows /\ StoredStatusIsDerived /\ [Next]_vars => StoredStatusIsDerived'
  BY StoredStaysDerived
<1> QED
  BY <1>1, <1>2, RowsInvariant, PTL DEF Spec

(***************************************************************************)
(* Open assignments                                                        *)
(***************************************************************************)
\* The strengthening of OpenWorkIsOfCurrentCycle that a step preserves.
OpenWorkIsLive ==
    \A a \in OpenRows : /\ task[asg[a].task].cancelled = FALSE
                        /\ asg[a].cycle = task[asg[a].task].cycle

RowsInv == Rows /\ StoredStatusIsDerived /\ OpenWorkIsLive

\* The open assignments after an update were open before it.
LEMMA OpenAfterUpdate ==
    ASSUME NEW rows, NEW s, Updates(rows, s), NEW a \in OpenRows'
    PROVE  /\ a \in OpenRows
           /\ asg'[a].task = asg[a].task
           /\ asg'[a].cycle = asg[a].cycle
           /\ s \notin Open => a \notin rows
<1>1. a \in Assignments /\ asg'[a] # NoAssignment /\ asg'[a].status \in Open
  BY DEF OpenRows
<1>2. a \in OpenRows
  BY <1>1, UpdatedRow DEF OpenRows, Updates
<1> QED
  BY <1>1, <1>2, UpdatedRow

\* Those after an insertion were open before it, or are new.
LEMMA OpenAfterInsert ==
    ASSUME NEW new, NEW t, NEW c, Inserts(new, t, c), NEW a \in OpenRows'
    PROVE  \/ a \in new /\ asg'[a].task = t /\ asg'[a].cycle = c
           \/ a \in OpenRows /\ asg'[a] = asg[a]
<1>1. a \in Assignments /\ asg'[a] # NoAssignment /\ asg'[a].status \in Open
  BY DEF OpenRows
<1> QED
  BY <1>1, InsertedRow DEF OpenRows

\* An open assignment counts for its task, whose status is not DONE, then.
LEMMA OpenRowHasTask ==
    ASSUME RowsInv, NEW a \in OpenRows
    PROVE  /\ asg[a].task \in Inserted
           /\ a \in ActiveOf(asg, asg[a].task, task[asg[a].task].cycle)
           /\ task[asg[a].task].status \notin {"DONE", "CANCELLED"}
<1> DEFINE t == asg[a].task
           S == {asg[b].status : b \in ActiveOf(asg, t, task[t].cycle)}
<1>1. t \in Inserted /\ asg[a].status \in Open /\ asg[a].cycle = task[t].cycle /\ a \in Assignments
  BY DEF RowsInv, Rows, RowsHaveTasks, OpenRows, OpenWorkIsLive
<1>2. a \in ActiveOf(asg, t, task[t].cycle)
  BY <1>1 DEF ActiveOf, Active, OpenRows
<1>3. asg[a].status \in S
  BY <1>2
<1>4. task[t].cancelled = FALSE
  BY DEF RowsInv, OpenWorkIsLive
<1>5. task[t].status = DeriveTaskStatus(S, FALSE)
  BY <1>1, <1>4 DEF RowsInv, StoredStatusIsDerived, DerivedStatus
<1> HIDE DEF S
<1>6. task[t].status \notin {"DONE", "CANCELLED"}
  BY <1>1, <1>3, <1>5 DEF DeriveTaskStatus, Open
<1> QED
  BY <1>1, <1>2, <1>6

LEMMA OpenWorkStaysLive ==
    ASSUME RowsInv, [Next]_vars
    PROVE  OpenWorkIsLive'
<1>0. /\ Rows /\ StoredStatusIsDerived /\ OpenWorkIsLive
      /\ \A t \in Inserted : t \in Tasks /\ task[t].cancelled \in BOOLEAN
      /\ \A a \in OpenRows : asg[a].task \in Inserted
  BY TaskRow, OpenRowHasTask DEF RowsInv, Rows
<1>1. CASE UNCHANGED <<task, asg>>
  BY <1>0, <1>1 DEF OpenWorkIsLive, OpenRows
<1>2. CASE CancelActive
  <2>1. Updates(OpenRows, "REMOVED")
    BY <1>2, CancelActiveEffect, <1>0
  <2> QED
    BY <2>1, OpenAfterUpdate DEF Open, OpenWorkIsLive
<1>3. ASSUME NEW a \in Assignments, NEW s \in AssignmentStatus, Responds(a, s)
      PROVE  OpenWorkIsLive'
  <2>1. \A t \in Inserted : /\ task'[t].cancelled = task[t].cancelled
                            /\ task'[t].cycle = task[t].cycle
    BY <1>0, <1>3 DEF Responds, Stores
  <2> QED
    BY <1>0, <1>3, <2>1, OpenAfterUpdate DEF Responds, OpenWorkIsLive
<1>4. ASSUME NEW t \in Tasks, CreateTask(t)
      PROVE  OpenWorkIsLive'
  <2>1. PICK new \in SUBSET Fresh :
            /\ Inserts(new, t, 1)
            /\ t \notin Inserted
            /\ \A u \in Tasks \ {t} : task'[u] = task[u]
            /\ task'[t].cycle = 1
            /\ task'[t].cancelled = FALSE
    BY <1>0, <1>4, CreateTaskEffect DEF Replaces
  <2> QED
    BY <1>0, <2>1, OpenAfterInsert DEF OpenWorkIsLive
<1>5. ASSUME NEW t \in Tasks, CancelTask(t)
      PROVE  OpenWorkIsLive'
  <2>1. /\ Updates({a \in OpenRows : asg[a].task = t}, "REMOVED")
        /\ \A u \in Tasks \ {t} : task'[u] = task[u]
    BY <1>0, <1>5, CancelTaskEffect DEF Replaces
  <2> QED
    BY <1>0, <2>1, OpenAfterUpdate DEF Open, OpenWorkIsLive
<1>6. ASSUME NEW t \in Tasks, ReopenTask(t)
      PROVE  OpenWorkIsLive'
  <2>1. PICK new \in SUBSET Fresh : Inserts(new, t, task[t].cycle + 1)
    BY <1>0, <1>6, ReopenTaskEffect
  <2>2. /\ \A u \in Tasks \ {t} : task'[u] = task[u]
        /\ task'[t].cycle = task[t].cycle + 1
        /\ task'[t].cancelled = task[t].cancelled
        /\ t \in Inserted /\ task[t].status = "DONE"
    BY <1>0, <1>6, ReopenTaskEffect DEF Replaces, ReopenTask
  <2>3. task[t].cancelled = FALSE
    BY <1>0, <2>2, DoneTask
  <2>4. \A a \in OpenRows : asg[a].task # t
    BY <2>2, OpenRowHasTask
  <2> QED
    BY <1>0, <2>1, <2>2, <2>3, <2>4, OpenAfterInsert DEF OpenWorkIsLive
<1>7. ASSUME NEW t \in Tasks, NEW a \in Assignments, NEW e \in Technicians,
             AddAssignee(t, a, e)
      PROVE  OpenWorkIsLive'
  <2>1. Inserts({a}, t, task[t].cycle) /\ Stores(t)
    BY <1>0, <1>7, AddAssigneeEffect
  <2>2. task[t].cancelled = FALSE
    <3>1. t \in Inserted /\ task[t].status # "CANCELLED"
      BY <1>7 DEF AddAssignee, Unfinished
    <3> QED
      BY <1>0, <3>1 DEF StoredStatusIsDerived, DerivedStatus, DeriveTaskStatus
  <2>3. \A u \in Inserted : /\ task'[u].cancelled = task[u].cancelled
                            /\ task'[u].cycle = task[u].cycle
    BY <1>0, <2>1 DEF Stores
  <2> QED
    BY <1>0, <2>1, <2>2, <2>3, OpenAfterInsert DEF Stores, OpenWorkIsLive
<1> QED
  BY <1>0, <1>1, <1>2, <1>3, <1>4, <1>5, <1>6, <1>7, WorkSteps

THEOREM RowsInvCorrect == Spec => []RowsInv
<1>1. Init => OpenWorkIsLive
  BY DEF Init, OpenWorkIsLive, OpenRows
<1>2. Rows /\ StoredStatusIsDerived /\ OpenWorkIsLive /\ [Next]_vars => OpenWorkIsLive'
  BY OpenWorkStaysLive DEF RowsInv
<1>3. Rows /\ StoredStatusIsDerived /\ OpenWorkIsLive => RowsInv
  BY DEF RowsInv
<1> QED
  BY <1>1, <1>2, <1>3, RowsInvariant, StoredStatusCorrect, PTL DEF Spec

\* Counters that count open assignments without looking at the cycle count
\* only work of the current one: reopening a task leaves nothing open behind.
THEOREM OpenWorkIsCurrent == Spec => []OpenWorkIsOfCurrentCycle
<1>1. RowsInv => OpenWorkIsOfCurrentCycle
  BY DEF RowsInv, OpenWorkIsLive, OpenWorkIsOfCurrentCycle
<1> QED
  BY <1>1, RowsInvCorrect, PTL

\* cancel_active finds the task of each assignment it removes among the tasks
\* that are not DONE: its lookup never fails.
THEOREM CancelActiveFindsTasks == Spec => []NoOpenWorkOnDoneTask
<1>1. RowsInv => NoOpenWorkOnDoneTask
  BY OpenRowHasTask DEF NoOpenWorkOnDoneTask
<1> QED
  BY <1>1, RowsInvCorrect, PTL

\* A step changes open assignments only, and those are of the current cycle:
\* what a closed cycle holds stays as it was when its task was reopened.
THEOREM ClosedCyclesStayFrozen == Spec => ClosedCyclesAreFrozen
<1> DEFINE Frozen ==
        \A a \in Assignments :
            asg[a] # NoAssignment /\ asg[a].cycle < task[asg[a].task].cycle
                => asg'[a] = asg[a]
<1>1. ASSUME RowsInv, [Next]_vars, NEW a \in Assignments, asg[a] # NoAssignment,
             asg[a].cycle < task[asg[a].task].cycle
      PROVE  asg'[a] = asg[a]
  <2>0. Rows /\ asg[a].cycle \in Nat
    BY <1>1, AssignmentRow DEF RowsInv, Rows, TypeOK, AsgRows
  <2>1. a \notin OpenRows
    BY <1>1, <2>0 DEF RowsInv, OpenWorkIsLive
  <2>2. ASSUME NEW rows, NEW s, Updates(rows, s) PROVE asg'[a] = asg[a]
    BY <2>1, <2>2 DEF Updates
  <2>3. ASSUME NEW new, NEW t, NEW c, Inserts(new, t, c) PROVE asg'[a] = asg[a]
    BY <1>1, <2>3, InsertedRow
  <2>4. CASE UNCHANGED <<task, asg>>
    BY <2>4
  <2>5. CASE CancelActive
    BY <2>0, <2>2, <2>5, CancelActiveEffect
  <2>6. CASE \E b \in Assignments, s \in AssignmentStatus : Responds(b, s)
    BY <2>2, <2>6 DEF Responds
  <2>7. ASSUME NEW t \in Tasks, CreateTask(t) \/ CancelTask(t) \/ ReopenTask(t)
        PROVE  asg'[a] = asg[a]
    BY <2>0, <2>2, <2>3, <2>7, CreateTaskEffect, CancelTaskEffect, ReopenTaskEffect
  <2>8. CASE \E t \in Tasks, b \in Assignments, e \in Technicians : AddAssignee(t, b, e)
    BY <2>0, <2>3, <2>8, AddAssigneeEffect
  <2> QED
    BY <1>1, <2>0, <2>4, <2>5, <2>6, <2>7, <2>8, WorkSteps
<1>2. RowsInv /\ [Next]_vars => [Frozen]_vars
  BY <1>1
<1> QED
  BY <1>2, RowsInvCorrect, PTL DEF Spec, ClosedCyclesAreFrozen

(***************************************************************************)
(* One active assignment for each technician, task and cycle               *)
(***************************************************************************)
ActiveRow(rows, a) == rows[a] # NoAssignment /\ rows[a].status \in Active

\* The key of the table's unique index.
SameKey(rows, a, b) ==
    /\ rows[a].task = rows[b].task
    /\ rows[a].employee = rows[b].employee
    /\ rows[a].cycle = rows[b].cycle

LEMMA KeyInvariant ==
    ASSUME OneActiveAssignment, NEW a \in Assignments, NEW b \in Assignments,
           ActiveRow(asg, a), ActiveRow(asg, b), SameKey(asg, a, b)
    PROVE  a = b
BY DEF OneActiveAssignment, ActiveRow, SameKey

\* An update makes no row active that was not.
LEMMA OneActiveAfterUpdate ==
    ASSUME OneActiveAssignment, NEW rows, NEW s, Updates(rows, s)
    PROVE  OneActiveAssignment'
<1>1. SUFFICES ASSUME NEW a \in Assignments, NEW b \in Assignments,
                      ActiveRow(asg', a), ActiveRow(asg', b), SameKey(asg', a, b)
               PROVE  a = b
  BY DEF OneActiveAssignment, ActiveRow, SameKey
<1>2. ASSUME NEW x \in Assignments, ActiveRow(asg', x)
      PROVE  /\ ActiveRow(asg, x)
             /\ asg'[x].task = asg[x].task
             /\ asg'[x].employee = asg[x].employee
             /\ asg'[x].cycle = asg[x].cycle
  <2>1. asg[x] # NoAssignment
    BY <1>2, UpdatedRow DEF ActiveRow
  <2>2. asg[x].status \in Active
    BY <1>2, <2>1, UpdatedRow DEF Updates, OpenRows, Active, ActiveRow
  <2> QED
    BY <2>1, <2>2, UpdatedRow DEF ActiveRow
<1>3. ActiveRow(asg, a) /\ ActiveRow(asg, b) /\ SameKey(asg, a, b)
  BY <1>1, <1>2 DEF SameKey
<1> QED
  BY <1>3, KeyInvariant

\* An insertion keeps the key unique if the new rows differ in their employees
\* and from the active rows already there.
LEMMA OneActiveAfterInsert ==
    ASSUME OneActiveAssignment, NEW new, NEW t, NEW c, Inserts(new, t, c),
           \A a, b \in new : asg'[a].employee = asg'[b].employee => a = b,
           \A a \in new, b \in Assignments :
              ActiveRow(asg, b) /\ asg[b].task = t /\ asg[b].cycle = c
                 => asg[b].employee # asg'[a].employee
    PROVE  OneActiveAssignment'
<1>1. SUFFICES ASSUME NEW a \in Assignments, NEW b \in Assignments,
                      ActiveRow(asg', a), ActiveRow(asg', b), SameKey(asg', a, b)
               PROVE  a = b
  BY DEF OneActiveAssignment, ActiveRow, SameKey
<1>2. CASE a \in new /\ b \in new
  BY <1>1, <1>2 DEF SameKey
<1>3. CASE a \notin new /\ b \notin new
  <2>1. asg'[a] = asg[a] /\ asg'[b] = asg[b]
    BY <1>3, InsertedRow
  <2> QED
    BY <1>1, <2>1, KeyInvariant DEF ActiveRow, SameKey
<1>4. ASSUME NEW x \in Assignments \ new, NEW y \in new, SameKey(asg', x, y),
             ActiveRow(asg', x)
      PROVE  FALSE
  <2>1. asg'[x] = asg[x]
    BY InsertedRow
  <2>2. asg'[y].task = t /\ asg'[y].cycle = c
    BY InsertedRow DEF Inserts, Fresh
  <2> QED
    BY <1>4, <2>1, <2>2 DEF SameKey, ActiveRow
<1>5. SameKey(asg', b, a)
  BY <1>1 DEF SameKey
<1> QED
  BY <1>1, <1>2, <1>3, <1>4, <1>5

LEMMA OneActiveStays ==
    ASSUME RowsInv, OneActiveAssignment, [Next]_vars
    PROVE  OneActiveAssignment'
<1>0. Rows /\ \A t \in Inserted : task[t].cycle \in Nat
  BY TaskRow DEF RowsInv, Rows
<1>1. CASE UNCHANGED <<task, asg>>
  BY <1>1 DEF OneActiveAssignment
<1>2. CASE CancelActive
  BY <1>0, <1>2, CancelActiveEffect, OneActiveAfterUpdate
<1>3. CASE \E a \in Assignments, s \in AssignmentStatus : Responds(a, s)
  BY <1>3, OneActiveAfterUpdate DEF Responds
<1>4. ASSUME NEW t \in Tasks, CreateTask(t)
      PROVE  OneActiveAssignment'
  <2>1. \A b \in Assignments : ActiveRow(asg, b) => asg[b].task # t
    BY <1>0, <1>4, CreateTaskEffect DEF Rows, RowsHaveTasks, ActiveRow
  <2> QED
    BY <1>0, <1>4, <2>1, CreateTaskEffect, OneActiveAfterInsert
<1>5. ASSUME NEW t \in Tasks, CancelTask(t)
      PROVE  OneActiveAssignment'
  BY <1>0, <1>5, CancelTaskEffect, OneActiveAfterUpdate
<1>6. ASSUME NEW t \in Tasks, ReopenTask(t)
      PROVE  OneActiveAssignment'
  <2> DEFINE c == task[t].cycle + 1
  <2>1. PICK new \in SUBSET Fresh : Inserts(new, t, c) /\ \E heir : Heirs(new, heir, t)
    BY <1>0, <1>6, ReopenTaskEffect
  <2>2. PICK heir : Heirs(new, heir, t)
    BY <2>1
  <2>3. heir \in [new -> DoneOf(t)] /\ \A a, b \in new : heir[a] = heir[b] => a = b
    BY <2>2 DEF Heirs, Bijection, Injection, IsInjective
  <2>4. \A a, b \in DoneOf(t) : asg[a].employee = asg[b].employee => a = b
    BY KeyInvariant DEF DoneOf, ActiveOf, ActiveRow, SameKey
  <2>5. \A a, b \in new : asg'[a].employee = asg'[b].employee => a = b
    BY <2>2, <2>3, <2>4 DEF Heirs
  <2>6. \A b \in Assignments : ActiveRow(asg, b) /\ asg[b].task = t => asg[b].cycle # c
    <3>1. t \in Inserted /\ task[t].cycle \in Nat
      BY <1>0, <1>6 DEF ReopenTask
    <3> QED
      BY <1>0, <3>1, AssignmentRow DEF Rows, RowsHaveTasks, ActiveRow, TypeOK, AsgRows
  <2> HIDE DEF c
  <2> QED
    BY <2>1, <2>5, <2>6, OneActiveAfterInsert
<1>7. ASSUME NEW t \in Tasks, NEW a \in Assignments, NEW e \in Technicians,
             AddAssignee(t, a, e)
      PROVE  OneActiveAssignment'
  <2>1. Inserts({a}, t, task[t].cycle) /\ asg'[a].employee = e
    BY <1>0, <1>7, AddAssigneeEffect
  <2>2. \A b \in Assignments :
            ActiveRow(asg, b) /\ asg[b].task = t /\ asg[b].cycle = task[t].cycle
               => asg[b].employee # e
    BY <1>7 DEF AddAssignee, AlreadyActive, ActiveOf, ActiveRow
  <2> QED
    BY <2>1, <2>2, OneActiveAfterInsert
<1> QED
  BY <1>0, <1>1, <1>2, <1>3, <1>4, <1>5, <1>6, <1>7, WorkSteps

\* The guards alone keep the key of the unique index unique: no command can
\* fail on it, and reopening a task never doubles a technician.
THEOREM AssignmentsAreUnique == Spec => []OneActiveAssignment
<1>1. Init => OneActiveAssignment
  BY DEF Init, OneActiveAssignment
<1>2. RowsInv /\ OneActiveAssignment /\ [Next]_vars => OneActiveAssignment'
  BY OneActiveStays
<1> QED
  BY <1>1, <1>2, RowsInvCorrect, PTL DEF Spec

(***************************************************************************)
(* Defects                                                                 *)
(***************************************************************************)
\* The assignments DefectsAreClosedWork counts.
IsClosedWork(a) ==
    /\ asg[a] # NoAssignment
    /\ asg[a].status = "DONE"
    /\ asg[a].cycle < task[asg[a].task].cycle

LEMMA ClosedWorkStays ==
    ASSUME RowsInv, [Next]_vars, \A t \in Tasks : ~ReopenTask(t), NEW a \in Assignments
    PROVE  IsClosedWork(a)' <=> IsClosedWork(a)
<1>0. /\ Rows
      /\ \A t \in Inserted : t \in Tasks /\ task[t].cycle \in Nat
      /\ asg[a] # NoAssignment => asg[a].task \in Inserted
      /\ a \in OpenRows => asg[a].cycle = task[asg[a].task].cycle
  BY TaskRow DEF RowsInv, Rows, RowsHaveTasks, OpenWorkIsLive
<1>1. ASSUME NEW rows, NEW s, Updates(rows, s),
             \A t \in Inserted : task'[t].cycle = task[t].cycle
      PROVE  IsClosedWork(a)' <=> IsClosedWork(a)
  <2>1. CASE a \in rows
    <3>1. a \in OpenRows /\ ~IsClosedWork(a)
      BY <1>0, <1>1, <2>1 DEF Updates, OpenRows, Open, IsClosedWork
    <3>2. asg'[a].cycle = task'[asg'[a].task].cycle /\ asg'[a].cycle \in Nat
      BY <1>0, <1>1, <3>1, UpdatedRow DEF OpenRows
    <3> QED
      BY <3>1, <3>2 DEF IsClosedWork
  <2>2. CASE a \notin rows
    BY <1>0, <1>1, <2>2 DEF Updates, IsClosedWork
  <2> QED
    BY <2>1, <2>2
<1>2. ASSUME NEW new, NEW t, NEW c, Inserts(new, t, c),
             \A u \in Inserted : task'[u].cycle = task[u].cycle
      PROVE  IsClosedWork(a)' <=> IsClosedWork(a)
  BY <1>0, <1>2, InsertedRow DEF IsClosedWork
<1>3. CASE UNCHANGED <<task, asg>>
  BY <1>3 DEF IsClosedWork
<1>4. CASE CancelActive
  <2>1. \A u \in Inserted : task'[u].cycle = task[u].cycle
    BY <1>0, <1>4, CancelActiveEffect, CancelledRow DEF Rows
  <2> QED
    BY <1>0, <1>1, <1>4, <2>1, CancelActiveEffect
<1>5. CASE \E b \in Assignments, s \in AssignmentStatus : Responds(b, s)
  BY <1>0, <1>1, <1>5 DEF Responds, Stores
<1>6. ASSUME NEW t \in Tasks, CreateTask(t)
      PROVE  IsClosedWork(a)' <=> IsClosedWork(a)
  BY <1>0, <1>2, <1>6, CreateTaskEffect DEF Replaces
<1>7. ASSUME NEW t \in Tasks, CancelTask(t)
      PROVE  IsClosedWork(a)' <=> IsClosedWork(a)
  <2>1. /\ t \in Inserted
        /\ Replaces(t, [task[t] EXCEPT !.cancelled = TRUE, !.status = "CANCELLED"])
    BY <1>0, <1>7, CancelTaskEffect
  <2>2. task'[t].cycle = task[t].cycle
    BY <1>0, <2>1, CancelledRow DEF Replaces, Rows
  <2>3. \A u \in Inserted : task'[u].cycle = task[u].cycle
    BY <1>0, <2>1, <2>2 DEF Replaces
  <2> QED
    BY <1>0, <1>1, <1>7, <2>3, CancelTaskEffect
<1>8. ASSUME NEW t \in Tasks, NEW b \in Assignments, NEW e \in Technicians,
             AddAssignee(t, b, e)
      PROVE  IsClosedWork(a)' <=> IsClosedWork(a)
  <2>1. Inserts({b}, t, task[t].cycle) /\ Stores(t)
    BY <1>0, <1>8, AddAssigneeEffect
  <2>2. \A u \in Inserted : task'[u].cycle = task[u].cycle
    BY <1>0, <2>1 DEF Stores
  <2> QED
    BY <1>2, <2>1, <2>2
<1> QED
  BY <1>0, <1>3, <1>4, <1>5, <1>6, <1>7, <1>8, WorkSteps

\* Reopening closes the DONE assignments of the cycle and no other.
LEMMA ReopenClosesWork ==
    ASSUME RowsInv, NEW t \in Tasks, ReopenTask(t), NEW a \in Assignments
    PROVE  IsClosedWork(a)' <=> IsClosedWork(a) \/ a \in DoneOf(t)
<1>0. /\ Rows
      /\ \A u \in Inserted : u \in Tasks /\ task[u].cycle \in Nat
      /\ asg[a] # NoAssignment => /\ asg[a].task \in Inserted
                                  /\ asg[a].cycle \in Nat
                                  /\ asg[a].cycle <= task[asg[a].task].cycle
  BY TaskRow, AssignmentRow DEF RowsInv, Rows, RowsHaveTasks, TypeOK, AsgRows
<1>1. PICK new \in SUBSET Fresh : Inserts(new, t, task[t].cycle + 1)
  BY <1>0, ReopenTaskEffect
<1>2. /\ t \in Inserted
      /\ task'[t].cycle = task[t].cycle + 1
      /\ \A u \in Tasks \ {t} : task'[u] = task[u]
  BY <1>0, ReopenTaskEffect DEF Replaces
<1>3. CASE a \in new
  BY <1>1, <1>3, InsertedRow DEF IsClosedWork, DoneOf, ActiveOf
<1>4. CASE a \notin new /\ asg[a] = NoAssignment
  BY <1>1, <1>4, InsertedRow DEF IsClosedWork, DoneOf, ActiveOf
<1>5. CASE a \notin new /\ asg[a] # NoAssignment /\ asg[a].task # t
  BY <1>0, <1>1, <1>2, <1>5, InsertedRow DEF IsClosedWork, DoneOf, ActiveOf
<1>6. CASE a \notin new /\ asg[a] # NoAssignment /\ asg[a].task = t
  <2>1. asg'[a] = asg[a]
    BY <1>1, <1>6, InsertedRow
  <2>2. IsClosedWork(a)' <=> asg[a].status = "DONE"
    BY <1>0, <1>2, <1>6, <2>1 DEF IsClosedWork
  <2>3. a \in DoneOf(t) <=> asg[a].status = "DONE" /\ asg[a].cycle = task[t].cycle
    BY <1>6 DEF DoneOf, ActiveOf, Active
  <2> QED
    BY <1>0, <1>2, <1>6, <2>2, <2>3 DEF IsClosedWork
<1> QED
  BY <1>3, <1>4, <1>5, <1>6

\* Every defect is a piece of work the customer sent back, recorded once, and
\* every piece of work sent back is a defect.
THEOREM DefectsAreCorrect == Spec => []DefectsAreClosedWork
<1>1. Init => DefectsAreClosedWork
  BY DEF Init, DefectsAreClosedWork
<1>2. ASSUME RowsInv, DefectsAreClosedWork, [Next]_vars PROVE DefectsAreClosedWork'
  <2>1. ASSUME NEW t \in Tasks, ReopenTask(t) PROVE DefectsAreClosedWork'
    <3>1. defects' = defects \cup DoneOf(t)
      BY <2>1 DEF ReopenTask, RecordDefects
    <3>2. DoneOf(t) \subseteq Assignments
      BY DEF DoneOf, ActiveOf
    <3>3. defects = {a \in Assignments : IsClosedWork(a)}
      BY <1>2 DEF DefectsAreClosedWork, IsClosedWork
    <3>4. defects' = {a \in Assignments : IsClosedWork(a)'}
      BY <1>2, <2>1, <3>1, <3>2, <3>3, ReopenClosesWork
    <3> QED
      BY <3>4 DEF DefectsAreClosedWork, IsClosedWork
  <2>2. ASSUME \A t \in Tasks : ~ReopenTask(t) PROVE DefectsAreClosedWork'
    <3>1. defects' = defects
      BY <1>2, <2>2 DEF Next, OrderCommand, Submit, Recall, Cancel, Complete, RequestRevision,
          CancelActive, UploadConfirmation, RequestRevisionFromCustomerCare, TaskCommand,
          CreateTask, CancelTask, AddAssignee, RemoveAssignee, AssignmentCommand, Accept,
          Reject, Start, CompleteAssignment, AccountCommand, Deactivate, Activate, work, vars
    <3>2. defects = {a \in Assignments : IsClosedWork(a)}
      BY <1>2 DEF DefectsAreClosedWork, IsClosedWork
    <3>3. defects' = {a \in Assignments : IsClosedWork(a)'}
      BY <1>2, <2>2, <3>1, <3>2, ClosedWorkStays
    <3> QED
      BY <3>3 DEF DefectsAreClosedWork, IsClosedWork
  <2> QED
    BY <2>1, <2>2
<1> QED
  BY <1>1, <1>2, RowsInvCorrect, PTL DEF Spec
-----------------------------------------------------------------------------
(***************************************************************************)
(* The status of the order, and the rows it is computed from               *)
(***************************************************************************)
order == <<status, trail, revision, confirmed, care>>

\* How a step may change the order row, its photos and its audit trail.
LEMMA OrderSteps ==
    ASSUME [Next]_vars
    PROVE  \/ UNCHANGED order
           \/ OrderCommand
           \/ \E a \in Assignments : CompleteAssignment(a)
           \/ ReevaluateDispatchState(asg') /\ UNCHANGED <<revision, confirmed, care>>
<1>1. CASE UNCHANGED vars
  BY <1>1 DEF vars, order
<1>2. CASE TaskCommand
  <2>1. ASSUME NEW t \in Tasks, CreateTask(t) \/ CancelTask(t)
        PROVE  ReevaluateDispatchState(asg') /\ UNCHANGED <<revision, confirmed, care>>
    BY <2>1 DEF CreateTask, CancelTask
  <2>2. ASSUME NEW t \in Tasks, NEW a \in Assignments, RemoveAssignee(t, a)
        PROVE  ReevaluateDispatchState(asg') /\ UNCHANGED <<revision, confirmed, care>>
    BY <2>2 DEF RemoveAssignee
  <2>3. ASSUME NEW t \in Tasks, ReopenTask(t)
        PROVE  UNCHANGED order
    BY <2>3 DEF ReopenTask, order
  <2>4. ASSUME NEW t \in Tasks, NEW a \in Assignments, NEW e \in Technicians, AddAssignee(t, a, e)
        PROVE  UNCHANGED order
    BY <2>4 DEF AddAssignee, order
  <2> QED
    BY <1>2, <2>1, <2>2, <2>3, <2>4 DEF TaskCommand
<1>3. CASE AssignmentCommand
  BY <1>3 DEF AssignmentCommand, Accept, Reject, Start, order
<1>4. CASE AccountCommand
  BY <1>4 DEF AccountCommand, Deactivate, Activate, order
<1> QED
  BY <1>1, <1>2, <1>3, <1>4 DEF Next

(***************************************************************************)
(* Completed orders                                                        *)
(***************************************************************************)
\* An order becomes COMPLETED by complete only, whose guard reads the photos
\* of the current revision; the revision moves on only out of COMPLETED.
THEOREM CompletedOrdersAreConfirmed == Spec => []CompletedIsConfirmed
<1>1. Init => CompletedIsConfirmed
  BY DEF Init, CompletedIsConfirmed
<1>2. ASSUME CompletedIsConfirmed, [Next]_vars PROVE CompletedIsConfirmed'
  <2>1. CASE UNCHANGED order
    BY <1>2, <2>1 DEF order, CompletedIsConfirmed
  <2>2. CASE OrderCommand
    <3>1. CASE Submit \/ Recall \/ Cancel \/ CancelActive \/ RequestRevision
      BY <3>1 DEF Submit, Recall, Cancel, RequestRevision, CancelActive, ApplyTransition,
          Transition, OrderMoves, CompletedIsConfirmed
    <3>2. CASE Complete
      BY <3>2 DEF Complete, CompletedIsConfirmed
    <3>3. CASE UploadConfirmation \/ RequestRevisionFromCustomerCare
      BY <1>2, <3>3 DEF UploadConfirmation, RequestRevisionFromCustomerCare, CompletedIsConfirmed
    <3> QED
      BY <2>2, <3>1, <3>2, <3>3 DEF OrderCommand
  <2>3. CASE \E a \in Assignments : CompleteAssignment(a)
    BY <1>2, <2>3 DEF CompleteAssignment, OrderMoves, OrderStays, CompletedIsConfirmed
  <2>4. CASE ReevaluateDispatchState(asg') /\ UNCHANGED <<revision, confirmed, care>>
    BY <1>2, <2>4 DEF ReevaluateDispatchState, OrderMoves, OrderStays, CompletedIsConfirmed
  <2> QED
    BY <1>2, <2>1, <2>2, <2>3, <2>4, OrderSteps
<1> QED
  BY <1>1, <1>2, PTL DEF Spec

\* request_revision is the one way out of COMPLETED, and it answers the request.
THEOREM PendingRequestsAreVisible == Spec => []PendingRequestIsVisible
<1>1. Init => PendingRequestIsVisible
  BY DEF Init, PendingRequestIsVisible
<1>2. ASSUME PendingRequestIsVisible, [Next]_vars PROVE PendingRequestIsVisible'
  <2>1. CASE UNCHANGED order
    BY <1>2, <2>1 DEF order, PendingRequestIsVisible
  <2>2. CASE OrderCommand
    BY <1>2, <2>2 DEF OrderCommand, Submit, Recall, Cancel, Complete, RequestRevision,
        CancelActive, UploadConfirmation, RequestRevisionFromCustomerCare, ApplyTransition,
        Transition, OrderMoves, PendingRequestIsVisible
  <2>3. ASSUME NEW a \in Assignments, CompleteAssignment(a) PROVE PendingRequestIsVisible'
    <3>1. UNCHANGED care /\ (OrderStays \/ status \in {"IN_PROGRESS", "REVISION"})
      BY <2>3 DEF CompleteAssignment, AllTasksDone
    <3> QED
      BY <1>2, <3>1 DEF OrderStays, PendingRequestIsVisible
  <2>4. CASE ReevaluateDispatchState(asg') /\ UNCHANGED <<revision, confirmed, care>>
    BY <1>2, <2>4 DEF ReevaluateDispatchState, OrderStays, PendingRequestIsVisible
  <2> QED
    BY <1>2, <2>1, <2>2, <2>3, <2>4, OrderSteps
<1> QED
  BY <1>1, <1>2, PTL DEF Spec

(***************************************************************************)
(* Orders in progress                                                      *)
(***************************************************************************)
LEMMA ActiveAfterInsert ==
    ASSUME NEW new, NEW t, NEW c, Inserts(new, t, c), HasActiveAssignment(asg)
    PROVE  HasActiveAssignment(asg')
BY DEF Inserts, Fresh, HasActiveAssignment

LEMMA ActiveAfterUpdate ==
    ASSUME NEW rows, NEW s \in Active, Updates(rows, s), HasActiveAssignment(asg)
    PROVE  HasActiveAssignment(asg')
<1>1. PICK a \in Assignments : asg[a] # NoAssignment /\ asg[a].status \in Active
  BY DEF HasActiveAssignment
<1>2. asg'[a] # NoAssignment /\ asg'[a].status \in Active
  BY <1>1, UpdatedRow
<1> QED
  BY <1>2 DEF HasActiveAssignment

\* An answer that keeps the assignment active, a new assignee and a reopened
\* task keep the order in progress; every other command looks again.
THEOREM InProgressOrdersAreStaffed == Spec => []InProgressHasActiveAssignment
<1>1. Init => InProgressHasActiveAssignment
  BY DEF Init, InProgressHasActiveAssignment
<1>2. ASSUME Rows, InProgressHasActiveAssignment, [Next]_vars
      PROVE  InProgressHasActiveAssignment'
  <2>1. CASE UNCHANGED <<status, asg>>
    BY <1>2, <2>1 DEF InProgressHasActiveAssignment, HasActiveAssignment
  <2>2. CASE ReevaluateDispatchState(asg')
    BY <2>2 DEF ReevaluateDispatchState, OrderMoves, OrderStays, InProgressHasActiveAssignment
  <2>3. CASE OrderCommand
    BY <1>2, <2>3, <2>1 DEF OrderCommand, Submit, Recall, Cancel, Complete, RequestRevision,
        CancelActive, UploadConfirmation, RequestRevisionFromCustomerCare, ApplyTransition,
        Transition, OrderMoves, work, InProgressHasActiveAssignment
  <2>4. ASSUME NEW t \in Tasks, NEW a \in Assignments, NEW e \in Technicians,
               AddAssignee(t, a, e)
        PROVE  InProgressHasActiveAssignment'
    <3>1. status' = status /\ Inserts({a}, t, task[t].cycle)
      BY <1>2, <2>4, AddAssigneeEffect DEF AddAssignee
    <3> QED
      BY <1>2, <3>1, ActiveAfterInsert DEF InProgressHasActiveAssignment
  <2>5. ASSUME NEW t \in Tasks, ReopenTask(t)
        PROVE  InProgressHasActiveAssignment'
    BY <2>5 DEF ReopenTask, InProgressHasActiveAssignment
  <2>6. ASSUME NEW a \in Assignments, Accept(a) \/ Start(a) \/ CompleteAssignment(a)
        PROVE  InProgressHasActiveAssignment'
    <3>1. \E s \in Active : Updates({a}, s)
      BY <1>2, <2>6, AssignmentCommandResponds DEF Responds, Active, Open
    <3>2. status' = status \/ status' = "AWAITING_CONFIRMATION"
      BY <2>6 DEF Accept, Start, CompleteAssignment, OrderMoves, OrderStays
    <3> QED
      BY <1>2, <3>1, <3>2, ActiveAfterUpdate DEF InProgressHasActiveAssignment
  <2>7. CASE AccountCommand
    BY <2>1, <2>7 DEF AccountCommand, Deactivate, Activate, work
  <2>8. CASE TaskCommand
    BY <2>2, <2>4, <2>5, <2>8 DEF TaskCommand, CreateTask, CancelTask, RemoveAssignee
  <2>9. CASE AssignmentCommand
    BY <2>2, <2>6, <2>9 DEF AssignmentCommand, Reject
  <2>10. CASE UNCHANGED vars
    BY <2>1, <2>10 DEF vars
  <2> QED
    BY <1>2, <2>3, <2>7, <2>8, <2>9, <2>10 DEF Next
<1> QED
  BY <1>1, <1>2, RowsInvariant, PTL DEF Spec

(***************************************************************************)
(* Rounds of work                                                          *)
(***************************************************************************)
\* Tasks are created after the first submit, and an order with tasks is not
\* recalled.
DraftHasNoTasks == status = "DRAFT" => Inserted = {}

\* Only an order that has reached the customer has been revised.
FirstRoundFirst == status \in {"DRAFT", "PENDING_DISPATCH", "IN_PROGRESS"} => revision = 0

\* No task claims to be of a revision to come.
TasksOfKnownRounds ==
    \A t \in Inserted : task[t].createdIn <= revision /\ task[t].reopenedIn <= revision

\* A cancelled order has nothing open.
CancelledIsClosed == status = "CANCELLED" => OpenRows = {}

OrderInv ==
    /\ RowsInv
    /\ DraftHasNoTasks
    /\ FirstRoundFirst
    /\ TasksOfKnownRounds
    /\ ConfirmationWaitsForAllTasks
    /\ CancelledIsClosed
    /\ RevisionShowsWork

LEMMA NothingOpenWhenAllDone ==
    ASSUME RowsInv, \A t \in NonCancelled(task) : task[t].status = "DONE"
    PROVE  OpenRows = {}
<1>1. SUFFICES ASSUME NEW a \in OpenRows PROVE FALSE
  OBVIOUS
<1>2. asg[a].task \in Inserted /\ task[asg[a].task].status # "DONE"
  BY OpenRowHasTask
<1>3. asg[a].task \in NonCancelled(task)
  BY <1>2 DEF RowsInv, OpenWorkIsLive, NonCancelled, Inserted
<1> QED
  BY <1>2, <1>3

\* What makes OpenWorkOnlyWhileDispatchable hold.
LEMMA OpenWorkIsDispatchable ==
    ASSUME TypeOK, OrderInv
    PROVE  OpenWorkOnlyWhileDispatchable
<1>1. CASE status = "DRAFT"
  <2>1. Inserted = {}
    BY <1>1 DEF OrderInv, DraftHasNoTasks
  <2> QED
    BY <2>1, OpenRowHasTask DEF OrderInv, OpenWorkOnlyWhileDispatchable
<1>2. CASE status = "CANCELLED"
  BY <1>2 DEF OrderInv, CancelledIsClosed, OpenWorkOnlyWhileDispatchable
<1>3. CASE status \in {"AWAITING_CONFIRMATION", "COMPLETED"}
  BY <1>3, NothingOpenWhenAllDone
  DEF OrderInv, ConfirmationWaitsForAllTasks, OpenWorkOnlyWhileDispatchable
<1> QED
  BY <1>1, <1>2, <1>3 DEF TypeOK, OrderStatus, OpenWorkOnlyWhileDispatchable, Dispatchable

\* Where nothing is dispatched, only cancel_active touches the work.
LEMMA WorkOnlyWhileDispatchable ==
    ASSUME OrderInv, [Next]_vars, ~Dispatchable
    PROVE  UNCHANGED <<task, asg>> \/ CancelActive
<1>1. Rows /\ TypeOK /\ OpenRows = {}
  BY OpenWorkIsDispatchable DEF OrderInv, RowsInv, Rows, OpenWorkOnlyWhileDispatchable
<1>2. ~ \E a \in Assignments, s \in AssignmentStatus : Responds(a, s)
  BY <1>1 DEF Responds, Updates
<1>3. \A t \in Tasks : ~CreateTask(t) /\ ~CancelTask(t) /\ ~ReopenTask(t)
  BY DEF CreateTask, CancelTask, ReopenTask, Dispatchable
<1>4. \A t \in Tasks, a \in Assignments, e \in Technicians : ~AddAssignee(t, a, e)
  BY DEF AddAssignee
<1> QED
  BY <1>1, <1>2, <1>3, <1>4, WorkSteps

\* How the status of an order changes: by one of the transitions, by the
\* re-evaluation of the dispatch, or by the last task that is done.
LEMMA StatusSteps ==
    ASSUME [Next]_vars
    PROVE  \/ UNCHANGED <<status, revision>>
           \/ Submit \/ Recall \/ Cancel \/ Complete \/ RequestRevision \/ CancelActive
           \/ /\ status \in {"PENDING_DISPATCH", "IN_PROGRESS"}
              /\ status' \in {"PENDING_DISPATCH", "IN_PROGRESS"}
              /\ revision' = revision
           \/ /\ \E a \in Assignments : CompleteAssignment(a)
              /\ AllTasksDone(task')
              /\ status' = "AWAITING_CONFIRMATION"
              /\ revision' = revision
<1>1. CASE UNCHANGED order
  BY <1>1 DEF order
<1>2. CASE OrderCommand
  BY <1>2 DEF OrderCommand, UploadConfirmation, RequestRevisionFromCustomerCare
<1>3. CASE \E a \in Assignments : CompleteAssignment(a)
  BY <1>3 DEF CompleteAssignment, OrderMoves, OrderStays
<1>4. CASE ReevaluateDispatchState(asg') /\ UNCHANGED <<revision, confirmed, care>>
  BY <1>4 DEF ReevaluateDispatchState, OrderMoves, OrderStays
<1> QED
  BY <1>1, <1>2, <1>3, <1>4, OrderSteps

LEMMA RoundsStayInOrder ==
    ASSUME OrderInv, [Next]_vars
    PROVE  FirstRoundFirst'
<1>1. CASE UNCHANGED <<status, revision>>
  BY <1>1 DEF OrderInv, FirstRoundFirst
<1>2. CASE Submit \/ Recall \/ Cancel \/ Complete \/ RequestRevision \/ CancelActive
  BY <1>2 DEF Submit, Recall, Cancel, Complete, RequestRevision, CancelActive,
      ApplyTransition, Transition, OrderMoves, OrderInv, FirstRoundFirst
<1>3. CASE status \in {"PENDING_DISPATCH", "IN_PROGRESS"} /\ revision' = revision
  BY <1>3 DEF OrderInv, FirstRoundFirst
<1>4. CASE status' = "AWAITING_CONFIRMATION"
  BY <1>4 DEF FirstRoundFirst
<1> QED
  BY <1>1, <1>2, <1>3, <1>4, StatusSteps

LEMMA DraftStaysEmpty ==
    ASSUME OrderInv, [Next]_vars
    PROVE  DraftHasNoTasks'
<1>1. SUFFICES ASSUME status' = "DRAFT" PROVE Inserted' = {}
  BY DEF DraftHasNoTasks
<1>2. \/ status = "DRAFT"
      \/ Recall
  BY <1>1, StatusSteps DEF Submit, Cancel, Complete, RequestRevision, CancelActive,
      ApplyTransition, Transition, OrderMoves
<1>3. CASE Recall
  BY <1>3 DEF Recall, work, Inserted
<1>4. CASE status = "DRAFT"
  <2>1. ~CancelActive /\ ~Dispatchable
    BY <1>4 DEF CancelActive, ApplyTransition, Transition, Dispatchable
  <2>2. UNCHANGED task
    BY <2>1, WorkOnlyWhileDispatchable
  <2> QED
    BY <1>4, <2>2 DEF OrderInv, DraftHasNoTasks, Inserted
<1> QED
  BY <1>2, <1>3, <1>4

LEMMA RevisionGrows ==
    ASSUME TypeOK, [Next]_vars
    PROVE  revision \in Nat /\ revision' \in Nat /\ revision <= revision'
<1>1. revision \in Nat
  BY MaxRevisionIsNat DEF TypeOK
<1>2. revision' = revision \/ revision' = revision + 1
  BY StatusSteps DEF Submit, Recall, Cancel, Complete, RequestRevision, CancelActive
<1> QED
  BY <1>1, <1>2

LEMMA RoundsStayKnown ==
    ASSUME OrderInv, [Next]_vars
    PROVE  TasksOfKnownRounds'
<1>0. /\ Rows /\ TypeOK /\ TasksOfKnownRounds
      /\ \A t \in Inserted : /\ t \in Tasks
                             /\ task[t].createdIn \in Int
                             /\ task[t].reopenedIn \in Int
  BY TaskRow DEF OrderInv, RowsInv, Rows, NeverReopened
<1>1. revision \in Nat /\ revision' \in Nat /\ revision <= revision'
  BY <1>0, RevisionGrows
<1>2. ASSUME Inserted' = Inserted,
             \A t \in Inserted : /\ task'[t].createdIn = task[t].createdIn
                                 /\ task'[t].reopenedIn = task[t].reopenedIn
      PROVE  TasksOfKnownRounds'
  BY <1>0, <1>1, <1>2 DEF TasksOfKnownRounds
<1>3. CASE UNCHANGED <<task, asg>>
  BY <1>2, <1>3 DEF Inserted
<1>4. CASE CancelActive
  BY <1>0, <1>2, <1>4, CancelActiveEffect, CancelledRow
<1>5. CASE \E a \in Assignments, s \in AssignmentStatus : Responds(a, s)
  BY <1>0, <1>2, <1>5 DEF Responds, Stores
<1>6. ASSUME NEW t \in Tasks, CreateTask(t)
      PROVE  TasksOfKnownRounds'
  <2>1. /\ Inserted' = Inserted \cup {t}
        /\ \A u \in Tasks \ {t} : task'[u] = task[u]
        /\ task'[t].createdIn = revision
        /\ task'[t].reopenedIn = -1
    BY <1>0, <1>6, CreateTaskEffect DEF Replaces, NeverReopened
  <2> QED
    BY <1>0, <1>1, <2>1 DEF TasksOfKnownRounds
<1>7. ASSUME NEW t \in Tasks, CancelTask(t)
      PROVE  TasksOfKnownRounds'
  <2>1. /\ t \in Inserted
        /\ Replaces(t, [task[t] EXCEPT !.cancelled = TRUE, !.status = "CANCELLED"])
    BY <1>0, <1>7, CancelTaskEffect
  <2>2. /\ task'[t].createdIn = task[t].createdIn
        /\ task'[t].reopenedIn = task[t].reopenedIn
    BY <1>0, <2>1, CancelledRow DEF Replaces
  <2> QED
    BY <1>0, <1>2, <2>1, <2>2 DEF Replaces
<1>8. ASSUME NEW t \in Tasks, ReopenTask(t)
      PROVE  TasksOfKnownRounds'
  <2>1. /\ Inserted' = Inserted
        /\ \A u \in Tasks \ {t} : task'[u] = task[u]
        /\ t \in Inserted
        /\ task'[t].createdIn = task[t].createdIn
        /\ task'[t].reopenedIn = revision
    BY <1>0, <1>8, ReopenTaskEffect DEF Replaces
  <2> QED
    BY <1>0, <1>1, <2>1 DEF TasksOfKnownRounds
<1>9. CASE \E t \in Tasks, a \in Assignments, e \in Technicians : AddAssignee(t, a, e)
  BY <1>0, <1>2, <1>9, AddAssigneeEffect DEF Stores
<1> QED
  BY <1>0, <1>3, <1>4, <1>5, <1>6, <1>7, <1>8, <1>9, WorkSteps

LEMMA CancelledStaysClosed ==
    ASSUME OrderInv, [Next]_vars
    PROVE  CancelledIsClosed'
<1>1. SUFFICES ASSUME status' = "CANCELLED" PROVE OpenRows' = {}
  BY DEF CancelledIsClosed
<1>2. status = "CANCELLED" \/ Cancel \/ CancelActive
  BY <1>1, StatusSteps DEF Submit, Recall, Complete, RequestRevision,
      ApplyTransition, Transition, OrderMoves
<1>3. CASE CancelActive
  <2>1. Updates(OpenRows, "REMOVED")
    BY <1>3, CancelActiveEffect DEF OrderInv, RowsInv
  <2> QED
    BY <2>1, OpenAfterUpdate DEF Open
<1>4. CASE Cancel
  <2>1. Inserted = {} /\ UNCHANGED asg
    BY <1>4 DEF Cancel, work
  <2>2. OpenRows = {}
    BY <2>1, OpenRowHasTask DEF OrderInv
  <2> QED
    BY <2>1, <2>2 DEF OpenRows
<1>5. CASE status = "CANCELLED"
  <2>1. ~CancelActive /\ ~Dispatchable
    BY <1>5 DEF CancelActive, ApplyTransition, Transition, Dispatchable
  <2>2. UNCHANGED asg
    BY <2>1, WorkOnlyWhileDispatchable
  <2> QED
    BY <1>5, <2>2 DEF OrderInv, CancelledIsClosed, OpenRows
<1> QED
  BY <1>2, <1>3, <1>4, <1>5

\* How an order comes to wait for, or to have, the customer's confirmation.
LEMMA ConfirmationSteps ==
    ASSUME OrderInv, [Next]_vars, status' \in {"AWAITING_CONFIRMATION", "COMPLETED"}
    PROVE  /\ revision' = revision
           /\ \/ /\ status \in {"AWAITING_CONFIRMATION", "COMPLETED"}
                 /\ UNCHANGED task
              \/ AllTasksDone(task')
<1>1. \/ status \in {"AWAITING_CONFIRMATION", "COMPLETED"} /\ revision' = revision
      \/ AllTasksDone(task') /\ revision' = revision
  BY StatusSteps DEF Submit, Recall, Cancel, Complete, RequestRevision, CancelActive,
      ApplyTransition, Transition, OrderMoves
<1>2. CASE status \in {"AWAITING_CONFIRMATION", "COMPLETED"}
  <2>1. ~CancelActive /\ ~Dispatchable
    BY <1>2 DEF CancelActive, ApplyTransition, Transition, OrderMoves, Dispatchable
  <2> QED
    BY <1>1, <1>2, <2>1, WorkOnlyWhileDispatchable
<1> QED
  BY <1>1, <1>2

LEMMA ConfirmationKeepsWaiting ==
    ASSUME OrderInv, [Next]_vars
    PROVE  ConfirmationWaitsForAllTasks'
<1>1. SUFFICES ASSUME status' \in {"AWAITING_CONFIRMATION", "COMPLETED"}
               PROVE  /\ NonCancelled(task') # {}
                      /\ \A t \in NonCancelled(task') : task'[t].status = "DONE"
  BY DEF ConfirmationWaitsForAllTasks
<1>2. CASE AllTasksDone(task')
  BY <1>2 DEF AllTasksDone
<1>3. CASE status \in {"AWAITING_CONFIRMATION", "COMPLETED"} /\ UNCHANGED task
  BY <1>3 DEF OrderInv, ConfirmationWaitsForAllTasks
<1> QED
  BY <1>1, <1>2, <1>3, ConfirmationSteps

LEMMA RevisionKeepsShowingWork ==
    ASSUME OrderInv, TypeOK', TasksOfKnownRounds', [Next]_vars
    PROVE  RevisionShowsWork'
<1>1. SUFFICES ASSUME status' \in {"AWAITING_CONFIRMATION", "COMPLETED"}
               PROVE  RevisionWork(task)' # {}
  BY DEF RevisionShowsWork
<1>2. revision' = revision
  BY <1>1, ConfirmationSteps
<1>3. CASE status \in {"AWAITING_CONFIRMATION", "COMPLETED"} /\ UNCHANGED task
  BY <1>2, <1>3 DEF OrderInv, RevisionShowsWork, RevisionWork, NonCancelled
<1>4. CASE AllTasksDone(task') /\ status = "REVISION"
  BY <1>2, <1>4 DEF AllTasksDone, RevisionWork
<1>5. CASE AllTasksDone(task') /\ status = "IN_PROGRESS"
  <2>1. PICK t \in NonCancelled(task') : TRUE
    BY <1>5 DEF AllTasksDone
  <2>2. t \in Tasks /\ task'[t] # NoTask /\ task'[t] \in Task
    BY <2>1 DEF NonCancelled, TypeOK
  <2>3. revision' = 0
    BY <1>2, <1>5 DEF OrderInv, FirstRoundFirst
  <2>4. task'[t].createdIn \in Nat /\ task'[t].createdIn <= revision'
    BY <2>2 DEF Task, TasksOfKnownRounds, Inserted
  <2>5. task'[t].createdIn = revision'
    BY <2>3, <2>4
  <2> QED
    BY <2>1, <2>5 DEF RevisionWork, NonCancelled
<1> QED
  BY <1>1, <1>3, <1>4, <1>5, ConfirmationSteps DEF AllTasksDone

THEOREM OrderInvariant == Spec => []OrderInv
<1>1. Init /\ RowsInv => OrderInv
  BY DEF Init, OrderInv, DraftHasNoTasks, FirstRoundFirst, TasksOfKnownRounds,
      ConfirmationWaitsForAllTasks, CancelledIsClosed, RevisionShowsWork, Inserted
<1>2. OrderInv /\ [Next]_vars /\ RowsInv' => OrderInv'
  <2>1. RowsInv' => TypeOK'
    BY DEF RowsInv, Rows
  <2> QED
    BY <2>1, RoundsStayInOrder, DraftStaysEmpty, RoundsStayKnown, CancelledStaysClosed,
       ConfirmationKeepsWaiting, RevisionKeepsShowingWork DEF OrderInv
<1> QED
  BY <1>1, <1>2, RowsInvCorrect, PTL DEF Spec

\* The customer is never asked to sign unfinished work: no refusal, removal,
\* cancellation or late answer can undo the DONE tasks of an order that has
\* left the technicians' hands.
THEOREM CustomerSignsFinishedWork == Spec => []ConfirmationWaitsForAllTasks
<1>1. OrderInv => ConfirmationWaitsForAllTasks
  BY DEF OrderInv
<1> QED
  BY <1>1, OrderInvariant, PTL

\* Nobody has open work on an order that is recalled, cancelled, waiting for
\* the customer or completed.
THEOREM OpenWorkIsOnLiveOrders == Spec => []OpenWorkOnlyWhileDispatchable
<1>1. OrderInv => OpenWorkOnlyWhileDispatchable
  BY OpenWorkIsDispatchable DEF OrderInv, RowsInv, Rows
<1> QED
  BY <1>1, OrderInvariant, PTL

\* Every revision is answered by work of its own before the customer sees it.
THEOREM RevisionsShowWork == Spec => []RevisionShowsWork
<1>1. OrderInv => RevisionShowsWork
  BY DEF OrderInv
<1> QED
  BY <1>1, OrderInvariant, PTL

(***************************************************************************)
(* The abstract lifecycle                                                  *)
(***************************************************************************)
Signed == revision \in confirmed
Worked == \E t \in RevisionWork(task) : task[t].status = "DONE"

LEMMA SameWorked ==
    ASSUME UNCHANGED <<revision, task>>
    PROVE  Worked' = Worked
BY DEF Worked, RevisionWork, NonCancelled

\* cancel_active cancels no task that is done.
LEMMA CancelActiveKeepsWorked ==
    ASSUME Rows, CancelActive
    PROVE  Worked' = Worked
<1>1. revision' = revision
  BY DEF CancelActive
<1>2. ASSUME NEW t \in Tasks
      PROVE  t \in RevisionWork(task)' /\ task'[t].status = "DONE"
                <=> t \in RevisionWork(task) /\ task[t].status = "DONE"
  <2>1. CASE t \in Inserted /\ task[t].status # "DONE"
    <3>1. task'[t].cancelled = TRUE
      BY <2>1, CancelActiveEffect, CancelledRow DEF Rows
    <3> QED
      BY <2>1, <3>1 DEF RevisionWork, NonCancelled
  <2>2. CASE ~(t \in Inserted /\ task[t].status # "DONE")
    <3>1. task'[t] = task[t]
      BY <2>2, CancelActiveEffect
    <3> QED
      BY <1>1, <3>1 DEF RevisionWork, NonCancelled
  <2> QED
    BY <2>1, <2>2
<1> QED
  BY <1>2 DEF Worked, RevisionWork, NonCancelled

\* A new round starts unsigned and with nothing done for it.
LEMMA NewRound ==
    ASSUME OrderInv, RequestRevision
    PROVE  ~Signed' /\ ~Worked'
<1>1. /\ revision \in Nat
      /\ revision' = revision + 1
      /\ confirmed \subseteq 0..revision
      /\ UNCHANGED <<confirmed, task>>
  BY MaxRevisionIsNat DEF RequestRevision, work, OrderInv, RowsInv, Rows, TypeOK
<1>2. ~Signed'
  BY <1>1 DEF Signed
<1>3. ASSUME NEW t \in Inserted
      PROVE  revision + 1 \notin {task[t].createdIn, task[t].reopenedIn}
  <2>1. /\ task[t].createdIn \in Int /\ task[t].createdIn <= revision
        /\ task[t].reopenedIn \in Int /\ task[t].reopenedIn <= revision
    BY TaskRow DEF OrderInv, RowsInv, Rows, TasksOfKnownRounds, NeverReopened
  <2> QED
    BY <1>1, <2>1
<1>4. ~Worked'
  BY <1>1, <1>3 DEF Worked, RevisionWork, NonCancelled, Inserted
<1> QED
  BY <1>2, <1>4

\* Task commands and answers happen on a dispatched order, and move it between
\* PENDING_DISPATCH and IN_PROGRESS or to AWAITING_CONFIRMATION only.
LEMMA WorkMoves ==
    ASSUME OrderInv, TaskCommand \/ AssignmentCommand
    PROVE  /\ UNCHANGED <<revision, confirmed>>
           /\ Dispatchable
           /\ \/ UNCHANGED status
              \/ status = "PENDING_DISPATCH" /\ status' = "IN_PROGRESS"
              \/ status = "IN_PROGRESS" /\ status' = "PENDING_DISPATCH"
              \/ status \in {"IN_PROGRESS", "REVISION"} /\ status' = "AWAITING_CONFIRMATION"
<1>1. OpenRows # {} => Dispatchable
  BY OpenWorkIsDispatchable DEF OrderInv, RowsInv, Rows, OpenWorkOnlyWhileDispatchable
<1>2. ASSUME ReevaluateDispatchState(asg')
      PROVE  \/ UNCHANGED status
             \/ status = "PENDING_DISPATCH" /\ status' = "IN_PROGRESS"
             \/ status = "IN_PROGRESS" /\ status' = "PENDING_DISPATCH"
  BY <1>2 DEF ReevaluateDispatchState, OrderMoves, OrderStays
<1>3. CASE TaskCommand
  BY <1>2, <1>3 DEF TaskCommand, CreateTask, CancelTask, ReopenTask, AddAssignee,
      RemoveAssignee, Dispatchable
<1>4. ASSUME NEW a \in Assignments,
             Accept(a) \/ Reject(a) \/ Start(a) \/ CompleteAssignment(a)
      PROVE  Dispatchable
  BY <1>1, <1>4 DEF Accept, Reject, Start, CompleteAssignment, Mine, OpenRows, Open
<1>5. CASE AssignmentCommand
  BY <1>2, <1>4, <1>5 DEF AssignmentCommand, Accept, Reject, Start, CompleteAssignment,
      AllTasksDone, OrderMoves, OrderStays
<1> QED
  BY <1>3, <1>5

LEMMA LifecycleStep ==
    ASSUME OrderInv, OrderInv', [Next]_vars
    PROVE  [Lifecycle!Next]_(Lifecycle!vars)
<1> USE DEF Lifecycle!Move
<1>1. CASE UNCHANGED <<status, revision, confirmed, task>>
  BY <1>1, SameWorked DEF Lifecycle!vars, Worked
<1>2. CASE Submit \/ Recall \/ Cancel
  <2>1. UNCHANGED <<revision, confirmed, task>>
    BY <1>2 DEF Submit, Recall, Cancel, work
  <2>2. Lifecycle!Submit \/ Lifecycle!Recall \/ Lifecycle!Cancel
    BY <1>2, <2>1, SameWorked DEF Submit, Recall, Cancel, ApplyTransition, Transition,
        OrderMoves, Lifecycle!Submit, Lifecycle!Recall, Lifecycle!Cancel, Worked
  <2> QED
    BY <2>2 DEF Lifecycle!Next
<1>3. CASE Complete
  <2>1. UNCHANGED <<revision, confirmed, task>>
    BY <1>3 DEF Complete, work
  <2>2. Lifecycle!Complete
    BY <1>3, <2>1, SameWorked DEF Complete, ApplyTransition, Transition, OrderMoves,
        Lifecycle!Complete, Worked
  <2> QED
    BY <2>2 DEF Lifecycle!Next
<1>4. CASE CancelActive
  <2>1. Worked' = Worked
    BY <1>4, CancelActiveKeepsWorked DEF OrderInv, RowsInv
  <2>2. Lifecycle!CancelActive
    BY <1>4, <2>1 DEF CancelActive, ApplyTransition, Transition, OrderMoves,
        Lifecycle!CancelActive, Worked
  <2> QED
    BY <2>2 DEF Lifecycle!Next
<1>5. CASE RequestRevision
  <2>1. ~Signed' /\ ~Worked'
    BY <1>5, NewRound
  <2>2. Lifecycle!RequestRevision
    BY <1>5, <2>1 DEF RequestRevision, ApplyTransition, Transition, OrderMoves,
        Lifecycle!RequestRevision, Signed, Worked
  <2> QED
    BY <2>2 DEF Lifecycle!Next
<1>6. CASE UploadConfirmation
  <2>1. UNCHANGED <<status, revision, task>> /\ (Signed => Signed')
    BY <1>6 DEF UploadConfirmation, work, Signed
  <2>2. CASE Signed'
    <3>1. Lifecycle!Sign
      BY <2>1, <2>2, SameWorked DEF Lifecycle!Sign, Signed, Worked
    <3> QED
      BY <3>1 DEF Lifecycle!Next
  <2>3. CASE ~Signed'
    <3>1. (Signed <=> Signed') /\ (Worked <=> Worked')
      BY <2>1, <2>3, SameWorked
    <3> QED
      BY <2>1, <3>1 DEF Lifecycle!vars, Signed, Worked
  <2> QED
    BY <2>2, <2>3
<1>7. CASE RequestRevisionFromCustomerCare
  BY <1>1, <1>7 DEF RequestRevisionFromCustomerCare, work
<1>8. CASE AccountCommand
  BY <1>1, <1>8 DEF AccountCommand, Deactivate, Activate, work
<1>9. CASE TaskCommand \/ AssignmentCommand
  <2>1. CASE status' # "AWAITING_CONFIRMATION" \/ UNCHANGED status
    <3>1. Worked' \in BOOLEAN
      BY DEF Worked
    <3>2. Lifecycle!Work
      BY <1>9, <2>1, <3>1, WorkMoves DEF Lifecycle!Work, Dispatchable, Worked
    <3> QED
      BY <3>2 DEF Lifecycle!Next
  <2>2. CASE status' = "AWAITING_CONFIRMATION" /\ status # "AWAITING_CONFIRMATION"
    <3>1. Worked'
      <4>1. PICK t \in RevisionWork(task)' : TRUE
        BY <2>2 DEF OrderInv, RevisionShowsWork
      <4>2. task'[t].status = "DONE"
        BY <2>2, <4>1 DEF OrderInv, ConfirmationWaitsForAllTasks, RevisionWork
      <4> QED
        BY <4>1, <4>2 DEF Worked
    <3>2. Lifecycle!AllTasksDone
      BY <1>9, <2>2, <3>1, WorkMoves DEF Lifecycle!AllTasksDone, Worked
    <3> QED
      BY <3>2 DEF Lifecycle!Next
  <2> QED
    BY <2>1, <2>2
<1>10. CASE UNCHANGED vars
  BY <1>1, <1>10 DEF vars
<1> QED
  BY <1>2, <1>3, <1>4, <1>5, <1>6, <1>7, <1>8, <1>9, <1>10 DEF Next, OrderCommand

\* The order, with all its tasks, assignments and photos, does what the
\* lifecycle promises.
THEOREM ImplementsLifecycle == Spec => LifecycleSpec
<1>1. Init => Lifecycle!Init
  BY DEF Init, Lifecycle!Init, RevisionWork, NonCancelled
<1>2. OrderInv /\ OrderInv' /\ [Next]_vars => [Lifecycle!Next]_(Lifecycle!vars)
  BY LifecycleStep
<1> QED
  BY <1>1, <1>2, OrderInvariant, PTL DEF Spec, LifecycleSpec, Lifecycle!Spec
=============================================================================
