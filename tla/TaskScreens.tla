----------------------------- MODULE TaskScreens -----------------------------
(***************************************************************************)
(* The screens through which people work on the tasks of an order: the tab *)
(* of the tasks and the sheets of the technical lead, and "my tasks" of a  *)
(* technician, on top of the server of Workflow.                           *)
(*                                                                         *)
(* A behaviour follows one person, the user; everybody else gives commands *)
(* at any time.  The user sees what a GET returned some time ago and gives *)
(* commands with the order version of that answer.  The task in a sheet is *)
(* read in three statements, with commands of others between them; what    *)
(* the other screens need of an answer is one statement.  The last read    *)
(* and showing the answer is one step, an answer that a command of the     *)
(* same screen overtakes being cancelled by the invalidation that follows. *)
(* So are a command and its execution, because a command executed late is  *)
(* one given late on an older screen.  The user has one command under way  *)
(* at a time.                                                              *)
(* What the fields of a task contain is left out, and so are the banners   *)
(* above the list of a technician, which offer nothing but to refresh it.  *)
(***************************************************************************)
EXTENDS Workflow

CONSTANTS
    Lead,           \* the technical lead
    Nothing,        \* no answer of a GET, or of a statement, yet
    NoAnswer,       \* no request under way
    MaxVersion      \* bound on orders.version

\* What the server answers to a GET.  The version of the order when the row of a
\* task was read, "at", is not part of the answer.
AnOrder == [version : Nat, status : OrderStatus]
ATaskRow == [at : Nat, status : TaskStatus, cycle : Nat]
ATask == [of : Tasks, row : ATaskRow, version : Nat, order : OrderStatus,
          team : SUBSET [asg : Assignments, employee : Technicians, status : Active]]
AFetch == [row : ATaskRow, order : {Nothing} \cup AnOrder]
AList == [version : Nat, items : UNION {[S -> Active] : S \in SUBSET Assignments}]

ASSUME LeadIsNoTechnician == Lead \notin Technicians
ASSUME SheetsAreNoTasks == Tasks \cap {"none", "create"} = {}
ASSUME NothingIsNoAnswer == Nothing \notin AnOrder \cup ATask \cup AFetch
ASSUME MaxVersionIsPositive == MaxVersion \in Nat \ {0}

VARIABLES
    version,    \* orders.version
    user,       \* whose screens these are
    sheet,      \* the sheet of the lead: "none", "create", or the task that is edited
    fetch,      \* what has been read for the task in the sheet
    seen,       \* what is shown: the order behind the sheets of the lead, or the task in
                \* one of them, or the list of a technician
    failed,     \* the last GET failed: what it had filled is hidden
    picker,     \* the sheet shows whom to add
    reload,     \* the sheet offers to reload in the place of its main button
    dialog,     \* what is asked before a command is given
    answer      \* the request under way

screens == <<sheet, fetch, seen, failed, picker, reload, dialog>>
vars2 == <<vars, version, user, screens, answer>>

NoDialog == [what |-> "none", asg |-> NoAssignment, version |-> 0, stale |-> FALSE]

(***************************************************************************)
(* Answers of the server                                                   *)
(***************************************************************************)
OrderSeen == [version |-> version, status |-> status]

TaskRowSeen(t) == [at |-> version, status |-> task[t].status, cycle |-> task[t].cycle]

TaskSeen(t, r, o) ==
    [of |-> t, row |-> r, version |-> o.version, order |-> o.status,
     team |-> {[asg |-> a, employee |-> asg[a].employee, status |-> asg[a].status] :
                  a \in ActiveOf(asg, t, r.cycle)}]

\* The assignments of technician e in the current cycle of their task.
Listed(e) == {a \in Assignments : /\ asg[a] # NoAssignment
                                  /\ asg[a].employee = e
                                  /\ asg[a].status \in Active
                                  /\ asg[a].cycle = task[asg[a].task].cycle}

ListSeen(e) == [version |-> version, items |-> [a \in Listed(e) |-> asg[a].status]]

(***************************************************************************)
(* What a screen offers                                                    *)
(***************************************************************************)
Editing == sheet \in Tasks
Shown == seen # Nothing /\ ~failed

DispatchableStatuses == {"PENDING_DISPATCH", "IN_PROGRESS", "REVISION"}

\* Only a cancelled task is read-only.
MutCanManage ==
    /\ seen # Nothing
    /\ seen.order \in DispatchableStatuses
    /\ seen.row.status # "CANCELLED"

CanManage ==
    /\ seen # Nothing
    /\ seen.order \in DispatchableStatuses
    /\ seen.row.status \notin {"DONE", "CANCELLED"}

CanReopen ==
    /\ seen # Nothing
    /\ seen.order = "REVISION"
    /\ seen.row.status = "DONE"

CanCreate == seen # Nothing /\ seen.status \in DispatchableStatuses

Candidates == Technicians \ {m.employee : m \in seen.team}

\* What is done can be finished again.
MutOffers(s) == CASE s = "PENDING" -> {"accept", "reject"}
                  [] s = "ACCEPTED" -> {"start"}
                  [] OTHER -> {"complete"}

\* The buttons of an assignment in "my tasks", by the status that is shown.
Offers(s) == CASE s = "PENDING" -> {"accept", "reject"}
               [] s = "ACCEPTED" -> {"start"}
               [] s = "IN_PROGRESS" -> {"complete"}
               [] OTHER -> {}

Offered(command) ==
    IF Shown THEN {a \in DOMAIN seen.items : command \in Offers(seen.items[a])} ELSE {}

(***************************************************************************)
(* Requests                                                                *)
(***************************************************************************)
Free == answer = NoAnswer
Waiting(kinds) == answer # NoAnswer /\ answer.kind \in kinds
Sent(kind, state) == answer' = [kind |-> kind, state |-> state]

\* A command with version v: refused for its version, refused by a guard, or
\* executed; the answer, or the command itself, may be lost.
Request(kind, v, admitted, Command) ==
    /\ Free
    /\ \/ /\ v # version
          /\ Sent(kind, "stale")
          /\ UNCHANGED <<vars, version>>
       \/ /\ v = version /\ ~admitted
          /\ Sent(kind, "refused")
          /\ UNCHANGED <<vars, version>>
       \/ /\ Sent(kind, "lost")
          /\ UNCHANGED <<vars, version>>
       \/ /\ v = version /\ admitted
          /\ version < MaxVersion
          /\ version' = version + 1
          /\ Command
          /\ Sent(kind, "ok") \/ Sent(kind, "lost")
    /\ UNCHANGED <<user, screens>>

MyAssignment(a, from) == asg[a].employee = user /\ asg[a].status = from
TaskInWork(a) == Dispatchable /\ ~task[asg[a].task].cancelled

(***************************************************************************)
(* The technical lead                                                      *)
(***************************************************************************)
ReadOrder ==
    /\ user = Lead /\ ~Editing
    /\ seen' = OrderSeen
    /\ failed' = FALSE
    /\ UNCHANGED <<vars, version, user, sheet, fetch, picker, reload, dialog, answer>>

OpenCreateSheet ==
    /\ user = Lead /\ sheet = "none" /\ Shown /\ CanCreate
    /\ sheet' = "create"
    /\ UNCHANGED <<vars, version, user, fetch, seen, failed, picker, reload, dialog, answer>>

\* A row of the tasks.  A sheet that starts with an answer from the cache is one
\* that was not closed; what is kept of the order is read again afterwards.
OpenTask(t) ==
    /\ user = Lead /\ sheet = "none" /\ t \in Inserted
    /\ sheet' = t
    /\ seen' = Nothing
    /\ failed' = FALSE
    /\ UNCHANGED <<vars, version, user, fetch, picker, reload, dialog, answer>>

\* The GET of the task starts, perhaps in the place of the last one; the row of
\* the task is read.
ReadTaskRow ==
    /\ user = Lead /\ Editing
    /\ fetch' = [row |-> TaskRowSeen(sheet), order |-> Nothing]
    /\ UNCHANGED <<vars, version, user, sheet, seen, failed, picker, reload, dialog, answer>>

\* Then that of the order, with the version.
ReadTaskOrder ==
    /\ fetch # Nothing /\ fetch.order = Nothing
    /\ fetch' = [fetch EXCEPT !.order = OrderSeen]
    /\ UNCHANGED <<vars, version, user, sheet, seen, failed, picker, reload, dialog, answer>>

\* Then the team, of the cycle of the first read; the answer is shown.
ReadTask ==
    /\ fetch # Nothing /\ fetch.order # Nothing
    /\ seen' = TaskSeen(sheet, fetch.row, fetch.order)
    /\ fetch' = Nothing
    /\ failed' = FALSE
    /\ UNCHANGED <<vars, version, user, sheet, picker, reload, dialog, answer>>

Closed ==
    /\ sheet' = "none" /\ picker' = FALSE /\ reload' = FALSE /\ dialog' = NoDialog
    /\ fetch' = Nothing
    /\ seen' = IF Editing THEN Nothing ELSE seen
    /\ failed' = FALSE

\* Requests that are under way go on, but nobody waits for their answer.
CloseSheet ==
    /\ user = Lead /\ sheet # "none" /\ dialog = NoDialog
    /\ ~Waiting({"create", "update", "cancel", "reopen"})
    /\ Closed
    /\ answer' = NoAnswer
    /\ UNCHANGED <<vars, version, user>>

Teams == (SUBSET Technicians) \ {{}}

CreateFromSheet ==
    /\ user = Lead /\ sheet = "create" /\ ~reload
    /\ \E t \in Tasks \ Inserted, team \in Teams :
          Request("create", seen.version, Dispatchable /\ team \subseteq onDuty,
                  CreateTask(t) /\ team = {asg'[a].employee : a \in {x \in Fresh : asg'[x] # NoAssignment}})

\* "Luu" of the form: hours, due date and wording, which the workflow does not read.
SaveTask ==
    /\ user = Lead /\ Editing /\ Shown /\ CanManage
    /\ ~reload /\ dialog = NoDialog
    /\ Request("update", seen.version, Unfinished(sheet) /\ Dispatchable, UNCHANGED vars)

TogglePicker ==
    /\ user = Lead /\ Editing /\ Shown /\ CanManage /\ dialog = NoDialog
    /\ picker' = ~picker
    /\ UNCHANGED <<vars, version, user, sheet, fetch, seen, failed, reload, dialog, answer>>

\* One of the candidates; the list stays when the sheet turns read-only.
AddFromPicker ==
    /\ user = Lead /\ Editing /\ Shown /\ picker /\ dialog = NoDialog
    /\ \E e \in Candidates :
          Request("add", seen.version,
                  /\ Unfinished(sheet) /\ Dispatchable
                  /\ e \in onDuty /\ ~AlreadyActive(sheet, e),
                  \E a \in Assignments : AddAssignee(sheet, a, e))

Asks(what, a, v) == dialog' = [what |-> what, asg |-> a, version |-> v, stale |-> FALSE]

\* "Go" stands beside everyone in the team, also beside who is done.
OpenTaskDialog ==
    /\ user = Lead /\ Editing /\ Shown /\ dialog = NoDialog
    /\ \/ CanManage /\ \E m \in seen.team : Asks("remove", m.asg, 0)
       \/ CanManage /\ Asks("cancel", NoAssignment, 0)
       \/ CanReopen /\ Asks("reopen", NoAssignment, 0)
    /\ UNCHANGED <<vars, version, user, sheet, fetch, seen, failed, picker, reload, answer>>

\* The version is that of the sheet behind the dialog when it is confirmed.
ConfirmRemove ==
    /\ Editing /\ dialog.what = "remove"
    /\ Request("remove", seen.version, dialog.asg \in OpenRows /\ Dispatchable,
               RemoveAssignee(sheet, dialog.asg))

ConfirmCancel ==
    /\ Editing /\ dialog.what = "cancel" /\ ~dialog.stale
    /\ Request("cancel", seen.version, Unfinished(sheet) /\ Dispatchable, CancelTask(sheet))

ConfirmReopen ==
    /\ Editing /\ dialog.what = "reopen" /\ ~dialog.stale
    /\ Request("reopen", seen.version, task[sheet].status = "DONE" /\ status = "REVISION",
               ReopenTask(sheet))

ReloadSheet ==
    /\ user = Lead /\ reload /\ dialog = NoDialog
    /\ reload' = FALSE
    /\ fetch' = Nothing
    /\ UNCHANGED <<vars, version, user, sheet, seen, failed, picker, dialog, answer>>

\* A success closes what asked for it; of the failures, only staleness does more
\* than to say so, and not when somebody was to be added or removed.
LeadHears ==
    /\ user = Lead /\ ~Free
    /\ answer' = NoAnswer
    /\ LET ok(kinds) == answer.state = "ok" /\ answer.kind \in kinds
           stale(kinds) == answer.state = "stale" /\ answer.kind \in kinds
       IN  IF ok({"create", "update", "cancel"}) THEN Closed
           ELSE /\ UNCHANGED <<sheet, seen, failed>>
                /\ fetch' = IF ok({"add", "remove", "reopen"}) THEN Nothing ELSE fetch
                /\ picker' = (picker /\ ~ok({"add"}))
                /\ reload' = (reload \/ stale({"create", "update"}))
                /\ dialog' = IF ok({"remove", "reopen"}) THEN NoDialog
                             ELSE IF stale({"cancel", "reopen"}) THEN [dialog EXCEPT !.stale = TRUE]
                             ELSE dialog
    /\ UNCHANGED <<vars, version, user>>

(***************************************************************************)
(* A technician                                                            *)
(***************************************************************************)
SignedIn == user \in onDuty

ReadList ==
    /\ SignedIn
    /\ seen' = ListSeen(user)
    /\ failed' = FALSE
    /\ UNCHANGED <<vars, version, user, sheet, fetch, picker, reload, dialog, answer>>

\* Two commands are given from the list itself.
AcceptListed ==
    /\ SignedIn /\ dialog = NoDialog
    /\ \E a \in Offered("accept") :
          Request("accept", seen.version, MyAssignment(a, "PENDING") /\ TaskInWork(a), Accept(a))

StartListed ==
    /\ SignedIn /\ dialog = NoDialog
    /\ \E a \in Offered("start") :
          Request("start", seen.version, MyAssignment(a, "ACCEPTED") /\ TaskInWork(a), Start(a))

\* The other two ask first, and keep the item as it was listed then.
OpenAssignmentSheet ==
    /\ SignedIn /\ dialog = NoDialog
    /\ \E what \in {"reject", "complete"} : \E a \in Offered(what) :
          Asks(what, a, seen.version)
    /\ UNCHANGED <<vars, version, user, sheet, fetch, seen, failed, picker, reload, answer>>

ConfirmReject ==
    /\ SignedIn /\ dialog.what = "reject" /\ ~dialog.stale
    /\ Request("reject", dialog.version, MyAssignment(dialog.asg, "PENDING"), Reject(dialog.asg))

ConfirmComplete ==
    /\ SignedIn /\ dialog.what = "complete" /\ ~dialog.stale
    /\ Request("complete", dialog.version,
               MyAssignment(dialog.asg, "IN_PROGRESS") /\ ~task[asg[dialog.asg].task].cancelled,
               CompleteAssignment(dialog.asg))

TechnicianHears ==
    /\ user # Lead /\ ~Free
    /\ answer' = NoAnswer
    /\ dialog' = IF dialog.what # answer.kind THEN dialog
                 ELSE IF answer.state = "ok" THEN NoDialog
                 ELSE IF answer.state = "stale" THEN [dialog EXCEPT !.stale = TRUE]
                 ELSE dialog
    /\ UNCHANGED <<vars, version, user, sheet, fetch, seen, failed, picker, reload>>

(***************************************************************************)
(* Either of them                                                          *)
(***************************************************************************)
ReadFails ==
    /\ failed' = TRUE
    /\ fetch' = Nothing
    /\ UNCHANGED <<vars, version, user, sheet, seen, picker, reload, dialog, answer>>

\* A dialog waits for its own request.
CloseDialog ==
    /\ dialog # NoDialog /\ ~Waiting({dialog.what})
    /\ dialog' = NoDialog
    /\ UNCHANGED <<vars, version, user, sheet, fetch, seen, failed, picker, reload, answer>>

\* "Tai lai" in a stale dialog: it stays open on a sheet of the lead, and closes
\* on the list of a technician.
ReloadDialog ==
    /\ dialog.stale
    /\ dialog' = IF user = Lead THEN [dialog EXCEPT !.stale = FALSE] ELSE NoDialog
    /\ fetch' = Nothing
    /\ UNCHANGED <<vars, version, user, sheet, seen, failed, picker, reload, answer>>

(***************************************************************************)
(* Everybody else                                                          *)
(***************************************************************************)
\* Commands that write the order row, a change of its content among them.
OthersCommand ==
    /\ version < MaxVersion
    /\ version' = version + 1
    /\ \/ Submit \/ Recall \/ Cancel \/ Complete \/ RequestRevision \/ CancelActive
       \/ TaskCommand \/ AssignmentCommand
       \/ UNCHANGED vars
    /\ UNCHANGED <<user, screens, answer>>

\* Commands that leave the row alone.
OthersAside ==
    /\ UploadConfirmation \/ RequestRevisionFromCustomerCare \/ AccountCommand
    /\ UNCHANGED <<version, user, screens, answer>>

(***************************************************************************)
(* The specification                                                       *)
(***************************************************************************)
InitScreens ==
    /\ Init
    /\ version = 1
    /\ user \in {Lead} \cup Technicians
    /\ sheet = "none"
    /\ fetch = Nothing
    /\ seen = Nothing
    /\ failed = FALSE
    /\ picker = FALSE
    /\ reload = FALSE
    /\ dialog = NoDialog
    /\ answer = NoAnswer

LeadActs ==
    \/ ReadOrder \/ OpenCreateSheet \/ (\E t \in Tasks : OpenTask(t))
    \/ ReadTaskRow \/ ReadTaskOrder \/ ReadTask \/ CloseSheet
    \/ CreateFromSheet \/ SaveTask \/ TogglePicker \/ AddFromPicker \/ OpenTaskDialog
    \/ ConfirmRemove \/ ConfirmCancel \/ ConfirmReopen \/ ReloadSheet \/ LeadHears

TechnicianActs ==
    \/ ReadList \/ AcceptListed \/ StartListed \/ OpenAssignmentSheet
    \/ ConfirmReject \/ ConfirmComplete \/ TechnicianHears

NextScreens ==
    LeadActs \/ TechnicianActs \/ ReadFails \/ CloseDialog \/ ReloadDialog
    \/ OthersCommand \/ OthersAside

SpecScreens == InitScreens /\ [][NextScreens]_vars2

(***************************************************************************)
(* Properties                                                              *)
(***************************************************************************)
Kinds == {"create", "update", "add", "remove", "cancel", "reopen",
          "accept", "reject", "start", "complete"}

\* The types, and a dialog over a sheet only once the sheet was filled.
ScreensTypeOK ==
    /\ version \in 1..MaxVersion
    /\ user \in {Lead} \cup Technicians
    /\ sheet \in Tasks \cup {"none", "create"}
    /\ seen \in {Nothing} \cup (IF user # Lead THEN AList ELSE IF Editing THEN ATask ELSE AnOrder)
    /\ fetch \in {Nothing} \cup AFetch
    /\ fetch # Nothing => user = Lead /\ Editing
    /\ {failed, picker, reload} \subseteq BOOLEAN
    /\ dialog \in [what : {"none"} \cup Kinds, asg : Assignments \cup {NoAssignment},
                   version : 0..MaxVersion, stale : BOOLEAN]
    /\ answer \in {NoAnswer} \cup [kind : Kinds, state : {"ok", "stale", "refused", "lost"}]
    /\ dialog # NoDialog \/ sheet = "create" => seen # Nothing
    /\ seen # Nothing => seen.version <= version
    /\ Editing /\ seen # Nothing => seen.of = sheet

Refused == ~Free /\ answer.state = "refused"

\* What "my tasks" offers on an up-to-date list the server does: the one reason
\* to refuse a technician is that the order was changed since.  The buttons look
\* at the status of the assignment alone, the server at the order and the task
\* too.
TechnicianOnlyMeetsChanges == user # Lead => ~Refused

\* The sheet shows a task that was read before the version that is shown with it,
\* and has another status or cycle since.
Torn ==
    /\ seen.row.at < seen.version
    /\ <<seen.row.status, seen.row.cycle>> # <<task[sheet].status, task[sheet].cycle>>

\* Nor is the lead refused on an up-to-date sheet, unless a command came between
\* the reads of its answer and changed the task, or the sheet has turned
\* read-only under an open dialog or picker, or he removes somebody who is
\* done, or gives work to somebody who has left.
LeadIsRefusedForCause ==
    [][user = Lead /\ Refused' /\ ~Refused /\ ~(Editing /\ Torn) =>
          CASE answer'.kind = "create" -> ~CanCreate \/ onDuty # Technicians
            [] answer'.kind = "update" -> FALSE
            [] answer'.kind = "add" -> ~CanManage \/ onDuty # Technicians
            [] answer'.kind = "remove" ->
                  ~CanManage \/ dialog.asg \notin {m.asg : m \in {x \in seen.team : x.status # "DONE"}}
            [] answer'.kind = "cancel" -> ~CanManage
            [] answer'.kind = "reopen" -> ~CanReopen]_vars2

\* Nobody's work is left out: on an up-to-date list a technician finds every
\* assignment he has yet to answer, start or finish, with the buttons for it,
\* although the list drops the assignments of earlier cycles.
OpenWorkIsOffered ==
    user # Lead /\ seen # Nothing /\ seen.version = version =>
        \A a \in OpenRows : asg[a].employee = user =>
            /\ a \in DOMAIN seen.items
            /\ seen.items[a] = asg[a].status
            /\ Offers(seen.items[a]) # {}
=============================================================================
