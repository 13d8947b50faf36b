------------------------- MODULE TaskScreensProofs -------------------------
(***************************************************************************)
(* Proofs about the screens of TaskScreens, on top of what is proved of    *)
(* the server in WorkflowProofs.                                           *)
(*                                                                         *)
(* The argument: every step of a screen is a step of the workflow, so its  *)
(* invariants hold here too; and a screen whose version is that of the     *)
(* order shows the rows of the order, because whatever changes a row of a  *)
(* task or an assignment, or the status of the order, raises the version.  *)
(* The sheet of a task is the exception: the row of the task was read      *)
(* before the version, and is right if nothing was written in between.     *)
(***************************************************************************)
EXTENDS TaskScreens, WorkflowProofs

(***************************************************************************)
(* Types                                                                   *)
(***************************************************************************)
DialogKinds == {"none", "remove", "cancel", "reopen", "reject", "complete"}

Dialogs == [what : DialogKinds, asg : Assignments \cup {NoAssignment},
            version : Nat, stale : BOOLEAN]

Sheets == Tasks \cup {"none", "create"}

\* A task is only read for a sheet of the lead that is open.
FetchTyped(f, editing, u) ==
    f # Nothing =>
       /\ u = Lead /\ editing
       /\ f = [row |-> f.row, order |-> f.order]
       /\ f.row.at \in Nat
       /\ f.order # Nothing => f.order.version \in Nat

\* What a screen may hand over to a command.
ScreenTypes ==
    /\ version \in Nat
    /\ user \in {Lead} \cup Technicians
    /\ sheet \in Sheets
    /\ dialog \in Dialogs
    /\ seen # Nothing => seen.version \in Nat
    /\ seen # Nothing /\ user = Lead /\ Editing => \A m \in seen.team : m.asg \in Assignments
    /\ seen # Nothing /\ user # Lead => DOMAIN seen.items \subseteq Assignments
    /\ user # Lead /\ dialog # NoDialog =>
          dialog.what \in {"reject", "complete"} /\ dialog.asg \in Assignments
    /\ answer # NoAnswer => answer.kind \in Kinds
    /\ FetchTyped(fetch, Editing, user)

Base == Rows /\ ScreenTypes

\* Nobody signed in as a technician is the lead.
LEMMA SignedInIsNotLead ==
    ASSUME Rows, SignedIn
    PROVE  user # Lead /\ user \in Technicians
BY LeadIsNoTechnician DEF Rows, TypeOK, SignedIn

\* What a command of a screen leaves alone.
RequestFrame == UNCHANGED <<user, screens>> /\ (version' = version \/ version' = version + 1)

Requests ==
    \/ CreateFromSheet \/ SaveTask \/ AddFromPicker \/ ConfirmRemove \/ ConfirmCancel \/ ConfirmReopen
    \/ AcceptListed \/ StartListed \/ ConfirmReject \/ ConfirmComplete

LEMMA RequestsKeepScreens ==
    ASSUME Requests
    PROVE  RequestFrame
BY DEF Requests, CreateFromSheet, SaveTask, AddFromPicker, ConfirmRemove, ConfirmCancel,
    ConfirmReopen, AcceptListed, StartListed, ConfirmReject, ConfirmComplete, Request, RequestFrame

\* Every command a screen gives is one of the workflow.
LEMMA RequestsAreCommands ==
    ASSUME Base, Requests
    PROVE  [Next]_vars
<1>1. CASE CreateFromSheet
  BY <1>1 DEF CreateFromSheet, Request, Next, TaskCommand
<1>2. CASE SaveTask
  BY <1>2 DEF SaveTask, Request
<1>3. CASE AddFromPicker
  <2>1. sheet \in Tasks /\ Candidates \subseteq Technicians
    BY <1>3 DEF AddFromPicker, Editing, Candidates
  <2> QED
    BY <1>3, <2>1 DEF AddFromPicker, Request, Next, TaskCommand
<1>4. CASE ConfirmRemove
  <2>1. \/ UNCHANGED vars
        \/ sheet \in Tasks /\ RemoveAssignee(sheet, dialog.asg)
    BY <1>4 DEF ConfirmRemove, Request, Editing
  <2>2. RemoveAssignee(sheet, dialog.asg) => dialog.asg \in Assignments
    BY DEF RemoveAssignee, OpenRows
  <2> QED
    BY <2>1, <2>2 DEF Next, TaskCommand
<1>5. CASE ConfirmCancel
  BY <1>5 DEF ConfirmCancel, Editing, Request, Next, TaskCommand
<1>6. CASE ConfirmReopen
  BY <1>6 DEF ConfirmReopen, Editing, Request, Next, TaskCommand
<1>7. CASE AcceptListed \/ StartListed
  <2>1. user # Lead
    BY <1>7, SignedInIsNotLead DEF AcceptListed, StartListed, Base
  <2>2. Offered("accept") \subseteq Assignments /\ Offered("start") \subseteq Assignments
    BY <2>1 DEF Offered, Shown, Base, ScreenTypes
  <2>3. \/ UNCHANGED vars
        \/ \E a \in Assignments : Accept(a) \/ Start(a)
    BY <1>7, <2>2 DEF AcceptListed, StartListed, Request
  <2> QED
    BY <2>3 DEF Next, AssignmentCommand
<1>8. CASE ConfirmReject \/ ConfirmComplete
  <2>1. user # Lead /\ dialog # NoDialog
    BY <1>8, SignedInIsNotLead DEF ConfirmReject, ConfirmComplete, Base, NoDialog
  <2>2. dialog.asg \in Assignments
    BY <2>1 DEF Base, ScreenTypes
  <2>3. \/ UNCHANGED vars
        \/ Reject(dialog.asg) \/ CompleteAssignment(dialog.asg)
    BY <1>8 DEF ConfirmReject, ConfirmComplete, Request
  <2> QED
    BY <2>2, <2>3 DEF Next, AssignmentCommand
<1> QED
  BY <1>1, <1>2, <1>3, <1>4, <1>5, <1>6, <1>7, <1>8 DEF Requests

(***************************************************************************)
(* The steps that only concern the screen                                  *)
(***************************************************************************)
Looks ==
    \/ ReadOrder \/ OpenCreateSheet \/ (\E t \in Tasks : OpenTask(t))
    \/ ReadTaskRow \/ ReadTaskOrder \/ ReadTask \/ CloseSheet
    \/ TogglePicker \/ OpenTaskDialog \/ ReloadSheet \/ LeadHears
    \/ ReadList \/ OpenAssignmentSheet \/ TechnicianHears
    \/ ReadFails \/ CloseDialog \/ ReloadDialog

LEMMA LooksChangeNothing ==
    ASSUME Looks
    PROVE  UNCHANGED <<vars, version, user>>
BY DEF Looks, ReadOrder, OpenCreateSheet, OpenTask, ReadTaskRow, ReadTaskOrder, ReadTask,
    CloseSheet, TogglePicker, OpenTaskDialog, ReloadSheet, LeadHears, ReadList,
    OpenAssignmentSheet, TechnicianHears, ReadFails, CloseDialog, ReloadDialog

LEMMA StepsOfScreens ==
    ASSUME [NextScreens]_vars2
    PROVE  Requests \/ Looks \/ OthersCommand \/ OthersAside \/ UNCHANGED vars2
BY DEF NextScreens, LeadActs, TechnicianActs, Requests, Looks

LEMMA OthersAreCommands ==
    ASSUME OthersCommand \/ OthersAside
    PROVE  [Next]_vars /\ UNCHANGED <<user, screens, answer>>
BY DEF OthersCommand, OthersAside, Next, OrderCommand

LEMMA ScreensStep ==
    ASSUME Base, [NextScreens]_vars2
    PROVE  [Next]_vars
BY StepsOfScreens, RequestsAreCommands, LooksChangeNothing, OthersAreCommands DEF vars2

(***************************************************************************)
(* The screens run the workflow                                            *)
(***************************************************************************)
LEMMA StaleDialog ==
    ASSUME dialog \in Dialogs, NEW b \in BOOLEAN
    PROVE  /\ [dialog EXCEPT !.stale = b] \in Dialogs
           /\ [dialog EXCEPT !.stale = b].what = dialog.what
           /\ [dialog EXCEPT !.stale = b].asg = dialog.asg
           /\ [dialog EXCEPT !.stale = b].version = dialog.version
<1>1. dialog = [what |-> dialog.what, asg |-> dialog.asg, version |-> dialog.version,
                stale |-> dialog.stale]
  BY DEF Dialogs
<1>2. [dialog EXCEPT !.stale = b] =
        [what |-> dialog.what, asg |-> dialog.asg, version |-> dialog.version, stale |-> b]
  BY <1>1 DEF Dialogs
<1> QED
  BY <1>2 DEF Dialogs

LEMMA NoDialogIsDialog == NoDialog \in Dialogs
BY DEF NoDialog, Dialogs, DialogKinds

LEMMA SheetsDoNotEdit == "none" \notin Tasks /\ "create" \notin Tasks
BY SheetsAreNoTasks

\* What the lead is shown stays typed, whichever sheet he moves to.
SeenTyped(s, e, u) ==
    s # Nothing =>
       /\ s.version \in Nat
       /\ u = Lead /\ e => \A m \in s.team : m.asg \in Assignments
       /\ u # Lead => DOMAIN s.items \subseteq Assignments

LEMMA AnswersAreTyped ==
    ASSUME Base
    PROVE  /\ SeenTyped(OrderSeen, FALSE, Lead)
           /\ \A e \in Technicians : SeenTyped(ListSeen(e), FALSE, e)
<1>1. version \in Nat
  BY DEF Base, ScreenTypes
<1>3. \A e \in Technicians : DOMAIN ListSeen(e).items \subseteq Assignments
  BY DEF ListSeen, Listed
<1> QED
  BY <1>1, <1>3, LeadIsNoTechnician DEF SeenTyped, OrderSeen, ListSeen

LEMMA TaskAnswerIsTyped ==
    ASSUME NEW t \in Tasks, NEW r, NEW o, o.version \in Nat
    PROVE  SeenTyped(TaskSeen(t, r, o), TRUE, Lead)
<1>1. \A m \in TaskSeen(t, r, o).team : m.asg \in Assignments
  BY DEF TaskSeen, ActiveOf
<1> QED
  BY <1>1 DEF SeenTyped, TaskSeen

LEMMA SeenStaysTyped ==
    ASSUME Base, Looks
    PROVE  SeenTyped(seen', Editing', user)
<1>0. SeenTyped(seen, Editing, user)
  BY DEF Base, ScreenTypes, SeenTyped
<1>1. CASE UNCHANGED <<seen, sheet>>
  BY <1>0, <1>1 DEF Editing
<1>2. CASE ReadOrder
  BY <1>2, AnswersAreTyped DEF ReadOrder, Editing, SeenTyped
<1>3. CASE OpenCreateSheet
  BY <1>0, <1>3, SheetsDoNotEdit DEF OpenCreateSheet, Editing, SeenTyped
<1>4. CASE \E t \in Tasks : OpenTask(t)
  BY <1>4 DEF OpenTask, SeenTyped
<1>5. CASE ReadTask
  <2>1. user = Lead /\ Editing /\ fetch.order.version \in Nat
    BY <1>5 DEF ReadTask, Base, ScreenTypes, FetchTyped
  <2>2. SeenTyped(TaskSeen(sheet, fetch.row, fetch.order), TRUE, Lead)
    BY <2>1, TaskAnswerIsTyped DEF Editing
  <2> QED
    BY <1>5, <2>1, <2>2 DEF ReadTask, Editing
<1>6. CASE Closed
  BY <1>0, <1>6, SheetsDoNotEdit DEF Closed, Editing, SeenTyped
<1>7. CASE ReadList
  <2>1. user \in Technicians /\ user # Lead
    BY <1>7, SignedInIsNotLead DEF ReadList, Base
  <2> QED
    BY <1>7, <2>1, AnswersAreTyped DEF ReadList, SeenTyped
<1> QED
  BY <1>1, <1>2, <1>3, <1>4, <1>5, <1>6, <1>7
  DEF Looks, ReadTaskRow, ReadTaskOrder, CloseSheet, TogglePicker, OpenTaskDialog, ReloadSheet,
      LeadHears, OpenAssignmentSheet, TechnicianHears, ReadFails, CloseDialog, ReloadDialog

\* What has been read is kept for its sheet, or dropped, or read on.
LEMMA FetchSteps ==
    ASSUME Base, Looks
    PROVE  \/ fetch' = Nothing
           \/ fetch' = fetch /\ sheet' = sheet
           \/ ReadTaskRow
           \/ ReadTaskOrder
<1>1. CASE OpenCreateSheet \/ \E t \in Tasks : OpenTask(t)
  <2>1. ~Editing
    BY <1>1, SheetsDoNotEdit DEF OpenCreateSheet, OpenTask, Editing
  <2>2. fetch = Nothing
    BY <2>1 DEF Base, ScreenTypes, FetchTyped
  <2> QED
    BY <1>1, <2>2 DEF OpenCreateSheet, OpenTask
<1> QED
  BY <1>1 DEF Looks, ReadOrder, ReadTask, CloseSheet, Closed, TogglePicker, OpenTaskDialog,
    ReloadSheet, LeadHears, ReadList, OpenAssignmentSheet, TechnicianHears, ReadFails,
    CloseDialog, ReloadDialog

LEMMA FetchStaysTyped ==
    ASSUME Base, Looks
    PROVE  FetchTyped(fetch', Editing', user)
<1>0. FetchTyped(fetch, Editing, user) /\ version \in Nat
  BY DEF Base, ScreenTypes
<1>1. CASE fetch' = Nothing
  BY <1>1 DEF FetchTyped
<1>2. CASE fetch' = fetch /\ sheet' = sheet
  BY <1>0, <1>2 DEF Editing
<1>3. CASE ReadTaskRow
  BY <1>0, <1>3 DEF ReadTaskRow, TaskRowSeen, Editing, FetchTyped
<1>4. CASE ReadTaskOrder
  <2>1. fetch # Nothing /\ sheet' = sheet
    BY <1>4 DEF ReadTaskOrder
  <2>2. fetch' = [row |-> fetch.row, order |-> OrderSeen]
    BY <1>0, <1>4 DEF ReadTaskOrder, FetchTyped
  <2> QED
    BY <1>0, <2>1, <2>2 DEF Editing, FetchTyped, OrderSeen
<1> QED
  BY <1>1, <1>2, <1>3, <1>4, FetchSteps

\* The steps that ask, and what they ask about.
DialogTyped(d, u) ==
    /\ d \in Dialogs
    /\ u # Lead /\ d # NoDialog => d.what \in {"reject", "complete"} /\ d.asg \in Assignments

LEMMA AskedIsTyped ==
    ASSUME NEW what \in DialogKinds, NEW a \in Assignments \cup {NoAssignment}, NEW v \in Nat,
           Asks(what, a, v)
    PROVE  /\ dialog' \in Dialogs
           /\ dialog'.what = what /\ dialog'.asg = a /\ dialog'.version = v
BY DEF Asks, Dialogs

LEMMA DialogStaysTyped ==
    ASSUME Base, Looks
    PROVE  DialogTyped(dialog', user)
<1>0. DialogTyped(dialog, user) /\ DialogTyped(NoDialog, user)
  BY NoDialogIsDialog DEF Base, ScreenTypes, DialogTyped
<1>1. CASE UNCHANGED dialog \/ dialog' = NoDialog
  BY <1>0, <1>1
<1>2. ASSUME NEW b \in BOOLEAN, dialog' = [dialog EXCEPT !.stale = b], dialog # NoDialog
      PROVE  DialogTyped(dialog', user)
  BY <1>0, <1>2, StaleDialog DEF DialogTyped
<1>3. CASE OpenTaskDialog
  <2>1. user = Lead /\ seen # Nothing /\ Editing
    BY <1>3 DEF OpenTaskDialog, Shown
  <2>2. \E what \in {"remove", "cancel", "reopen"}, a \in Assignments \cup {NoAssignment} :
           Asks(what, a, 0)
    BY <1>3, <2>1 DEF OpenTaskDialog, Base, ScreenTypes
  <2> QED
    BY <2>1, <2>2, AskedIsTyped DEF DialogTyped, DialogKinds
<1>4. CASE OpenAssignmentSheet
  <2>1. user # Lead
    BY <1>4, SignedInIsNotLead DEF OpenAssignmentSheet, Base
  <2>2. PICK what \in {"reject", "complete"} : \E a \in Offered(what) : Asks(what, a, seen.version)
    BY <1>4 DEF OpenAssignmentSheet
  <2>3. seen # Nothing /\ Offered(what) \subseteq Assignments
    BY <2>1, <2>2 DEF Offered, Shown, Base, ScreenTypes
  <2>4. seen.version \in Nat
    BY <2>3 DEF Base, ScreenTypes
  <2> QED
    BY <2>2, <2>3, <2>4, AskedIsTyped DEF DialogTyped, DialogKinds
<1>5. CASE LeadHears
  <2>1. user = Lead
    BY <1>5 DEF LeadHears
  <2>2. UNCHANGED dialog \/ dialog' = NoDialog \/ dialog' = [dialog EXCEPT !.stale = TRUE]
    BY <1>5 DEF LeadHears, Closed
  <2> QED
    BY <1>0, <2>1, <2>2, StaleDialog DEF DialogTyped
<1>6. CASE TechnicianHears
  <2>1. \/ UNCHANGED dialog \/ dialog' = NoDialog
        \/ dialog' = [dialog EXCEPT !.stale = TRUE]
    BY <1>6 DEF TechnicianHears
  <2>2. answer.kind # "none"
    BY <1>6 DEF TechnicianHears, Free, Base, ScreenTypes, Kinds
  <2>3. dialog = NoDialog => dialog' = dialog
    BY <1>6, <2>2 DEF TechnicianHears, NoDialog
  <2> QED
    BY <2>1, <1>1, <1>2, <2>3
<1>7. CASE ReloadDialog
  <2>1. dialog # NoDialog
    BY <1>7 DEF ReloadDialog, NoDialog
  <2> QED
    BY <1>7, <2>1, <1>1, <1>2 DEF ReloadDialog
<1> QED
  BY <1>1, <1>3, <1>4, <1>5, <1>6, <1>7
  DEF Looks, ReadOrder, OpenCreateSheet, OpenTask, ReadTaskRow, ReadTaskOrder, ReadTask,
      CloseSheet, Closed, TogglePicker, ReloadSheet, ReadList, ReadFails, CloseDialog

LEMMA RequestKinds ==
    ASSUME Requests
    PROVE  answer'.kind \in Kinds
BY DEF Requests, CreateFromSheet, SaveTask, AddFromPicker, ConfirmRemove, ConfirmCancel,
    ConfirmReopen, AcceptListed, StartListed, ConfirmReject, ConfirmComplete, Request, Sent, Kinds

LEMMA AnswersStayTyped ==
    ASSUME Base, Looks
    PROVE  answer' # NoAnswer => answer'.kind \in Kinds
BY DEF Base, ScreenTypes, Looks, ReadOrder, OpenCreateSheet, OpenTask, ReadTaskRow,
    ReadTaskOrder, ReadTask, CloseSheet, TogglePicker, OpenTaskDialog, ReloadSheet, LeadHears,
    ReadList, OpenAssignmentSheet, TechnicianHears, ReadFails, CloseDialog, ReloadDialog

LEMMA SheetStaysTyped ==
    ASSUME Base, Looks
    PROVE  sheet' \in Sheets
BY DEF Base, ScreenTypes, Sheets, Looks, ReadOrder, OpenCreateSheet, OpenTask, ReadTaskRow,
    ReadTaskOrder, ReadTask, CloseSheet, Closed, TogglePicker, OpenTaskDialog, ReloadSheet,
    LeadHears, ReadList, OpenAssignmentSheet, TechnicianHears, ReadFails, CloseDialog,
    ReloadDialog

LEMMA BaseIsInvariant ==
    ASSUME Base, [NextScreens]_vars2
    PROVE  Base'
<1>1. Rows'
  BY ScreensStep, RowsStayTyped, RowsStayLinked, OrderStaysTyped
  DEF Base, Rows, TypeOK, AsgRows, TaskRows
<1>2. CASE Requests
  <2>1. UNCHANGED <<user, screens>> /\ version' \in Nat
    BY <1>2, RequestsKeepScreens DEF RequestFrame, Base, ScreenTypes
  <2> QED
    BY <1>1, <1>2, <2>1, RequestKinds DEF Base, ScreenTypes, FetchTyped, screens, Editing
<1>3. CASE Looks
  <2>1. UNCHANGED <<version, user>>
    BY <1>3, LooksChangeNothing
  <2>2. SeenTyped(seen', Editing', user) /\ DialogTyped(dialog', user)
    BY <1>3, SeenStaysTyped, DialogStaysTyped
  <2>3. (answer' # NoAnswer => answer'.kind \in Kinds) /\ sheet' \in Sheets
    BY <1>3, AnswersStayTyped, SheetStaysTyped
  <2>4. FetchTyped(fetch', Editing', user)
    BY <1>3, FetchStaysTyped
  <2> QED
    BY <1>1, <2>1, <2>2, <2>3, <2>4 DEF Base, ScreenTypes, SeenTyped, DialogTyped, FetchTyped
<1>4. CASE OthersCommand \/ OthersAside
  <2>1. UNCHANGED <<user, screens, answer>>
    BY <1>4, OthersAreCommands
  <2>2. version' \in Nat
    BY <1>4 DEF OthersCommand, OthersAside, Base, ScreenTypes
  <2> QED
    BY <1>1, <2>1, <2>2 DEF Base, ScreenTypes, FetchTyped, screens, Editing
<1>5. CASE UNCHANGED vars2
  BY <1>1, <1>5 DEF vars2, Base, ScreenTypes, FetchTyped, screens, Editing
<1> QED
  BY <1>2, <1>3, <1>4, <1>5, StepsOfScreens

LEMMA BaseAtFirst == InitScreens => Base
<1> SUFFICES ASSUME InitScreens PROVE Base
  OBVIOUS
<1>1. Rows
  BY MaxRevisionIsNat DEF InitScreens, Init, Rows, TypeOK, RowsHaveTasks, OrderStatus
<1> QED
  BY <1>1, NoDialogIsDialog DEF InitScreens, Base, ScreenTypes, FetchTyped, Sheets

\* Whatever the screens do, the server only ever executes commands of the
\* workflow: what is proved of Workflow holds behind these screens.
THEOREM ScreensRunTheWorkflow == SpecScreens => Spec
<1>1. InitScreens => Init /\ Base
  BY BaseAtFirst DEF InitScreens
<1>2. Base /\ [NextScreens]_vars2 => [Next]_vars /\ Base'
  BY ScreensStep, BaseIsInvariant
<1> QED
  BY <1>1, <1>2, PTL DEF SpecScreens, Spec

THEOREM BaseCorrect == SpecScreens => []Base
<1>1. InitScreens => Base
  BY BaseAtFirst
<1>2. Base /\ [NextScreens]_vars2 => Base'
  BY BaseIsInvariant
<1> QED
  BY <1>1, <1>2, PTL DEF SpecScreens

(***************************************************************************)
(* A screen with the version of the order shows the order                  *)
(***************************************************************************)
\* The list or the order that user u would get.
RightNow(u) == IF u # Lead THEN ListSeen(u) ELSE OrderSeen

ScreenIsFresh ==
    seen # Nothing =>
       /\ seen.version <= version
       /\ \A u \in {Lead} \cup Technicians :
             u = user /\ (u # Lead \/ ~Editing) /\ seen.version = version => seen = RightNow(u)

\* What is being read for a sheet, and what it shows, is right as far as it was
\* read at the version of the order.
FetchIsFresh ==
    fetch # Nothing =>
       /\ fetch.row.at <= version
       /\ fetch.row.at = version => /\ fetch.row.status = task[sheet].status
                                   /\ fetch.row.cycle = task[sheet].cycle
       /\ fetch.order # Nothing =>
             /\ fetch.row.at <= fetch.order.version /\ fetch.order.version <= version
             /\ fetch.order.version = version => fetch.order.status = status

Team(t, cycle) ==
    {[asg |-> a, employee |-> asg[a].employee, status |-> asg[a].status] :
        a \in ActiveOf(asg, t, cycle)}

TaskIsFresh ==
    seen # Nothing /\ user = Lead /\ Editing =>
       /\ seen.row.at \in Nat /\ seen.row.at <= seen.version
       /\ seen.version = version => seen.order = status /\ seen.team = Team(sheet, seen.row.cycle)
       /\ seen.row.at = version => /\ seen.row.status = task[sheet].status
                                  /\ seen.row.cycle = task[sheet].cycle

rows == <<status, task, asg>>

\* Whatever writes these rows raises the version.
LEMMA RowsNeedAVersion ==
    ASSUME Base, [NextScreens]_vars2
    PROVE  \/ version' = version /\ UNCHANGED rows
           \/ version' = version + 1 /\ UNCHANGED <<user, screens>>
<1>1. CASE Requests
  BY <1>1 DEF Requests, CreateFromSheet, SaveTask, AddFromPicker, ConfirmRemove, ConfirmCancel,
    ConfirmReopen, AcceptListed, StartListed, ConfirmReject, ConfirmComplete, Request, vars, rows
<1>2. CASE Looks
  BY <1>2, LooksChangeNothing DEF vars, rows
<1>3. CASE OthersCommand
  BY <1>3 DEF OthersCommand
<1>4. CASE OthersAside
  BY <1>4 DEF OthersAside, UploadConfirmation, RequestRevisionFromCustomerCare, AccountCommand,
    Deactivate, Activate, work, rows
<1>5. CASE UNCHANGED vars2
  BY <1>5 DEF vars2, vars, rows
<1> QED
  BY <1>1, <1>2, <1>3, <1>4, <1>5, StepsOfScreens

LEMMA SameAnswers ==
    ASSUME UNCHANGED rows, version' = version, NEW u
    PROVE  RightNow(u)' = RightNow(u)
BY DEF rows, RightNow, ListSeen, Listed, OrderSeen

LEMMA RightNowVersion ==
    ASSUME NEW u
    PROVE  RightNow(u).version = version
BY DEF RightNow, ListSeen, OrderSeen

\* What the screens put in the place of what they showed.
LEMMA NewlySeen ==
    ASSUME Base, Looks
    PROVE  \/ seen' = Nothing
           \/ seen' = seen /\ sheet' = sheet
           \/ seen' = seen /\ sheet \notin Tasks /\ sheet' \notin Tasks
           \/ /\ sheet' = sheet /\ (user # Lead \/ ~Editing)
              /\ \A u : u = user => seen' = RightNow(u)
           \/ ReadTask
<1>1. CASE UNCHANGED <<seen, sheet>>
  BY <1>1
<1>2. CASE ReadOrder
  BY <1>2 DEF ReadOrder, RightNow
<1>3. CASE OpenCreateSheet
  BY <1>3, SheetsDoNotEdit DEF OpenCreateSheet
<1>4. CASE \E t \in Tasks : OpenTask(t)
  BY <1>4 DEF OpenTask
<1>5. CASE ReadTask
  BY <1>5
<1>6. CASE Closed
  BY <1>6, SheetsDoNotEdit DEF Closed, Editing
<1>7. CASE ReadList
  BY <1>7, SignedInIsNotLead DEF ReadList, RightNow, Base
<1> QED
  BY <1>1, <1>2, <1>3, <1>4, <1>5, <1>6, <1>7
  DEF Looks, ReadTaskRow, ReadTaskOrder, CloseSheet, TogglePicker, OpenTaskDialog, ReloadSheet,
      LeadHears, OpenAssignmentSheet, TechnicianHears, ReadFails, CloseDialog, ReloadDialog

LEMMA UserStays ==
    ASSUME [NextScreens]_vars2
    PROVE  user' = user
BY RequestsKeepScreens, LooksChangeNothing, OthersAreCommands, StepsOfScreens
DEF RequestFrame, vars2

\* A step is one of the screen, or leaves the screen as it is.
LEMMA ScreensMoveAlone ==
    ASSUME [NextScreens]_vars2
    PROVE  Looks \/ UNCHANGED screens
BY RequestsKeepScreens, OthersAreCommands, StepsOfScreens DEF RequestFrame, vars2

LEMMA ReadTaskFacts ==
    ASSUME Base, FetchIsFresh, ReadTask
    PROVE  /\ user = Lead /\ Editing /\ sheet' = sheet
           /\ seen' = TaskSeen(sheet, fetch.row, fetch.order)
           /\ fetch.row.at \in Nat /\ fetch.order.version \in Nat
           /\ fetch.row.at <= fetch.order.version /\ fetch.order.version <= version
           /\ fetch.order.version = version => fetch.order.status = status
           /\ fetch.row.at = version => /\ fetch.row.status = task[sheet].status
                                       /\ fetch.row.cycle = task[sheet].cycle
BY DEF ReadTask, FetchIsFresh, Base, ScreenTypes, FetchTyped

LEMMA ListsStayFresh ==
    ASSUME Base, ScreenIsFresh, FetchIsFresh, [NextScreens]_vars2
    PROVE  ScreenIsFresh'
<1>0. /\ version \in Nat
      /\ seen # Nothing => seen.version \in Nat
  BY DEF Base, ScreenTypes
<1>1. CASE version' = version + 1 /\ UNCHANGED <<user, screens>>
  BY <1>0, <1>1 DEF ScreenIsFresh, screens
<1>2. CASE version' = version /\ UNCHANGED rows
  <2> SUFFICES ASSUME seen' # Nothing
               PROVE  /\ seen'.version <= version'
                      /\ \A u \in {Lead} \cup Technicians :
                            u = user' /\ (u # Lead \/ ~Editing') /\ seen'.version = version'
                              => seen' = RightNow(u)'
    BY DEF ScreenIsFresh
  <2>1. user' = user
    BY UserStays
  <2>2. \/ seen' = seen /\ (Editing' <=> Editing)
        \/ (user # Lead \/ ~Editing) /\ \A u : u = user => seen' = RightNow(u)
        \/ ReadTask
    BY NewlySeen, ScreensMoveAlone DEF screens, Editing
  <2>3. \A u : RightNow(u)' = RightNow(u) /\ RightNow(u).version = version
    BY <1>2, SameAnswers, RightNowVersion
  <2>4. CASE seen' = seen /\ (Editing' <=> Editing)
    BY <1>2, <2>1, <2>3, <2>4 DEF ScreenIsFresh
  <2>5. CASE \A u : u = user => seen' = RightNow(u)
    BY <1>0, <1>2, <2>1, <2>3, <2>5
  <2>6. CASE ReadTask
    <3>1. user = Lead /\ Editing'
      BY <2>6, ReadTaskFacts DEF Editing
    <3>2. seen'.version <= version
      BY <2>6, ReadTaskFacts DEF TaskSeen
    <3> QED
      BY <1>2, <2>1, <3>1, <3>2
  <2> QED
    BY <2>2, <2>4, <2>5, <2>6
<1> QED
  BY <1>1, <1>2, RowsNeedAVersion

LEMMA FetchStaysFresh ==
    ASSUME Base, FetchIsFresh, [NextScreens]_vars2
    PROVE  FetchIsFresh'
<1>0. version \in Nat /\ FetchTyped(fetch, Editing, user)
  BY DEF Base, ScreenTypes
<1>1. CASE version' = version + 1 /\ UNCHANGED <<user, screens>>
  BY <1>0, <1>1 DEF FetchIsFresh, FetchTyped, screens
<1>2. CASE version' = version /\ UNCHANGED rows
  <2>1. CASE fetch' = Nothing
    BY <2>1 DEF FetchIsFresh
  <2>2. CASE fetch' = fetch /\ sheet' = sheet
    BY <1>2, <2>2 DEF FetchIsFresh, rows
  <2>3. CASE ReadTaskRow
    BY <1>0, <1>2, <2>3 DEF ReadTaskRow, TaskRowSeen, FetchIsFresh, rows
  <2>4. CASE ReadTaskOrder
    <3>1. fetch # Nothing /\ sheet' = sheet
      BY <2>4 DEF ReadTaskOrder
    <3>2. fetch' = [row |-> fetch.row, order |-> OrderSeen]
      BY <1>0, <2>4 DEF ReadTaskOrder, FetchTyped
    <3>3. fetch'.row = fetch.row /\ fetch'.order.version = version /\ fetch'.order.status = status
      BY <3>2 DEF OrderSeen
    <3> QED
      BY <1>0, <1>2, <3>1, <3>3 DEF FetchIsFresh, rows
  <2> QED
    BY <2>1, <2>2, <2>3, <2>4, FetchSteps, ScreensMoveAlone DEF screens
<1> QED
  BY <1>1, <1>2, RowsNeedAVersion

LEMMA TaskStaysFresh ==
    ASSUME Base, ScreenIsFresh, FetchIsFresh, TaskIsFresh, [NextScreens]_vars2
    PROVE  TaskIsFresh'
<1>0. /\ version \in Nat
      /\ seen # Nothing => seen.version \in Nat /\ seen.version <= version
  BY DEF Base, ScreenTypes, ScreenIsFresh
<1>1. CASE version' = version + 1 /\ UNCHANGED <<user, screens>>
  <2>1. UNCHANGED <<user, sheet, seen>> /\ (Editing' <=> Editing)
    BY <1>1 DEF screens, Editing
  <2> SUFFICES ASSUME seen # Nothing, user = Lead, Editing
               PROVE  /\ seen.row.at \in Nat /\ seen.row.at <= seen.version
                      /\ seen.version # version' /\ seen.row.at # version'
    BY <2>1 DEF TaskIsFresh
  <2> QED
    BY <1>0, <1>1 DEF TaskIsFresh
<1>2. CASE version' = version /\ UNCHANGED rows
  <2>1. user' = user
    BY UserStays
  <2>2. \A t, c : Team(t, c)' = Team(t, c)
    BY <1>2 DEF Team, ActiveOf, rows
  <2>3. CASE seen' = Nothing \/ user # Lead \/ sheet' \notin Tasks
    BY <2>1, <2>3 DEF TaskIsFresh, Editing
  <2>4. CASE seen' = seen /\ sheet' = sheet
    <3>1. Editing' <=> Editing
      BY <2>4 DEF Editing
    <3>2. Team(sheet, seen.row.cycle)' = Team(sheet, seen.row.cycle)
      BY <2>2, <2>4, <1>2 DEF Team, ActiveOf, rows
    <3> QED
      BY <1>2, <2>1, <2>4, <3>1, <3>2 DEF TaskIsFresh, rows
  <2>5. CASE ReadTask
    <3>1. /\ seen'.row = fetch.row /\ seen'.version = fetch.order.version
          /\ seen'.order = fetch.order.status /\ sheet' = sheet
          /\ seen'.team = Team(sheet, fetch.row.cycle)
      BY <2>5, ReadTaskFacts DEF TaskSeen, Team
    <3>2. Team(sheet, seen.row.cycle)' = Team(sheet, fetch.row.cycle)
      BY <1>2, <3>1 DEF Team, ActiveOf, rows
    <3> QED
      BY <1>2, <2>5, <3>1, <3>2, ReadTaskFacts DEF TaskIsFresh, rows
  <2> QED
    BY <2>3, <2>4, <2>5, NewlySeen, ScreensMoveAlone DEF screens, Editing
<1> QED
  BY <1>1, <1>2, RowsNeedAVersion

(***************************************************************************)
(* What a technician is offered is what the server does                    *)
(***************************************************************************)
\* A dialog of a technician with the version of the order is about work he has.
DialogIsFresh ==
    user # Lead /\ dialog # NoDialog =>
       /\ dialog.version <= version
       /\ dialog.version = version =>
             /\ asg[dialog.asg] # NoAssignment
             /\ asg[dialog.asg].employee = user
             /\ asg[dialog.asg].status =
                   IF dialog.what = "reject" THEN "PENDING" ELSE "IN_PROGRESS"

FreshScreens ==
    Base /\ ScreenIsFresh /\ FetchIsFresh /\ TaskIsFresh /\ DialogIsFresh

\* The rows behind the buttons of an up-to-date list.
LEMMA OfferedRows ==
    ASSUME Base, ScreenIsFresh, user # Lead, seen # Nothing, seen.version = version,
           NEW command, NEW a \in Offered(command)
    PROVE  /\ a \in Assignments
           /\ asg[a] # NoAssignment
           /\ asg[a].employee = user
           /\ command \in Offers(asg[a].status)
<1>1. user \in Technicians /\ sheet \in Sheets
  BY DEF Base, ScreenTypes
<1>2. seen = ListSeen(user)
  BY <1>1, LeadIsNoTechnician DEF ScreenIsFresh, RightNow
<1>3. a \in DOMAIN seen.items /\ command \in Offers(seen.items[a])
  BY DEF Offered
<1>4. a \in Listed(user) /\ seen.items[a] = asg[a].status
  BY <1>2, <1>3 DEF ListSeen
<1> QED
  BY <1>3, <1>4 DEF Listed

LEMMA OffersByStatus ==
    ASSUME NEW s
    PROVE  /\ "accept" \in Offers(s) => s = "PENDING"
           /\ "reject" \in Offers(s) => s = "PENDING"
           /\ "start" \in Offers(s) => s = "ACCEPTED"
           /\ "complete" \in Offers(s) => s = "IN_PROGRESS"
BY DEF Offers

LEMMA DialogStaysFresh ==
    ASSUME FreshScreens, [NextScreens]_vars2
    PROVE  DialogIsFresh'
<1>0. /\ version \in Nat /\ dialog \in Dialogs /\ dialog.version \in Nat
      /\ DialogIsFresh /\ Base /\ ScreenIsFresh
  BY DEF FreshScreens, Base, ScreenTypes, Dialogs
<1>1. user' = user
  BY RequestsKeepScreens, LooksChangeNothing, OthersAreCommands, StepsOfScreens
  DEF RequestFrame, vars2
<1>2. CASE version' = version + 1 /\ UNCHANGED <<user, screens>>
  BY <1>0, <1>2 DEF DialogIsFresh, screens
<1>3. CASE version' = version /\ UNCHANGED rows
  <2>1. CASE UNCHANGED dialog
    BY <1>0, <1>1, <1>3, <2>1 DEF DialogIsFresh, rows
  <2>2. CASE dialog' = NoDialog
    BY <2>2 DEF DialogIsFresh
  <2>3. ASSUME NEW b \in BOOLEAN, dialog # NoDialog, dialog' = [dialog EXCEPT !.stale = b]
        PROVE  DialogIsFresh'
    <3>1. dialog'.what = dialog.what /\ dialog'.asg = dialog.asg /\ dialog'.version = dialog.version
      BY <1>0, <2>3, StaleDialog
    <3> QED
      BY <1>0, <1>1, <1>3, <2>3, <3>1 DEF DialogIsFresh, rows
  <2>4. CASE OpenAssignmentSheet
    <3>1. user # Lead
      BY <1>0, <2>4, SignedInIsNotLead DEF OpenAssignmentSheet, Base
    <3>7. PICK what \in {"reject", "complete"} :
              \E a \in Offered(what) : Asks(what, a, seen.version)
      BY <2>4 DEF OpenAssignmentSheet
    <3>2. PICK a \in Offered(what) : Asks(what, a, seen.version)
      BY <3>7
    <3>3. seen # Nothing /\ a \in Assignments /\ seen.version \in Nat
      BY <1>0, <3>1, <3>2 DEF Offered, Shown, Base, ScreenTypes
    <3>4. dialog'.what = what /\ dialog'.asg = a /\ dialog'.version = seen.version
      BY <3>2, <3>3, AskedIsTyped DEF DialogKinds
    <3>5. seen.version <= version
      BY <1>0, <3>3 DEF ScreenIsFresh
    <3>6. seen.version = version =>
             /\ asg[a] # NoAssignment
             /\ asg[a].employee = user
             /\ asg[a].status = IF what = "reject" THEN "PENDING" ELSE "IN_PROGRESS"
      BY <1>0, <3>1, <3>2, <3>3, OfferedRows, OffersByStatus
    <3> QED
      BY <1>1, <1>3, <3>4, <3>5, <3>6 DEF DialogIsFresh, rows
  <2>5. CASE user = Lead
    BY <1>1, <2>5 DEF DialogIsFresh
  <2>6. CASE TechnicianHears
    <3>1. answer.kind # "none"
      BY <1>0, <2>6 DEF TechnicianHears, Free, Base, ScreenTypes, Kinds
    <3>2. dialog = NoDialog => dialog' = dialog
      BY <2>6, <3>1 DEF TechnicianHears, NoDialog
    <3>3. UNCHANGED dialog \/ dialog' = NoDialog \/ dialog' = [dialog EXCEPT !.stale = TRUE]
      BY <2>6 DEF TechnicianHears
    <3> QED
      BY <2>1, <2>2, <2>3, <3>2, <3>3
  <2>7. CASE ReloadDialog
    <3>1. dialog # NoDialog
      BY <2>7 DEF ReloadDialog, NoDialog
    <3> QED
      BY <2>7, <3>1, <2>2, <2>3 DEF ReloadDialog
  <2>8. CASE Requests \/ OthersCommand \/ OthersAside \/ UNCHANGED vars2
    BY <2>8, <2>1, RequestsKeepScreens, OthersAreCommands DEF RequestFrame, screens, vars2
  <2>9. CASE Looks
    BY <2>9, <2>1, <2>2, <2>4, <2>5, <2>6, <2>7
    DEF Looks, ReadOrder, OpenCreateSheet, OpenTask, ReadTaskRow, ReadTaskOrder, ReadTask,
        CloseSheet, Closed, TogglePicker, OpenTaskDialog, ReloadSheet, LeadHears, ReadList,
        ReadFails, CloseDialog
  <2> QED
    BY <2>8, <2>9, StepsOfScreens
<1> QED
  BY <1>0, <1>2, <1>3, RowsNeedAVersion

\* An answer with the version of the order is the answer the server would give
\* now.  In the sheet of a task that goes for the status of the order, and for
\* the team in the cycle that is shown; the status and the cycle of the task are
\* as old as the first read of the answer, and right only if that, too, was at
\* the version of the order.  What a technician is asked about is work he has.
THEOREM ScreensAreFresh == SpecScreens => []FreshScreens
<1>1. InitScreens => FreshScreens
  BY BaseAtFirst
  DEF InitScreens, FreshScreens, ScreenIsFresh, FetchIsFresh, TaskIsFresh, DialogIsFresh
<1>2. FreshScreens /\ [NextScreens]_vars2 => FreshScreens'
  BY DialogStaysFresh, ListsStayFresh, FetchStaysFresh, TaskStaysFresh, BaseIsInvariant
  DEF FreshScreens
<1> QED
  BY <1>1, <1>2, PTL DEF SpecScreens

\* The list of a technician leaves out the earlier cycles of a task, and all
\* that is open is of the current one.
THEOREM NobodysWorkIsHidden == SpecScreens => []OpenWorkIsOffered
<1>1. FreshScreens /\ OpenWorkIsOfCurrentCycle => OpenWorkIsOffered
  <2> SUFFICES ASSUME FreshScreens, OpenWorkIsOfCurrentCycle,
                      user # Lead, seen # Nothing, seen.version = version,
                      NEW a \in OpenRows, asg[a].employee = user
               PROVE  /\ a \in DOMAIN seen.items
                      /\ seen.items[a] = asg[a].status
                      /\ Offers(seen.items[a]) # {}
    BY DEF OpenWorkIsOffered
  <2>1. user \in Technicians /\ sheet \in Sheets
    BY DEF FreshScreens, Base, ScreenTypes
  <2>2. seen = ListSeen(user)
    BY <2>1, LeadIsNoTechnician DEF FreshScreens, ScreenIsFresh, RightNow
  <2>3. /\ a \in Assignments /\ asg[a] # NoAssignment
        /\ asg[a].status \in Open
        /\ asg[a].cycle = task[asg[a].task].cycle
    BY DEF OpenRows, OpenWorkIsOfCurrentCycle
  <2>4. a \in Listed(user)
    BY <2>3 DEF Listed, Active
  <2>5. Offers(asg[a].status) # {}
    BY <2>3 DEF Offers, Open
  <2> QED
    BY <2>2, <2>4, <2>5 DEF ListSeen
<1> QED
  BY <1>1, ScreensAreFresh, ScreensRunTheWorkflow, OpenWorkIsCurrent, PTL

\* What the workflow guarantees about open assignments.
WorkIsLive == RowsInv /\ OpenWorkOnlyWhileDispatchable

LEMMA OpenWorkTakesCommands ==
    ASSUME WorkIsLive, NEW a \in Assignments, asg[a] # NoAssignment, asg[a].status \in Open
    PROVE  TaskInWork(a)
<1>1. a \in OpenRows
  BY DEF OpenRows
<1> QED
  BY <1>1 DEF WorkIsLive, RowsInv, OpenWorkIsLive, OpenWorkOnlyWhileDispatchable, TaskInWork

\* An answer that says "refused" is the answer of a request.
LEMMA RefusalsAreAnswers ==
    ASSUME [NextScreens]_vars2, Refused', ~Refused
    PROVE  Requests
<1>1. ASSUME UNCHANGED answer PROVE FALSE
  BY <1>1 DEF Refused, Free
<1>2. answer' # NoAnswer
  BY DEF Refused, Free
<1>3. ~OthersCommand /\ ~OthersAside /\ ~UNCHANGED vars2
  BY <1>1, OthersAreCommands DEF vars2
<1>4. ~Looks
  BY <1>1, <1>2 DEF Looks, ReadOrder, OpenCreateSheet, OpenTask, ReadTaskRow, ReadTaskOrder,
      ReadTask, CloseSheet, TogglePicker, OpenTaskDialog, ReloadSheet, LeadHears, ReadList,
      OpenAssignmentSheet, TechnicianHears, ReadFails, CloseDialog, ReloadDialog
<1> QED
  BY <1>3, <1>4, StepsOfScreens

\* The requests of a technician are his own four.
LEMMA TechniciansRequests ==
    ASSUME Base, Requests, user # Lead
    PROVE  AcceptListed \/ StartListed \/ ConfirmReject \/ ConfirmComplete
<1>1. ~CreateFromSheet /\ ~SaveTask /\ ~AddFromPicker
  BY DEF CreateFromSheet, SaveTask, AddFromPicker
<1>2. dialog.what \in {"none", "reject", "complete"}
  BY DEF Base, ScreenTypes, NoDialog
<1> QED
  BY <1>1, <1>2 DEF Requests, ConfirmRemove, ConfirmCancel, ConfirmReopen

LEMMA TechnicianStep ==
    ASSUME FreshScreens, WorkIsLive, TechnicianOnlyMeetsChanges, [NextScreens]_vars2
    PROVE  TechnicianOnlyMeetsChanges'
<1>1. SUFFICES ASSUME user # Lead, Refused', ~Refused PROVE FALSE
  <2>1. user' = user
    BY RequestsKeepScreens, LooksChangeNothing, OthersAreCommands, StepsOfScreens
    DEF RequestFrame, vars2, FreshScreens
  <2> QED
    BY <2>1 DEF TechnicianOnlyMeetsChanges
<1>2. Base /\ ScreenIsFresh /\ DialogIsFresh
  BY DEF FreshScreens
<1>3. AcceptListed \/ StartListed \/ ConfirmReject \/ ConfirmComplete
  BY <1>1, <1>2, RefusalsAreAnswers, TechniciansRequests
<1>4. answer'.state = "refused"
  BY <1>1 DEF Refused
<1>5. ASSUME AcceptListed PROVE FALSE
  <2>1. PICK a \in Offered("accept") :
           Request("accept", seen.version, MyAssignment(a, "PENDING") /\ TaskInWork(a), Accept(a))
    BY <1>5 DEF AcceptListed
  <2>2. seen.version = version /\ ~(MyAssignment(a, "PENDING") /\ TaskInWork(a))
    BY <2>1, <1>4 DEF Request, Sent
  <2>3. seen # Nothing
    BY DEF Offered, Shown
  <2>4. /\ a \in Assignments /\ asg[a] # NoAssignment
        /\ asg[a].employee = user /\ asg[a].status = "PENDING"
    BY <1>1, <1>2, <2>2, <2>3, OfferedRows, OffersByStatus
  <2> QED
    BY <2>2, <2>4, OpenWorkTakesCommands DEF MyAssignment, Open
<1>6. ASSUME StartListed PROVE FALSE
  <2>1. PICK a \in Offered("start") :
           Request("start", seen.version, MyAssignment(a, "ACCEPTED") /\ TaskInWork(a), Start(a))
    BY <1>6 DEF StartListed
  <2>2. seen.version = version /\ ~(MyAssignment(a, "ACCEPTED") /\ TaskInWork(a))
    BY <2>1, <1>4 DEF Request, Sent
  <2>3. seen # Nothing
    BY DEF Offered, Shown
  <2>4. /\ a \in Assignments /\ asg[a] # NoAssignment
        /\ asg[a].employee = user /\ asg[a].status = "ACCEPTED"
    BY <1>1, <1>2, <2>2, <2>3, OfferedRows, OffersByStatus
  <2> QED
    BY <2>2, <2>4, OpenWorkTakesCommands DEF MyAssignment, Open
<1>7. ASSUME ConfirmReject \/ ConfirmComplete PROVE FALSE
  <2>1. dialog # NoDialog
    BY <1>7 DEF ConfirmReject, ConfirmComplete, NoDialog
  <2>2. dialog.asg \in Assignments
    BY <1>1, <1>2, <2>1 DEF Base, ScreenTypes
  <2>3. dialog.version = version
    BY <1>7, <1>4 DEF ConfirmReject, ConfirmComplete, Request, Sent
  <2>4. /\ asg[dialog.asg] # NoAssignment
        /\ asg[dialog.asg].employee = user
        /\ asg[dialog.asg].status = IF dialog.what = "reject" THEN "PENDING" ELSE "IN_PROGRESS"
    BY <1>1, <1>2, <2>1, <2>3 DEF DialogIsFresh
  <2>5. TaskInWork(dialog.asg)
    BY <2>2, <2>4, OpenWorkTakesCommands DEF Open
  <2> QED
    BY <1>4, <1>7, <2>4, <2>5
    DEF ConfirmReject, ConfirmComplete, Request, Sent, MyAssignment, TaskInWork
<1> QED
  BY <1>3, <1>5, <1>6, <1>7

\* A technician with an up-to-date screen is never refused: the one thing he
\* has to be told is that somebody else changed the order.
THEOREM TechniciansMeetOnlyChanges == SpecScreens => []TechnicianOnlyMeetsChanges
<1>1. InitScreens => TechnicianOnlyMeetsChanges
  BY DEF InitScreens, TechnicianOnlyMeetsChanges, Refused, Free
<1>2. FreshScreens /\ RowsInv /\ OpenWorkOnlyWhileDispatchable /\ TechnicianOnlyMeetsChanges
        /\ [NextScreens]_vars2 => TechnicianOnlyMeetsChanges'
  BY TechnicianStep DEF WorkIsLive
<1> QED
  BY <1>1, <1>2, ScreensAreFresh, ScreensRunTheWorkflow, RowsInvCorrect, OpenWorkIsOnLiveOrders,
     PTL DEF SpecScreens

(***************************************************************************)
(* What the lead is offered                                                *)
(***************************************************************************)
\* Behind an open sheet there is what it is about.
SheetsAreFilled ==
    user = Lead =>
       /\ Editing => sheet \in Inserted
       /\ sheet = "create" \/ dialog # NoDialog => seen # Nothing
       /\ dialog # NoDialog => Editing
       /\ fetch # Nothing => fetch \in AFetch

\* A dialog that waits for its request is still open.
DialogsWait ==
    user = Lead /\ Waiting({"cancel", "reopen"}) => dialog.what = answer.kind

LEMMA DialogsStillWait ==
    ASSUME Base, DialogsWait, [NextScreens]_vars2
    PROVE  DialogsWait'
<1>0. dialog \in Dialogs
  BY DEF Base, ScreenTypes
<1>1. CASE UNCHANGED <<user, dialog, answer>>
  BY <1>1 DEF DialogsWait, Waiting
<1>2. CASE Requests
  BY <1>2, RequestsKeepScreens
  DEF Requests, CreateFromSheet, SaveTask, AddFromPicker, ConfirmRemove, ConfirmCancel,
      ConfirmReopen, AcceptListed, StartListed, ConfirmReject, ConfirmComplete, Request, Sent,
      RequestFrame, screens, DialogsWait, Waiting
<1>3. CASE answer' = NoAnswer
  BY <1>3 DEF DialogsWait, Waiting
<1>4. CASE OpenTaskDialog
  BY <1>4 DEF OpenTaskDialog, DialogsWait, Waiting, NoDialog
<1>5. CASE CloseDialog
  BY <1>5 DEF CloseDialog, DialogsWait, Waiting
<1>6. CASE ReloadDialog
  BY <1>0, <1>6, StaleDialog DEF ReloadDialog, DialogsWait, Waiting
<1>7. CASE OpenAssignmentSheet
  BY <1>7, SignedInIsNotLead DEF OpenAssignmentSheet, Base, DialogsWait
<1>8. CASE Looks
  BY <1>1, <1>3, <1>4, <1>5, <1>6, <1>7, <1>8
  DEF Looks, ReadOrder, OpenCreateSheet, OpenTask, ReadTaskRow, ReadTaskOrder, ReadTask,
      CloseSheet, TogglePicker, ReloadSheet, LeadHears, ReadList, TechnicianHears, ReadFails
<1> QED
  BY <1>1, <1>2, <1>8, StepsOfScreens, OthersAreCommands DEF screens, vars2

LEMMA OrderIsSomething ==
    ASSUME Base
    PROVE  OrderSeen \in AnOrder /\ OrderSeen # Nothing
BY NothingIsNoAnswer DEF Base, ScreenTypes, Rows, TypeOK, OrderSeen, AnOrder

LEMMA TaskRowIsTyped ==
    ASSUME Base, NEW t \in Inserted
    PROVE  TaskRowSeen(t) \in ATaskRow
<1>1. version \in Nat /\ TypeOK
  BY DEF Base, ScreenTypes, Rows
<1> QED
  BY <1>1, TaskRow DEF TaskRowSeen, ATaskRow, TypeOK

LEMMA TaskIsSomething ==
    ASSUME Base, NEW t \in Tasks, NEW r \in ATaskRow, NEW o \in AnOrder
    PROVE  TaskSeen(t, r, o) # Nothing
<1>1. TypeOK
  BY DEF Base, Rows
<1>2. TaskSeen(t, r, o).team \subseteq [asg : Assignments, employee : Technicians, status : Active]
  <2>1. asg \in AsgRows
    BY <1>1 DEF TypeOK, AsgRows
  <2>2. \A a \in ActiveOf(asg, t, r.cycle) :
           a \in Assignments /\ asg[a].employee \in Technicians /\ asg[a].status \in Active
    BY <2>1, AssignmentRow DEF ActiveOf
  <2> QED
    BY <2>2 DEF TaskSeen
<1>3. TaskSeen(t, r, o) \in ATask
  BY <1>2 DEF TaskSeen, ATask, AnOrder
<1> QED
  BY <1>3, NothingIsNoAnswer

LEMMA TasksAreNotDeleted ==
    ASSUME Rows, [Next]_vars
    PROVE  Inserted \subseteq Inserted'
<1>1. CASE UNCHANGED <<task, asg>>
  BY <1>1 DEF Inserted
<1>2. CASE CancelActive
  BY <1>2, CancelActiveEffect
<1>3. CASE \E a \in Assignments, s \in AssignmentStatus : Responds(a, s)
  BY <1>3 DEF Responds, Stores
<1>4. ASSUME NEW t \in Tasks, CreateTask(t) \/ CancelTask(t) \/ ReopenTask(t)
      PROVE  Inserted \subseteq Inserted'
  <2>1. CreateTask(t) => Inserted' = Inserted \cup {t}
    BY CreateTaskEffect DEF Replaces
  <2>2. CancelTask(t) => Inserted' = Inserted \cup {t}
    BY CancelTaskEffect DEF Replaces
  <2>3. ReopenTask(t) => Inserted' = Inserted \cup {t}
    BY ReopenTaskEffect DEF Replaces
  <2> QED
    BY <1>4, <2>1, <2>2, <2>3
<1>5. CASE \E t \in Tasks, a \in Assignments, e \in Technicians : AddAssignee(t, a, e)
  BY <1>5, AddAssigneeEffect DEF Stores
<1> QED
  BY <1>1, <1>2, <1>3, <1>4, <1>5, WorkSteps

LEMMA SheetsStayFilled ==
    ASSUME Base, DialogsWait, SheetsAreFilled, [NextScreens]_vars2
    PROVE  SheetsAreFilled'
<1>1. Inserted \subseteq Inserted'
  BY ScreensStep, TasksAreNotDeleted DEF Base
<1>2. CASE UNCHANGED <<user, screens>>
  BY <1>1, <1>2 DEF SheetsAreFilled, Editing, screens
<1>3. CASE Looks
  <2>1. user' = user
    BY <1>3, LooksChangeNothing
  <2>2. SUFFICES ASSUME user = Lead PROVE SheetsAreFilled'
    BY <2>1 DEF SheetsAreFilled
  <2>3. dialog \in Dialogs
    BY DEF Base, ScreenTypes
  <2>13. fetch' # Nothing => fetch' \in AFetch
    <3>1. CASE ReadTaskRow
      <4>1. TaskRowSeen(sheet) \in ATaskRow
        BY <2>2, <3>1, TaskRowIsTyped DEF ReadTaskRow, SheetsAreFilled
      <4> QED
        BY <3>1, <4>1 DEF ReadTaskRow, AFetch
    <3>2. CASE ReadTaskOrder
      <4>1. fetch' = [row |-> fetch.row, order |-> OrderSeen] /\ fetch \in AFetch
        BY <2>2, <3>2 DEF ReadTaskOrder, Base, ScreenTypes, FetchTyped, SheetsAreFilled
      <4> QED
        BY <4>1, OrderIsSomething DEF AFetch
    <3> QED
      BY <1>3, <2>2, <3>1, <3>2, FetchSteps DEF SheetsAreFilled
  <2>4. CASE UNCHANGED <<sheet, seen>> /\ (UNCHANGED dialog \/ dialog' = NoDialog)
    BY <1>1, <2>1, <2>4, <2>13 DEF SheetsAreFilled, Editing
  <2>5. CASE ReadOrder \/ OpenCreateSheet
    <3>1. ReadOrder => seen' # Nothing
      BY OrderIsSomething DEF ReadOrder
    <3>2. OpenCreateSheet => seen' # Nothing /\ dialog = NoDialog /\ sheet' = "create"
      BY <2>2, SheetsDoNotEdit DEF OpenCreateSheet, SheetsAreFilled, Editing, Shown
    <3> QED
      BY <2>2, <2>5, <2>13, <3>1, <3>2, SheetsDoNotEdit
      DEF ReadOrder, OpenCreateSheet, SheetsAreFilled, Editing
  <2>6. CASE \E t \in Tasks : OpenTask(t)
    BY <1>1, <2>2, <2>6, <2>13, SheetsDoNotEdit DEF OpenTask, SheetsAreFilled, Editing
  <2>7. CASE ReadTask
    <3>1. /\ seen' = TaskSeen(sheet, fetch.row, fetch.order)
          /\ UNCHANGED <<user, sheet, dialog>> /\ Editing
      BY <2>7 DEF ReadTask, Base, ScreenTypes, FetchTyped
    <3>2. fetch.row \in ATaskRow /\ fetch.order \in AnOrder
      BY <2>2, <2>7 DEF ReadTask, SheetsAreFilled, AFetch
    <3>3. seen' # Nothing
      BY <3>1, <3>2, TaskIsSomething DEF Editing
    <3> QED
      BY <1>1, <2>2, <2>13, <3>1, <3>3 DEF SheetsAreFilled, Editing
  <2>8. CASE Closed
    BY <2>8, <2>13, SheetsDoNotEdit DEF Closed, SheetsAreFilled, Editing
  <2>9. CASE OpenTaskDialog
    BY <1>1, <2>2, <2>9, <2>13 DEF OpenTaskDialog, Shown, SheetsAreFilled, Editing
  <2>10. CASE LeadHears
    <3>1. Closed \/ UNCHANGED <<sheet, seen>>
      BY <2>10 DEF LeadHears
    <3>2. UNCHANGED <<sheet, seen>> =>
             UNCHANGED dialog \/ dialog' = NoDialog \/ dialog' = [dialog EXCEPT !.stale = TRUE]
      BY <2>10 DEF LeadHears, Closed
    <3>3. dialog = NoDialog /\ UNCHANGED <<sheet, seen>> => UNCHANGED dialog \/ dialog' = NoDialog
      BY <2>2, <2>10 DEF LeadHears, Closed, DialogsWait, Waiting, Free, NoDialog
    <3>4. CASE UNCHANGED <<sheet, seen>> /\ dialog # NoDialog
      BY <1>1, <2>1, <2>2, <2>13, <3>4 DEF SheetsAreFilled, Editing
    <3> QED
      BY <3>1, <3>2, <3>3, <3>4, <2>4, <2>8
  <2>11. CASE ReloadDialog
    BY <1>1, <2>1, <2>2, <2>11, <2>13 DEF ReloadDialog, SheetsAreFilled, Editing, NoDialog
  <2>12. ~ReadList /\ ~OpenAssignmentSheet /\ ~TechnicianHears
    BY <2>2, SignedInIsNotLead DEF Base, ReadList, OpenAssignmentSheet, TechnicianHears
  <2> QED
    BY <1>3, <2>4, <2>5, <2>6, <2>7, <2>8, <2>9, <2>10, <2>11, <2>12
    DEF Looks, ReadTaskRow, ReadTaskOrder, CloseSheet, TogglePicker, ReloadSheet, ReadFails,
        CloseDialog
<1> QED
  BY <1>2, <1>3, StepsOfScreens, RequestsKeepScreens, OthersAreCommands
  DEF RequestFrame, screens, vars2

LeadInv == FreshScreens /\ SheetsAreFilled /\ DialogsWait

THEOREM LeadInvCorrect == SpecScreens => []LeadInv
<1>1. InitScreens => SheetsAreFilled /\ DialogsWait
  BY SheetsDoNotEdit DEF InitScreens, SheetsAreFilled, DialogsWait, Waiting, Editing
<1>2. FreshScreens /\ SheetsAreFilled /\ DialogsWait /\ [NextScreens]_vars2
        => SheetsAreFilled' /\ DialogsWait'
  BY SheetsStayFilled, DialogsStillWait DEF FreshScreens
<1>3. FreshScreens /\ SheetsAreFilled /\ DialogsWait => LeadInv
  BY DEF LeadInv
<1> QED
  BY <1>1, <1>2, <1>3, ScreensAreFresh, PTL DEF SpecScreens

\* An up-to-date sheet shows the task it edits, unless it is torn.
UpToDate == user = Lead /\ Editing /\ seen # Nothing /\ seen.version = version /\ ~Torn

LEMMA RowIsRight ==
    ASSUME LeadInv, UpToDate
    PROVE  seen.row.status = task[sheet].status /\ seen.row.cycle = task[sheet].cycle
<1>1. /\ version \in Nat /\ seen.row.at \in Nat /\ seen.row.at <= version
      /\ seen.row.at = version => /\ seen.row.status = task[sheet].status
                                 /\ seen.row.cycle = task[sheet].cycle
  BY DEF UpToDate, LeadInv, FreshScreens, TaskIsFresh, Base, ScreenTypes
<1>2. CASE seen.row.at < version
  BY <1>2 DEF UpToDate, Torn
<1> QED
  BY <1>1, <1>2

LEMMA SheetShowsTask ==
    ASSUME LeadInv, UpToDate
    PROVE  /\ sheet \in Inserted /\ task[sheet].status \in TaskStatus
           /\ CanManage <=> Dispatchable /\ task[sheet].status \notin {"DONE", "CANCELLED"}
           /\ CanReopen <=> status = "REVISION" /\ task[sheet].status = "DONE"
           /\ \A a \in Assignments :
                 a \in ActiveOf(asg, sheet, task[sheet].cycle) =>
                    \E m \in seen.team : /\ m.asg = a /\ m.employee = asg[a].employee
           /\ \A m \in seen.team : /\ m.asg \in ActiveOf(asg, sheet, task[sheet].cycle)
                                   /\ m.status = asg[m.asg].status
<1>1. seen # Nothing /\ seen.order = status /\ seen.team = Team(sheet, task[sheet].cycle)
  BY RowIsRight DEF UpToDate, LeadInv, FreshScreens, TaskIsFresh
<1>2. sheet \in Inserted /\ task[sheet].status \in TaskStatus
  BY TaskRow DEF UpToDate, LeadInv, SheetsAreFilled, FreshScreens, Base, Rows
<1>3. /\ \A a \in ActiveOf(asg, sheet, task[sheet].cycle) :
            [asg |-> a, employee |-> asg[a].employee, status |-> asg[a].status] \in seen.team
      /\ \A m \in seen.team : /\ m.asg \in ActiveOf(asg, sheet, task[sheet].cycle)
                              /\ m.status = asg[m.asg].status
  BY <1>1 DEF Team
<1> QED
  BY <1>1, <1>2, <1>3, RowIsRight DEF CanManage, CanReopen, Dispatchable, DispatchableStatuses

LEMMA UnfinishedTask ==
    ASSUME LeadInv, UpToDate, CanManage
    PROVE  Unfinished(sheet) /\ Dispatchable
BY SheetShowsTask DEF Unfinished, TaskStatus

Excuses(kind) ==
    CASE kind = "create" -> ~CanCreate \/ onDuty # Technicians
      [] kind = "update" -> FALSE
      [] kind = "add" -> ~CanManage \/ onDuty # Technicians
      [] kind = "remove" ->
            ~CanManage \/ dialog.asg \notin {m.asg : m \in {x \in seen.team : x.status # "DONE"}}
      [] kind = "cancel" -> ~CanManage
      [] kind = "reopen" -> ~CanReopen

LEMMA LeadsRefusals ==
    ASSUME LeadInv, Requests, user = Lead, answer'.state = "refused", ~(Editing /\ Torn)
    PROVE  Excuses(answer'.kind)
<1>0. Base /\ Rows /\ TypeOK
  BY DEF LeadInv, FreshScreens, Base, Rows
<1>1. CASE CreateFromSheet
  <2>1. PICK team \in Teams : ~(Dispatchable /\ team \subseteq onDuty)
    BY <1>1 DEF CreateFromSheet, Request, Sent
  <2>2. answer'.kind = "create" /\ seen.version = version /\ sheet = "create"
    BY <1>1 DEF CreateFromSheet, Request, Sent
  <2>3. seen # Nothing
    BY <2>2 DEF LeadInv, SheetsAreFilled
  <2>4. seen = OrderSeen
    BY <2>2, <2>3, SheetsDoNotEdit DEF LeadInv, FreshScreens, ScreenIsFresh, RightNow, Editing
  <2>5. CanCreate => Dispatchable
    BY <2>4 DEF CanCreate, OrderSeen, Dispatchable, DispatchableStatuses
  <2>6. team \subseteq Technicians
    BY DEF Teams
  <2> QED
    BY <2>1, <2>2, <2>5, <2>6 DEF Excuses
<1>2. CASE SaveTask
  <2>1. seen.version = version /\ ~(Unfinished(sheet) /\ Dispatchable)
    BY <1>2 DEF SaveTask, Request, Sent
  <2>2. Editing /\ seen # Nothing /\ CanManage
    BY <1>2 DEF SaveTask, Shown
  <2> QED
    BY <2>1, <2>2, UnfinishedTask DEF UpToDate
<1>3. CASE AddFromPicker
  <2>1. PICK e \in Candidates :
           /\ seen.version = version
           /\ ~(Unfinished(sheet) /\ Dispatchable /\ e \in onDuty /\ ~AlreadyActive(sheet, e))
    BY <1>3 DEF AddFromPicker, Request, Sent
  <2>2. answer'.kind = "add" /\ Editing /\ seen # Nothing
    BY <1>3 DEF AddFromPicker, Request, Sent, Shown
  <2>3. e \in Technicians /\ ~AlreadyActive(sheet, e)
    BY <2>1, <2>2, SheetShowsTask DEF UpToDate, Candidates, AlreadyActive, ActiveOf
  <2> QED
    BY <2>1, <2>2, <2>3, UnfinishedTask DEF Excuses, UpToDate
<1>4. CASE ConfirmRemove
  <2>1. /\ answer'.kind = "remove" /\ Editing /\ seen.version = version
        /\ ~(dialog.asg \in OpenRows /\ Dispatchable)
    BY <1>4 DEF ConfirmRemove, Request, Sent
  <2>2. seen # Nothing
    BY <1>4 DEF ConfirmRemove, LeadInv, SheetsAreFilled, NoDialog
  <2>3. ASSUME NEW m \in seen.team, m.status # "DONE" PROVE m.asg \in OpenRows
    BY <2>1, <2>2, <2>3, SheetShowsTask DEF UpToDate, ActiveOf, OpenRows, Active
  <2>4. CanManage => Dispatchable
    BY <2>1, <2>2, SheetShowsTask DEF UpToDate
  <2> QED
    BY <2>1, <2>3, <2>4 DEF Excuses
<1>5. CASE ConfirmCancel
  <2>1. /\ answer'.kind = "cancel" /\ Editing /\ seen.version = version
        /\ ~(Unfinished(sheet) /\ Dispatchable)
    BY <1>5 DEF ConfirmCancel, Request, Sent
  <2>2. seen # Nothing
    BY <1>5 DEF ConfirmCancel, LeadInv, SheetsAreFilled, NoDialog
  <2> QED
    BY <2>1, <2>2, UnfinishedTask DEF Excuses, UpToDate
<1>6. CASE ConfirmReopen
  <2>1. /\ answer'.kind = "reopen" /\ Editing /\ seen.version = version
        /\ ~(task[sheet].status = "DONE" /\ status = "REVISION")
    BY <1>6 DEF ConfirmReopen, Request, Sent
  <2>2. seen # Nothing
    BY <1>6 DEF ConfirmReopen, LeadInv, SheetsAreFilled, NoDialog
  <2> QED
    BY <2>1, <2>2, SheetShowsTask DEF Excuses, UpToDate
<1>7. ~AcceptListed /\ ~StartListed /\ ~ConfirmReject /\ ~ConfirmComplete
  BY <1>0, SignedInIsNotLead DEF AcceptListed, StartListed, ConfirmReject, ConfirmComplete
<1> QED
  BY <1>1, <1>2, <1>3, <1>4, <1>5, <1>6, <1>7 DEF Requests

\* The lead, too, is only refused when a command came between the reads of what
\* his sheet shows, or for what his screen could not know or no longer offers,
\* and when he removes somebody who is done.
THEOREM LeadMeetsExcuses == SpecScreens => LeadIsRefusedForCause
<1>1. LeadInv /\ [NextScreens]_vars2 =>
         [user = Lead /\ Refused' /\ ~Refused /\ ~(Editing /\ Torn)
            => Excuses(answer'.kind)]_vars2
  BY RefusalsAreAnswers, LeadsRefusals DEF Refused
<1> QED
  BY <1>1, LeadInvCorrect, PTL DEF SpecScreens, LeadIsRefusedForCause, Excuses
=============================================================================
