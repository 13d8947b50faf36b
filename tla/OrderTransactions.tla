------------------------- MODULE OrderTransactions -------------------------
(***************************************************************************)
(* How the screens of several people change one order at the same time:    *)
(* the reads that fill a screen, the commands sent from it, the row lock   *)
(* and the version number of the order, answers that overtake each other,  *)
(* and the cache that a screen shows.                                      *)
(*                                                                         *)
(* Transactions are READ COMMITTED: every statement sees what is committed *)
(* when it runs.  The content of an order is a few groups of columns: its  *)
(* header (customer, address, work to be done), its lines, its task and    *)
(* the assignees of that.  The content of a group is given by the version  *)
(* of the order that last wrote it; that of the rest of the row (status,   *)
(* totals) by "version" itself.                                            *)
(*                                                                         *)
(* Three kinds of screens read the order in different ways:                *)
(*   OrderScreens  GET /orders/{id}: the order row, then its lines;        *)
(*   TaskSheets    GET /orders/{id}/tasks/{id}: the task, the order row,   *)
(*                 then the assignees;                                     *)
(*   MyLists       GET /assignments/me: everything in one statement.       *)
(* An operator named Mut... is a plausible bug of the definition that      *)
(* follows it and is used by no specification.                             *)
(***************************************************************************)
EXTENDS Integers, Sequences, FiniteSets

CONSTANTS
    OrderScreens, TaskSheets, MyLists,  \* the open screens
    NoScreen,                           \* nobody holds the row lock
    MaxVersion,                         \* bound on the version of the order
    MaxAnswers                          \* bound on the answers on their way to a screen

Screens == OrderScreens \cup TaskSheets \cup MyLists

ASSUME ScreensAreOfOneKind ==
    /\ OrderScreens \cap TaskSheets = {}
    /\ OrderScreens \cap MyLists = {}
    /\ TaskSheets \cap MyLists = {}
ASSUME NoScreenIsNoScreen == NoScreen \notin Screens
ASSUME BoundsAreNat == MaxVersion \in Nat /\ MaxAnswers \in Nat

Columns == {"version", "header", "lines", "task", "assignees"}
NotRead == -1
Snapshot == [Columns -> Nat \cup {NotRead}]
NothingRead == [c \in Columns |-> NotRead]

VARIABLES
    db,         \* the committed columns
    lock,       \* the screen whose transaction holds the row lock of the order
    get,        \* the read in progress for a screen: statements executed, columns read
    answers,    \* answers on their way to a screen
    view,       \* what a screen shows (the query cache)
    form,       \* the header that the form of an order screen was filled with
    tx          \* the command sent from a screen

vars == <<db, lock, get, answers, view, form, tx>>

NoGet == [at |-> 0, got |-> NothingRead]
NoCommand == [phase |-> "idle", writes |-> {}, seen |-> NothingRead, early |-> NothingRead]

Init ==
    /\ db = [c \in Columns |-> 1]
    /\ lock = NoScreen
    /\ get = [s \in Screens |-> NoGet]
    /\ answers = [s \in Screens |-> {}]
    /\ view = [s \in Screens |-> NothingRead]
    /\ form = [s \in OrderScreens |-> NotRead]
    /\ tx = [s \in Screens |-> NoCommand]

(***************************************************************************)
(* Filling a screen                                                        *)
(***************************************************************************)
\* The columns that the statements behind a screen read, in the order in
\* which the code executes them.
MutOrderStatements == << {"lines"}, {"version", "header"} >>
OrderStatements == << {"version", "header"}, {"lines"} >>
TaskStatements  == << {"task"}, {"version", "header"}, {"assignees"} >>
ListStatements  == << {"version", "header", "task", "assignees"} >>

Statements(s) ==
    CASE s \in OrderScreens -> OrderStatements
      [] s \in TaskSheets   -> TaskStatements
      [] OTHER              -> ListStatements

\* The columns of cs as committed now, the others as in snapshot x.
Reread(x, cs) == [c \in Columns |-> IF c \in cs THEN db[c] ELSE x[c]]

\* A query has one fetch at a time; only an order screen also gets answers
\* from elsewhere, those of its commands.
MayFetch(s) ==
    /\ get[s] = NoGet
    /\ Cardinality(answers[s]) < MaxAnswers
    /\ s \notin OrderScreens => answers[s] = {}

\* The next statement of the read behind screen s; the last one is the answer.
ReadNext(s) ==
    LET n   == get[s].at + 1
        got == Reread(get[s].got, Statements(s)[n])
    IN  /\ n = 1 => MayFetch(s)
        /\ IF n = Len(Statements(s))
           THEN /\ get' = [get EXCEPT ![s] = NoGet]
                /\ answers' = [answers EXCEPT ![s] = @ \cup {got}]
           ELSE /\ get' = [get EXCEPT ![s] = [at |-> n, got |-> got]]
                /\ UNCHANGED answers
        /\ UNCHANGED <<db, lock, view, form, tx>>

\* The answer that arrives last wins.
MutFreshest(cached, incoming) == incoming

\* freshestOrder: an answer older than the cache is ignored.
Freshest(cached, incoming) ==
    IF cached["version"] > incoming["version"] THEN cached ELSE incoming

\* Answers arrive in any order.
Receive(s, a) ==
    /\ a \in answers[s]
    /\ answers' = [answers EXCEPT ![s] = @ \ {a}]
    /\ view' = [view EXCEPT ![s] = IF s \in OrderScreens THEN Freshest(@, a) ELSE a]
    /\ UNCHANGED <<db, lock, get, form, tx>>

\* The connection breaks, or the query is cancelled by a newer fetch.
Lose(s) ==
    /\ \/ /\ get[s] # NoGet
          /\ get' = [get EXCEPT ![s] = NoGet]
          /\ UNCHANGED answers
       \/ /\ \E a \in answers[s] : answers' = [answers EXCEPT ![s] = @ \ {a}]
          /\ UNCHANGED get
    /\ UNCHANGED <<db, lock, view, form, tx>>

(***************************************************************************)
(* A command                                                               *)
(***************************************************************************)
\* What a command of the screen may write besides version, status and totals.
Writes(s) ==
    CASE s \in OrderScreens -> {{}, {"lines"}, {"task", "assignees"}}
      [] s \in TaskSheets   -> {{"task"}, {"task", "assignees"}}
      [] OTHER              -> {{"task", "assignees"}}

\* The header form is filled from what the screen shows, and is not filled
\* again when the screen is refreshed behind it.
OpenForm(s) ==
    /\ s \in OrderScreens
    /\ view[s]["version"] # NotRead
    /\ form' = [form EXCEPT ![s] = view[s]["header"]]
    /\ UNCHANGED <<db, lock, get, answers, view, tx>>

\* A command carries the version that the screen shows when it is sent.
SendAs(s, writes, seen) ==
    /\ tx[s].phase = "idle"
    /\ view[s]["version"] # NotRead
    /\ tx' = [tx EXCEPT ![s] = [phase |-> "sent", writes |-> writes,
                                seen |-> seen, early |-> NothingRead]]
    /\ UNCHANGED <<db, lock, get, answers, view, form>>

Send(s) == \E writes \in Writes(s) : SendAs(s, writes, view[s])

\* The header as the form was filled, with the version of the cache.
SendForm(s) ==
    /\ s \in OrderScreens
    /\ form[s] # NotRead
    /\ SendAs(s, {"header"}, [view[s] EXCEPT !["header"] = form[s]])

\* accept, reject, start and complete load the assignment and its task before
\* they lock the order.
FindOwnAssignment(s) ==
    /\ s \in MyLists
    /\ tx[s].phase = "sent"
    /\ tx' = [tx EXCEPT ![s] = [@ EXCEPT !.phase = "found",
                                         !.early = Reread(NothingRead, {"task", "assignees"})]]
    /\ UNCHANGED <<db, lock, get, answers, view, form>>

Waiting(s) == tx[s].phase = (IF s \in MyLists THEN "found" ELSE "sent")

\* The version is not compared.
MutLockOrderUnchecked(s) ==
    /\ Waiting(s)
    /\ lock = NoScreen
    /\ lock' = s
    /\ tx' = [tx EXCEPT ![s].phase = "holding"]
    /\ UNCHANGED <<db, get, answers, view, form>>

\* A stale command is answered 409 but its transaction stays open.
MutLockOrderLeaks(s) ==
    /\ Waiting(s)
    /\ lock = NoScreen
    /\ lock' = s
    /\ tx' = [tx EXCEPT ![s] = IF @.seen["version"] = db["version"]
                               THEN [@ EXCEPT !.phase = "holding"] ELSE NoCommand]
    /\ UNCHANGED <<db, get, answers, view, form>>

\* SELECT ... FOR UPDATE, then the version of the row against that of the
\* command: a stale command is refused (409 STALE_VERSION) and rolled back.
LockOrder(s) ==
    /\ Waiting(s)
    /\ lock = NoScreen
    /\ \/ /\ tx[s].seen["version"] = db["version"]
          /\ lock' = s
          /\ tx' = [tx EXCEPT ![s].phase = "holding"]
       \/ /\ tx[s].seen["version"] # db["version"]
          /\ tx' = [tx EXCEPT ![s] = NoCommand]
          /\ UNCHANGED lock
    /\ UNCHANGED <<db, get, answers, view, form>>

\* A command that forgets to raise the version of the order.
MutWrittenUnbumped(cs) ==
    [c \in Columns |-> IF c \in cs THEN db["version"] + 1 ELSE db[c]]

\* The columns of cs written and the version of the order raised, as every
\* command that holds the lock does.
Written(cs) ==
    [c \in Columns |-> IF c \in cs \cup {"version"} THEN db["version"] + 1 ELSE db[c]]

\* An order command answers with the order as it left it.  The form shows what
\* it has saved.
Commit(s) ==
    /\ tx[s].phase = "holding"
    /\ db["version"] < MaxVersion
    /\ db' = Written(tx[s].writes)
    /\ lock' = NoScreen
    /\ tx' = [tx EXCEPT ![s] = NoCommand]
    /\ form' = IF "header" \in tx[s].writes
               THEN [form EXCEPT ![s] = db'["header"]] ELSE form
    /\ \/ /\ s \in OrderScreens
          /\ Cardinality(answers[s]) < MaxAnswers
          /\ answers' = [answers EXCEPT ![s] = @ \cup
                            {[c \in Columns |-> IF c \in {"version", "header", "lines"}
                                                THEN db'[c] ELSE NotRead]}]
       \/ UNCHANGED answers
    /\ UNCHANGED <<get, view>>

\* A guard refuses, or the request dies: the transaction is rolled back.
Rollback(s) ==
    /\ tx[s].phase # "idle"
    /\ lock' = IF lock = s THEN NoScreen ELSE lock
    /\ tx' = [tx EXCEPT ![s] = NoCommand]
    /\ UNCHANGED <<db, get, answers, view, form>>

Next ==
    \E s \in Screens :
        \/ ReadNext(s) \/ Lose(s)
        \/ \E a \in answers[s] : Receive(s, a)
        \/ OpenForm(s) \/ Send(s) \/ SendForm(s)
        \/ FindOwnAssignment(s) \/ LockOrder(s) \/ Commit(s) \/ Rollback(s)

\* A request that the server has received is worked off: its statements are
\* executed, the database queues those who wait for a row lock, and a
\* transaction ends.
Fairness ==
    \A s \in Screens :
        /\ WF_vars(FindOwnAssignment(s))
        /\ SF_vars(LockOrder(s))
        /\ WF_vars(tx[s].phase = "holding" /\ (Commit(s) \/ Rollback(s)))

Spec == Init /\ [][Next]_vars /\ Fairness

(***************************************************************************)
(* Properties                                                              *)
(***************************************************************************)
\* The types of the variables; the row lock belongs to the transaction that is
\* past LockOrder and to no other.
TypeOK ==
    /\ db \in [Columns -> Nat]
    /\ lock \in Screens \cup {NoScreen}
    /\ get \in [Screens -> [at : 0..2, got : Snapshot]]
    /\ answers \in [Screens -> SUBSET Snapshot]
    /\ view \in [Screens -> Snapshot]
    /\ form \in [OrderScreens -> Nat \cup {NotRead}]
    /\ tx \in [Screens -> [phase : {"idle", "sent", "found", "holding"},
                           writes : SUBSET Columns, seen : Snapshot, early : Snapshot]]
    /\ \A s \in Screens : lock = s <=> tx[s].phase = "holding"

\* Whatever x has read is still so.
Current(x) == \A c \in Columns : x[c] \in {NotRead, db[c]}

\* The command of screen s is sent from a form.
FromForm(s) == "header" \in tx[s].writes

\* A command of an order screen or of a technician's list, other than one sent
\* from a form, changes the order that the person who gave it was looking at:
\* nobody's change is overwritten unseen, whoever else read, wrote or waited in
\* between.
NoBlindOverwrite ==
    \A s \in OrderScreens \cup MyLists :
        tx[s].phase = "holding" /\ ~FromForm(s) => Current(tx[s].seen)

\* The assignment and the task a technician's command loaded before it had
\* the lock are still those of the database when it uses them.
EarlyReadIsCurrent ==
    \A s \in Screens : tx[s].phase = "holding" => Current(tx[s].early)

\* An order screen that shows the current version shows the current order,
\* although its columns were read by several statements.
NoTornScreen ==
    \A s \in OrderScreens : view[s]["version"] = db["version"] => Current(view[s])

\* What an order screen shows never goes back to an older version.
CacheNeverGoesBack ==
    [][\A s \in OrderScreens : view'[s]["version"] >= view[s]["version"]]_vars

\* Every command sent is answered: it commits, is refused or is rolled back,
\* and no lock is left behind for the others to wait on.
EveryCommandEnds == \A s \in Screens : tx[s].phase # "idle" ~> tx[s].phase = "idle"
=============================================================================
