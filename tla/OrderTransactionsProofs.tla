---------------------- MODULE OrderTransactionsProofs ----------------------
(***************************************************************************)
(* Proofs about OrderTransactions for any number of screens and any bound. *)
(*                                                                         *)
(* What a screen has read is never newer than the database, and a screen   *)
(* that reads the version before the rest is honest: when its version is   *)
(* still the current one, so is all the rest.  The row lock then carries   *)
(* this from the moment the version is compared to the commit.             *)
(***************************************************************************)
EXTENDS OrderTransactions, TLAPS

\* What was read along with the version of the order is still so as long as
\* the version is.
Honest(x) == x["version"] = db["version"] => Current(x)

\* A content of the order that screen s may hold.
Good(s, x) ==
    /\ x \in Snapshot
    /\ x["version"] <= db["version"]
    /\ s \notin TaskSheets => Honest(x)

\* Everything read on behalf of screen s.
Snapshots(s) == answers[s] \cup {view[s], get[s].got}

SnapshotsAreGood == \A s \in Screens : \A x \in Snapshots(s) : Good(s, x)

\* What a command was given on; what a form shows may be older than the version
\* it is sent with.
GoodCommand(s, c) ==
    /\ c.seen["version"] <= db["version"]
    /\ s \notin TaskSheets /\ "header" \notin c.writes => Honest(c.seen)
    /\ c.phase = "holding" => c.seen["version"] = db["version"]
    /\ c.seen["version"] = db["version"] => Current(c.early)

CommandsAreGood == \A s \in Screens : GoodCommand(s, tx[s])

\* A fetch starts from nothing and has a statement left.
FetchesAreUnderWay ==
    \A s \in Screens : /\ get[s].at < Len(Statements(s))
                       /\ get[s].at = 0 => get[s].got = NothingRead

Inv ==
    /\ TypeOK
    /\ FetchesAreUnderWay
    /\ SnapshotsAreGood
    /\ CommandsAreGood

(***************************************************************************)
(* Contents of an order                                                    *)
(***************************************************************************)
LEMMA ColumnNames ==
    /\ "version" \in Columns
    /\ \A c \in Columns : NothingRead[c] = NotRead
    /\ NothingRead \in Snapshot
BY DEF Columns, NothingRead, Snapshot, NotRead

LEMMA RereadColumns ==
    ASSUME db \in [Columns -> Nat], NEW x \in Snapshot, NEW cs
    PROVE  /\ Reread(x, cs) \in Snapshot
           /\ \A c \in Columns : Reread(x, cs)[c] = IF c \in cs THEN db[c] ELSE x[c]
BY DEF Reread, Snapshot

\* A screen may hold nothing, and the columns of one statement.
LEMMA FirstReadIsGood ==
    ASSUME db \in [Columns -> Nat], NEW s, NEW cs
    PROVE  /\ Good(s, NothingRead)
           /\ Good(s, Reread(NothingRead, cs))
           /\ Current(Reread(NothingRead, cs))
           /\ Current(NothingRead)
<1>1. db["version"] \in Nat
  BY ColumnNames
<1>2. Current(Reread(NothingRead, cs)) /\ Current(NothingRead)
  BY ColumnNames, RereadColumns DEF Current
<1>3. /\ Reread(NothingRead, cs)["version"] <= db["version"]
      /\ NothingRead["version"] <= db["version"]
  BY <1>1, ColumnNames, RereadColumns DEF NotRead
<1> QED
  BY <1>2, <1>3, ColumnNames, RereadColumns DEF Good, Honest

\* A later statement that does not read the version again keeps a snapshot
\* good; a task sheet may read it again.
LEMMA LaterReadIsGood ==
    ASSUME db \in [Columns -> Nat], NEW s, NEW x, Good(s, x), NEW cs,
           s \notin TaskSheets => "version" \notin cs
    PROVE  Good(s, Reread(x, cs))
<1>1. x \in Snapshot /\ db["version"] \in Nat
  BY ColumnNames DEF Good
<1>2. Reread(x, cs)["version"] <= db["version"]
  BY <1>1, ColumnNames, RereadColumns DEF Good
<1>3. ASSUME s \notin TaskSheets PROVE Honest(Reread(x, cs))
  BY <1>1, <1>3, ColumnNames, RereadColumns DEF Good, Honest, Current
<1> QED
  BY <1>1, <1>2, <1>3, RereadColumns DEF Good

\* What was good stays good: while the database is unchanged, and because a
\* commit raises the version.
LEMMA GoodStaysGood ==
    ASSUME NEW s, NEW x, Good(s, x), db \in [Columns -> Nat],
           \/ db' = db
           \/ db' \in [Columns -> Nat] /\ db'["version"] = db["version"] + 1
    PROVE  Good(s, x)'
<1>1. CASE db' = db
  BY <1>1 DEF Good, Honest, Current
<1>2. CASE db' \in [Columns -> Nat] /\ db'["version"] = db["version"] + 1
  <2>1. x \in Snapshot /\ x["version"] \in Nat \cup {NotRead} /\ db["version"] \in Nat
    BY ColumnNames DEF Good, Snapshot
  <2>2. x["version"] <= db["version"]
    BY DEF Good
  <2>3. x["version"] < db'["version"]
    BY <1>2, <2>1, <2>2 DEF NotRead
  <2> QED
    BY <1>2, <2>1, <2>3 DEF Good, Honest, NotRead
<1> QED
  BY <1>1, <1>2

LEMMA WrittenColumns ==
    ASSUME db \in [Columns -> Nat], NEW cs
    PROVE  /\ Written(cs) \in [Columns -> Nat]
           /\ Written(cs)["version"] = db["version"] + 1
BY ColumnNames DEF Written

LEMMA SnapshotsStep ==
    ASSUME TypeOK, SnapshotsAreGood,
           \/ db' = db
           \/ db' \in [Columns -> Nat] /\ db'["version"] = db["version"] + 1,
           \A s \in Screens : \A x \in Snapshots(s)' : x \in Snapshots(s) \/ Good(s, x)'
    PROVE  SnapshotsAreGood'
<1> SUFFICES ASSUME NEW s \in Screens, NEW x \in Snapshots(s)'
             PROVE  Good(s, x)'
  BY DEF SnapshotsAreGood
<1>1. CASE x \in Snapshots(s)
  <2>1. Good(s, x)
    BY <1>1 DEF SnapshotsAreGood
  <2> QED
    BY <2>1, GoodStaysGood DEF TypeOK
<1> QED
  BY <1>1

(***************************************************************************)
(* Filling a screen                                                        *)
(***************************************************************************)
LEMMA StatementLists ==
    ASSUME NEW s \in Screens
    PROVE  /\ Len(Statements(s)) \in 1..3
           /\ \A n \in 2..Len(Statements(s)) :
                  s \notin TaskSheets => "version" \notin Statements(s)[n]
<1>1. CASE s \in OrderScreens
  BY <1>1 DEF Statements, OrderStatements, TaskStatements, ListStatements
<1>2. CASE s \in TaskSheets
  BY <1>2, ScreensAreOfOneKind DEF Statements, OrderStatements, TaskStatements, ListStatements
<1>3. CASE s \notin OrderScreens /\ s \notin TaskSheets
  BY <1>3 DEF Statements, OrderStatements, TaskStatements, ListStatements
<1> QED
  BY <1>1, <1>2, <1>3

LEMMA ReadNextKeepsInv ==
    ASSUME Inv, NEW s \in Screens, ReadNext(s)
    PROVE  Inv'
<1> DEFINE n   == get[s].at + 1
           got == Reread(get[s].got, Statements(s)[n])
<1>1. /\ db \in [Columns -> Nat]
      /\ get[s] \in [at : 0..2, got : Snapshot]
      /\ get[s].at < Len(Statements(s))
      /\ n \in 1..Len(Statements(s))
      /\ Len(Statements(s)) \in 1..3
  BY StatementLists DEF Inv, TypeOK, FetchesAreUnderWay
<1>2. Good(s, got)
  <2>1. CASE n = 1
    <3>1. get[s].got = NothingRead
      BY <1>1, <2>1 DEF Inv, FetchesAreUnderWay
    <3> QED
      BY <1>1, <3>1, FirstReadIsGood
  <2>2. CASE n # 1
    <3>1. Good(s, get[s].got)
      BY DEF Inv, SnapshotsAreGood, Snapshots
    <3>2. n \in 2..Len(Statements(s))
      BY <1>1, <2>2
    <3> QED
      BY <1>1, <3>1, <3>2, StatementLists, LaterReadIsGood
  <2> QED
    BY <2>1, <2>2
<1>3. PICK x0 \in Snapshot : x0 = got /\ Good(s, x0)
  BY <1>2 DEF Good
<1>4. UNCHANGED <<db, lock, view, form, tx>>
  BY DEF ReadNext
<1>5. CASE n = Len(Statements(s))
  <2>1. /\ get' = [get EXCEPT ![s] = NoGet]
        /\ answers' = [answers EXCEPT ![s] = @ \cup {x0}]
    BY <1>3, <1>5 DEF ReadNext
  <2> HIDE DEF n, got
  <2>2. NoGet \in [at : 0..2, got : Snapshot]
    BY ColumnNames DEF NoGet
  <2>3. TypeOK'
    BY <1>3, <1>4, <2>1, <2>2 DEF Inv, TypeOK
  <2>4. FetchesAreUnderWay'
    BY <1>1, <2>1, StatementLists DEF Inv, TypeOK, FetchesAreUnderWay, NoGet
  <2>5. \A r \in Screens : \A x \in Snapshots(r)' : x \in Snapshots(r) \/ Good(r, x)'
    <3>1. Good(s, x0)' /\ \A r \in Screens : Good(r, NothingRead)'
      BY <1>1, <1>3, <1>4, GoodStaysGood, FirstReadIsGood
    <3>2. \A r \in Screens : \A x \in Snapshots(r)' :
              x \in Snapshots(r) \/ x = NothingRead \/ (r = s /\ x = x0)
      BY <1>4, <2>1 DEF Inv, TypeOK, Snapshots, NoGet
    <3> QED
      BY <3>1, <3>2
  <2> QED
    BY <1>4, <2>3, <2>4, <2>5, SnapshotsStep
       DEF Inv, CommandsAreGood, GoodCommand, Honest, Current
<1>6. CASE n # Len(Statements(s))
  <2>1. /\ get' = [get EXCEPT ![s] = [at |-> n, got |-> x0]]
        /\ answers' = answers
    BY <1>3, <1>6 DEF ReadNext
  <2>2. n \in 1..2 /\ n < Len(Statements(s))
    <3>1. PICK k \in 1..3 : k = Len(Statements(s))
      BY <1>1
    <3>2. n \in 1..k /\ n # k
      BY <1>1, <1>6, <3>1
    <3> HIDE DEF n
    <3>3. n \in 1..2 /\ n < k
      BY <3>2
    <3> QED
      BY <3>1, <3>3
  <2> HIDE DEF n, got
  <2>3. TypeOK'
    BY <1>3, <1>4, <2>1, <2>2 DEF Inv, TypeOK
  <2>4. FetchesAreUnderWay'
    BY <2>1, <2>2 DEF Inv, TypeOK, FetchesAreUnderWay
  <2>5. \A r \in Screens : \A x \in Snapshots(r)' : x \in Snapshots(r) \/ Good(r, x)'
    <3>1. Good(s, x0)'
      BY <1>1, <1>3, <1>4, GoodStaysGood
    <3>2. \A r \in Screens : \A x \in Snapshots(r)' : x \in Snapshots(r) \/ (r = s /\ x = x0)
      BY <1>4, <2>1 DEF Inv, TypeOK, Snapshots
    <3> QED
      BY <3>1, <3>2
  <2> QED
    BY <1>4, <2>3, <2>4, <2>5, SnapshotsStep
       DEF Inv, CommandsAreGood, GoodCommand, Honest, Current
<1> QED
  BY <1>5, <1>6

\* An answer that arrives leaves the cache with one of two snapshots.
LEMMA ReceiveKeepsInv ==
    ASSUME Inv, NEW s \in Screens, NEW a \in answers[s], Receive(s, a)
    PROVE  Inv'
<1>1. UNCHANGED <<db, lock, get, form, tx>>
  BY DEF Receive
<1>2. answers' = [answers EXCEPT ![s] = @ \ {a}]
  BY DEF Receive
<1>3. PICK v \in {view[s], a} : view' = [view EXCEPT ![s] = v]
  BY DEF Receive, Freshest
<1>4. v \in Snapshot
  BY DEF Inv, TypeOK
<1>5. TypeOK'
  BY <1>1, <1>2, <1>3, <1>4 DEF Inv, TypeOK
<1>6. \A r \in Screens : \A x \in Snapshots(r)' : x \in Snapshots(r)
  BY <1>1, <1>2, <1>3 DEF Inv, TypeOK, Snapshots
<1> QED
  BY <1>1, <1>5, <1>6, SnapshotsStep
     DEF Inv, FetchesAreUnderWay, CommandsAreGood, GoodCommand, Honest, Current

LEMMA LoseKeepsInv ==
    ASSUME Inv, NEW s \in Screens, Lose(s)
    PROVE  Inv'
<1>1. UNCHANGED <<db, lock, view, form, tx>>
  BY DEF Lose
<1>2. /\ get' = get \/ get' = [get EXCEPT ![s] = NoGet]
      /\ \/ answers' = answers
         \/ \E a \in answers[s] : answers' = [answers EXCEPT ![s] = @ \ {a}]
  BY DEF Lose
<1>3. NoGet \in [at : 0..2, got : Snapshot]
  BY ColumnNames DEF NoGet
<1>4. TypeOK'
  <2>1. get' \in [Screens -> [at : 0..2, got : Snapshot]]
    BY <1>2, <1>3 DEF Inv, TypeOK
  <2>2. answers' \in [Screens -> SUBSET Snapshot]
    BY <1>2 DEF Inv, TypeOK
  <2> QED
    BY <1>1, <2>1, <2>2 DEF Inv, TypeOK
<1>5. FetchesAreUnderWay'
  <2>1. CASE get' = get
    BY <2>1 DEF Inv, FetchesAreUnderWay
  <2>2. CASE get' = [get EXCEPT ![s] = NoGet]
    <3>1. NoGet.at = 0 /\ NoGet.got = NothingRead /\ 0 < Len(Statements(s))
      BY StatementLists DEF NoGet
    <3> QED
      BY <2>2, <3>1 DEF Inv, TypeOK, FetchesAreUnderWay
  <2> QED
    BY <1>2, <2>1, <2>2
<1>6. \A r \in Screens : \A x \in Snapshots(r)' : x \in Snapshots(r) \/ x = NothingRead
  BY <1>1, <1>2 DEF Inv, TypeOK, Snapshots, NoGet
<1>7. \A r \in Screens : Good(r, NothingRead)'
  BY <1>1, FirstReadIsGood, GoodStaysGood DEF Inv, TypeOK
<1> QED
  BY <1>1, <1>4, <1>5, <1>6, <1>7, SnapshotsStep
     DEF Inv, CommandsAreGood, GoodCommand, Honest, Current

(***************************************************************************)
(* A command                                                               *)
(***************************************************************************)
Command == [phase : {"idle", "sent", "found", "holding"}, writes : SUBSET Columns,
            seen : Snapshot, early : Snapshot]

LEMMA NoCommandIsCommand ==
    /\ NoCommand \in Command
    /\ NoCommand.phase = "idle"
    /\ NoCommand.seen = NothingRead
    /\ NoCommand.early = NothingRead
    /\ NoCommand.writes = {}
BY ColumnNames DEF NoCommand, Command

\* A step of screen s that writes nothing and leaves its command as c.
LEMMA CommandStep ==
    ASSUME Inv, NEW s \in Screens, NEW c \in Command, GoodCommand(s, c),
           UNCHANGED <<db, get, answers, view, form>>,
           tx' = [tx EXCEPT ![s] = c],
           lock' \in Screens \cup {NoScreen},
           \A r \in Screens : lock' = r <=> tx'[r].phase = "holding"
    PROVE  Inv'
<1>1. TypeOK'
  BY DEF Inv, TypeOK, Command
<1>2. \A r \in Screens : r # s => tx'[r] = tx[r]
  BY DEF Inv, TypeOK
<1>3. tx'[s] = c
  BY DEF Inv, TypeOK
<1>4. SnapshotsAreGood'
  <2>1. \A r \in Screens : \A x \in Snapshots(r)' : x \in Snapshots(r)
    BY DEF Snapshots
  <2> QED
    BY <2>1, SnapshotsStep DEF Inv
<1>5. CommandsAreGood'
  BY <1>2, <1>3 DEF Inv, CommandsAreGood, GoodCommand, Honest, Current
<1> QED
  BY <1>1, <1>4, <1>5 DEF Inv, FetchesAreUnderWay

LEMMA NoCommandIsGood ==
    ASSUME db \in [Columns -> Nat], NEW s
    PROVE  GoodCommand(s, NoCommand)
<1>1. db["version"] \in Nat /\ NothingRead["version"] = -1
  BY ColumnNames DEF NotRead
<1> QED
  BY <1>1, NoCommandIsCommand, FirstReadIsGood DEF GoodCommand, Honest

LEMMA SendAsKeepsInv ==
    ASSUME Inv, NEW s \in Screens, NEW writes \in SUBSET Columns, NEW seen \in Snapshot,
           SendAs(s, writes, seen),
           seen["version"] <= db["version"],
           s \notin TaskSheets /\ "header" \notin writes => Honest(seen)
    PROVE  Inv'
<1> DEFINE c == [phase |-> "sent", writes |-> writes, seen |-> seen, early |-> NothingRead]
<1>1. tx' = [tx EXCEPT ![s] = c] /\ UNCHANGED <<db, lock, get, answers, view, form>>
  BY DEF SendAs
<1>2. c \in Command
  BY ColumnNames DEF Command
<1>3. GoodCommand(s, c)
  BY FirstReadIsGood DEF Inv, TypeOK, GoodCommand
<1>4. c.phase = "sent"
  OBVIOUS
<1> HIDE DEF c
<1>5. \A r \in Screens : lock' = r <=> tx'[r].phase = "holding"
  BY <1>1, <1>4 DEF Inv, TypeOK, SendAs
<1> QED
  BY <1>1, <1>2, <1>3, <1>5, CommandStep DEF Inv, TypeOK

LEMMA SendKeepsInv ==
    ASSUME Inv, NEW s \in Screens, Send(s) \/ SendForm(s)
    PROVE  Inv'
<1>1. view[s] \in Snapshot /\ Good(s, view[s])
  BY DEF Inv, TypeOK, SnapshotsAreGood, Snapshots
<1>2. CASE Send(s)
  <2>1. PICK writes \in Writes(s) : SendAs(s, writes, view[s])
    BY <1>2 DEF Send
  <2>2. writes \in SUBSET Columns
    BY DEF Writes, Columns
  <2> QED
    BY <1>1, <2>1, <2>2, SendAsKeepsInv DEF Good
<1>3. CASE SendForm(s)
  <2>1. PICK seen : seen = [view[s] EXCEPT !["header"] = form[s]]
    OBVIOUS
  <2>2. SendAs(s, {"header"}, seen) /\ s \in OrderScreens
    BY <1>3, <2>1 DEF SendForm
  <2>3. seen \in Snapshot /\ seen["version"] = view[s]["version"]
    BY <1>1, <2>1, <2>2, ColumnNames DEF Inv, TypeOK, Snapshot
  <2>4. {"header"} \in SUBSET Columns
    BY DEF Columns
  <2> QED
    BY <1>1, <2>2, <2>3, <2>4, SendAsKeepsInv DEF Good
<1> QED
  BY <1>2, <1>3

LEMMA OpenFormKeepsInv ==
    ASSUME Inv, NEW s \in Screens, OpenForm(s)
    PROVE  Inv'
<1>1. UNCHANGED <<db, lock, get, answers, view, tx>>
  BY DEF OpenForm
<1>2. form' \in [OrderScreens -> Nat \cup {NotRead}]
  <2>1. view[s]["header"] \in Nat \cup {NotRead}
    BY DEF Inv, TypeOK, Snapshot, Columns
  <2> QED
    BY <2>1 DEF OpenForm, Inv, TypeOK
<1>3. TypeOK' /\ FetchesAreUnderWay'
  BY <1>1, <1>2 DEF Inv, TypeOK, FetchesAreUnderWay
<1>4. \A r \in Screens : \A x \in Snapshots(r)' : x \in Snapshots(r)
  BY <1>1 DEF Snapshots
<1> QED
  BY <1>1, <1>3, <1>4, SnapshotsStep
     DEF Inv, CommandsAreGood, GoodCommand, Honest, Current

LEMMA FindOwnAssignmentKeepsInv ==
    ASSUME Inv, NEW s \in Screens, FindOwnAssignment(s)
    PROVE  Inv'
<1> DEFINE early == Reread(NothingRead, {"task", "assignees"})
           c == [tx[s] EXCEPT !.phase = "found", !.early = early]
<1>1. tx' = [tx EXCEPT ![s] = c] /\ UNCHANGED <<db, lock, get, answers, view, form>>
  BY DEF FindOwnAssignment
<1>2. early \in Snapshot /\ Current(early)
  <2>1. db \in [Columns -> Nat]
    BY DEF Inv, TypeOK
  <2>2. early \in Snapshot
    BY <2>1, ColumnNames, RereadColumns
  <2>3. Current(early)
    BY <2>1, FirstReadIsGood
  <2> QED
    BY <2>2, <2>3
<1>3. /\ c \in Command /\ c.phase = "found"
      /\ c.seen = tx[s].seen /\ c.writes = tx[s].writes /\ c.early = early
  BY <1>2 DEF Inv, TypeOK, Command
<1>4. GoodCommand(s, c)
  BY <1>2, <1>3 DEF Inv, CommandsAreGood, GoodCommand
<1> HIDE DEF c
<1>5. \A r \in Screens : lock' = r <=> tx'[r].phase = "holding"
  BY <1>1, <1>3 DEF Inv, TypeOK, FindOwnAssignment
<1> QED
  BY <1>1, <1>3, <1>4, <1>5, CommandStep DEF Inv, TypeOK

LEMMA LockOrderKeepsInv ==
    ASSUME Inv, NEW s \in Screens, LockOrder(s)
    PROVE  Inv'
<1>1. UNCHANGED <<db, get, answers, view, form>> /\ lock = NoScreen
  BY DEF LockOrder
<1>2. tx[s] \in Command
  BY DEF Inv, TypeOK, Command
<1>3. CASE /\ tx[s].seen["version"] = db["version"]
           /\ lock' = s
           /\ tx' = [tx EXCEPT ![s].phase = "holding"]
  <2> DEFINE c == [tx[s] EXCEPT !.phase = "holding"]
  <2>1. tx' = [tx EXCEPT ![s] = c]
    BY <1>3 DEF Inv, TypeOK
  <2>2. /\ c \in Command /\ c.phase = "holding"
        /\ c.seen = tx[s].seen /\ c.writes = tx[s].writes /\ c.early = tx[s].early
    BY <1>2 DEF Command
  <2>3. GoodCommand(s, c)
    BY <1>3, <2>2 DEF Inv, CommandsAreGood, GoodCommand
  <2> HIDE DEF c
  <2>4. \A r \in Screens : lock' = r <=> tx'[r].phase = "holding"
    BY <1>1, <1>3, <2>1, <2>2, NoScreenIsNoScreen DEF Inv, TypeOK
  <2> QED
    BY <1>1, <1>3, <2>1, <2>2, <2>3, <2>4, CommandStep
<1>4. CASE tx' = [tx EXCEPT ![s] = NoCommand] /\ UNCHANGED lock
  <2>1. \A r \in Screens : lock' = r <=> tx'[r].phase = "holding"
    BY <1>1, <1>4, NoCommandIsCommand, NoScreenIsNoScreen DEF Inv, TypeOK
  <2> QED
    BY <1>1, <1>4, <2>1, NoCommandIsCommand, NoCommandIsGood, CommandStep DEF Inv, TypeOK
<1> QED
  BY <1>3, <1>4 DEF LockOrder

LEMMA RollbackKeepsInv ==
    ASSUME Inv, NEW s \in Screens, Rollback(s)
    PROVE  Inv'
<1>1. /\ UNCHANGED <<db, get, answers, view, form>>
      /\ tx' = [tx EXCEPT ![s] = NoCommand]
      /\ lock' = IF lock = s THEN NoScreen ELSE lock
  BY DEF Rollback
<1>2. \A r \in Screens : lock' = r <=> tx'[r].phase = "holding"
  BY <1>1, NoCommandIsCommand, NoScreenIsNoScreen DEF Inv, TypeOK
<1> QED
  BY <1>1, <1>2, NoCommandIsCommand, NoCommandIsGood, CommandStep DEF Inv, TypeOK

\* A commit raises the version, so that whatever was read before is only past;
\* and nobody else holds the lock.
LEMMA CommitKeepsInv ==
    ASSUME Inv, NEW s \in Screens, Commit(s)
    PROVE  Inv'
<1>1. db' = Written(tx[s].writes)
  BY DEF Commit
<1>2. /\ db \in [Columns -> Nat] /\ db["version"] \in Nat
      /\ db' \in [Columns -> Nat] /\ db'["version"] = db["version"] + 1
  BY <1>1, ColumnNames, WrittenColumns DEF Inv, TypeOK
<1>3. /\ tx[s].phase = "holding" /\ lock = s
      /\ lock' = NoScreen
      /\ tx' = [tx EXCEPT ![s] = NoCommand]
      /\ UNCHANGED <<get, view>>
  BY DEF Commit, Inv, TypeOK
<1> DEFINE answer == [c \in Columns |-> IF c \in {"version", "header", "lines"} THEN db'[c] ELSE NotRead]
<1>4. PICK x0 : x0 = answer
  OBVIOUS
<1>5. \/ s \in OrderScreens /\ answers' = [answers EXCEPT ![s] = @ \cup {x0}]
      \/ answers' = answers
  BY <1>4 DEF Commit
<1>6. x0 \in Snapshot /\ \A c \in Columns : x0[c] \in {NotRead, db'[c]}
  BY <1>2, <1>4 DEF Snapshot
<1>7. x0["version"] = db'["version"]
  BY <1>4, ColumnNames
<1> HIDE DEF answer
<1>8. Good(s, x0)'
  BY <1>2, <1>6, <1>7 DEF Good, Honest, Current
<1>9. TypeOK'
  <2>1. answers' \in [Screens -> SUBSET Snapshot]
    BY <1>5, <1>6 DEF Inv, TypeOK
  <2>2. tx' \in [Screens -> Command]
    BY <1>3, NoCommandIsCommand DEF Inv, TypeOK, Command
  <2>3. \A r \in Screens : lock' = r <=> tx'[r].phase = "holding"
    BY <1>3, NoCommandIsCommand, NoScreenIsNoScreen DEF Inv, TypeOK
  <2>4. form' \in [OrderScreens -> Nat \cup {NotRead}]
    <3>1. db'["header"] \in Nat
      BY <1>2 DEF Columns
    <3> QED
      BY <3>1 DEF Commit, Inv, TypeOK
  <2> QED
    BY <1>2, <1>3, <2>1, <2>2, <2>3, <2>4 DEF Inv, TypeOK, Command
<1>10. tx'[s] = NoCommand /\ \A r \in Screens \ {s} : tx'[r] = tx[r] /\ tx[r].phase # "holding"
  BY <1>3 DEF Inv, TypeOK
<1>11. SnapshotsAreGood'
  <2>1. \A r \in Screens : Good(r, NothingRead)'
    BY <1>2, FirstReadIsGood, GoodStaysGood
  <2>2. \A r \in Screens : \A x \in Snapshots(r)' :
            x \in Snapshots(r) \/ x = NothingRead \/ (r = s /\ x = x0)
    BY <1>3, <1>5, <1>10, NoCommandIsCommand DEF Inv, TypeOK, Snapshots
  <2> QED
    BY <1>2, <1>8, <2>1, <2>2, SnapshotsStep DEF Inv
<1>12. ASSUME NEW r \in Screens PROVE GoodCommand(r, tx[r])'
  <2>1. CASE r = s
    BY <1>2, <1>10, <2>1, NoCommandIsCommand, ColumnNames DEF GoodCommand, Honest, NotRead
  <2>2. CASE r # s
    <3>1. tx[r].seen["version"] \in Nat \cup {NotRead}
      BY ColumnNames DEF Inv, TypeOK, Snapshot
    <3>2. tx[r].seen["version"] < db'["version"]
      BY <1>2, <3>1 DEF Inv, CommandsAreGood, GoodCommand, NotRead
    <3> QED
      BY <1>2, <1>10, <2>2, <3>1, <3>2 DEF GoodCommand, Honest, NotRead
  <2> QED
    BY <2>1, <2>2
<1>13. CommandsAreGood'
  BY <1>12 DEF CommandsAreGood
<1> QED
  BY <1>3, <1>9, <1>11, <1>13 DEF Inv, FetchesAreUnderWay

(***************************************************************************)
(* The invariant                                                           *)
(***************************************************************************)
LEMMA InitEstablishesInv == Init => Inv
<1> SUFFICES ASSUME Init PROVE Inv
  OBVIOUS
<1>1. db \in [Columns -> Nat]
  BY DEF Init
<1>2. /\ NoGet \in [at : 0..2, got : Snapshot] /\ NoGet.at = 0
      /\ NoGet.got = NothingRead
  BY ColumnNames DEF NoGet
<1>3. TypeOK
  BY <1>1, <1>2, ColumnNames, NoCommandIsCommand, NoScreenIsNoScreen DEF Init, TypeOK, Command
<1>4. \A s \in Screens : \A x \in Snapshots(s) : x = NothingRead
  BY <1>2, NoCommandIsCommand DEF Init, Snapshots
<1>5. SnapshotsAreGood
  BY <1>1, <1>4, FirstReadIsGood DEF SnapshotsAreGood
<1>6. FetchesAreUnderWay
  <2> SUFFICES ASSUME NEW s \in Screens
               PROVE  get[s].at < Len(Statements(s)) /\ get[s].got = NothingRead
    BY DEF FetchesAreUnderWay
  <2>1. get[s] = NoGet
    BY DEF Init
  <2>2. 0 < Len(Statements(s))
    BY StatementLists
  <2> QED
    BY <1>2, <2>1, <2>2
<1>7. CommandsAreGood
  BY <1>1, NoCommandIsGood DEF Init, CommandsAreGood
<1> QED
  BY <1>3, <1>5, <1>6, <1>7 DEF Inv

LEMMA StepKeepsInv == Inv /\ [Next]_vars => Inv'
<1> SUFFICES ASSUME Inv, [Next]_vars PROVE Inv'
  OBVIOUS
<1>1. ASSUME NEW s \in Screens, ReadNext(s) PROVE Inv'
  BY <1>1, ReadNextKeepsInv
<1>2. ASSUME NEW s \in Screens, Lose(s) PROVE Inv'
  BY <1>2, LoseKeepsInv
<1>3. ASSUME NEW s \in Screens, NEW a \in answers[s], Receive(s, a) PROVE Inv'
  BY <1>3, ReceiveKeepsInv
<1>4. ASSUME NEW s \in Screens, Send(s) \/ SendForm(s) PROVE Inv'
  BY <1>4, SendKeepsInv
<1>10. ASSUME NEW s \in Screens, OpenForm(s) PROVE Inv'
  BY <1>10, OpenFormKeepsInv
<1>5. ASSUME NEW s \in Screens, FindOwnAssignment(s) PROVE Inv'
  BY <1>5, FindOwnAssignmentKeepsInv
<1>6. ASSUME NEW s \in Screens, LockOrder(s) PROVE Inv'
  BY <1>6, LockOrderKeepsInv
<1>7. ASSUME NEW s \in Screens, Commit(s) PROVE Inv'
  BY <1>7, CommitKeepsInv
<1>8. ASSUME NEW s \in Screens, Rollback(s) PROVE Inv'
  BY <1>8, RollbackKeepsInv
<1>9. CASE UNCHANGED vars
  <2>1. UNCHANGED <<db, lock, get, answers, view, form, tx>>
    BY <1>9 DEF vars
  <2>2. TypeOK' /\ FetchesAreUnderWay'
    BY <2>1 DEF Inv, TypeOK, FetchesAreUnderWay
  <2>3. \A s \in Screens : \A x \in Snapshots(s)' : x \in Snapshots(s)
    BY <2>1 DEF Snapshots
  <2>4. SnapshotsAreGood'
    BY <2>1, <2>3, SnapshotsStep DEF Inv
  <2>5. CommandsAreGood'
    BY <2>1 DEF Inv, CommandsAreGood, GoodCommand, Honest, Current
  <2> QED
    BY <2>2, <2>4, <2>5 DEF Inv
<1> QED
  BY <1>1, <1>2, <1>3, <1>4, <1>5, <1>6, <1>7, <1>8, <1>9, <1>10 DEF Next

LEMMA InvCorrect == Spec => []Inv
BY InitEstablishesInv, StepKeepsInv, PTL DEF Spec

(***************************************************************************)
(* Theorems                                                                *)
(***************************************************************************)
\* The variables have their types and the row lock its one holder.
THEOREM TypeCorrect == Spec => []TypeOK
<1>1. Inv => TypeOK
  BY DEF Inv
<1> QED
  BY <1>1, InvCorrect, PTL

\* However many screens read, write and wait at the same time, a command given
\* from an order screen or a technician's list changes what it was given on.
THEOREM CommandsAreNotBlind == Spec => []NoBlindOverwrite
<1>1. Inv => NoBlindOverwrite
  BY ScreensAreOfOneKind DEF Inv, CommandsAreGood, GoodCommand, Honest, NoBlindOverwrite,
     FromForm, Screens
<1> QED
  BY <1>1, InvCorrect, PTL

\* What a technician's command loaded before the lock holds under the lock.
THEOREM EarlyReadsAreCurrent == Spec => []EarlyReadIsCurrent
<1>1. Inv => EarlyReadIsCurrent
  BY DEF Inv, CommandsAreGood, GoodCommand, EarlyReadIsCurrent
<1> QED
  BY <1>1, InvCorrect, PTL

\* An order screen with the current version shows the current order.
THEOREM ScreensAreNotTorn == Spec => []NoTornScreen
<1>1. Inv => NoTornScreen
  BY ScreensAreOfOneKind DEF Inv, SnapshotsAreGood, Snapshots, Good, Honest, NoTornScreen, Screens
<1> QED
  BY <1>1, InvCorrect, PTL

\* The version shown by an order screen never falls.
THEOREM CacheIsMonotonic == Spec => CacheNeverGoesBack
<1> DEFINE Forward(s) == view'[s]["version"] >= view[s]["version"]
<1>1. ASSUME TypeOK, [Next]_vars, NEW s \in OrderScreens PROVE Forward(s)
  <2>1. s \in Screens /\ view[s] \in Snapshot /\ view[s]["version"] \in Nat \cup {NotRead}
    BY <1>1, ColumnNames DEF TypeOK, Screens, Snapshot
  <2>2. ASSUME NEW r \in Screens, NEW a \in answers[r], Receive(r, a) PROVE Forward(s)
    <3>1. a \in Snapshot /\ a["version"] \in Nat \cup {NotRead}
      BY <1>1, <2>2, ColumnNames DEF TypeOK, Snapshot
    <3>2. view' = [view EXCEPT ![r] = IF r \in OrderScreens THEN Freshest(view[r], a) ELSE a]
      BY <2>2 DEF Receive
    <3>3. CASE r = s
      <4>1. view'[s] = Freshest(view[s], a)
        BY <1>1, <2>1, <3>2, <3>3 DEF TypeOK
      <4> QED
        BY <2>1, <3>1, <4>1 DEF Freshest, NotRead
    <3>4. CASE r # s
      BY <1>1, <2>1, <3>2, <3>4 DEF TypeOK, NotRead
    <3> QED
      BY <3>3, <3>4
  <2>3. CASE view' = view
    BY <2>1, <2>3 DEF NotRead
  <2> QED
    BY <1>1, <2>2, <2>3 DEF Next, vars, ReadNext, Lose, OpenForm, Send, SendForm, SendAs, FindOwnAssignment, LockOrder,
       Commit, Rollback
<1>2. TypeOK /\ [Next]_vars => [\A s \in OrderScreens : Forward(s)]_vars
  BY <1>1
<1> QED
  BY <1>2, TypeCorrect, PTL DEF Spec, CacheNeverGoesBack
=============================================================================
