-------------------------------- MODULE Staff --------------------------------
(***************************************************************************)
(* Employees, and the locks of the requests that change them.              *)
(*                                                                         *)
(* A request is one transaction: it takes its locks one after the other,   *)
(* holds them to its end, and what it writes is seen by nobody before.     *)
(* PostgreSQL locks a row for the statement that changes or SELECTs it FOR *)
(* UPDATE, and the row a foreign key points at (FOR KEY SHARE) for the     *)
(* statement that inserts the reference: most of all audit_events.actor_id *)
(* for the audit event that ends a command.  The rows of one employee's    *)
(* sessions, and of his reset links, are one lock each.  A request may be  *)
(* rolled back at any time: a stale version, an input that is refused, a   *)
(* lost connection, or PostgreSQL breaking a deadlock.                     *)
(*                                                                         *)
(* Of an employee the module keeps what these commands decide on: whether  *)
(* he is a manager, whether he is active, and the number in his code.      *)
(***************************************************************************)
EXTENDS Integers, Sequences, FiniteSets

CONSTANTS
    Employees,      \* rows of employees, inserted or not
    Requests,       \* transactions that are open at the same time
    NoEmployee,     \* a row not inserted
    Nobody,         \* a lock that is no row of an employee
    MaxNumber,      \* bound on the numbers in codes
    HandNumbers     \* numbers in codes that create_manager is given

ASSUME NobodyIsNoEmployee == Nobody \notin Employees
ASSUME MaxNumberIsPositive == MaxNumber \in Nat \ {0}

ASSUME HandNumbersAreNumbers == HandNumbers \subseteq 1..MaxNumber

Numbers == 1..MaxNumber

Row == [manager : BOOLEAN, active : BOOLEAN, number : Numbers]

ASSUME NoEmployeeIsNoRow == NoEmployee \notin Row

VARIABLES
    row,            \* employees, with the MANAGER row of employee_roles
    open,           \* departments.is_active of the department people are put into
    lastValue,      \* code_sequences of the scope "employee" (no row yet: 0)
    byHand,         \* history: numbers of codes given by create_manager
    request         \* the open transactions

vars == <<row, open, lastValue, byHand, request>>

Commands == {"create", "move", "roles", "deactivate", "activate", "resetPassword", "department",
             "session", "logout", "forgot", "resetByLink", "order"}

Hired == {e \in Employees : row[e] # NoEmployee}

Manages(r) == r # NoEmployee /\ r.manager /\ r.active

Managers == {e \in Employees : Manages(row[e])}

OtherManagers(e) == Managers \ {e}

(***************************************************************************)
(* Locks                                                                   *)
(***************************************************************************)
Lock(what, of) == [what |-> what, of |-> of, key |-> FALSE]
Key(what, of) == [what |-> what, of |-> of, key |-> TRUE]

MutSerializeManagerChanges(q) == Lock("managers", q.target)

\* _serialize_manager_changes: one advisory lock for all of them.
SerializeManagerChanges(q) == Lock("managers", Nobody)

MutAccountThenSessions(q) == <<Lock("sessions", q.target), Lock("employee", q.target)>>

\* refresh, change_password: the employee, then his sessions.
AccountThenSessions(q) == <<Lock("employee", q.target), Lock("sessions", q.target)>>

\* The locks of a transaction in the order of its statements.  q.actor gives the
\* command, q.target is the row it is about, or somebody the order refers to.
\* "move" is an update with another department (without, it takes one lock less),
\* "session" a refresh or a change of the password.
Plan(q) ==
    LET employee == Lock("employee", q.target)
        sessions == Lock("sessions", q.target)
        links == Lock("links", q.target)
        audited == Key("employee", q.actor)
        department == Key("department", Nobody)
    IN CASE q.command = "create" -> <<Lock("sequence", Nobody), Lock("usernames", Nobody), department, audited>>
         [] q.command = "move" -> <<employee, department, audited>>
         [] q.command = "roles" -> <<SerializeManagerChanges(q), employee, audited>>
         [] q.command = "deactivate" -> <<SerializeManagerChanges(q), employee, sessions, audited>>
         [] q.command = "activate" -> <<employee, audited>>
         [] q.command = "resetPassword" -> <<employee, sessions, audited>>
         [] q.command = "department" -> <<Lock("department", Nobody), audited>>
         [] q.command = "session" -> AccountThenSessions(q)
         [] q.command = "logout" -> <<sessions>>
         [] q.command = "forgot" -> <<links, Key("employee", q.target)>>
         [] q.command = "resetByLink" -> <<links, employee, sessions>>
         [] q.command = "order" -> <<Lock("order", Nobody), audited, Key("employee", q.target)>>

Query == [command : Commands, actor : Employees, target : Employees, wanted : BOOLEAN,
          known : 0..MaxNumber, number : 0..MaxNumber, taken : 0..4]

Idle == [command |-> "none"]

Open == {r \in Requests : request[r] # Idle}

Holds(r) == {Plan(request[r])[i] : i \in 1..request[r].taken}

Waiting == {r \in Open : request[r].taken < Len(Plan(request[r]))}

Wanted(r) == Plan(request[r])[request[r].taken + 1]

Conflict(a, b) == a.what = b.what /\ a.of = b.of /\ ~(a.key /\ b.key)

Blocks(s, r) == s # r /\ s \in Open /\ \E held \in Holds(s) : Conflict(held, Wanted(r))
-----------------------------------------------------------------------------
(***************************************************************************)
(* What the code checks under the lock a request has just got              *)
(***************************************************************************)
\* _require_another_active_manager: reads what is committed.
KeepsAManager(e) == OtherManagers(e) # {}

Allowed(q) ==
    LET e == row[q.target]
    IN CASE q.command = "roles" /\ q.taken = 1 ->
                e.manager /\ ~q.wanted /\ e.active => KeepsAManager(q.target)
         [] q.command = "deactivate" /\ q.taken = 1 ->
                e.active /\ (e.manager => KeepsAManager(q.target))
         [] q.command = "activate" /\ q.taken = 0 -> ~e.active
         [] q.command = "move" /\ q.taken = 0 -> open
         [] q.command = "department" /\ q.taken = 0 -> open # q.wanted
         [] q.command = "create" /\ q.taken = 2 -> \A f \in Hired : row[f].number # q.number
         [] OTHER -> TRUE

LargerOf(a, b) == IF a > b THEN a ELSE b

MutNextValue(q) == q.known + 1

\* next_value: the counter under its lock, and the codes the request saw before.
NextValue(q) == LargerOf(lastValue, q.known) + 1

\* last_code_number: n is the largest number in a code, 0 if there is none.
LastCodeNumber(n) ==
    /\ \A e \in Hired : row[e].number <= n
    /\ n = 0 \/ \E e \in Hired : row[e].number = n

(***************************************************************************)
(* Actions                                                                 *)
(***************************************************************************)
NewRequest(command, actor, target, wanted, known) ==
    [command |-> command, actor |-> actor, target |-> target, wanted |-> wanted,
     known |-> known, number |-> 0, taken |-> 0]

\* A command of a manager: authentication, and what is checked before any lock.
Command(r) ==
    /\ request[r] = Idle
    /\ \E command \in {"create", "move", "roles", "deactivate", "activate", "resetPassword", "department"},
          actor \in Managers, target \in Hired, wanted \in BOOLEAN, known \in 0..MaxNumber :
          /\ IF command = "create" THEN open /\ target = actor /\ LastCodeNumber(known) ELSE known = 0
          /\ command = "department" => target = actor
          /\ command = "deactivate" => target # actor
          /\ wanted => command \in {"roles", "department"}
          /\ request' = [request EXCEPT ![r] = NewRequest(command, actor, target, wanted, known)]
    /\ UNCHANGED <<row, open, lastValue, byHand>>

\* What people do with their own account, and a command on an order that tells
\* somebody about it or assigns somebody.
Ordinary(r) ==
    /\ request[r] = Idle
    /\ \E command \in {"session", "logout", "forgot", "resetByLink", "order"},
          actor \in Hired, target \in Hired :
          /\ command # "order" => target = actor
          /\ request' = [request EXCEPT ![r] = NewRequest(command, actor, target, FALSE, 0)]
    /\ UNCHANGED <<row, open, lastValue, byHand>>

\* The next lock is free and the checks that follow it pass.
Take(r) ==
    LET q == request[r]
        numbered == q.command = "create" /\ q.taken = 0
    IN /\ r \in Waiting
       /\ \A s \in Requests : ~Blocks(s, r)
       /\ Allowed(q)
       /\ numbered => NextValue(q) <= MaxNumber
       /\ request' = [request EXCEPT ![r] =
             [q EXCEPT !.taken = @ + 1, !.number = IF numbered THEN NextValue(q) ELSE @]]
       /\ UNCHANGED <<row, open, lastValue, byHand>>

\* What a request leaves in the row e.
Written(q, e) ==
    CASE e = q.target /\ q.command = "roles" -> [row[e] EXCEPT !.manager = q.wanted]
      [] e = q.target /\ q.command = "deactivate" -> [row[e] EXCEPT !.active = FALSE]
      [] e = q.target /\ q.command = "activate" -> [row[e] EXCEPT !.active = TRUE]
      [] OTHER -> row[e]

\* The new row is whichever is not inserted yet; whether it is a manager is
\* part of the form.
Insert(q) ==
    \E e \in Employees \ Hired, manager \in BOOLEAN :
       row' = [row EXCEPT ![e] = [manager |-> manager, active |-> TRUE, number |-> q.number]]

Commit(r) ==
    LET q == request[r]
    IN /\ r \in Open /\ r \notin Waiting
       /\ IF q.command = "create" THEN Insert(q) /\ lastValue' = q.number
          ELSE row' = [e \in Employees |-> Written(q, e)] /\ UNCHANGED lastValue
       /\ open' = IF q.command = "department" THEN q.wanted ELSE open
       /\ request' = [request EXCEPT ![r] = Idle]
       /\ UNCHANGED byHand

RollBack(r) ==
    /\ r \in Open
    /\ request' = [request EXCEPT ![r] = Idle]
    /\ UNCHANGED <<row, open, lastValue, byHand>>

\* The command line: a manager with a code that is free.
CreateManager ==
    /\ \A r \in Open : \A held \in Holds(r) : held.what \notin {"usernames", "department"} \/ held.key
    /\ \E e \in Employees \ Hired, n \in HandNumbers :
          /\ \A f \in Hired : row[f].number # n
          /\ row' = [row EXCEPT ![e] = [manager |-> TRUE, active |-> TRUE, number |-> n]]
          /\ byHand' = byHand \cup {n}
    /\ UNCHANGED <<open, lastValue, request>>

\* An installation begins with a manager from the command line.
Init ==
    /\ \E e \in Employees, n \in HandNumbers :
          /\ row = [f \in Employees |->
                       IF f = e THEN [manager |-> TRUE, active |-> TRUE, number |-> n] ELSE NoEmployee]
          /\ byHand = {n}
    /\ open = TRUE
    /\ lastValue = 0
    /\ request = [r \in Requests |-> Idle]

Next ==
    \/ CreateManager
    \/ \E r \in Requests : Command(r) \/ Ordinary(r) \/ Take(r) \/ Commit(r) \/ RollBack(r)

Spec == Init /\ [][Next]_vars
-----------------------------------------------------------------------------
(***************************************************************************)
(* Properties                                                              *)
(***************************************************************************)
TypeOK ==
    /\ row \in [Employees -> Row \cup {NoEmployee}]
    /\ open \in BOOLEAN
    /\ lastValue \in 0..MaxNumber
    /\ byHand \subseteq HandNumbers
    /\ request \in [Requests -> Query \cup {Idle}]

\* Whatever managers do to each other and to themselves at the same time, an
\* active manager is left (AC-EMP-008).
SomebodyManages == Managers # {}

\* The requests in S wait for each other.
Deadlocked(S) == S # {} /\ \A r \in S : r \in Waiting /\ \E s \in S : Blocks(s, r)

\* The order in which statements take their locks (the employee before his
\* sessions, the link before the employee, one lock for all changes of
\* managers) excludes deadlocks.  What is left to PostgreSQL are those that
\* involve a foreign key: the audit event of somebody who is being changed.
LocksAreOrdered == \A S \in SUBSET Requests : Deadlocked(S) => \E r \in S : Wanted(r).key

\* The number of a new code is nobody else's: not of an employee, unless the
\* code was given by hand meanwhile, and not of another new employee.
NumbersNeverCollide ==
    \A r \in Open : request[r].number # 0 =>
       /\ \A e \in Hired : row[e].number = request[r].number => row[e].number \in byHand
       /\ \A s \in Open \ {r} : request[s].number # request[r].number
=============================================================================
