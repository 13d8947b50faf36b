----------------------------- MODULE StaffProofs -----------------------------
(***************************************************************************)
(* Proofs about Staff for any number of employees, requests and codes.     *)
(*                                                                         *)
(* LocksAreOrdered is a fact about Plan: the locks that statements take    *)
(* explicitly ascend in Rank and the keys come last, so that whoever       *)
(* blocks somebody waits for a lock of a higher rank, or for a key.  The   *)
(* other two theorems rest on LocksExclude: what a request has read under  *)
(* a lock stays true until it commits.                                     *)
(***************************************************************************)
EXTENDS Staff, TLAPS

Rank(lock) ==
    CASE lock.what \in {"managers", "sequence", "links", "order"} -> 1
      [] lock.what \in {"usernames", "employee", "department"} -> 2
      [] OTHER -> 3

(***************************************************************************)
(* Plans                                                                   *)
(***************************************************************************)
Ascending(plan) ==
    /\ Len(plan) \in 1..4
    /\ \A i, j \in 1..Len(plan) : i < j /\ ~plan[j].key =>
          ~plan[i].key /\ Rank(plan[i]) < Rank(plan[j])

LEMMA Ranks ==
    ASSUME NEW x
    PROVE  /\ \A what : ~Lock(what, x).key
           /\ Rank(Lock("managers", x)) = 1
           /\ Rank(Lock("sequence", x)) = 1
           /\ Rank(Lock("links", x)) = 1
           /\ Rank(Lock("order", x)) = 1
           /\ Rank(Lock("usernames", x)) = 2
           /\ Rank(Lock("employee", x)) = 2
           /\ Rank(Lock("department", x)) = 2
           /\ Rank(Lock("sessions", x)) = 3
BY DEF Rank, Lock

\* A plan is a sequence of locks that ascend, with the keys at the end.
LEMMA PlansAscend ==
    ASSUME NEW q \in Query
    PROVE  Ascending(Plan(q))
<1>0. q.command \in Commands
  BY DEF Query
<1>1. CASE q.command = "create"
  <2>1. Plan(q) = <<Lock("sequence", Nobody), Lock("usernames", Nobody), Key("department", Nobody), Key("employee", q.actor)>>
    BY <1>1 DEF Plan
  <2>2. Len(Plan(q)) = 4 /\ 1..4 = {1, 2, 3, 4}
    BY <2>1
  <2>3. ~Plan(q)[1].key /\ Rank(Plan(q)[1]) = 1
    BY <2>1, Ranks
  <2>4. ~Plan(q)[2].key /\ Rank(Plan(q)[2]) = 2
    BY <2>1, Ranks
  <2>5. Plan(q)[3].key
    BY <2>1 DEF Key
  <2>6. Plan(q)[4].key
    BY <2>1 DEF Key
  <2> QED
    BY <2>2, <2>3, <2>4, <2>5, <2>6 DEF Ascending
<1>2. CASE q.command = "move"
  <2>1. Plan(q) = <<Lock("employee", q.target), Key("department", Nobody), Key("employee", q.actor)>>
    BY <1>2 DEF Plan
  <2>2. Len(Plan(q)) = 3 /\ 1..3 = {1, 2, 3}
    BY <2>1
  <2>3. ~Plan(q)[1].key /\ Rank(Plan(q)[1]) = 2
    BY <2>1, Ranks
  <2>4. Plan(q)[2].key
    BY <2>1 DEF Key
  <2>5. Plan(q)[3].key
    BY <2>1 DEF Key
  <2> QED
    BY <2>2, <2>3, <2>4, <2>5 DEF Ascending
<1>3. CASE q.command = "roles"
  <2>1. Plan(q) = <<Lock("managers", Nobody), Lock("employee", q.target), Key("employee", q.actor)>>
    BY <1>3 DEF Plan, SerializeManagerChanges
  <2>2. Len(Plan(q)) = 3 /\ 1..3 = {1, 2, 3}
    BY <2>1
  <2>3. ~Plan(q)[1].key /\ Rank(Plan(q)[1]) = 1
    BY <2>1, Ranks
  <2>4. ~Plan(q)[2].key /\ Rank(Plan(q)[2]) = 2
    BY <2>1, Ranks
  <2>5. Plan(q)[3].key
    BY <2>1 DEF Key
  <2> QED
    BY <2>2, <2>3, <2>4, <2>5 DEF Ascending
<1>4. CASE q.command = "deactivate"
  <2>1. Plan(q) = <<Lock("managers", Nobody), Lock("employee", q.target), Lock("sessions", q.target), Key("employee", q.actor)>>
    BY <1>4 DEF Plan, SerializeManagerChanges
  <2>2. Len(Plan(q)) = 4 /\ 1..4 = {1, 2, 3, 4}
    BY <2>1
  <2>3. ~Plan(q)[1].key /\ Rank(Plan(q)[1]) = 1
    BY <2>1, Ranks
  <2>4. ~Plan(q)[2].key /\ Rank(Plan(q)[2]) = 2
    BY <2>1, Ranks
  <2>5. ~Plan(q)[3].key /\ Rank(Plan(q)[3]) = 3
    BY <2>1, Ranks
  <2>6. Plan(q)[4].key
    BY <2>1 DEF Key
  <2> QED
    BY <2>2, <2>3, <2>4, <2>5, <2>6 DEF Ascending
<1>5. CASE q.command = "activate"
  <2>1. Plan(q) = <<Lock("employee", q.target), Key("employee", q.actor)>>
    BY <1>5 DEF Plan
  <2>2. Len(Plan(q)) = 2 /\ 1..2 = {1, 2}
    BY <2>1
  <2>3. ~Plan(q)[1].key /\ Rank(Plan(q)[1]) = 2
    BY <2>1, Ranks
  <2>4. Plan(q)[2].key
    BY <2>1 DEF Key
  <2> QED
    BY <2>2, <2>3, <2>4 DEF Ascending
<1>6. CASE q.command = "resetPassword"
  <2>1. Plan(q) = <<Lock("employee", q.target), Lock("sessions", q.target), Key("employee", q.actor)>>
    BY <1>6 DEF Plan
  <2>2. Len(Plan(q)) = 3 /\ 1..3 = {1, 2, 3}
    BY <2>1
  <2>3. ~Plan(q)[1].key /\ Rank(Plan(q)[1]) = 2
    BY <2>1, Ranks
  <2>4. ~Plan(q)[2].key /\ Rank(Plan(q)[2]) = 3
    BY <2>1, Ranks
  <2>5. Plan(q)[3].key
    BY <2>1 DEF Key
  <2> QED
    BY <2>2, <2>3, <2>4, <2>5 DEF Ascending
<1>7. CASE q.command = "department"
  <2>1. Plan(q) = <<Lock("department", Nobody), Key("employee", q.actor)>>
    BY <1>7 DEF Plan
  <2>2. Len(Plan(q)) = 2 /\ 1..2 = {1, 2}
    BY <2>1
  <2>3. ~Plan(q)[1].key /\ Rank(Plan(q)[1]) = 2
    BY <2>1, Ranks
  <2>4. Plan(q)[2].key
    BY <2>1 DEF Key
  <2> QED
    BY <2>2, <2>3, <2>4 DEF Ascending
<1>8. CASE q.command = "session"
  <2>1. Plan(q) = <<Lock("employee", q.target), Lock("sessions", q.target)>>
    BY <1>8 DEF Plan, AccountThenSessions
  <2>2. Len(Plan(q)) = 2 /\ 1..2 = {1, 2}
    BY <2>1
  <2>3. ~Plan(q)[1].key /\ Rank(Plan(q)[1]) = 2
    BY <2>1, Ranks
  <2>4. ~Plan(q)[2].key /\ Rank(Plan(q)[2]) = 3
    BY <2>1, Ranks
  <2> QED
    BY <2>2, <2>3, <2>4 DEF Ascending
<1>9. CASE q.command = "logout"
  <2>1. Plan(q) = <<Lock("sessions", q.target)>>
    BY <1>9 DEF Plan
  <2>2. Len(Plan(q)) = 1 /\ 1..1 = {1}
    BY <2>1
  <2>3. ~Plan(q)[1].key /\ Rank(Plan(q)[1]) = 3
    BY <2>1, Ranks
  <2> QED
    BY <2>2, <2>3 DEF Ascending
<1>10. CASE q.command = "forgot"
  <2>1. Plan(q) = <<Lock("links", q.target), Key("employee", q.target)>>
    BY <1>10 DEF Plan
  <2>2. Len(Plan(q)) = 2 /\ 1..2 = {1, 2}
    BY <2>1
  <2>3. ~Plan(q)[1].key /\ Rank(Plan(q)[1]) = 1
    BY <2>1, Ranks
  <2>4. Plan(q)[2].key
    BY <2>1 DEF Key
  <2> QED
    BY <2>2, <2>3, <2>4 DEF Ascending
<1>11. CASE q.command = "resetByLink"
  <2>1. Plan(q) = <<Lock("links", q.target), Lock("employee", q.target), Lock("sessions", q.target)>>
    BY <1>11 DEF Plan
  <2>2. Len(Plan(q)) = 3 /\ 1..3 = {1, 2, 3}
    BY <2>1
  <2>3. ~Plan(q)[1].key /\ Rank(Plan(q)[1]) = 1
    BY <2>1, Ranks
  <2>4. ~Plan(q)[2].key /\ Rank(Plan(q)[2]) = 2
    BY <2>1, Ranks
  <2>5. ~Plan(q)[3].key /\ Rank(Plan(q)[3]) = 3
    BY <2>1, Ranks
  <2> QED
    BY <2>2, <2>3, <2>4, <2>5 DEF Ascending
<1>12. CASE q.command = "order"
  <2>1. Plan(q) = <<Lock("order", Nobody), Key("employee", q.actor), Key("employee", q.target)>>
    BY <1>12 DEF Plan
  <2>2. Len(Plan(q)) = 3 /\ 1..3 = {1, 2, 3}
    BY <2>1
  <2>3. ~Plan(q)[1].key /\ Rank(Plan(q)[1]) = 1
    BY <2>1, Ranks
  <2>4. Plan(q)[2].key
    BY <2>1 DEF Key
  <2>5. Plan(q)[3].key
    BY <2>1 DEF Key
  <2> QED
    BY <2>2, <2>3, <2>4, <2>5 DEF Ascending
<1> QED
  BY <1>0, <1>1, <1>2, <1>3, <1>4, <1>5, <1>6, <1>7, <1>8, <1>9, <1>10, <1>11, <1>12 DEF Commands

\* The plan of a request does not depend on how far it has come.
LEMMA PlansStay ==
    ASSUME NEW q, NEW p, p.command = q.command, p.actor = q.actor, p.target = q.target
    PROVE  Plan(p) = Plan(q)
BY DEF Plan, SerializeManagerChanges, AccountThenSessions

LEMMA RanksAreFew ==
    ASSUME NEW x
    PROVE  Rank(x) \in 1..3
BY DEF Rank

(***************************************************************************)
(* Deadlocks                                                               *)
(***************************************************************************)
LEMMA OpenRequests ==
    ASSUME TypeOK, NEW r \in Open
    PROVE  r \in Requests /\ request[r] \in Query /\ request[r].taken \in 0..4
BY DEF TypeOK, Open, Query

\* Who blocks a request waits for a lock of a higher rank, or for a key.
LEMMA BlockersAreHigher ==
    ASSUME TypeOK, NEW r \in Open, NEW s \in Waiting, Blocks(s, r), ~Wanted(s).key
    PROVE  Rank(Wanted(r)) < Rank(Wanted(s))
<1> DEFINE q == request[s]
           plan == Plan(q)
<1>1. s \in Open /\ q \in Query /\ q.taken \in 0..4 /\ q.taken < Len(plan)
  BY OpenRequests DEF Waiting
<1>2. PICK i \in 1..q.taken : Conflict(plan[i], Wanted(r))
  BY DEF Blocks, Holds
<1>3. Rank(plan[i]) = Rank(Wanted(r))
  BY <1>2 DEF Conflict, Rank
<1>4. Ascending(plan)
  BY <1>1, PlansAscend
<1>5. i \in 1..Len(plan) /\ q.taken + 1 \in 1..Len(plan) /\ i < q.taken + 1
  BY <1>1, <1>4 DEF Ascending
<1>6. ~plan[q.taken + 1].key
  BY DEF Wanted
<1>7. Rank(plan[i]) < Rank(plan[q.taken + 1])
  BY <1>4, <1>5, <1>6 DEF Ascending
<1> QED
  BY <1>3, <1>7 DEF Wanted

LEMMA OrderedLocks ==
    ASSUME TypeOK
    PROVE  LocksAreOrdered
<1> SUFFICES ASSUME NEW S \in SUBSET Requests, Deadlocked(S), \A r \in S : ~Wanted(r).key
             PROVE  FALSE
  BY DEF LocksAreOrdered
<1>1. \A r \in S : \E s \in S : Rank(Wanted(r)) < Rank(Wanted(s))
  <2> TAKE r \in S
  <2>1. PICK s \in S : Blocks(s, r)
    BY DEF Deadlocked
  <2>2. r \in Open /\ s \in Waiting /\ ~Wanted(s).key
    BY DEF Deadlocked, Waiting
  <2> QED
    BY <2>1, <2>2, BlockersAreHigher
<1>2. PICK a \in S : TRUE
  BY DEF Deadlocked
<1>3. PICK b \in S : Rank(Wanted(a)) < Rank(Wanted(b))
  BY <1>1
<1>4. PICK c \in S : Rank(Wanted(b)) < Rank(Wanted(c))
  BY <1>1
<1>5. PICK d \in S : Rank(Wanted(c)) < Rank(Wanted(d))
  BY <1>1
<1> QED
  BY <1>3, <1>4, <1>5, RanksAreFew

(***************************************************************************)
(* The inductive invariant                                                 *)
(***************************************************************************)
\* Two requests never hold locks that exclude each other.
LocksExclude ==
    \A r, s \in Open : r # s =>
       \A a \in Holds(r), b \in Holds(s) : ~Conflict(a, b)

RequestsFit ==
    \A r \in Open : /\ request[r].target \in Hired
                    /\ request[r].taken <= Len(Plan(request[r]))

Removals == {"roles", "deactivate"}

\* A request past the count of managers leaves one.
Counted ==
    \A r \in Open : request[r].command \in Removals /\ request[r].taken >= 2 =>
       \E e \in Employees : Manages(Written(request[r], e))

\* Codes that were not given by hand are counted, new ones are not counted yet.
NumbersFit ==
    /\ \A e \in Hired : row[e].number <= lastValue \/ row[e].number \in byHand
    /\ \A r \in Open :
          IF request[r].command = "create" /\ request[r].taken >= 1
          THEN request[r].number > lastValue
          ELSE request[r].number = 0

Inv ==
    /\ TypeOK
    /\ LocksExclude
    /\ RequestsFit
    /\ SomebodyManages
    /\ Counted
    /\ NumbersFit

(***************************************************************************)
(* What requests hold                                                      *)
(***************************************************************************)
LEMMA PlanLengths ==
    ASSUME NEW q \in Query
    PROVE  Len(Plan(q)) \in 1..4
BY PlansAscend DEF Ascending

LEMMA IdleIsNoQuery == Idle \notin Query
BY DEF Idle, Query, Commands

\* A request past its first lock of these commands holds it.
LEMMA FirstLocks ==
    ASSUME NEW r \in Open, request[r] \in Query, request[r].taken >= 1
    PROVE  /\ request[r].command \in Removals => Lock("managers", Nobody) \in Holds(r)
           /\ request[r].command = "create" => Lock("sequence", Nobody) \in Holds(r)
           /\ request[r].command = "activate" => Lock("employee", request[r].target) \in Holds(r)
<1> DEFINE q == request[r]
<1>1. 1 \in 1..q.taken
  BY DEF Query
<1>2. Plan(q)[1] \in Holds(r)
  BY <1>1 DEF Holds
<1>3. q.command \in Removals => Plan(q)[1] = Lock("managers", Nobody)
  <2>1. CASE q.command = "roles"
    BY <2>1 DEF Plan, SerializeManagerChanges
  <2>2. CASE q.command = "deactivate"
    BY <2>2 DEF Plan, SerializeManagerChanges
  <2> QED
    BY <2>1, <2>2 DEF Removals
<1>4. q.command = "create" => Plan(q)[1] = Lock("sequence", Nobody)
  BY DEF Plan
<1>5. q.command = "activate" => Plan(q)[1] = Lock("employee", q.target)
  BY DEF Plan
<1> QED
  BY <1>2, <1>3, <1>4, <1>5

\* Who removes a manager has locked him when he has counted the others.
LEMMA SecondLocks ==
    ASSUME NEW r \in Open, request[r] \in Query, request[r].taken >= 2, request[r].command \in Removals
    PROVE  Lock("employee", request[r].target) \in Holds(r)
<1> DEFINE q == request[r]
<1>1. 2 \in 1..q.taken
  BY DEF Query
<1>2. Plan(q)[2] \in Holds(r)
  BY <1>1 DEF Holds
<1>3. Plan(q)[2] = Lock("employee", q.target)
  <2>1. CASE q.command = "roles"
    BY <2>1 DEF Plan, SerializeManagerChanges
  <2>2. CASE q.command = "deactivate"
    BY <2>2 DEF Plan, SerializeManagerChanges
  <2> QED
    BY <2>1, <2>2 DEF Removals
<1> QED
  BY <1>2, <1>3

LEMMA LocksConflict ==
    ASSUME NEW what, NEW x
    PROVE  Conflict(Lock(what, x), Lock(what, x))
BY DEF Conflict, Lock

\* One request at a time changes managers, or takes a number.
LEMMA OneAtATime ==
    ASSUME Inv, NEW r \in Open, NEW s \in Open, r # s
    PROVE  /\ ~ /\ request[r].command \in Removals /\ request[r].taken >= 1
                /\ request[s].command \in Removals /\ request[s].taken >= 1
           /\ ~ /\ request[r].command = "create" /\ request[r].taken >= 1
                /\ request[s].command = "create" /\ request[s].taken >= 1
           /\ ~ /\ request[r].command \in Removals /\ request[r].taken >= 2
                /\ request[s].command = "activate" /\ request[s].taken >= 1
                /\ request[s].target = request[r].target
<1>1. request[r] \in Query /\ request[s] \in Query
  BY OpenRequests DEF Inv
<1>2. \A a \in Holds(r), b \in Holds(s) : ~Conflict(a, b)
  BY DEF Inv, LocksExclude
<1>3. request[r].taken >= 2 => request[r].taken >= 1
  BY <1>1 DEF Query
<1>4. ~ /\ request[r].command \in Removals /\ request[r].taken >= 1
        /\ request[s].command \in Removals /\ request[s].taken >= 1
  BY <1>1, <1>2, FirstLocks, LocksConflict
<1>5. ~ /\ request[r].command = "create" /\ request[r].taken >= 1
        /\ request[s].command = "create" /\ request[s].taken >= 1
  BY <1>1, <1>2, FirstLocks, LocksConflict
<1>6. ~ /\ request[r].command \in Removals /\ request[r].taken >= 2
        /\ request[s].command = "activate" /\ request[s].taken >= 1
        /\ request[s].target = request[r].target
  BY <1>1, <1>2, FirstLocks, SecondLocks, LocksConflict
<1> QED
  BY <1>4, <1>5, <1>6

(***************************************************************************)
(* Steps that begin or end a request                                       *)
(***************************************************************************)
LEMMA SettledLocks ==
    ASSUME Inv, NEW r \in Requests, NEW v, request' = [request EXCEPT ![r] = v],
           v = Idle \/ (v \in Query /\ v.taken = 0),
           request \in [Requests -> Query \cup {Idle}]
    PROVE  LocksExclude'
<1>1. ASSUME NEW c \in Open', c # r
      PROVE  c \in Open /\ Holds(c)' = Holds(c)
  BY <1>1 DEF Open, Holds
<1>2. ASSUME r \in Open'
      PROVE  Holds(r)' = {}
  <2>1. request'[r].taken = 0
    BY <1>2 DEF Open
  <2> QED
    BY <2>1 DEF Holds
<1> SUFFICES ASSUME NEW a \in Open', NEW b \in Open', a # b, NEW x \in Holds(a)', NEW y \in Holds(b)'
             PROVE  ~Conflict(x, y)
  BY DEF LocksExclude, Conflict
<1>3. a # r /\ b # r
  BY <1>2
<1>4. a \in Open /\ b \in Open /\ x \in Holds(a) /\ y \in Holds(b)
  BY <1>1, <1>3
<1> QED
  BY <1>4 DEF Inv, LocksExclude

LEMMA RequestsAreFunction ==
    ASSUME Inv
    PROVE  request \in [Requests -> Query \cup {Idle}]
BY DEF Inv, TypeOK

Settles(r, v) ==
    /\ request' = [request EXCEPT ![r] = v]
    /\ \/ v = Idle
       \/ v \in Query /\ v.taken = 0 /\ v.number = 0 /\ v.target \in Hired
    /\ UNCHANGED <<row, open, lastValue, byHand>>

LEMMA SettledStep ==
    ASSUME Inv, NEW r \in Requests, NEW v, Settles(r, v)
    PROVE  Inv'
<1> USE DEF Settles
<1>0. request \in [Requests -> Query \cup {Idle}]
  BY RequestsAreFunction
<1>1. ASSUME NEW c \in Open'
      PROVE  \/ c \in Open /\ c # r /\ request'[c] = request[c]
             \/ c = r /\ request'[c] = v /\ v \in Query /\ v.taken = 0 /\ v.number = 0 /\ v.target \in Hired
  BY <1>0 DEF Open
<1>2. TypeOK'
  BY <1>0 DEF Inv, TypeOK
<1>3. LocksExclude'
  BY <1>0, SettledLocks
<1>4. RequestsFit'
  <2> SUFFICES ASSUME NEW c \in Open'
               PROVE  request'[c].target \in Hired /\ request'[c].taken <= Len(Plan(request'[c]))
    BY DEF RequestsFit, Hired
  <2>1. CASE c \in Open /\ request'[c] = request[c]
    BY <2>1 DEF Inv, RequestsFit
  <2>2. CASE request'[c] = v /\ v \in Query /\ v.taken = 0 /\ v.target \in Hired
    <3>1. Len(Plan(v)) \in 1..4
      BY <2>2, PlanLengths
    <3> QED
      BY <2>2, <3>1
  <2> QED
    BY <1>1, <2>1, <2>2
<1>5. SomebodyManages'
  BY DEF Inv, SomebodyManages, Managers
<1>6. Counted'
  <2> SUFFICES ASSUME NEW c \in Open', request'[c].command \in Removals, request'[c].taken >= 2
               PROVE  \E e \in Employees : Manages(Written(request'[c], e))
    BY DEF Counted, Written
  <2>1. c \in Open /\ request'[c] = request[c]
    BY <1>1
  <2> QED
    BY <2>1 DEF Inv, Counted
<1>7. NumbersFit'
  <2>1. \A e \in Hired' : row'[e].number <= lastValue' \/ row'[e].number \in byHand'
    BY DEF Inv, NumbersFit, Hired
  <2>2. ASSUME NEW c \in Open'
        PROVE  IF request'[c].command = "create" /\ request'[c].taken >= 1
               THEN request'[c].number > lastValue'
               ELSE request'[c].number = 0
    <3>1. CASE c \in Open /\ request'[c] = request[c]
      BY <3>1 DEF Inv, NumbersFit
    <3>2. CASE request'[c] = v /\ v.taken = 0 /\ v.number = 0
      BY <3>2
    <3> QED
      BY <1>1, <3>1, <3>2
  <2> QED
    BY <2>1, <2>2 DEF NumbersFit
<1> QED
  BY <1>2, <1>3, <1>4, <1>5, <1>6, <1>7 DEF Inv

LEMMA NewRequests ==
    ASSUME NEW command \in Commands, NEW actor \in Employees, NEW target \in Employees, NEW wanted \in BOOLEAN,
           NEW known \in 0..MaxNumber
    PROVE  NewRequest(command, actor, target, wanted, known) \in Query
BY MaxNumberIsPositive DEF NewRequest, Query

LEMMA CommandStep ==
    ASSUME Inv, NEW r \in Requests, Command(r)
    PROVE  Inv'
<1>1. PICK command \in {"create", "move", "roles", "deactivate", "activate", "resetPassword", "department"},
           actor \in Managers, target \in Hired, wanted \in BOOLEAN, known \in 0..MaxNumber :
        /\ IF command = "create" THEN open /\ target = actor /\ LastCodeNumber(known) ELSE known = 0
        /\ command = "department" => target = actor
        /\ command = "deactivate" => target # actor
        /\ wanted => command \in {"roles", "department"}
        /\ request' = [request EXCEPT ![r] = NewRequest(command, actor, target, wanted, known)]
  BY Zenon DEF Command
<1>2. command \in Commands /\ actor \in Employees /\ target \in Employees
  BY DEF Commands, Managers, Hired
<1> DEFINE v == NewRequest(command, actor, target, wanted, known)
<1> HIDE DEF v
<1>3. v \in Query /\ v.taken = 0 /\ v.number = 0 /\ v.target \in Hired
  <2>1. v \in Query
    BY <1>2, NewRequests DEF v
  <2>2. v.taken = 0 /\ v.number = 0 /\ v.target = target
    BY DEF v, NewRequest
  <2> QED
    BY <2>1, <2>2
<1>4. UNCHANGED <<row, open, lastValue, byHand>>
  BY DEF Command
<1>5. request' = [request EXCEPT ![r] = v]
  BY <1>1 DEF v
<1>6. Settles(r, v)
  BY <1>3, <1>4, <1>5 DEF Settles
<1> QED
  BY <1>6, SettledStep

LEMMA OrdinaryStep ==
    ASSUME Inv, NEW r \in Requests, Ordinary(r)
    PROVE  Inv'
<1>1. PICK command \in {"session", "logout", "forgot", "resetByLink", "order"}, actor \in Hired, target \in Hired :
        request' = [request EXCEPT ![r] = NewRequest(command, actor, target, FALSE, 0)]
  BY Zenon DEF Ordinary
<1>2. command \in Commands /\ actor \in Employees /\ target \in Employees /\ 0 \in 0..MaxNumber
  BY MaxNumberIsPositive DEF Commands, Hired
<1> DEFINE v == NewRequest(command, actor, target, FALSE, 0)
<1> HIDE DEF v
<1>3. v \in Query /\ v.taken = 0 /\ v.number = 0 /\ v.target \in Hired
  <2>1. v \in Query
    BY <1>2, NewRequests DEF v
  <2>2. v.taken = 0 /\ v.number = 0 /\ v.target = target
    BY DEF v, NewRequest
  <2> QED
    BY <2>1, <2>2
<1>4. UNCHANGED <<row, open, lastValue, byHand>>
  BY DEF Ordinary
<1>5. request' = [request EXCEPT ![r] = v]
  BY <1>1 DEF v
<1>6. Settles(r, v)
  BY <1>3, <1>4, <1>5 DEF Settles
<1> QED
  BY <1>6, SettledStep

LEMMA RollBackStep ==
    ASSUME Inv, NEW r \in Requests, RollBack(r)
    PROVE  Inv'
<1>1. Settles(r, Idle)
  BY DEF RollBack, Settles
<1> QED
  BY <1>1, SettledStep

(***************************************************************************)
(* Steps that take a lock                                                  *)
(***************************************************************************)
Takes(r, v) ==
    /\ r \in Waiting
    /\ request' = [request EXCEPT ![r] = v]
    /\ v \in Query /\ v.taken = request[r].taken + 1
    /\ v.command = request[r].command /\ v.actor = request[r].actor
    /\ v.target = request[r].target /\ v.wanted = request[r].wanted
    /\ UNCHANGED <<row, open, lastValue, byHand>>

LEMMA WaitingRequests ==
    ASSUME Inv, NEW r \in Waiting
    PROVE  /\ r \in Open /\ r \in Requests /\ request[r] \in Query
           /\ request[r].taken \in 0..3 /\ request[r].taken < Len(Plan(request[r]))
           /\ request[r].target \in Hired
<1>1. r \in Open /\ request[r].taken < Len(Plan(request[r]))
  BY DEF Waiting
<1>2. r \in Requests /\ request[r] \in Query /\ request[r].taken \in 0..4
  BY <1>1, OpenRequests DEF Inv
<1>3. Len(Plan(request[r])) \in 1..4
  BY <1>2, PlanLengths
<1>4. request[r].target \in Hired
  BY <1>1 DEF Inv, RequestsFit
<1>5. \A n \in 0..4, m \in 1..4 : n < m => n \in 0..3
  OBVIOUS
<1>6. request[r].taken \in 0..3
  BY <1>1, <1>2, <1>3, <1>5
<1> QED
  BY <1>1, <1>2, <1>4, <1>6

\* Of the other requests nothing changes.
LEMMA TakenOthers ==
    ASSUME Inv, NEW r, NEW v, Takes(r, v), NEW c \in Open'
    PROVE  /\ c \in Open /\ c \in Requests
           /\ c # r => request'[c] = request[c] /\ Holds(c)' = Holds(c)
           /\ c = r => request'[c] = v
<1>1. request \in [Requests -> Query \cup {Idle}]
  BY RequestsAreFunction
<1>2. r \in Open /\ r \in Requests
  BY WaitingRequests DEF Takes
<1>3. c \in Requests
  BY DEF Open
<1>4. c # r => request'[c] = request[c]
  BY <1>1, <1>2, <1>3 DEF Takes
<1>5. c = r => request'[c] = v
  BY <1>1, <1>2, <1>3 DEF Takes
<1>6. c \in Open
  BY <1>2, <1>3, <1>4 DEF Open
<1>7. c # r => Holds(c)' = Holds(c)
  BY <1>4 DEF Holds
<1> QED
  BY <1>3, <1>4, <1>5, <1>6, <1>7

LEMMA TakenHolds ==
    ASSUME Inv, NEW r, NEW v, Takes(r, v), r \in Open'
    PROVE  \A x \in Holds(r)' : x \in Holds(r) \/ x = Wanted(r)
<1> DEFINE q == request[r]
<1>1. q \in Query /\ q.taken \in 0..3
  BY WaitingRequests DEF Takes
<1>2. request'[r] = v
  BY TakenOthers
<1>3. Plan(v) = Plan(q)
  BY PlansStay DEF Takes
<1>4. v.taken = q.taken + 1
  BY DEF Takes
<1> TAKE x \in Holds(r)'
<1>5. PICK i \in 1..v.taken : x = Plan(v)[i]
  BY <1>2 DEF Holds
<1>6. CASE i = q.taken + 1
  BY <1>3, <1>5, <1>6 DEF Wanted
<1>7. CASE i # q.taken + 1
  <2>1. i \in 1..q.taken
    BY <1>1, <1>4, <1>7
  <2> QED
    BY <1>3, <1>5, <2>1 DEF Holds
<1> QED
  BY <1>6, <1>7

LEMMA TakenLocks ==
    ASSUME Inv, NEW r, NEW v, Takes(r, v), \A s \in Requests : ~Blocks(s, r)
    PROVE  LocksExclude'
<1>1. ASSUME NEW b \in Open', b # r, r \in Open', NEW x \in Holds(r)', NEW y \in Holds(b)'
      PROVE  ~Conflict(y, x)
  <2>1. b \in Open /\ b \in Requests /\ y \in Holds(b)
    BY <1>1, TakenOthers
  <2>2. r \in Open
    BY <1>1, TakenOthers
  <2>3. CASE x \in Holds(r)
    BY <1>1, <2>1, <2>2, <2>3 DEF Inv, LocksExclude
  <2>4. CASE x = Wanted(r)
    BY <1>1, <2>1, <2>4 DEF Blocks
  <2> QED
    BY <1>1, <2>3, <2>4, TakenHolds
<1> SUFFICES ASSUME NEW a \in Open', NEW b \in Open', a # b, NEW x \in Holds(a)', NEW y \in Holds(b)'
             PROVE  ~Conflict(x, y)
  BY DEF LocksExclude, Conflict
<1>2. CASE a = r
  <2>1. ~Conflict(y, x)
    BY <1>1, <1>2
  <2> QED
    BY <2>1 DEF Conflict
<1>3. CASE b = r
  BY <1>1, <1>3
<1>4. CASE a # r /\ b # r
  <2>1. a \in Open /\ b \in Open /\ x \in Holds(a) /\ y \in Holds(b)
    BY <1>4, TakenOthers
  <2> QED
    BY <2>1 DEF Inv, LocksExclude
<1> QED
  BY <1>2, <1>3, <1>4

LEMMA Rows ==
    ASSUME Inv, NEW e \in Hired
    PROVE  /\ e \in Employees /\ row[e] \in Row /\ row[e] # NoEmployee
           /\ row[e].manager \in BOOLEAN /\ row[e].active \in BOOLEAN /\ row[e].number \in Numbers
<1>1. e \in Employees /\ row[e] # NoEmployee
  BY DEF Hired
<1>2. row[e] \in Row
  BY <1>1 DEF Inv, TypeOK
<1> QED
  BY <1>1, <1>2 DEF Row

\* _require_another_active_manager holds for what the request will write.
LEMMA CountOfManagers ==
    ASSUME Inv, NEW q \in Query, q.command \in Removals, q.taken = 1, q.target \in Hired, Allowed(q)
    PROVE  \E e \in Employees : Manages(Written(q, e))
<1> DEFINE t == q.target
<1>0. t \in Employees /\ row[t] \in Row /\ row[t] # NoEmployee /\ Row # {}
  BY Rows
<1>1. ASSUME NEW m \in Managers, m # t
      PROVE  \E e \in Employees : Manages(Written(q, e))
  <2>1. m \in Employees /\ Manages(row[m])
    BY DEF Managers
  <2>2. Written(q, m) = row[m]
    BY <1>1 DEF Written
  <2> QED
    BY <2>1, <2>2
<1>2. PICK m \in Managers : TRUE
  BY DEF Inv, SomebodyManages
<1>3. CASE m # t
  BY <1>1, <1>3
<1>4. CASE m = t /\ KeepsAManager(t)
  <2>1. PICK n \in Managers : n # t
    BY <1>4 DEF KeepsAManager, OtherManagers
  <2> QED
    BY <1>1, <2>1
<1>5. CASE m = t /\ ~KeepsAManager(t)
  <2>1. row[t].manager /\ row[t].active
    BY <1>5 DEF Managers, Manages
  <2>2. q.command = "roles" /\ q.wanted
    BY <1>5, <2>1 DEF Allowed, Removals
  <2>3. Written(q, t) = [row[t] EXCEPT !.manager = q.wanted]
    BY <2>2 DEF Written
  <2>4. [row[t] EXCEPT !.manager = q.wanted] \in Row
    BY <1>0 DEF Row, Query
  <2>5. [row[t] EXCEPT !.manager = q.wanted].manager = q.wanted
    BY <1>0 DEF Row
  <2>6. [row[t] EXCEPT !.manager = q.wanted].active = row[t].active
    BY <1>0 DEF Row
  <2>7. Written(q, t) # NoEmployee /\ Written(q, t).manager /\ Written(q, t).active
    BY <2>1, <2>2, <2>3, <2>4, <2>5, <2>6, NoEmployeeIsNoRow
  <2> QED
    BY <1>0, <2>7 DEF Manages
<1> QED
  BY <1>3, <1>4, <1>5

LEMMA TakenStep ==
    ASSUME Inv, NEW r, NEW v, Takes(r, v), \A s \in Requests : ~Blocks(s, r), Allowed(request[r]),
           v.number = IF v.command = "create" /\ v.taken = 1 THEN NextValue(request[r]) ELSE request[r].number
    PROVE  Inv'
<1> DEFINE q == request[r]
<1>0. /\ r \in Open /\ r \in Requests /\ q \in Query /\ q.taken \in 0..3
      /\ q.taken < Len(Plan(q)) /\ q.target \in Hired
  BY WaitingRequests DEF Takes
<1>1. request \in [Requests -> Query \cup {Idle}]
  BY RequestsAreFunction
<1>2. TypeOK'
  BY <1>0, <1>1 DEF Inv, TypeOK, Takes
<1>3. LocksExclude'
  BY TakenLocks
<1>4. Hired' = Hired
  BY DEF Takes, Hired
<1>5. RequestsFit'
  <2> SUFFICES ASSUME NEW c \in Open'
               PROVE  request'[c].target \in Hired /\ request'[c].taken <= Len(Plan(request'[c]))
    BY <1>4 DEF RequestsFit
  <2>1. CASE c # r
    BY <2>1, TakenOthers DEF Inv, RequestsFit
  <2>2. CASE c = r
    <3>1. Plan(v) = Plan(q)
      BY PlansStay DEF Takes
    <3>2. Len(Plan(q)) \in 1..4
      BY <1>0, PlanLengths
    <3>3. v.taken <= Len(Plan(v)) /\ v.target = q.target
      BY <1>0, <3>1, <3>2 DEF Takes
    <3>4. request'[c] = v
      BY <2>2, TakenOthers
    <3> QED
      BY <1>0, <3>3, <3>4
  <2> QED
    BY <2>1, <2>2
<1>6. SomebodyManages'
  BY DEF Inv, SomebodyManages, Managers, Takes
<1>7. Counted'
  <2> SUFFICES ASSUME NEW c \in Open', request'[c].command \in Removals, request'[c].taken >= 2
               PROVE  \E e \in Employees : Manages(Written(request'[c], e))
    BY DEF Counted, Written, Takes
  <2>1. CASE c # r
    BY <2>1, TakenOthers DEF Inv, Counted
  <2>2. CASE c = r
    <3>0. v.command = q.command /\ v.taken = q.taken + 1
      BY DEF Takes
    <3>1. request'[c] = v
      BY <2>2, TakenOthers
    <3>2. \A e : Written(v, e) = Written(q, e)
      BY DEF Written, Takes
    <3>3. q.command \in Removals /\ (q.taken = 1 \/ q.taken >= 2)
      BY <1>0, <3>0, <3>1
    <3>4. \E e \in Employees : Manages(Written(q, e))
      <4>1. CASE q.taken = 1
        BY <1>0, <3>3, <4>1, CountOfManagers
      <4>2. CASE q.taken >= 2
        BY <1>0, <3>3, <4>2 DEF Inv, Counted
      <4> QED
        BY <3>3, <4>1, <4>2
    <3> QED
      BY <3>1, <3>2, <3>4
  <2> QED
    BY <2>1, <2>2
<1>8. NumbersFit'
  <2>1. \A e \in Hired' : row'[e].number <= lastValue' \/ row'[e].number \in byHand'
    BY <1>4 DEF Inv, NumbersFit, Takes
  <2>2. ASSUME NEW c \in Open'
        PROVE  IF request'[c].command = "create" /\ request'[c].taken >= 1
               THEN request'[c].number > lastValue'
               ELSE request'[c].number = 0
    <3>1. lastValue' = lastValue /\ lastValue \in 0..MaxNumber /\ lastValue \in Int
      BY DEF Takes, Inv, TypeOK
    <3>2. CASE c # r
      BY <3>1, <3>2, TakenOthers DEF Inv, NumbersFit
    <3>3. CASE c = r
      <4>0. request'[c] = v
        BY <3>3, TakenOthers
      <4>1. v.command = q.command /\ v.taken = q.taken + 1
        BY DEF Takes
      <4>2. CASE q.command # "create"
        BY <1>0, <4>0, <4>1, <4>2 DEF Inv, NumbersFit
      <4>3. CASE q.command = "create" /\ q.taken = 0
        <5>1. v.number = NextValue(q)
          BY <4>1, <4>3
        <5>2. q.known \in Int
          BY <1>0 DEF Query
        <5>3. NextValue(q) > lastValue
          BY <3>1, <5>2 DEF NextValue, LargerOf
        <5> QED
          BY <1>0, <3>1, <4>0, <4>1, <4>3, <5>1, <5>3
      <4>4. CASE q.command = "create" /\ q.taken # 0
        <5>1. q.taken >= 1 /\ v.taken # 1 /\ v.taken >= 1
          BY <1>0, <4>1, <4>4
        <5>2. v.number = q.number /\ q.number > lastValue
          BY <1>0, <4>4, <5>1 DEF Inv, NumbersFit
        <5> QED
          BY <3>1, <4>0, <4>1, <4>4, <5>1, <5>2
      <4> QED
        BY <4>2, <4>3, <4>4
    <3> QED
      BY <3>2, <3>3
  <2> QED
    BY <2>1, <2>2 DEF NumbersFit
<1> QED
  BY <1>2, <1>3, <1>5, <1>6, <1>7, <1>8 DEF Inv

LEMMA TakeStep ==
    ASSUME Inv, NEW r \in Requests, Take(r)
    PROVE  Inv'
<1> DEFINE q == request[r]
           numbered == q.command = "create" /\ q.taken = 0
           v == [q EXCEPT !.taken = @ + 1, !.number = IF numbered THEN NextValue(q) ELSE @]
<1>0. r \in Waiting /\ q \in Query /\ q.taken \in 0..3
  BY WaitingRequests DEF Take
<1>1. request' = [request EXCEPT ![r] = v]
  BY DEF Take
<1>2. numbered => NextValue(q) \in 0..MaxNumber
  <2>1. numbered => NextValue(q) <= MaxNumber
    BY DEF Take
  <2>2. lastValue \in 0..MaxNumber /\ q.known \in 0..MaxNumber
    BY <1>0 DEF Inv, TypeOK, Query
  <2> QED
    BY <2>1, <2>2, MaxNumberIsPositive DEF NextValue, LargerOf
<1>3. v \in Query
  <2>1. q.taken + 1 \in 0..4
    BY <1>0
  <2>2. (IF numbered THEN NextValue(q) ELSE q.number) \in 0..MaxNumber
    BY <1>0, <1>2 DEF Query
  <2> QED
    BY <1>0, <2>1, <2>2 DEF Query
<1>4. /\ v.taken = q.taken + 1 /\ v.command = q.command /\ v.actor = q.actor
      /\ v.target = q.target /\ v.wanted = q.wanted
  BY <1>0 DEF Query
<1>5. v.number = IF numbered THEN NextValue(q) ELSE q.number
  BY <1>0 DEF Query
<1>6. numbered <=> v.command = "create" /\ v.taken = 1
  BY <1>0, <1>4
<1>7. UNCHANGED <<row, open, lastValue, byHand>>
  BY DEF Take
<1>8. (\A s \in Requests : ~Blocks(s, r)) /\ Allowed(q)
  BY DEF Take
<1> HIDE DEF v
<1>9. Takes(r, v)
  BY <1>0, <1>1, <1>3, <1>4, <1>7 DEF Takes
<1>10. v.number = IF v.command = "create" /\ v.taken = 1 THEN NextValue(q) ELSE q.number
  BY <1>5, <1>6
<1> QED
  BY <1>8, <1>9, <1>10, TakenStep

(***************************************************************************)
(* Steps that write rows                                                   *)
(***************************************************************************)
\* A new row changes nothing that a request has counted.
Inserts(e, x) == e \in Employees \ Hired /\ x \in Row /\ row' = [row EXCEPT ![e] = x]

LEMMA InsertedRows ==
    ASSUME Inv, NEW e, NEW x, Inserts(e, x)
    PROVE  /\ row' \in [Employees -> Row \cup {NoEmployee}]
           /\ row'[e] = x /\ Hired' = Hired \cup {e}
           /\ \A f \in Hired : row'[f] = row[f]
<1>1. row \in [Employees -> Row \cup {NoEmployee}] /\ e \in Employees /\ e \notin Hired /\ x \in Row
  BY DEF Inserts, Inv, TypeOK
<1>2. row' \in [Employees -> Row \cup {NoEmployee}] /\ row'[e] = x
  BY <1>1 DEF Inserts
<1>3. \A f \in Employees : f # e => row'[f] = row[f]
  BY <1>1 DEF Inserts
<1>4. Hired' = Hired \cup {e}
  BY <1>1, <1>2, <1>3, NoEmployeeIsNoRow DEF Hired
<1>5. \A f \in Hired : row'[f] = row[f]
  BY <1>1, <1>3 DEF Hired
<1> QED
  BY <1>2, <1>4, <1>5

LEMMA InsertedManagers ==
    ASSUME Inv, NEW e, NEW x, Inserts(e, x)
    PROVE  SomebodyManages'
<1>1. PICK m \in Managers : TRUE
  BY DEF Inv, SomebodyManages
<1>2. m \in Hired /\ m \in Employees /\ Manages(row[m])
  BY DEF Managers, Manages, Hired
<1>3. row'[m] = row[m]
  BY <1>2, InsertedRows
<1> QED
  BY <1>2, <1>3 DEF SomebodyManages, Managers, Manages

LEMMA InsertedCount ==
    ASSUME Inv, NEW e, NEW x, Inserts(e, x), NEW s \in Open, request'[s] = request[s],
           request[s].command \in Removals, request[s].taken >= 2
    PROVE  (\E f \in Employees : Manages(Written(request[s], f)))'
<1> DEFINE q == request[s]
<1>1. PICK f \in Employees : Manages(Written(q, f))
  BY DEF Inv, Counted
<1>2. q.target \in Hired
  BY DEF Inv, RequestsFit
<1>3. f \in Hired
  <2> SUFFICES ASSUME row[f] = NoEmployee
               PROVE  FALSE
    BY DEF Hired
  <2>1. f # q.target
    BY <1>2 DEF Hired
  <2>2. Written(q, f) = NoEmployee
    BY <2>1 DEF Written
  <2> QED
    BY <1>1, <2>2 DEF Manages
<1>4. row'[f] = row[f]
  BY <1>3, InsertedRows
<1>5. Written(q, f)' = Written(q, f)
  BY <1>4 DEF Written
<1> QED
  BY <1>1, <1>5 DEF Manages

\* How far a request has come when it commits.
LEMMA CommittedRequests ==
    ASSUME Inv, NEW r \in Open, r \notin Waiting
    PROVE  /\ r \in Requests /\ request[r] \in Query /\ request[r].taken >= 1
           /\ request[r].command \in Removals => request[r].taken >= 2
<1> DEFINE q == request[r]
<1>1. r \in Requests /\ q \in Query /\ q.taken \in 0..4
  BY OpenRequests DEF Inv
<1>2. Len(Plan(q)) \in 1..4
  BY <1>1, PlanLengths
<1>3. q.taken >= Len(Plan(q))
  BY <1>1, <1>2 DEF Waiting
<1>4. q.command = "roles" => Len(Plan(q)) = 3
  BY DEF Plan
<1>5. q.command = "deactivate" => Len(Plan(q)) = 4
  BY DEF Plan
<1>6. q.taken >= 1
  <2>1. \A n \in 0..4, m \in 1..4 : n >= m => n >= 1
    OBVIOUS
  <2> QED
    BY <1>1, <1>2, <1>3, <2>1
<1>7. q.command \in Removals => q.taken >= 2
  <2>1. \A n \in 0..4 : n >= 3 \/ n >= 4 => n >= 2
    OBVIOUS
  <2>2. q.command \in Removals => q.taken >= 3 \/ q.taken >= 4
    BY <1>3, <1>4, <1>5 DEF Removals
  <2> QED
    BY <1>1, <2>1, <2>2
<1> QED
  BY <1>1, <1>6, <1>7

Ends(r) == request' = [request EXCEPT ![r] = Idle]

LEMMA EndedOthers ==
    ASSUME Inv, NEW r \in Requests, Ends(r), NEW c \in Open'
    PROVE  c \in Open /\ c \in Requests /\ c # r /\ request'[c] = request[c]
BY RequestsAreFunction DEF Ends, Open

LEMMA EndedLocks ==
    ASSUME Inv, NEW r \in Requests, Ends(r)
    PROVE  LocksExclude' /\ request' \in [Requests -> Query \cup {Idle}]
<1>1. request \in [Requests -> Query \cup {Idle}]
  BY RequestsAreFunction
<1>2. request' = [request EXCEPT ![r] = Idle]
  BY DEF Ends
<1>3. LocksExclude'
  BY <1>1, <1>2, SettledLocks
<1>4. request' \in [Requests -> Query \cup {Idle}]
  BY <1>1, <1>2
<1> QED
  BY <1>3, <1>4

LEMMA CommitCreate ==
    ASSUME Inv, NEW r \in Requests, Commit(r), request[r].command = "create"
    PROVE  Inv'
<1> DEFINE q == request[r]
<1>1. r \in Open /\ r \notin Waiting /\ Ends(r) /\ q \in Query /\ q.taken >= 1
  BY CommittedRequests DEF Commit, Ends
<1>2. q.number > lastValue /\ q.number \in 0..MaxNumber /\ lastValue \in 0..MaxNumber
  BY <1>1 DEF Inv, TypeOK, NumbersFit, Query
<1>3. q.number \in Numbers
  BY <1>2, MaxNumberIsPositive DEF Numbers
<1>4. Insert(q) /\ lastValue' = q.number /\ open' = open /\ byHand' = byHand
  BY DEF Commit
<1>5. PICK e \in Employees \ Hired, manager \in BOOLEAN :
        row' = [row EXCEPT ![e] = [manager |-> manager, active |-> TRUE, number |-> q.number]]
  BY <1>4 DEF Insert
<1> DEFINE x == [manager |-> manager, active |-> TRUE, number |-> q.number]
<1>6. x \in Row /\ x.number = q.number
  BY <1>3 DEF Row
<1> HIDE DEF x
<1>7. Inserts(e, x)
  BY <1>5, <1>6 DEF Inserts, x
<1>8. TypeOK'
  BY <1>1, <1>2, <1>4, <1>7, InsertedRows, EndedLocks DEF Inv, TypeOK
<1>9. LocksExclude'
  BY <1>1, EndedLocks
<1>10. RequestsFit'
  <2> SUFFICES ASSUME NEW c \in Open'
               PROVE  request'[c].target \in Hired' /\ request'[c].taken <= Len(Plan(request'[c]))
    BY DEF RequestsFit
  <2> QED
    BY <1>1, <1>7, EndedOthers, InsertedRows DEF Inv, RequestsFit
<1>11. SomebodyManages'
  BY <1>7, InsertedManagers
<1>12. Counted'
  <2> SUFFICES ASSUME NEW c \in Open', request'[c].command \in Removals, request'[c].taken >= 2
               PROVE  (\E f \in Employees : Manages(Written(request[c], f)))'
    BY DEF Counted
  <2>1. c \in Open /\ request'[c] = request[c]
    BY <1>1, EndedOthers
  <2> QED
    BY <1>7, <2>1, InsertedCount
<1>13. NumbersFit'
  <2>1. \A f \in Hired' : row'[f].number <= lastValue' \/ row'[f].number \in byHand'
    <3> TAKE f \in Hired'
    <3>1. CASE f = e
      BY <1>2, <1>4, <1>6, <1>7, <3>1, InsertedRows
    <3>2. CASE f \in Hired
      <4>1. row[f].number \in Numbers /\ row'[f] = row[f]
        BY <1>7, <3>2, Rows, InsertedRows
      <4>2. row[f].number <= lastValue \/ row[f].number \in byHand
        BY <3>2 DEF Inv, NumbersFit
      <4> QED
        BY <1>2, <1>4, <4>1, <4>2, MaxNumberIsPositive DEF Numbers
    <3> QED
      BY <1>7, <3>1, <3>2, InsertedRows
  <2>2. ASSUME NEW c \in Open'
        PROVE  IF request'[c].command = "create" /\ request'[c].taken >= 1
               THEN request'[c].number > lastValue'
               ELSE request'[c].number = 0
    <3>1. c \in Open /\ c # r /\ request'[c] = request[c]
      BY <1>1, EndedOthers
    <3>2. ~(request[c].command = "create" /\ request[c].taken >= 1)
      BY <1>1, <3>1, OneAtATime
    <3> QED
      BY <3>1, <3>2 DEF Inv, NumbersFit
  <2> QED
    BY <2>1, <2>2 DEF NumbersFit
<1> QED
  BY <1>8, <1>9, <1>10, <1>11, <1>12, <1>13 DEF Inv

LEMMA CreateManagerStep ==
    ASSUME Inv, CreateManager
    PROVE  Inv'
<1>1. PICK e \in Employees \ Hired, n \in HandNumbers :
        /\ row' = [row EXCEPT ![e] = [manager |-> TRUE, active |-> TRUE, number |-> n]]
        /\ byHand' = byHand \cup {n}
  BY DEF CreateManager
<1>2. open' = open /\ lastValue' = lastValue /\ request' = request
  BY DEF CreateManager
<1> DEFINE x == [manager |-> TRUE, active |-> TRUE, number |-> n]
<1>3. x \in Row /\ x.number = n
  BY HandNumbersAreNumbers DEF Row, Numbers
<1> HIDE DEF x
<1>4. Inserts(e, x)
  BY <1>1, <1>3 DEF Inserts, x
<1>5. Open' = Open
  BY <1>2 DEF Open
<1>6. TypeOK'
  BY <1>1, <1>2, <1>4, InsertedRows DEF Inv, TypeOK
<1>7. LocksExclude'
  BY <1>2, <1>5 DEF Inv, LocksExclude, Holds
<1>8. RequestsFit'
  BY <1>2, <1>4, <1>5, InsertedRows DEF Inv, RequestsFit
<1>9. SomebodyManages'
  BY <1>4, InsertedManagers
<1>10. Counted'
  <2> SUFFICES ASSUME NEW c \in Open', request'[c].command \in Removals, request'[c].taken >= 2
               PROVE  (\E f \in Employees : Manages(Written(request[c], f)))'
    BY DEF Counted
  <2> QED
    BY <1>2, <1>4, <1>5, InsertedCount
<1>11. NumbersFit'
  <2>1. \A f \in Hired' : row'[f].number <= lastValue' \/ row'[f].number \in byHand'
    BY <1>1, <1>2, <1>3, <1>4, InsertedRows DEF Inv, NumbersFit
  <2> QED
    BY <1>2, <1>5, <2>1 DEF Inv, NumbersFit
<1> QED
  BY <1>6, <1>7, <1>8, <1>9, <1>10, <1>11 DEF Inv

\* A command never makes or removes a row, nor changes a code.
LEMMA WrittenRows ==
    ASSUME Inv, NEW q \in Query, q.target \in Hired, NEW e \in Employees
    PROVE  /\ Written(q, e) \in Row \cup {NoEmployee}
           /\ Written(q, e) = NoEmployee <=> row[e] = NoEmployee
           /\ e \in Hired => Written(q, e).number = row[e].number
           /\ q.command \notin Removals => (Manages(row[e]) => Manages(Written(q, e)))
<1> DEFINE t == q.target
<1>0. t \in Employees /\ row[t] \in Row /\ row[t] # NoEmployee /\ row[e] \in Row \cup {NoEmployee}
  BY Rows DEF Inv, TypeOK
<1>1. CASE e = t /\ q.command = "roles"
  <2>1. Written(q, e) = [row[t] EXCEPT !.manager = q.wanted]
    BY <1>1 DEF Written
  <2>2. [row[t] EXCEPT !.manager = q.wanted] \in Row
    BY <1>0 DEF Row, Query
  <2>3. [row[t] EXCEPT !.manager = q.wanted].number = row[t].number
    BY <1>0 DEF Row
  <2> QED
    BY <1>0, <1>1, <2>1, <2>2, <2>3, NoEmployeeIsNoRow DEF Removals
<1>2. CASE e = t /\ q.command = "deactivate"
  <2>1. Written(q, e) = [row[t] EXCEPT !.active = FALSE]
    BY <1>2 DEF Written
  <2>2. [row[t] EXCEPT !.active = FALSE] \in Row
    BY <1>0 DEF Row
  <2>3. [row[t] EXCEPT !.active = FALSE].number = row[t].number
    BY <1>0 DEF Row
  <2> QED
    BY <1>0, <1>2, <2>1, <2>2, <2>3, NoEmployeeIsNoRow DEF Removals
<1>3. CASE e = t /\ q.command = "activate"
  <2>1. Written(q, e) = [row[t] EXCEPT !.active = TRUE]
    BY <1>3 DEF Written
  <2>2. [row[t] EXCEPT !.active = TRUE] \in Row
    BY <1>0 DEF Row
  <2>3. [row[t] EXCEPT !.active = TRUE].number = row[t].number
    BY <1>0 DEF Row
  <2>4. Manages(row[t]) => row[t].manager
    BY DEF Manages
  <2>5. [row[t] EXCEPT !.active = TRUE].manager = row[t].manager
    BY <1>0 DEF Row
  <2>6. [row[t] EXCEPT !.active = TRUE].active
    BY <1>0 DEF Row
  <2>7. Written(q, e) # NoEmployee
    BY <2>1, <2>2, NoEmployeeIsNoRow
  <2>8. Manages(row[e]) => Manages(Written(q, e))
    BY <1>3, <2>1, <2>4, <2>5, <2>6, <2>7 DEF Manages
  <2> QED
    BY <1>0, <1>3, <2>1, <2>2, <2>3, <2>7, <2>8
<1>4. CASE e # t \/ q.command \notin {"roles", "deactivate", "activate"}
  <2>1. Written(q, e) = row[e]
    BY <1>4 DEF Written
  <2> QED
    BY <1>0, <2>1
<1> QED
  BY <1>1, <1>2, <1>3, <1>4

\* What a request has counted survives the commit of another.
LEMMA CommittedCount ==
    ASSUME Inv, NEW r \in Open, NEW s \in Open, r # s, r \notin Waiting, request'[s] = request[s],
           request[s].command \in Removals, request[s].taken >= 2,
           row' = [e \in Employees |-> Written(request[r], e)]
    PROVE  (\E e \in Employees : Manages(Written(request[s], e)))'
<1> DEFINE q == request[r]
           p == request[s]
<1>0. q \in Query /\ p \in Query /\ q.taken >= 1 /\ p.taken >= 1 /\ q.target \in Hired
  <2>1. p \in Query
    BY OpenRequests DEF Inv
  <2>2. p.taken >= 1
    BY <2>1 DEF Query
  <2> QED
    BY <2>1, <2>2, CommittedRequests DEF Inv, RequestsFit
<1>1. q.command \notin Removals
  BY <1>0, OneAtATime
<1>2. q.command = "activate" => q.target # p.target
  BY <1>0, OneAtATime
<1>3. PICK e \in Employees : Manages(Written(p, e))
  BY DEF Inv, Counted
<1>4. row'[e] = Written(q, e)
  OBVIOUS
<1>5. CASE e = p.target
  <2>1. Written(q, e) = row[e]
    BY <1>1, <1>2, <1>5 DEF Written, Removals
  <2>2. Written(p, e)' = Written(p, e)
    BY <1>4, <2>1 DEF Written
  <2> QED
    BY <1>3, <2>2 DEF Manages
<1>6. CASE e # p.target
  <2>1. Written(p, e) = row[e]
    BY <1>6 DEF Written
  <2>2. Manages(Written(q, e))
    BY <1>0, <1>1, <1>3, <2>1, WrittenRows
  <2>3. Written(p, e)' = row'[e]
    BY <1>6 DEF Written
  <2> QED
    BY <1>4, <2>2, <2>3 DEF Manages
<1> QED
  BY <1>5, <1>6

LEMMA CommitOther ==
    ASSUME Inv, NEW r \in Requests, Commit(r), request[r].command # "create"
    PROVE  Inv'
<1> DEFINE q == request[r]
<1>1. r \in Open /\ r \notin Waiting /\ Ends(r) /\ q \in Query
  BY CommittedRequests DEF Commit, Ends
<1>2. q.command \in Removals => q.taken >= 2
  BY <1>1, CommittedRequests
<1>3. row' = [e \in Employees |-> Written(q, e)] /\ lastValue' = lastValue /\ byHand' = byHand
  BY DEF Commit
<1>4. open' \in BOOLEAN
  BY <1>1 DEF Commit, Inv, TypeOK, Query
<1>5. q.target \in Hired
  BY <1>1 DEF Inv, RequestsFit
<1>6. Hired' = Hired /\ \A e \in Hired : row'[e].number = row[e].number
  BY <1>1, <1>3, <1>5, WrittenRows DEF Hired
<1>7. TypeOK'
  <2>1. row' \in [Employees -> Row \cup {NoEmployee}]
    BY <1>1, <1>3, <1>5, WrittenRows
  <2> QED
    BY <1>1, <1>3, <1>4, <2>1, EndedLocks DEF Inv, TypeOK
<1>8. LocksExclude'
  BY <1>1, EndedLocks
<1>9. RequestsFit'
  <2> SUFFICES ASSUME NEW c \in Open'
               PROVE  request'[c].target \in Hired' /\ request'[c].taken <= Len(Plan(request'[c]))
    BY DEF RequestsFit
  <2> QED
    BY <1>1, <1>6, EndedOthers DEF Inv, RequestsFit
<1>10. SomebodyManages'
  <2>1. \E e \in Employees : Manages(Written(q, e))
    <3>1. CASE q.command \in Removals
      BY <1>1, <1>2, <3>1 DEF Inv, Counted
    <3>2. CASE q.command \notin Removals
      <4>1. PICK m \in Managers : TRUE
        BY DEF Inv, SomebodyManages
      <4>2. m \in Employees /\ Manages(row[m])
        BY DEF Managers
      <4> QED
        BY <1>1, <1>5, <3>2, <4>2, WrittenRows
    <3> QED
      BY <3>1, <3>2
  <2> QED
    BY <1>3, <2>1 DEF SomebodyManages, Managers, Manages
<1>11. Counted'
  <2> SUFFICES ASSUME NEW c \in Open', request'[c].command \in Removals, request'[c].taken >= 2
               PROVE  (\E e \in Employees : Manages(Written(request[c], e)))'
    BY DEF Counted
  <2>1. c \in Open /\ c # r /\ request'[c] = request[c]
    BY <1>1, EndedOthers
  <2> QED
    BY <1>1, <1>3, <2>1, CommittedCount
<1>12. NumbersFit'
  <2>1. \A e \in Hired' : row'[e].number <= lastValue' \/ row'[e].number \in byHand'
    BY <1>3, <1>6 DEF Inv, NumbersFit
  <2>2. ASSUME NEW c \in Open'
        PROVE  IF request'[c].command = "create" /\ request'[c].taken >= 1
               THEN request'[c].number > lastValue'
               ELSE request'[c].number = 0
    BY <1>1, <1>3, EndedOthers DEF Inv, NumbersFit
  <2> QED
    BY <2>1, <2>2 DEF NumbersFit
<1> QED
  BY <1>7, <1>8, <1>9, <1>10, <1>11, <1>12 DEF Inv

(***************************************************************************)
(* The theorems                                                            *)
(***************************************************************************)
LEMMA InitInv ==
    ASSUME Init
    PROVE  Inv
<1>1. PICK e \in Employees, n \in HandNumbers :
        /\ row = [f \in Employees |->
                    IF f = e THEN [manager |-> TRUE, active |-> TRUE, number |-> n] ELSE NoEmployee]
        /\ byHand = {n}
  BY DEF Init
<1>2. open = TRUE /\ lastValue = 0 /\ request = [r \in Requests |-> Idle]
  BY DEF Init
<1> DEFINE x == [manager |-> TRUE, active |-> TRUE, number |-> n]
<1>3. x \in Row /\ x # NoEmployee /\ x.number = n
  <2>1. x \in Row
    BY HandNumbersAreNumbers DEF Row, Numbers
  <2>2. x.number = n
    OBVIOUS
  <2> QED
    BY <2>1, <2>2, NoEmployeeIsNoRow
<1>4. Manages(x)
  BY <1>3 DEF Manages
<1> HIDE DEF x
<1>5. row = [f \in Employees |-> IF f = e THEN x ELSE NoEmployee]
  BY <1>1 DEF x
<1>6. Hired = {e} /\ row[e] = x /\ row \in [Employees -> Row \cup {NoEmployee}]
  BY <1>3, <1>5 DEF Hired
<1>7. Open = {}
  BY <1>2 DEF Open
<1>8. TypeOK
  <2>1. open \in BOOLEAN /\ lastValue \in 0..MaxNumber
    BY <1>2, MaxNumberIsPositive
  <2>2. byHand \subseteq HandNumbers
    BY <1>1
  <2>3. request \in [Requests -> Query \cup {Idle}]
    BY <1>2
  <2> QED
    BY <1>6, <2>1, <2>2, <2>3 DEF TypeOK
<1>9. SomebodyManages
  BY <1>4, <1>6 DEF SomebodyManages, Managers
<1>10. NumbersFit
  BY <1>1, <1>3, <1>6, <1>7 DEF NumbersFit
<1> QED
  BY <1>7, <1>8, <1>9, <1>10 DEF Inv, LocksExclude, RequestsFit, Counted

LEMMA InvStep ==
    ASSUME Inv, [Next]_vars
    PROVE  Inv'
<1>1. CASE CreateManager
  BY <1>1, CreateManagerStep
<1>2. ASSUME NEW r \in Requests, Command(r) \/ Ordinary(r) \/ Take(r) \/ Commit(r) \/ RollBack(r)
      PROVE  Inv'
  BY <1>2, CommandStep, OrdinaryStep, TakeStep, CommitCreate, CommitOther, RollBackStep
<1>3. CASE UNCHANGED vars
  <2>1. row' = row /\ open' = open /\ lastValue' = lastValue /\ byHand' = byHand /\ request' = request
    BY <1>3 DEF vars
  <2>2. Open' = Open /\ Hired' = Hired
    BY <2>1 DEF Open, Hired
  <2>3. TypeOK' /\ SomebodyManages'
    BY <2>1 DEF Inv, TypeOK, SomebodyManages, Managers
  <2>4. LocksExclude'
    BY <2>1, <2>2 DEF Inv, LocksExclude, Holds
  <2>5. RequestsFit'
    BY <2>1, <2>2 DEF Inv, RequestsFit
  <2>6. Counted'
    BY <2>1, <2>2 DEF Inv, Counted, Written
  <2>7. NumbersFit'
    BY <2>1, <2>2 DEF Inv, NumbersFit
  <2> QED
    BY <2>3, <2>4, <2>5, <2>6, <2>7 DEF Inv
<1> QED
  BY <1>1, <1>2, <1>3 DEF Next

LEMMA InvNumbers ==
    ASSUME Inv
    PROVE  NumbersNeverCollide
<1> SUFFICES ASSUME NEW r \in Open, request[r].number # 0
             PROVE  /\ \A e \in Hired : row[e].number = request[r].number => row[e].number \in byHand
                    /\ \A s \in Open \ {r} : request[s].number # request[r].number
  BY DEF NumbersNeverCollide
<1>1. request[r].command = "create" /\ request[r].taken >= 1 /\ request[r].number > lastValue
  BY DEF Inv, NumbersFit
<1>2. request[r].number \in 0..MaxNumber /\ lastValue \in 0..MaxNumber
  BY OpenRequests DEF Inv, TypeOK, Query
<1>3. \A e \in Hired : row[e].number = request[r].number => row[e].number \in byHand
  BY <1>1, <1>2, MaxNumberIsPositive DEF Inv, NumbersFit
<1>4. ASSUME NEW s \in Open \ {r}
      PROVE  request[s].number # request[r].number
  <2>1. ~(request[s].command = "create" /\ request[s].taken >= 1)
    BY <1>1, OneAtATime
  <2> QED
    BY <2>1 DEF Inv, NumbersFit
<1> QED
  BY <1>3, <1>4

LEMMA InvAlways == Spec => []Inv
<1>1. Init => Inv
  BY InitInv
<1>2. Inv /\ [Next]_vars => Inv'
  BY InvStep
<1> QED
  BY <1>1, <1>2, PTL DEF Spec

\* Every state of the employees, the counter and the open transactions is of
\* its type: a committed row has a number, a lock plan is never overrun.
THEOREM TypeCorrect == Spec => []TypeOK
<1>1. Inv => TypeOK
  BY DEF Inv
<1> QED
  BY <1>1, InvAlways, PTL

\* However many managers demote and deactivate each other at the same time, an
\* active one is left: the advisory lock keeps the count true until the commit.
THEOREM AManagerIsLeft == Spec => []SomebodyManages
<1>1. Inv => SomebodyManages
  BY DEF Inv
<1> QED
  BY <1>1, InvAlways, PTL

\* No set of transactions, of any size, waits in a circle of explicit locks.
THEOREM NoCircleOfLocks == Spec => []LocksAreOrdered
<1>1. Inv => LocksAreOrdered
  BY OrderedLocks DEF Inv
<1> QED
  BY <1>1, InvAlways, PTL

\* The numbers of new codes are nobody else's, unless given by hand meanwhile.
THEOREM NewNumbersAreFree == Spec => []NumbersNeverCollide
<1>1. Inv => NumbersNeverCollide
  BY InvNumbers
<1> QED
  BY <1>1, InvAlways, PTL
=============================================================================
