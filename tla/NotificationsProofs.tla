------------------------- MODULE NotificationsProofs -------------------------
(***************************************************************************)
(* Proofs about Notifications: for any number of rows, what was announced  *)
(* is shown, and no screen goes back.                                      *)
(*                                                                         *)
(* Rows only go forward for those who read them (RowsGrow).  Everything    *)
(* that travels, a message, an answer, what a query shows, is a statement  *)
(* about the rows of some earlier moment, and so true for ever; a query is *)
(* sound (QuerySound) when this holds of it and it settles nothing that it *)
(* was told to show.  Each thing that can happen to a query keeps it sound. *)
(***************************************************************************)
EXTENDS Notifications, TLAPS

\* What a query says is true of the rows r, an answer is no older than what is
\* shown, and what it was told is shown or about to be.
SnapshotOf(s, r) == \A n \in Notes : s[n] <= Seen(r[n])

ShowsTruth(x, r) == x.shows # Nothing => SnapshotOf(x.shows, r)

AnswerIsNewer(x) == x.shows # Nothing => \A n \in Notes : x.shows[n] <= x.answer[n]

AnswersTruth(x, r) ==
    x.fetch = "answered" => x.answer # Nothing /\ SnapshotOf(x.answer, r) /\ AnswerIsNewer(x)

ShownBy(x, n) == IF x.shows = Nothing THEN 0 ELSE x.shows[n]

Keeps(x, t, n) ==
    \/ x.fetch = "sent"
    \/ x.fetch = "answered" /\ x.answer[n] >= t[n]
    \/ x.fetch = "idle" /\ ShownBy(x, n) >= t[n]

QuerySound(x, t, r) ==
    /\ ShowsTruth(x, r)
    /\ AnswersTruth(x, r)
    /\ SnapshotOf(t, r)
    /\ \A n \in Notes : Keeps(x, t, n)

\* A message is sent of what is committed; a list that is not open was told nothing.
MessagesAreTrue == \A n \in sending : Seen(row[n]) >= 1

ClosedListWasToldNothing == ~listOpen => told["list"] = NothingTold

Inv ==
    /\ TypeOK
    /\ \A q \in Queries : QuerySound(query[q], told[q], row)
    /\ MessagesAreTrue
    /\ ClosedListWasToldNothing

Grow(r, s) == \A n \in Notes : Seen(r[n]) <= Seen(s[n])
-----------------------------------------------------------------------------
(***************************************************************************)
(* Types                                                                   *)
(***************************************************************************)
LEMMA SeenRange == ASSUME NEW s PROVE Seen(s) \in 0..2
BY DEF Seen

LEMMA CommittedIsSnapshot == Committed \in Snapshots
BY SeenRange DEF Committed, Snapshots

LEMMA NothingToldIsSnapshot == NothingTold \in Snapshots
BY DEF NothingTold, Snapshots

LEMMA SentType == ASSUME NEW x \in Query PROVE Sent(x) \in Query
BY DEF Query, Sent

LEMMA InvalidatedType == ASSUME NEW x \in Query PROVE Invalidated(x) \in Query
BY SentType DEF Invalidated

LEMMA LargerOfSnapshots ==
    ASSUME NEW s \in Snapshots, NEW t \in Snapshots
    PROVE  [n \in Notes |-> LargerOf(s[n], t[n])] \in Snapshots
<1>1. ASSUME NEW n \in Notes PROVE LargerOf(s[n], t[n]) \in 0..2
  BY DEF Snapshots, LargerOf
<1> QED
  BY <1>1 DEF Snapshots

LEMMA ToldType ==
    ASSUME TypeOK, NEW seen \in Snapshots
    PROVE  Told(seen) \in [Queries -> Snapshots]
<1>1. ASSUME NEW q \in Queries
      PROVE  [n \in Notes |-> LargerOf(told[q][n], seen[n])] \in Snapshots
  <2>1. told[q] \in Snapshots
    BY DEF TypeOK
  <2> QED
    BY <2>1, LargerOfSnapshots
<1>2. \A q \in Queries : told[q] \in Snapshots
  BY DEF TypeOK
<1> QED
  BY <1>1, <1>2 DEF Told

LEMMA InvalidateWithType ==
    ASSUME TypeOK, NEW seen \in Snapshots, InvalidateWith(seen)
    PROVE  query' \in [Queries -> Query] /\ told' \in [Queries -> Snapshots]
<1>1. \A q \in Queries : query[q] \in Query /\ Invalidated(query[q]) \in Query
  BY InvalidatedType DEF TypeOK
<1> QED
  BY <1>1, ToldType DEF InvalidateWith

LEMMA InitTypes == ASSUME Init PROVE TypeOK
<1>1. query \in [Queries -> Query]
  BY DEF Init, Query, Queries
<1> QED
  BY <1>1, NothingToldIsSnapshot DEF Init, TypeOK, Rows, NoPost
-----------------------------------------------------------------------------
(***************************************************************************)
(* What can happen to a sound query                                        *)
(***************************************************************************)
LEMMA GrowingKeepsSound ==
    ASSUME NEW x \in Query, NEW t \in Snapshots, NEW r, NEW s, Grow(r, s), QuerySound(x, t, r)
    PROVE  QuerySound(x, t, s)
<1>1. ASSUME NEW u \in Snapshots, SnapshotOf(u, r) PROVE SnapshotOf(u, s)
  <2>1. ASSUME NEW n \in Notes PROVE u[n] <= Seen(s[n])
    <3>1. u[n] \in 0..2
      BY DEF Snapshots
    <3>2. u[n] <= Seen(r[n]) /\ Seen(r[n]) <= Seen(s[n])
      BY <1>1 DEF SnapshotOf, Grow
    <3>3. Seen(r[n]) \in 0..2 /\ Seen(s[n]) \in 0..2
      BY SeenRange
    <3> QED
      BY <3>1, <3>2, <3>3
  <2> QED
    BY <2>1 DEF SnapshotOf
<1>2. x.shows \in Snapshots \cup {Nothing} /\ x.answer \in Snapshots \cup {Nothing}
  BY DEF Query
<1> QED
  BY <1>1, <1>2 DEF QuerySound, ShowsTruth, AnswersTruth

LEMMA SentIsSound ==
    ASSUME NEW x \in Query, NEW t, NEW r, ShowsTruth(x, r), SnapshotOf(t, r)
    PROVE  QuerySound(Sent(x), t, r)
<1>1. Sent(x).fetch = "sent" /\ Sent(x).shows = x.shows
  BY DEF Sent, Query
<1> QED
  BY <1>1 DEF QuerySound, ShowsTruth, AnswersTruth, Keeps

LEMMA ReadIsSound ==
    ASSUME NEW x \in Query, NEW t \in Snapshots, QuerySound(x, t, row)
    PROVE  QuerySound([x EXCEPT !.fetch = "answered", !.answer = Committed], t, row)
<1> DEFINE y == [x EXCEPT !.fetch = "answered", !.answer = Committed]
<1>1. y.fetch = "answered" /\ y.shows = x.shows /\ y.answer = Committed
  BY DEF Query
<1>2. \A n \in Notes : Committed[n] = Seen(row[n]) /\ Seen(row[n]) \in 0..2
  BY SeenRange DEF Committed
<1>3. SnapshotOf(Committed, row)
  <2>1. ASSUME NEW n \in Notes PROVE Committed[n] <= Seen(row[n])
    <3>1. Committed[n] = Seen(row[n]) /\ Seen(row[n]) \in 0..2
      BY <1>2
    <3> QED
      BY <3>1
  <2> QED
    BY <2>1 DEF SnapshotOf
<1>4. ShowsTruth(y, row)
  BY <1>1 DEF QuerySound, ShowsTruth
<1>5. AnswersTruth(y, row)
  <2>1. AnswerIsNewer(y)
    BY <1>1, <1>2 DEF AnswerIsNewer, QuerySound, ShowsTruth, SnapshotOf
  <2>2. y.answer # Nothing
    BY <1>1, CommittedIsSnapshot, NothingIsNoSnapshot
  <2> QED
    BY <1>1, <1>3, <2>1, <2>2 DEF AnswersTruth
<1>6. \A n \in Notes : Keeps(y, t, n)
  <2>1. ASSUME NEW n \in Notes PROVE Committed[n] >= t[n]
    <3>1. t[n] <= Seen(row[n])
      BY DEF QuerySound, SnapshotOf
    <3>2. t[n] \in 0..2 /\ Seen(row[n]) \in 0..2
      BY SeenRange DEF Snapshots
    <3>3. Committed[n] = Seen(row[n])
      BY <1>2
    <3> QED
      BY <3>1, <3>2, <3>3
  <2> QED
    BY <1>1, <2>1 DEF Keeps
<1>7. SnapshotOf(t, row)
  BY DEF QuerySound
<1> QED
  BY <1>4, <1>5, <1>6, <1>7 DEF QuerySound

\* A query that is told nothing keeps its word, whatever it shows.
LEMMA UntoldIsSound ==
    ASSUME NEW x \in Query, NEW r, ShowsTruth(x, r), x.fetch = "idle"
    PROVE  QuerySound(x, NothingTold, r)
<1>1. SnapshotOf(NothingTold, r)
  <2>1. ASSUME NEW n \in Notes PROVE NothingTold[n] <= Seen(r[n])
    <3>1. NothingTold[n] = 0 /\ Seen(r[n]) \in 0..2
      BY SeenRange DEF NothingTold
    <3> QED
      BY <3>1
  <2> QED
    BY <2>1 DEF SnapshotOf
<1>2. ASSUME NEW n \in Notes PROVE ShownBy(x, n) >= NothingTold[n]
  <2>1. NothingTold[n] = 0
    BY DEF NothingTold
  <2>2. ShownBy(x, n) \in 0..2
    BY DEF ShownBy, Query, Snapshots
  <2> QED
    BY <2>1, <2>2
<1> QED
  BY <1>1, <1>2 DEF QuerySound, AnswersTruth, Keeps

LEMMA ArriveIsSound ==
    ASSUME NEW x \in Query, NEW t, NEW r, QuerySound(x, t, r), x.fetch = "answered"
    PROVE  QuerySound([shows |-> x.answer, fetch |-> "idle", answer |-> Nothing], NothingTold, r)
<1> DEFINE y == [shows |-> x.answer, fetch |-> "idle", answer |-> Nothing]
<1>1. y \in Query /\ y.fetch = "idle"
  BY DEF Query
<1>2. ShowsTruth(y, r)
  BY DEF QuerySound, AnswersTruth, ShowsTruth
<1> QED
  BY <1>1, <1>2, UntoldIsSound

LEMMA FailIsSound ==
    ASSUME NEW x \in Query, NEW t, NEW r, QuerySound(x, t, r)
    PROVE  QuerySound([x EXCEPT !.fetch = "idle", !.answer = Nothing], NothingTold, r)
<1> DEFINE y == [x EXCEPT !.fetch = "idle", !.answer = Nothing]
<1>1. y \in Query /\ y.fetch = "idle"
  BY DEF Query
<1>2. y.shows = x.shows
  BY DEF Query
<1>3. ShowsTruth(y, r)
  BY <1>2 DEF QuerySound, ShowsTruth
<1> QED
  BY <1>1, <1>3, UntoldIsSound

LEMMA ForgetIsSound ==
    ASSUME NEW x \in Query, NEW r, x.fetch = "idle"
    PROVE  QuerySound([x EXCEPT !.shows = Nothing], NothingTold, r)
<1> DEFINE y == [x EXCEPT !.shows = Nothing]
<1>1. y \in Query /\ y.fetch = "idle" /\ y.shows = Nothing
  BY DEF Query
<1>2. ShowsTruth(y, r)
  BY <1>1 DEF ShowsTruth
<1> QED
  BY <1>1, <1>2, UntoldIsSound

LEMMA LeavingIsSound ==
    ASSUME NEW x \in Query, NEW t \in Snapshots, NEW r, QuerySound(x, t, r)
    PROVE  QuerySound(x, NothingTold, r)
<1>1. SnapshotOf(NothingTold, r)
  <2>1. ASSUME NEW n \in Notes PROVE NothingTold[n] <= Seen(r[n])
    <3>1. NothingTold[n] = 0 /\ Seen(r[n]) \in 0..2
      BY SeenRange DEF NothingTold
    <3> QED
      BY <3>1
  <2> QED
    BY <2>1 DEF SnapshotOf
<1>2. ASSUME NEW n \in Notes PROVE Keeps(x, NothingTold, n)
  <2>1. NothingTold[n] = 0 /\ t[n] \in 0..2
    BY DEF NothingTold, Snapshots
  <2>2. ShownBy(x, n) \in 0..2
    BY DEF ShownBy, Query, Snapshots
  <2>3. Keeps(x, t, n)
    BY DEF QuerySound
  <2>4. CASE x.fetch = "sent"
    BY <2>4 DEF Keeps
  <2>5. CASE x.fetch = "idle"
    BY <2>1, <2>2, <2>5 DEF Keeps
  <2>6. CASE x.fetch = "answered"
    <3>1. x.answer[n] >= t[n]
      BY <2>3, <2>6 DEF Keeps
    <3>2. x.answer \in Snapshots
      BY <2>6 DEF QuerySound, AnswersTruth, Query
    <3>3. x.answer[n] \in 0..2
      BY <3>2 DEF Snapshots
    <3> QED
      BY <2>1, <2>6, <3>3 DEF Keeps
  <2> QED
    BY <2>4, <2>5, <2>6 DEF Query
<1> QED
  BY <1>1, <1>2 DEF QuerySound

\* Asking again keeps a query sound, and it may then be told what is true.
LEMMA LargerIsTrue ==
    ASSUME NEW s \in Snapshots, NEW t \in Snapshots, NEW r, SnapshotOf(s, r), SnapshotOf(t, r)
    PROVE  SnapshotOf([n \in Notes |-> LargerOf(s[n], t[n])], r)
<1>1. ASSUME NEW n \in Notes PROVE LargerOf(s[n], t[n]) <= Seen(r[n])
  BY DEF SnapshotOf, LargerOf
<1> QED
  BY <1>1 DEF SnapshotOf

LEMMA InvalidatedIsSound ==
    ASSUME NEW x \in Query, NEW t, NEW r, QuerySound(x, t, r)
    PROVE  QuerySound(Invalidated(x), t, r)
<1>1. ShowsTruth(x, r) /\ SnapshotOf(t, r)
  BY DEF QuerySound
<1> QED
  BY <1>1, SentIsSound DEF Invalidated

LEMMA TellingIsSound ==
    ASSUME TypeOK, NEW seen \in Snapshots, SnapshotOf(seen, row), InvalidateWith(seen),
           NEW q \in Queries, QuerySound(query[q], told[q], row)
    PROVE  QuerySound(query'[q], told'[q], row)
<1>1. query[q] \in Query /\ told[q] \in Snapshots
  BY DEF TypeOK
<1>2. CASE ~Active(q)
  <2>1. query'[q] = query[q] /\ told'[q] = told[q]
    BY <1>2 DEF InvalidateWith, Told
  <2> QED
    BY <2>1
<1>3. CASE Active(q) /\ query[q].shows = Nothing
  <2>1. query'[q] = Invalidated(query[q]) /\ told'[q] = told[q]
    BY <1>3 DEF InvalidateWith, Told
  <2> QED
    BY <1>1, <2>1, InvalidatedIsSound
<1>4. CASE Active(q) /\ query[q].shows # Nothing
  <2> DEFINE t == [n \in Notes |-> LargerOf(told[q][n], seen[n])]
  <2>1. query'[q] = Sent(query[q]) /\ told'[q] = t
    BY <1>4 DEF InvalidateWith, Told, Invalidated
  <2>2. ShowsTruth(query[q], row) /\ SnapshotOf(told[q], row)
    BY DEF QuerySound
  <2>3. SnapshotOf(t, row)
    BY <1>1, <2>2, LargerIsTrue
  <2> QED
    BY <1>1, <2>1, <2>2, <2>3, SentIsSound
<1> QED
  BY <1>2, <1>3, <1>4
-----------------------------------------------------------------------------
(***************************************************************************)
(* The steps                                                               *)
(***************************************************************************)
Sound == \A q \in Queries : QuerySound(query[q], told[q], row)

\* Steps of the rows alone.
LEMMA RowsGrowSound ==
    ASSUME TypeOK, Sound, Grow(row, row'), UNCHANGED <<query, told>>
    PROVE  Sound'
<1>1. ASSUME NEW q \in Queries PROVE QuerySound(query[q], told[q], row')
  <2>1. query[q] \in Query /\ told[q] \in Snapshots /\ QuerySound(query[q], told[q], row)
    BY DEF TypeOK, Sound
  <2> QED
    BY <2>1, GrowingKeepsSound
<1> QED
  BY <1>1 DEF Sound

LEMMA MessagesStayTrue ==
    ASSUME MessagesAreTrue, Grow(row, row'), sending \subseteq Notes, sending' \subseteq sending
    PROVE  MessagesAreTrue'
<1>1. ASSUME NEW n \in sending' PROVE Seen(row'[n]) >= 1
  <2>1. Seen(row[n]) >= 1 /\ Seen(row[n]) <= Seen(row'[n])
    BY DEF MessagesAreTrue, Grow
  <2>2. Seen(row[n]) \in 0..2 /\ Seen(row'[n]) \in 0..2
    BY SeenRange
  <2> QED
    BY <2>1, <2>2
<1> QED
  BY <1>1 DEF MessagesAreTrue

LEMMA SameRowsGrow == Grow(row, row)
<1>1. ASSUME NEW n \in Notes PROVE Seen(row[n]) <= Seen(row[n])
  <2>1. Seen(row[n]) \in 0..2
    BY SeenRange
  <2> QED
    BY <2>1
<1> QED
  BY <1>1 DEF Grow

\* No step takes anything away from those who read.
LEMMA RowsGrow == ASSUME TypeOK, [Next]_vars PROVE Grow(row, row')
<1>1. ASSUME NEW n \in Notes PROVE Seen(row[n]) <= Seen(row'[n])
  <2>1. row[n] \in Rows
    BY DEF TypeOK
  <2>2. \/ row'[n] = row[n]
        \/ row[n] = "none" /\ row'[n] = "writing"
        \/ row[n] = "writing" /\ row'[n] \in {"none", "unread"}
        \/ row[n] = "unread" /\ row'[n] = "read"
    BY DEF Next, vars, TypeOK, Server, Connection, Tab, Restart, Write, RollBack, Commit, SendToNobody,
           ReadElsewhere, Connect, Disconnect, OwnCommand, Poll, OpenList, LeaveList, Forget, MarkAllRead,
           ExecutePost, PostArrives, LosePost, Receive, MarkRead, Read, Arrive, Fail
  <2> QED
    BY <2>1, <2>2 DEF Seen, Rows
<1> QED
  BY <1>1 DEF Grow

LEMMA TypeStep == ASSUME TypeOK, [Next]_vars PROVE TypeOK'
<1>1. CASE Server
  <2>1. CASE Restart
    BY <2>1 DEF TypeOK, Restart, Rows
  <2>2. ASSUME NEW n \in Notes, Write(n) PROVE TypeOK'
    BY <2>2 DEF TypeOK, Write, Rows
  <2>3. ASSUME NEW n \in Notes, RollBack(n) PROVE TypeOK'
    BY <2>3 DEF TypeOK, RollBack, Rows
  <2>4. ASSUME NEW n \in Notes, Commit(n) PROVE TypeOK'
    BY <2>4 DEF TypeOK, Commit, Rows
  <2>5. ASSUME NEW n \in Notes, SendToNobody(n) PROVE TypeOK'
    BY <2>5 DEF TypeOK, SendToNobody
  <2>6. ASSUME NEW n \in Notes, ReadElsewhere(n) PROVE TypeOK'
    BY <2>6 DEF TypeOK, ReadElsewhere, Rows
  <2> QED
    BY <1>1, <2>1, <2>2, <2>3, <2>4, <2>5, <2>6 DEF Server
<1>2. CASE Connection
  BY <1>2 DEF Connection, Connect, Disconnect, TypeOK
<1>3. CASE OwnCommand \/ Poll \/ OpenList
  <2>1. \A q \in Queries : Invalidated(query[q]) \in Query /\ Sent(query[q]) \in Query
    BY InvalidatedType, SentType DEF TypeOK
  <2>2. query' \in [Queries -> Query]
    BY <1>3, <2>1 DEF OwnCommand, Poll, OpenList, TypeOK, Queries
  <2> QED
    BY <1>3, <2>2 DEF OwnCommand, Poll, OpenList, TypeOK
<1>4. CASE LeaveList \/ MarkAllRead \/ ExecutePost \/ LosePost
  <2>1. CASE LeaveList
    BY <2>1, NothingToldIsSnapshot DEF LeaveList, TypeOK
  <2>2. CASE MarkAllRead
    BY <2>2 DEF MarkAllRead, TypeOK
  <2>3. CASE ExecutePost
    <3>1. row' \in [Notes -> Rows]
      BY <2>3 DEF ExecutePost, TypeOK, Rows
    <3>2. post' \in [notes : SUBSET Notes, stage : {"none", "sent", "done"}]
      BY <2>3 DEF ExecutePost, TypeOK
    <3> QED
      BY <2>3, <3>1, <3>2 DEF ExecutePost, TypeOK
  <2>4. CASE LosePost
    BY <2>4 DEF LosePost, NoPost, TypeOK
  <2> QED
    BY <1>4, <2>1, <2>2, <2>3, <2>4
<1>5. CASE Forget
  BY <1>5 DEF Forget, TypeOK, Query, Queries
<1>6. CASE PostArrives
  <2>1. [n \in Notes |-> IF n \in post.notes THEN Seen(row[n]) ELSE 0] \in Snapshots
    BY SeenRange DEF Snapshots
  <2>2. query' \in [Queries -> Query] /\ told' \in [Queries -> Snapshots]
    BY <1>6, <2>1, InvalidateWithType DEF PostArrives
  <2> QED
    BY <1>6, <2>2 DEF PostArrives, TypeOK, NoPost
<1>7. ASSUME NEW n \in Notes, Receive(n) PROVE TypeOK'
  <2>1. [m \in Notes |-> IF m = n THEN 1 ELSE 0] \in Snapshots
    BY DEF Snapshots
  <2>2. query' \in [Queries -> Query] /\ told' \in [Queries -> Snapshots]
    BY <1>7, <2>1, InvalidateWithType DEF Receive
  <2> QED
    BY <1>7, <2>2 DEF Receive, TypeOK
<1>8. ASSUME NEW n \in Notes, MarkRead(n) PROVE TypeOK'
  BY <1>8, NothingToldIsSnapshot DEF MarkRead, TypeOK
<1>9. ASSUME NEW q \in Queries, Read(q) \/ Arrive(q) \/ Fail(q) PROVE TypeOK'
  <2>1. query[q] \in Query
    BY DEF TypeOK
  <2>2. query' \in [Queries -> Query]
    BY <1>9, <2>1, CommittedIsSnapshot DEF Read, Arrive, Fail, TypeOK, Query
  <2> QED
    BY <1>9, <2>2, NothingToldIsSnapshot DEF Read, Arrive, Fail, TypeOK
<1>10. CASE UNCHANGED vars
  BY <1>10 DEF vars, TypeOK
<1> QED
  BY <1>1, <1>2, <1>3, <1>4, <1>5, <1>6, <1>7, <1>8, <1>9, <1>10 DEF Next, Tab

LEMMA MessagesStep == ASSUME Inv, [Next]_vars PROVE MessagesAreTrue'
<1>1. sending \subseteq Notes
  BY DEF Inv, TypeOK
<1>2. Grow(row, row')
  BY RowsGrow DEF Inv
<1>3. ASSUME NEW n \in Notes, Commit(n) PROVE MessagesAreTrue'
  <2>1. Seen(row'[n]) = 1
    BY <1>3 DEF Commit, Inv, TypeOK, Seen
  <2>2. ASSUME NEW m \in sending, m # n PROVE Seen(row'[m]) >= 1
    BY <1>1, <1>3, <2>2 DEF Commit, Inv, TypeOK, MessagesAreTrue
  <2> QED
    BY <1>3, <2>1, <2>2 DEF Commit, MessagesAreTrue
<1>4. CASE sending' \subseteq sending
  BY <1>1, <1>2, <1>4, MessagesStayTrue DEF Inv
<1>5. (\E n \in Notes : Commit(n)) \/ sending' \subseteq sending
  BY DEF Next, vars, Server, Connection, Tab, Restart, Write, RollBack, SendToNobody,
         ReadElsewhere, Connect, Disconnect, OwnCommand, Poll, OpenList, LeaveList, Forget, MarkAllRead,
         ExecutePost, PostArrives, LosePost, Receive, MarkRead, Read, Arrive, Fail
<1> QED
  BY <1>3, <1>4, <1>5

LEMMA ClosedListStep == ASSUME Inv, [Next]_vars PROVE ClosedListWasToldNothing'
<1>1. told \in [Queries -> Snapshots] /\ "list" \in Queries
  BY DEF Inv, TypeOK, Queries
<1>2. ASSUME NEW seen, InvalidateWith(seen), UNCHANGED listOpen PROVE ClosedListWasToldNothing'
  BY <1>1, <1>2 DEF InvalidateWith, Told, Active, Inv, ClosedListWasToldNothing
<1>3. ASSUME NEW n \in Notes, Receive(n) PROVE ClosedListWasToldNothing'
  BY <1>2, <1>3 DEF Receive
<1>4. CASE PostArrives
  BY <1>2, <1>4 DEF PostArrives
<1>5. ASSUME NEW q \in Queries, Arrive(q) \/ Fail(q) PROVE ClosedListWasToldNothing'
  BY <1>1, <1>5 DEF Arrive, Fail, Inv, ClosedListWasToldNothing
<1>6. CASE LeaveList \/ (\E n \in Notes : MarkRead(n)) \/ OpenList
  BY <1>1, <1>6 DEF LeaveList, MarkRead, OpenList, ClosedListWasToldNothing
<1>7. CASE UNCHANGED <<listOpen, told>>
  BY <1>7 DEF Inv, ClosedListWasToldNothing
<1>8. \/ UNCHANGED <<listOpen, told>> \/ LeaveList \/ OpenList \/ PostArrives
      \/ \E n \in Notes : Receive(n) \/ MarkRead(n)
      \/ \E q \in Queries : Arrive(q) \/ Fail(q)
  BY DEF Next, vars, Server, Connection, Tab, Restart, Write, RollBack, Commit, SendToNobody,
         ReadElsewhere, Connect, Disconnect, OwnCommand, Poll, Forget, MarkAllRead, ExecutePost, LosePost, Read
<1> QED
  BY <1>3, <1>4, <1>5, <1>6, <1>7, <1>8

LEMMA SoundStep == ASSUME Inv, [Next]_vars PROVE Sound'
<1> USE DEF Inv
<1>0. Sound /\ Grow(row, row')
  BY RowsGrow DEF Sound
<1>1. CASE UNCHANGED <<query, told>>
  BY <1>0, <1>1, RowsGrowSound
<1>2. CASE LeaveList \/ \E n \in Notes : MarkRead(n)
  <2>1. row' = row /\ query' = query /\ told' = [told EXCEPT !["list"] = NothingTold]
    BY <1>2 DEF LeaveList, MarkRead
  <2>2. ASSUME NEW q \in Queries PROVE QuerySound(query'[q], told'[q], row')
    <3>1. query[q] \in Query /\ told[q] \in Snapshots /\ QuerySound(query[q], told[q], row)
      BY DEF TypeOK
    <3>2. QuerySound(query[q], NothingTold, row)
      BY <3>1, LeavingIsSound
    <3>3. told'[q] \in {told[q], NothingTold}
      BY <2>1 DEF TypeOK
    <3> QED
      BY <2>1, <3>1, <3>2, <3>3
  <2> QED
    BY <2>2 DEF Sound
<1>3. ASSUME NEW seen \in Snapshots, SnapshotOf(seen, row), InvalidateWith(seen), UNCHANGED row
      PROVE  Sound'
  <2>1. ASSUME NEW q \in Queries PROVE QuerySound(query'[q], told'[q], row')
    BY <1>3, TellingIsSound
  <2> QED
    BY <2>1 DEF Sound
<1>4. ASSUME NEW n \in Notes, Receive(n) PROVE Sound'
  <2> DEFINE seen == [m \in Notes |-> IF m = n THEN 1 ELSE 0]
  <2>1. seen \in Snapshots
    BY DEF Snapshots
  <2>2. ASSUME NEW m \in Notes PROVE seen[m] <= Seen(row[m])
    <3>1. Seen(row[m]) \in 0..2
      BY SeenRange
    <3>2. m = n => Seen(row[m]) >= 1
      BY <1>4 DEF Receive, MessagesAreTrue
    <3> QED
      BY <3>1, <3>2
  <2>3. SnapshotOf(seen, row)
    BY <2>2 DEF SnapshotOf
  <2> HIDE DEF seen
  <2> QED
    BY <1>3, <1>4, <2>1, <2>3 DEF Receive, seen
<1>5. CASE PostArrives
  <2> DEFINE seen == [n \in Notes |-> IF n \in post.notes THEN Seen(row[n]) ELSE 0]
  <2>1. seen \in Snapshots
    BY SeenRange DEF Snapshots
  <2>2. ASSUME NEW m \in Notes PROVE seen[m] <= Seen(row[m])
    <3>1. Seen(row[m]) \in 0..2 /\ seen[m] \in {0, Seen(row[m])}
      BY SeenRange
    <3> QED
      BY <3>1
  <2>3. SnapshotOf(seen, row)
    BY <2>2 DEF SnapshotOf
  <2> HIDE DEF seen
  <2> QED
    BY <1>3, <1>5, <2>1, <2>3 DEF PostArrives, seen
<1>6. CASE OwnCommand \/ Poll \/ OpenList
  <2>1. row' = row /\ told' = told
    BY <1>6 DEF OwnCommand, Poll, OpenList
  <2>2. ASSUME NEW q \in Queries PROVE QuerySound(query'[q], told[q], row)
    <3>1. query[q] \in Query /\ QuerySound(query[q], told[q], row)
      BY DEF TypeOK
    <3>2. query'[q] \in {query[q], Sent(query[q]), Invalidated(query[q])}
      BY <1>6 DEF OwnCommand, Poll, OpenList, TypeOK
    <3>3. QuerySound(Invalidated(query[q]), told[q], row)
      BY <3>1, InvalidatedIsSound
    <3>4. QuerySound(Sent(query[q]), told[q], row)
      BY <3>1, SentIsSound DEF QuerySound
    <3> QED
      BY <3>1, <3>2, <3>3, <3>4
  <2> QED
    BY <2>1, <2>2 DEF Sound
<1>7. CASE Forget
  <2>1. row' = row /\ told' = told /\ told["list"] = NothingTold /\ query["list"].fetch = "idle"
    BY <1>7 DEF Forget, ClosedListWasToldNothing
  <2>2. query' = [query EXCEPT !["list"].shows = Nothing]
    BY <1>7 DEF Forget
  <2>3. ASSUME NEW q \in Queries PROVE QuerySound(query'[q], told[q], row)
    <3>1. query[q] \in Query /\ QuerySound(query[q], told[q], row)
      BY DEF TypeOK
    <3>2. CASE q = "list"
      <4>1. query'[q] = [query[q] EXCEPT !.shows = Nothing]
        BY <2>2, <3>2 DEF TypeOK
      <4>2. query[q].fetch = "idle" /\ told[q] = NothingTold
        BY <2>1, <3>2
      <4> QED
        BY <3>1, <4>1, <4>2, ForgetIsSound
    <3>3. CASE q # "list"
      BY <2>2, <3>1, <3>3 DEF TypeOK
    <3> QED
      BY <3>2, <3>3
  <2> QED
    BY <2>1, <2>3 DEF Sound
<1>8. ASSUME NEW p \in Queries, Read(p) \/ Arrive(p) \/ Fail(p) PROVE Sound'
  <2>1. row' = row
    BY <1>8 DEF Read, Arrive, Fail
  <2>2. ASSUME NEW q \in Queries PROVE QuerySound(query'[q], told'[q], row)
    <3>1. query[q] \in Query /\ told[q] \in Snapshots /\ QuerySound(query[q], told[q], row)
      BY DEF TypeOK
    <3>2. CASE q # p
      BY <1>8, <3>1, <3>2 DEF Read, Arrive, Fail, TypeOK
    <3>3. CASE q = p /\ Read(p)
      <4>1. query'[q] = [query[q] EXCEPT !.fetch = "answered", !.answer = Committed] /\ told' = told
        BY <3>3 DEF Read, TypeOK
      <4> QED
        BY <3>1, <4>1, ReadIsSound
    <3>4. CASE q = p /\ Arrive(p)
      <4>1. /\ query'[q] = [shows |-> query[q].answer, fetch |-> "idle", answer |-> Nothing]
            /\ told'[q] = NothingTold
            /\ query[q].fetch = "answered"
        BY <3>4 DEF Arrive, TypeOK
      <4> QED
        BY <3>1, <4>1, ArriveIsSound
    <3>5. CASE q = p /\ Fail(p)
      <4>1. query'[q] = [query[q] EXCEPT !.fetch = "idle", !.answer = Nothing] /\ told'[q] = NothingTold
        BY <3>5 DEF Fail, TypeOK
      <4> QED
        BY <3>1, <4>1, FailIsSound
    <3> QED
      BY <1>8, <3>2, <3>3, <3>4, <3>5
  <2> QED
    BY <2>1, <2>2 DEF Sound
<1>9. \/ UNCHANGED <<query, told>> \/ LeaveList \/ PostArrives \/ OwnCommand \/ Poll \/ OpenList \/ Forget
      \/ \E n \in Notes : Receive(n) \/ MarkRead(n)
      \/ \E q \in Queries : Read(q) \/ Arrive(q) \/ Fail(q)
  BY DEF Next, vars, Server, Connection, Tab, Restart, Write, RollBack, Commit, SendToNobody,
         ReadElsewhere, Connect, Disconnect, MarkAllRead, ExecutePost, LosePost
<1> QED
  BY <1>1, <1>2, <1>4, <1>5, <1>6, <1>7, <1>8, <1>9

LEMMA InitSound == ASSUME Init PROVE Sound /\ MessagesAreTrue /\ ClosedListWasToldNothing
<1>1. ASSUME NEW q \in Queries PROVE QuerySound(query[q], told[q], row)
  <2>1. query[q] \in Query /\ told[q] = NothingTold
    BY InitTypes DEF Init, TypeOK
  <2>2. query[q].shows = Nothing /\ query[q].fetch \in {"idle", "sent"}
    BY DEF Init
  <2> DEFINE idle == [query[q] EXCEPT !.fetch = "idle"]
  <2>3. idle \in Query /\ idle.fetch = "idle" /\ ShowsTruth(idle, row)
    BY <2>1, <2>2 DEF Query, ShowsTruth
  <2>4. QuerySound(idle, NothingTold, row)
    BY <2>3, UntoldIsSound
  <2>5. SnapshotOf(NothingTold, row)
    BY <2>4 DEF QuerySound
  <2>6. CASE query[q].fetch = "idle"
    <3>1. ShowsTruth(query[q], row)
      BY <2>2 DEF ShowsTruth
    <3> QED
      BY <2>1, <2>6, <3>1, UntoldIsSound
  <2>7. CASE query[q].fetch = "sent"
    BY <2>1, <2>2, <2>5, <2>7 DEF QuerySound, ShowsTruth, AnswersTruth, Keeps
  <2> QED
    BY <2>2, <2>6, <2>7
<1>2. ClosedListWasToldNothing /\ MessagesAreTrue
  BY DEF Init, ClosedListWasToldNothing, MessagesAreTrue, Queries
<1> QED
  BY <1>1, <1>2 DEF Sound

LEMMA InvStep == ASSUME Inv, [Next]_vars PROVE Inv'
<1>1. TypeOK'
  BY TypeStep DEF Inv
<1> QED
  BY <1>1, SoundStep, MessagesStep, ClosedListStep DEF Inv, Sound

LEMMA Invariant == Spec => []Inv
<1>1. Init => Inv
  BY InitTypes, InitSound DEF Inv, Sound
<1>2. Inv /\ [Next]_vars => Inv'
  BY InvStep
<1> QED
  BY <1>1, <1>2, PTL DEF Spec
-----------------------------------------------------------------------------
(***************************************************************************)
(* The theorems                                                            *)
(***************************************************************************)
\* Every variable has its type.
THEOREM TypeCorrect == Spec => []TypeOK
<1>1. Inv => TypeOK
  BY DEF Inv
<1> QED
  BY <1>1, Invariant, PTL

\* What was announced over the websocket, and what the tab itself marked as
\* read, is on the screen or about to be, for any number of notifications.
THEOREM AnnouncedIsShown == Spec => []WhatWasToldIsShown
<1>1. Inv => WhatWasToldIsShown
  BY DEF Inv, QuerySound, Keeps, ShownBy, Shown, WhatWasToldIsShown
<1> QED
  BY <1>1, Invariant, PTL

\* A notification shown never vanishes or becomes unread again, in whatever
\* order answers, messages and marks arrive.
THEOREM ScreensAreMonotonic == Spec => ScreensNeverGoBack
<1>1. ASSUME Inv, [Next]_vars, NEW q \in Queries, NEW n \in Notes,
             query[q].shows # Nothing, query'[q].shows # Nothing
      PROVE  query'[q].shows[n] >= query[q].shows[n]
  <2>1. query[q] \in Query /\ QuerySound(query[q], told[q], row) /\ query \in [Queries -> Query]
    BY <1>1 DEF Inv, TypeOK
  <2>2. query[q].shows[n] \in 0..2
    BY <1>1, <2>1 DEF Query, Snapshots
  <2>3. CASE query'[q].shows = query[q].shows
    BY <2>2, <2>3
  <2>4. CASE Arrive(q)
    <3>1. query'[q].shows = query[q].answer /\ query[q].fetch = "answered"
      BY <2>1, <2>4 DEF Arrive
    <3>2. query[q].answer \in Snapshots /\ query[q].shows[n] <= query[q].answer[n]
      BY <1>1, <2>1, <3>1 DEF QuerySound, AnswersTruth, AnswerIsNewer, Query
    <3>3. query[q].answer[n] \in 0..2
      BY <3>2 DEF Snapshots
    <3> QED
      BY <2>2, <3>1, <3>2, <3>3
  <2>5. query'[q].shows = query[q].shows \/ Arrive(q)
    <3>1. \A x \in Query : Sent(x).shows = x.shows /\ Invalidated(x).shows = x.shows
      BY DEF Sent, Invalidated, Query
    <3>2. ASSUME NEW seen, InvalidateWith(seen) PROVE query'[q].shows = query[q].shows
      BY <2>1, <3>1, <3>2 DEF InvalidateWith
    <3>3. CASE PostArrives \/ \E m \in Notes : Receive(m)
      BY <3>2, <3>3 DEF PostArrives, Receive
    <3>4. CASE OwnCommand \/ Poll \/ OpenList
      BY <2>1, <3>1, <3>4 DEF OwnCommand, Poll, OpenList
    <3>5. CASE Forget
      BY <1>1, <2>1, <3>5 DEF Forget
    <3>6. ASSUME NEW p \in Queries, Read(p) \/ Arrive(p) \/ Fail(p)
          PROVE  query'[q].shows = query[q].shows \/ Arrive(q)
      BY <2>1, <3>6 DEF Read, Arrive, Fail, Query
    <3>7. \/ query' = query \/ PostArrives \/ OwnCommand \/ Poll \/ OpenList \/ Forget
          \/ \E m \in Notes : Receive(m)
          \/ \E p \in Queries : Read(p) \/ Arrive(p) \/ Fail(p)
      BY <1>1 DEF Next, vars, Server, Connection, Tab, Restart, Write, RollBack, Commit, SendToNobody,
             ReadElsewhere, Connect, Disconnect, MarkAllRead, ExecutePost, LosePost, LeaveList, MarkRead
    <3> QED
      BY <3>3, <3>4, <3>5, <3>6, <3>7
  <2> QED
    BY <2>3, <2>4, <2>5
<1>2. Inv /\ [Next]_vars =>
        [\A q \in Queries, n \in Notes :
           query[q].shows # Nothing /\ query'[q].shows # Nothing
             => query'[q].shows[n] >= query[q].shows[n]]_vars
  BY <1>1
<1> QED
  BY <1>2, Invariant, PTL DEF Spec, ScreensNeverGoBack
=============================================================================
