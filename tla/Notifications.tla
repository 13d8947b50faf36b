---------------------------- MODULE Notifications ----------------------------
(***************************************************************************)
(* The notifications of one person: rows written in the transactions of    *)
(* other people's commands, the message over the websocket after the       *)
(* commit, and the two queries of an open tab that show them, the badge of *)
(* the bell (/me) and the list (/thong-bao).                               *)
(*                                                                         *)
(* A message carries nothing the screen shows: it makes react-query fetch  *)
(* again.  The module asks whether what was announced is then found.       *)
(* How react-query treats an invalidated query (a fetch in flight is       *)
(* dropped and sent again, unless it is the first) is external; so are the *)
(* socket and the event loop.                                              *)
(***************************************************************************)
EXTENDS Naturals, FiniteSets

CONSTANTS
    Notes,          \* rows of notifications, inserted or not
    Nothing         \* a query without data

VARIABLES
    row,            \* notifications: not there, in an open transaction, unread, read
    sending,        \* rows whose message waits for the event loop, or is on the wire
    connected,      \* the websocket of the tab is registered and works
    query,          \* react-query: what is shown, and the fetch in flight
    listOpen,       \* NotificationsPage is mounted
    post,           \* the POST of the tab that marks rows as read
    told            \* history: what the next answer to a query must show (as Seen)

vars == <<row, sending, connected, query, listOpen, post, told>>

Rows == {"none", "writing", "unread", "read"}

\* The badge, which is always there, and the list.
Queries == {"badge", "list"}

\* As others see a row: 0 not at all, 1 unread, 2 read.
Seen(state) == CASE state = "read" -> 2 [] state = "unread" -> 1 [] OTHER -> 0

Committed == [n \in Notes |-> Seen(row[n])]

Snapshots == [Notes -> 0..2]

Query == [shows : Snapshots \cup {Nothing}, fetch : {"idle", "sent", "answered"}, answer : Snapshots \cup {Nothing}]

ASSUME NothingIsNoSnapshot == Nothing \notin Snapshots

LargerOf(a, b) == IF a > b THEN a ELSE b
-----------------------------------------------------------------------------
(***************************************************************************)
(* The server                                                              *)
(***************************************************************************)
MutWrite(n) ==
    /\ row[n] = "none"
    /\ row' = [row EXCEPT ![n] = "writing"]
    /\ sending' = sending \cup {n}
    /\ UNCHANGED <<connected, query, listOpen, post, told>>

\* _create: the row, and its place in the queue of the session.
Write(n) ==
    /\ row[n] = "none"
    /\ row' = [row EXCEPT ![n] = "writing"]
    /\ UNCHANGED <<sending, connected, query, listOpen, post, told>>

RollBack(n) ==
    /\ row[n] = "writing"
    /\ row' = [row EXCEPT ![n] = "none"]
    /\ UNCHANGED <<sending, connected, query, listOpen, post, told>>

\* The commit, and _broadcast_after_commit.
Commit(n) ==
    /\ row[n] = "writing"
    /\ row' = [row EXCEPT ![n] = "unread"]
    /\ sending' = sending \cup {n}
    /\ UNCHANGED <<connected, query, listOpen, post, told>>

\* _send_to: whoever is not connected now is told nothing.
SendToNobody(n) ==
    /\ n \in sending /\ ~connected
    /\ sending' = sending \ {n}
    /\ UNCHANGED <<row, connected, query, listOpen, post, told>>

\* Another tab or device of the same person; nobody is told of it.
ReadElsewhere(n) ==
    /\ row[n] = "unread"
    /\ row' = [row EXCEPT ![n] = "read"]
    /\ UNCHANGED <<sending, connected, query, listOpen, post, told>>

\* The one process is started again: open transactions are rolled back, what
\* waits for the event loop is gone, and so are the connections.
Restart ==
    /\ row' = [n \in Notes |-> IF row[n] = "writing" THEN "none" ELSE row[n]]
    /\ sending' = {}
    /\ connected' = FALSE
    /\ UNCHANGED <<query, listOpen, post, told>>

(***************************************************************************)
(* The connection                                                          *)
(***************************************************************************)
\* connect() of the hook, at mount and after the delay of onclose, up to the
\* registration in notifications_ws.
Connect ==
    /\ ~connected
    /\ connected' = TRUE
    /\ UNCHANGED <<row, sending, query, listOpen, post, told>>

\* The connection is lost, with what is on its way, whoever notices it and when.
Disconnect ==
    /\ connected
    /\ connected' = FALSE
    /\ sending' \in SUBSET sending
    /\ UNCHANGED <<row, query, listOpen, post, told>>

(***************************************************************************)
(* The queries of the tab                                                  *)
(***************************************************************************)
Active(q) == q = "badge" \/ listOpen

Sent(x) == [x EXCEPT !.fetch = "sent", !.answer = Nothing]

\* invalidateQueries: a fetch in flight is dropped for a new one, but the first
\* fetch of a query goes on.
Invalidated(x) == IF x.fetch # "idle" /\ x.shows = Nothing THEN x ELSE Sent(x)

\* What the queries must show from now on: at least seen, where they show anything.
Told(seen) ==
    [q \in Queries |->
       IF Active(q) /\ query[q].shows # Nothing THEN [n \in Notes |-> LargerOf(told[q][n], seen[n])]
       ELSE told[q]]

\* useInvalidate, or a message: both queries, as far as they are on the screen.
InvalidateWith(seen) ==
    /\ query' = [q \in Queries |-> IF Active(q) THEN Invalidated(query[q]) ELSE query[q]]
    /\ told' = Told(seen)

\* _send_to a tab that is connected, and its onmessage.
Receive(n) ==
    /\ n \in sending /\ connected
    /\ sending' = sending \ {n}
    /\ InvalidateWith([m \in Notes |-> IF m = n THEN 1 ELSE 0])
    /\ UNCHANGED <<row, connected, listOpen, post>>

\* A command of another page: it only invalidates /me.
OwnCommand ==
    /\ query' = [query EXCEPT !["badge"] = Invalidated(@)]
    /\ UNCHANGED <<row, sending, connected, listOpen, post, told>>

MutPoll ==
    /\ query["badge"].fetch = "idle" /\ ~connected
    /\ query' = [query EXCEPT !["badge"] = Sent(@)]
    /\ UNCHANGED <<row, sending, connected, listOpen, post, told>>

\* refetchInterval and refetchOnWindowFocus of useMe: a fetch in flight is left alone.
Poll ==
    /\ query["badge"].fetch = "idle"
    /\ query' = [query EXCEPT !["badge"] = Sent(@)]
    /\ UNCHANGED <<row, sending, connected, listOpen, post, told>>

\* The server reads what is committed.
Read(q) ==
    /\ query[q].fetch = "sent"
    /\ query' = [query EXCEPT ![q].fetch = "answered", ![q].answer = Committed]
    /\ UNCHANGED <<row, sending, connected, listOpen, post, told>>

NothingTold == [n \in Notes |-> 0]

Arrive(q) ==
    /\ query[q].fetch = "answered"
    /\ query' = [query EXCEPT ![q] = [shows |-> @.answer, fetch |-> "idle", answer |-> Nothing]]
    /\ told' = [told EXCEPT ![q] = NothingTold]
    /\ UNCHANGED <<row, sending, connected, listOpen, post>>

\* Nothing is tried again (retry: false); the list says so, the badge waits for
\* the next poll.
Fail(q) ==
    /\ query[q].fetch # "idle"
    /\ query' = [query EXCEPT ![q].fetch = "idle", ![q].answer = Nothing]
    /\ told' = [told EXCEPT ![q] = NothingTold]
    /\ UNCHANGED <<row, sending, connected, listOpen, post>>

\* The page is opened, or fetches again after an error: a fetch that is still in
\* flight from the last visit is joined.
OpenList ==
    /\ listOpen' = TRUE
    /\ query["list"].fetch = "idle" \/ ~listOpen
    /\ query' = [query EXCEPT !["list"] = IF @.fetch = "idle" THEN Sent(@) ELSE @]
    /\ UNCHANGED <<row, sending, connected, post, told>>

LeaveList ==
    /\ listOpen
    /\ listOpen' = FALSE
    /\ told' = [told EXCEPT !["list"] = NothingTold]
    /\ UNCHANGED <<row, sending, connected, query, post>>

\* The cache drops a query that nobody has looked at for a while.
Forget ==
    /\ ~listOpen /\ query["list"].fetch = "idle" /\ query["list"].shows # Nothing
    /\ query' = [query EXCEPT !["list"].shows = Nothing]
    /\ UNCHANGED <<row, sending, connected, listOpen, post, told>>

(***************************************************************************)
(* Marking as read                                                         *)
(***************************************************************************)
NoPost == [notes |-> {}, stage |-> "none"]

Shown(q, n) == IF query[q].shows = Nothing THEN 0 ELSE query[q].shows[n]

MutMarkRead(n) ==
    /\ post = NoPost /\ listOpen /\ Shown("list", n) = 1
    /\ post' = [notes |-> {n}, stage |-> "sent"]
    /\ listOpen' = FALSE
    /\ query' = [query EXCEPT !["list"].shows[n] = 2]
    /\ told' = [told EXCEPT !["list"] = NothingTold]
    /\ UNCHANGED <<row, sending, connected>>

\* A row is a link to its order: the page is left.
MarkRead(n) ==
    /\ post = NoPost /\ listOpen /\ Shown("list", n) = 1
    /\ post' = [notes |-> {n}, stage |-> "sent"]
    /\ listOpen' = FALSE
    /\ told' = [told EXCEPT !["list"] = NothingTold]
    /\ UNCHANGED <<row, sending, connected, query>>

\* The button is there while the badge counts something.
MarkAllRead ==
    /\ post = NoPost /\ listOpen /\ \E n \in Notes : Shown("badge", n) = 1
    /\ post' = [notes |-> Notes, stage |-> "sent"]
    /\ UNCHANGED <<row, sending, connected, query, listOpen, told>>

\* mark_read, mark_all_read
ExecutePost ==
    /\ post.stage = "sent"
    /\ row' = [n \in Notes |-> IF n \in post.notes /\ row[n] = "unread" THEN "read" ELSE row[n]]
    /\ post' = [post EXCEPT !.stage = "done"]
    /\ UNCHANGED <<sending, connected, query, listOpen, told>>

\* onSuccess: from now on what was read must not be shown as unread.
PostArrives ==
    /\ post.stage = "done"
    /\ post' = NoPost
    /\ InvalidateWith([n \in Notes |-> IF n \in post.notes THEN Seen(row[n]) ELSE 0])
    /\ UNCHANGED <<row, sending, connected, listOpen>>

LosePost ==
    /\ post # NoPost
    /\ post' = NoPost
    /\ UNCHANGED <<row, sending, connected, query, listOpen, told>>
-----------------------------------------------------------------------------
\* The tab is opened on any page; the first /me is on its way.
Init ==
    /\ row \in [Notes -> {"none", "unread", "read"}]
    /\ sending = {}
    /\ connected = FALSE
    /\ query = [q \in Queries |->
                  [shows |-> Nothing, fetch |-> IF q = "badge" THEN "sent" ELSE "idle", answer |-> Nothing]]
    /\ listOpen = FALSE
    /\ post = NoPost
    /\ told = [q \in Queries |-> NothingTold]

Server == Restart \/ \E n \in Notes : Write(n) \/ RollBack(n) \/ Commit(n) \/ SendToNobody(n) \/ ReadElsewhere(n)

Connection == Connect \/ Disconnect

Tab ==
    \/ OwnCommand \/ Poll \/ OpenList \/ LeaveList \/ Forget
    \/ MarkAllRead \/ ExecutePost \/ PostArrives \/ LosePost
    \/ \E n \in Notes : Receive(n) \/ MarkRead(n)
    \/ \E q \in Queries : Read(q) \/ Arrive(q) \/ Fail(q)

Next == Server \/ Connection \/ Tab

Spec == Init /\ [][Next]_vars

\* The timer of useMe runs, and requests for /me do not fail for ever.
Fairness ==
    /\ WF_vars(Poll)
    /\ SF_vars(Read("badge"))
    /\ SF_vars(Arrive("badge"))

FairSpec == Spec /\ Fairness
-----------------------------------------------------------------------------
(***************************************************************************)
(* Properties                                                              *)
(***************************************************************************)
TypeOK ==
    /\ row \in [Notes -> Rows]
    /\ sending \subseteq Notes
    /\ connected \in BOOLEAN
    /\ query \in [Queries -> Query]
    /\ listOpen \in BOOLEAN
    /\ post \in [notes : SUBSET Notes, stage : {"none", "sent", "done"}]
    /\ told \in [Queries -> Snapshots]

\* What a message has announced, and what the tab has marked as read, is shown
\* by every query that was on the screen then, or is about to be: a message
\* never comes before its row can be read, and no fetch that was answered too
\* early settles the matter.  (A fetch that fails says so, or is polled again.)
WhatWasToldIsShown ==
    \A q \in Queries, n \in Notes :
       \/ query[q].fetch = "sent"
       \/ query[q].fetch = "answered" /\ query[q].answer[n] >= told[q][n]
       \/ query[q].fetch = "idle" /\ Shown(q, n) >= told[q][n]

\* A row that is shown does not vanish, and one that is read does not become
\* unread again, whatever order fetches, messages and marks come in.
ScreensNeverGoBack ==
    [][\A q \in Queries, n \in Notes :
         query[q].shows # Nothing /\ query'[q].shows # Nothing => query'[q].shows[n] >= query[q].shows[n]]_vars

\* Whatever the websocket does, the badge counts a notification in the end.
BadgeCatchesUp == \A n \in Notes : Seen(row[n]) > 0 ~> Shown("badge", n) > 0
=============================================================================
