------------------------------ MODULE OrderPage ------------------------------
(***************************************************************************)
(* The page of one order, at /orders/new and /orders/:id: a form while the *)
(* order is a draft, tabs afterwards, one instance of the component for    *)
(* both addresses.                                                         *)
(*                                                                         *)
(* Writes of the content go through a queue, each with the version that    *)
(* the query cache holds when its turn comes; commands go beside it, with  *)
(* the version on the screen.  A GET may come back after a write that      *)
(* overtook it.  Others write the same order.                              *)
(*                                                                         *)
(* A behaviour is one visit, from the mounting of the page until it is     *)
(* left.  What Section 1 of the form contains is a number that names the   *)
(* text.  The user has every capability.                                   *)
(***************************************************************************)
EXTENDS Integers, Sequences, FiniteSets

CONSTANTS
    Orders,         \* orders there can be
    MaxVersion,     \* bound on the version of an order
    MaxTexts,       \* bound on the texts that are written
    MaxQueue,       \* bound on the writes that wait
    Starts,         \* statuses an existing order may have when its page is opened
    OthersMoves,    \* changes of status that others make, as <<from, to>>
    NoOrder,        \* an order without an id
    NoRow,          \* no order of that id
    Away,           \* the address of another page
    Idle            \* no request in flight

ASSUME ThereIsAnOrder == Orders # {}
ASSUME BoundsArePositive == {MaxTexts, MaxQueue} \subseteq Nat \ {0}
ASSUME ExistingOrdersFit == MaxVersion \in Nat /\ MaxVersion >= 2
ASSUME MarkersAreNoOrders == NoOrder \notin Orders /\ Away \notin Orders /\ NoOrder # Away

Statuses == {"DRAFT", "PENDING_DISPATCH", "IN_PROGRESS", "AWAITING_CONFIRMATION",
             "COMPLETED", "REVISION", "CANCELLED"}

ASSUME StartsAreStatuses == Starts \subseteq Statuses

Texts == 0..MaxTexts
Row == [version : 1..MaxVersion, status : Statuses, header : Texts, line : BOOLEAN,
        revision : 0..MaxVersion]

\* Steps of the write queue; a late one goes to the endpoints for a submitted order.
DraftSteps == {"save", "add", "line", "remove"}
LateSteps == {"contact", "lateAdd", "lateLine", "lateRemove"}
Removals == {"remove", "lateRemove"}
Commands == {"submit", "recall", "cancel", "complete", "revise", "feedback"}

\* A step that waits; a request of the queue, and of a command.  Both are
\* executed when they are sent: what is in flight is the answer.
Step == [kind : DraftSteps \cup LateSteps, text : Texts]
StepAnswer == [kind : DraftSteps \cup LateSteps \cup {"create"}, order : Orders \cup {NoOrder},
               version : 0..MaxVersion, state : {"ok", "stale", "refused"}, row : Row \cup {NoRow}]
CommandAnswer == [command : Commands, version : 0..MaxVersion, row : Row \cup {NoRow},
                  state : {"ok", "stale", "refused", "no photo"}, at : 0..MaxVersion]

ASSUME MarkersAreNoRecords == NoRow \notin Row /\ Idle \notin StepAnswer \cup CommandAnswer

VARIABLES
    row,        \* the orders in the database
    photos,     \* for each order the revisions that have a confirmation photo
    texts,      \* the last text anyone wrote
    path,       \* the address: an order, NoOrder for /orders/new, or Away
    page,       \* the instance of the page
    cache,      \* the orders in the query cache
    get,        \* GET of the order of the page
    seen,       \* the confirmation photos in the query cache
    dialog,     \* the sheet or dialog that is open; stale: all it offers is to reload;
                \* at: the version "complete" was opened at
    warned,     \* the form says that others changed the order, and offers to reload
    queue,      \* steps that wait; the first one is under way when flight is not Idle
    flight,     \* the request of the step under way
    direct,     \* the request of a command
    theirs,     \* history: the last version this page's queue did not write, or hear of
    made        \* history: orders this instance of the page made and heard of

server == <<row, photos, texts>>
screen == <<path, page, dialog, warned>>
vars == <<row, photos, texts, path, page, cache, get, seen, dialog, warned, queue, flight, direct,
          theirs, made>>

(***************************************************************************)
(* The page                                                                *)
(***************************************************************************)
NoDialog == [what |-> "none", at |-> 0, stale |-> FALSE]
Quiet == [state |-> "none", row |-> NoRow, resets |-> FALSE]

\* id is kept by the instance: it starts as the address says and changes only
\* when a draft is created.  saved: the page was opened on an order, or a save
\* succeeded.
\* defaults: the text the form was last reset to; loaded: it was reset for id.
Mounted(p) == [id |-> p, saved |-> p # NoOrder,
               text |-> 0, defaults |-> 0, loaded |-> FALSE]

IsDirty(p) == p.text # p.defaults
Reset(p, c) == [p EXCEPT !.text = c.header, !.defaults = c.header]

MutFilledFromEveryAnswer(p, c) == IF c = NoRow THEN p ELSE [Reset(p, c) EXCEPT !.loaded = TRUE]

\* The effect keyed on the id of the loaded order.
Filled(p, c) == IF p.loaded \/ c = NoRow THEN p ELSE [Reset(p, c) EXCEPT !.loaded = TRUE]

\* The order on the screen.
Current == IF page.id = NoOrder THEN NoRow ELSE cache[page.id]

Screen(c) == IF c = NoRow \/ c.status = "DRAFT" THEN "form" ELSE "tabs"

\* A page whose first GET is under way waits; one whose last GET failed shows
\* only that.
Ready == path # Away /\ (page.id # NoOrder => Current # NoRow /\ get.state # "failed")
OnForm == Ready /\ Screen(Current) = "form"
OnTabs == Ready /\ Screen(Current) = "tabs"
Calm == dialog = NoDialog
Showing(what) == dialog.what = what
Opens(what) == dialog' = [what |-> what, stale |-> FALSE,
                         at |-> IF what = "complete" THEN Current.version ELSE 0]

Sending(kinds) == flight # Idle /\ flight.kind \in kinds

HasCustomer == page.text # 0
HasLine == Current # NoRow /\ Current.line
CanSave == HasCustomer /\ HasLine

EditableAfterSubmit == {"PENDING_DISPATCH", "IN_PROGRESS", "AWAITING_CONFIRMATION", "REVISION"}

MutOffered == IF Current = NoRow THEN {} ELSE
    CASE Current.status = "DRAFT" ->
           (IF CanSave THEN {"submit"} ELSE {}) \cup (IF page.saved THEN {"cancel"} ELSE {})
      [] Current.status = "PENDING_DISPATCH" -> {"recall", "cancel"}
      [] Current.status = "AWAITING_CONFIRMATION" -> {"revise", "complete"}
      [] Current.status = "COMPLETED" -> {"revise", "feedback"}
      [] OTHER -> {}

\* allowed_commands, and what the tabs add to it.
Offered == IF Current = NoRow THEN {} ELSE
    CASE Current.status = "DRAFT" ->
           (IF CanSave THEN {"submit"} ELSE {}) \cup (IF page.saved THEN {"cancel"} ELSE {})
      [] Current.status = "PENDING_DISPATCH" -> {"recall", "cancel"}
      [] Current.status = "AWAITING_CONFIRMATION" ->
           {"revise"} \cup (IF Current.revision \in seen[page.id] THEN {"complete"} ELSE {})
      [] Current.status = "COMPLETED" -> {"revise", "feedback"}
      [] OTHER -> {}

(***************************************************************************)
(* The query cache                                                         *)
(***************************************************************************)
MutFreshestIsLast(cached, incoming) == incoming

Freshest(cached, incoming) ==
    IF cached # NoRow /\ cached.version > incoming.version THEN cached ELSE incoming

\* What the components of the page keep when its order in the cache becomes c:
\* the sheets of the tabs go with the tabs.  (A dialog of the form would come
\* back with the form; that it does is left out.)
Keeps(c, d, w) ==
    IF Screen(c) = Screen(Current) THEN dialog' = d /\ warned' = w
    ELSE dialog' = NoDialog /\ warned' = w

\* setQueryData clears the error of a failed GET.
SetOrder(r, d, w) ==
    LET c == Freshest(Current, r)
    IN  /\ cache' = [cache EXCEPT ![page.id] = c]
        /\ get' = IF get.state = "failed" THEN Quiet ELSE get
        /\ Keeps(c, d, w)

\* A GET is one step, with the order as the server has it when it answers; one
\* in flight is cancelled.
Ask(resets) == get' = [state |-> "answered", row |-> row[page.id], resets |-> resets \/ get.resets]

\* The network comes back; a command of the tasks tab invalidates the order.
Refetch ==
    /\ path # Away /\ page.id # NoOrder
    /\ get.state \in {"none", "failed"}
    /\ Ask(FALSE)
    /\ UNCHANGED <<server, screen, cache, seen, queue, flight, direct, theirs, made>>

\* doReload resets the form to the answer and takes the banner away.
OrderArrives ==
    /\ get.state = "answered"
    /\ LET c == Freshest(Current, get.row)
       IN  /\ cache' = [cache EXCEPT ![page.id] = c]
           /\ page' = IF get.resets THEN Reset(Filled(page, c), c) ELSE Filled(page, c)
           /\ Keeps(c, IF get.resets THEN NoDialog ELSE dialog,
                    warned /\ ~get.resets)
    /\ get' = Quiet
    /\ UNCHANGED <<server, path, seen, queue, flight, direct, theirs, made>>

\* A reload that fails resets the form to the row there was; the tabs go, with
\* what was open above them.
OrderFails ==
    /\ get.state = "answered"
    /\ page' = IF get.resets /\ Current # NoRow THEN Reset(page, Current) ELSE page
    /\ dialog' = IF get.resets \/ Screen(Current) = "tabs" THEN NoDialog ELSE dialog
    /\ warned' = (warned /\ ~get.resets)
    /\ get' = [Quiet EXCEPT !.state = "failed"]
    /\ UNCHANGED <<server, path, cache, seen, queue, flight, direct, theirs, made>>

ReadPhotos ==
    /\ OnTabs
    /\ seen' = [seen EXCEPT ![page.id] = photos[page.id]]
    /\ UNCHANGED <<server, screen, cache, get, queue, flight, direct, theirs, made>>

(***************************************************************************)
(* Coming and going                                                        *)
(***************************************************************************)
Unmounts ==
    /\ path' = Away
    /\ page' = Mounted(NoOrder)
    /\ cache' = [o \in Orders |-> NoRow]
    /\ seen' = [o \in Orders |-> {}]
    /\ theirs' = [o \in Orders |-> 0]
    /\ get' = Quiet
    /\ dialog' = NoDialog
    /\ warned' = FALSE
    /\ queue' = <<>>
    /\ flight' = Idle
    /\ direct' = Idle
    /\ made' = {}

\* The visit is over.  A link to another address of the same route is not
\* leaving: the instance stays, with the order it has, and reads no address.
Leave ==
    /\ path # Away
    /\ Unmounts
    /\ UNCHANGED server

(***************************************************************************)
(* What the user does on the form                                          *)
(***************************************************************************)
Type ==
    /\ OnForm /\ Calm
    /\ texts < MaxTexts
    /\ texts' = texts + 1
    /\ page' = [page EXCEPT !.text = texts + 1]
    /\ UNCHANGED <<row, photos, path, dialog, warned, cache, get, seen, queue, flight, direct,
                   theirs, made>>

Enqueue(kind, text) ==
    /\ Len(queue) < MaxQueue
    /\ queue' = Append(queue, [kind |-> kind, text |-> text])

\* "Luu nhap": the values are those of the click; the button waits for a save
\* under way, not for one that is queued.
Save ==
    /\ OnForm /\ Calm /\ CanSave
    /\ ~Sending({"save", "create"})
    /\ Enqueue("save", page.text)
    /\ UNCHANGED <<server, screen, cache, get, seen, flight, direct, theirs, made>>

LinesEditable == OnForm \/ (OnTabs /\ Current.status \in EditableAfterSubmit)

\* A field of a line that loses the focus, its employee or its gift box.
ChangeLine ==
    /\ LinesEditable /\ Calm /\ HasLine
    /\ Enqueue(IF OnForm THEN "line" ELSE "lateLine", 0)
    /\ UNCHANGED <<server, screen, cache, get, seen, flight, direct, theirs, made>>

\* The bin of a line.
OpenRemoval ==
    /\ LinesEditable /\ Calm /\ HasLine
    /\ Opens("remove")
    /\ UNCHANGED <<server, path, page, warned, cache, get, seen, queue, flight, direct, theirs, made>>

RemoveLine ==
    /\ LinesEditable /\ Showing("remove")
    /\ ~Sending(Removals)
    /\ Enqueue(IF OnForm THEN "remove" ELSE "lateRemove", 0)
    /\ UNCHANGED <<server, screen, cache, get, seen, flight, direct, theirs, made>>

OpenLineSheet ==
    /\ LinesEditable /\ Calm
    /\ Opens("line")
    /\ UNCHANGED <<server, path, page, warned, cache, get, seen, queue, flight, direct, theirs, made>>

\* A row of the picker; nothing keeps it from being clicked again.
AddLine ==
    /\ Ready /\ Showing("line")
    /\ Enqueue(IF OnForm THEN "add" ELSE "lateAdd", 0)
    /\ UNCHANGED <<server, screen, cache, get, seen, flight, direct, theirs, made>>

OpenContactSheet ==
    /\ OnTabs /\ Calm
    /\ Current.status \in EditableAfterSubmit
    /\ Opens("contact")
    /\ UNCHANGED <<server, path, page, warned, cache, get, seen, queue, flight, direct, theirs, made>>

SaveContact ==
    /\ OnTabs /\ Showing("contact") /\ ~dialog.stale
    /\ ~Sending({"contact"})
    /\ texts < MaxTexts
    /\ texts' = texts + 1
    /\ Enqueue("contact", texts + 1)
    /\ UNCHANGED <<row, photos, screen, cache, get, seen, flight, direct, theirs, made>>

OpenCommand ==
    /\ Ready /\ Calm
    /\ \E c \in Offered \ {"feedback"} : Opens(c)
    /\ UNCHANGED <<server, path, page, warned, cache, get, seen, queue, flight, direct, theirs, made>>

\* A sheet holds while its own request is in flight; creating the draft is not
\* one of the line sheet.
Dismiss ==
    /\ Ready /\ ~Calm
    /\ ~(Showing("line") /\ Sending({"add", "lateAdd"}))
    /\ ~(Showing("contact") /\ Sending({"contact"}))
    /\ ~(Showing("remove") /\ Sending(Removals))
    /\ dialog.what \in Commands => direct = Idle
    /\ dialog' = NoDialog
    /\ UNCHANGED <<server, path, page, warned, cache, get, seen, queue, flight, direct, theirs, made>>

\* "Tai lai" in the banner of the form asks first when there is unsaved text.
ReloadForm ==
    /\ OnForm /\ warned
    /\ \/ Calm /\ IsDirty(page) /\ Opens("reload") /\ UNCHANGED get
       \/ Calm /\ ~IsDirty(page) /\ Ask(TRUE) /\ UNCHANGED dialog
       \/ Showing("reload") /\ Ask(TRUE) /\ UNCHANGED dialog
    /\ UNCHANGED <<server, path, page, warned, cache, seen, queue, flight, direct, theirs, made>>

\* In a sheet it closes the sheet and asks for the order.  (The banners above
\* the tabs do what Refetch does at any time.)
ReloadSheet ==
    /\ Ready /\ dialog.stale
    /\ dialog' = NoDialog
    /\ Ask(FALSE)
    /\ UNCHANGED <<server, path, page, warned, cache, seen, queue, flight, direct, theirs, made>>

(***************************************************************************)
(* The write queue                                                         *)
(***************************************************************************)
\* What a step makes of an order, and when the server accepts it.
Applies(kind, r) ==
    /\ IF kind \in DraftSteps THEN r.status = "DRAFT" ELSE r.status \in EditableAfterSubmit
    /\ kind \in Removals \cup {"line", "lateLine"} => r.line

\* remain: lines remain after a removal.
Written(kind, text, r, remain) ==
    [r EXCEPT !.version = @ + 1,
              !.header = IF kind \in {"save", "contact"} THEN text ELSE @,
              !.line = IF kind \in Removals THEN remain ELSE @ \/ kind \in {"add", "lateAdd"}]

Answered(kind, o, version, state, r) ==
    flight' = [kind |-> kind, order |-> o, state |-> state, row |-> r,
               version |-> IF state = "stale" THEN version ELSE 0]

\* A request that is executed late is one that is sent late with a cache that is
\* behind, so sending and executing are one step.  It is refused as stale; or
\* for its status, for a value, or by the network; or it is executed, and the
\* answer comes back or is lost.
Request(kind, text, o, version) ==
    \/ /\ version # row[o].version
       /\ Answered(kind, o, version, "stale", NoRow)
       /\ UNCHANGED <<row, theirs>>
    \/ /\ Answered(kind, o, version, "refused", NoRow)
       /\ UNCHANGED <<row, theirs>>
    \/ /\ version = row[o].version
       /\ Applies(kind, row[o])
       /\ version < MaxVersion
       /\ \E remain \in (IF kind \in Removals THEN BOOLEAN ELSE {TRUE}) :
             row' = [row EXCEPT ![o] = Written(kind, text, @, remain)]
       /\ \/ Answered(kind, o, version, "ok", row'[o]) /\ UNCHANGED theirs
          \/ /\ Answered(kind, o, version, "refused", NoRow)
             /\ theirs' = [theirs EXCEPT ![o] = version + 1]

Free == {o \in Orders : row[o] = NoRow}
Draft == [version |-> 1, status |-> "DRAFT", header |-> page.text, line |-> FALSE, revision |-> 0]

RequestCreate ==
    \/ /\ Answered("create", NoOrder, 0, "refused", NoRow)
       /\ UNCHANGED <<row, theirs>>
    \/ /\ Free # {}
       /\ LET o == CHOOSE o \in Free : TRUE
          IN  /\ row' = [row EXCEPT ![o] = Draft]
              /\ \/ Answered("create", o, 0, "ok", Draft) /\ UNCHANGED theirs
                 \/ /\ Answered("create", NoOrder, 0, "refused", NoRow)
                    /\ theirs' = [theirs EXCEPT ![o] = 1]

MutStartAlwaysCreates ==
    /\ queue # <<>> /\ flight = Idle
    /\ LET step == Head(queue)
       IN  IF Current = NoRow \/ (step.kind = "add" /\ ~page.saved) THEN RequestCreate
           ELSE Request(step.kind, step.text, page.id, Current.version)
    /\ UNCHANGED <<photos, texts, screen, cache, get, seen, queue, direct, made>>

\* The next step, whether the one before succeeded or failed: it reads the
\* order from the cache, and creates the draft when there is none.
Start ==
    /\ queue # <<>> /\ flight = Idle
    /\ LET step == Head(queue)
       IN  IF Current = NoRow THEN RequestCreate
           ELSE Request(step.kind, step.text, page.id, Current.version)
    /\ UNCHANGED <<photos, texts, screen, cache, get, seen, queue, direct, made>>

\* createDraft: the instance takes the id, the address follows, and the form is
\* reset to what was created; the line that wanted the draft comes next.
Created ==
    /\ Sending({"create"}) /\ flight.state = "ok"
    /\ LET o == flight.order
           isSave == Head(queue).kind = "save"
       IN  /\ page' = [Filled([page EXCEPT !.id = o], flight.row) EXCEPT !.saved = @ \/ isSave]
           /\ cache' = [cache EXCEPT ![o] = Freshest(@, flight.row)]
           /\ path' = o
           /\ get' = [state |-> "answered", row |-> row[o], resets |-> FALSE]
           /\ made' = made \cup {o}
           /\ IF isSave THEN flight' = Idle /\ queue' = Tail(queue) /\ UNCHANGED <<row, theirs>>
              ELSE Request(Head(queue).kind, 0, o, flight.row.version) /\ UNCHANGED queue
    /\ UNCHANGED <<photos, texts, seen, dialog, warned, direct>>

Closes(kind) ==
    \/ Showing("line") /\ kind \in {"add", "lateAdd"}
    \/ Showing("remove") /\ kind \in Removals
    \/ Showing("contact") /\ kind = "contact"

StepDone ==
    /\ Sending(DraftSteps \cup LateSteps) /\ flight.state = "ok"
    /\ SetOrder(flight.row, IF Closes(flight.kind) THEN NoDialog ELSE dialog, warned)
    /\ page' = [page EXCEPT !.saved = @ \/ flight.kind = "save"]
    /\ flight' = Idle
    /\ queue' = Tail(queue)
    /\ UNCHANGED <<server, path, seen, direct, theirs, made>>

\* A save turns the form's banner on; a sheet for a submitted order offers to
\* reload or gives way to a banner; the rest says so where it was done.
StepFailed ==
    /\ flight # Idle /\ flight.state \in {"stale", "refused"}
    /\ LET stale == flight.state = "stale"
       IN  /\ warned' = (warned \/ (stale /\ flight.kind = "save"))
           /\ dialog' = IF Showing("remove") /\ flight.kind \in Removals THEN NoDialog
                        ELSE IF ~stale THEN dialog
                        ELSE IF Showing("contact") /\ flight.kind = "contact"
                             THEN [dialog EXCEPT !.stale = TRUE]
                             ELSE IF Showing("line") /\ flight.kind = "lateAdd" THEN NoDialog
                                  ELSE dialog
    /\ flight' = Idle
    /\ queue' = Tail(queue)
    /\ UNCHANGED <<server, path, page, cache, get, seen, direct, theirs, made>>

(***************************************************************************)
(* Commands                                                                *)
(***************************************************************************)
\* The transitions of the order the page can ask for.
From(c) == CASE c = "submit" -> {"DRAFT"}
             [] c = "recall" -> {"PENDING_DISPATCH"}
             [] c = "cancel" -> {"DRAFT", "PENDING_DISPATCH"}
             [] c = "complete" -> {"AWAITING_CONFIRMATION"}
             [] c = "revise" -> {"AWAITING_CONFIRMATION", "COMPLETED"}
             [] c = "feedback" -> {"COMPLETED"}

Becomes(c, r) == CASE c = "submit" -> "PENDING_DISPATCH"
                   [] c = "recall" -> "DRAFT"
                   [] c = "cancel" -> "CANCELLED"
                   [] c = "complete" -> "COMPLETED"
                   [] c = "revise" -> "REVISION"
                   [] c = "feedback" -> r.status

Transition(c, r) ==
    [r EXCEPT !.version = @ + 1, !.status = Becomes(c, r),
              !.revision = IF c = "revise" THEN @ + 1 ELSE @]

\* submit wants a customer and something to do; a recall or a cancellation is
\* refused when there are tasks, which the page does not look at.
Guarded(c, o) == c = "complete" => row[o].revision \in photos[o]

Heard(c, version, state, r) ==
    direct' = [command |-> c, state |-> state, row |-> r,
               at |-> IF state = "no photo" THEN dialog.at ELSE 0,
               version |-> IF state = "no photo" THEN version ELSE 0]

\* No queue: the version is the one on the screen at this moment.
Send(c) ==
    /\ Ready /\ direct = Idle
    /\ LET o == page.id
           version == Current.version
       IN  \/ /\ version # row[o].version
              /\ Heard(c, version, "stale", NoRow)
              /\ UNCHANGED <<row, theirs>>
           \/ /\ version = row[o].version
              /\ row[o].status \in From(c) /\ ~Guarded(c, o)
              /\ Heard(c, version, "no photo", NoRow)
              /\ UNCHANGED <<row, theirs>>
           \/ /\ row[o].status \notin From(c) \/ c \in {"submit", "recall", "cancel"}
              /\ Heard(c, version, "refused", NoRow)
              /\ UNCHANGED <<row, theirs>>
           \/ /\ version = row[o].version
              /\ row[o].status \in From(c) /\ Guarded(c, o)
              /\ version < MaxVersion
              /\ row' = [row EXCEPT ![o] = Transition(c, @)]
              /\ Heard(c, version, "ok", row'[o])
              /\ theirs' = [theirs EXCEPT ![o] = version + 1]
    /\ UNCHANGED <<photos, texts, screen, cache, get, seen, queue, flight, made>>

\* The button of a dialog or a sheet.
Confirm(c) == Showing(c) /\ ~dialog.stale /\ Send(c)

\* What the customer said, written on the page itself.
RecordFeedback == Calm /\ "feedback" \in Offered /\ Send("feedback")

Hears(state) == direct # Idle /\ direct.state = state

\* Cancelling a draft leaves for the list of orders.
CommandDone ==
    /\ Hears("ok")
    /\ IF direct.command = "cancel" /\ OnForm
       THEN Unmounts
       ELSE /\ SetOrder(direct.row, IF direct.command = "feedback" THEN dialog ELSE NoDialog, warned)
            /\ direct' = Idle
            /\ UNCHANGED <<path, page, seen, queue, flight, theirs, made>>
    /\ UNCHANGED server

\* submit and recall close their dialog to show a banner; a cancellation, a
\* completion and a revision offer to reload inside the sheet.
CommandFailed ==
    /\ Hears("stale") \/ Hears("refused") \/ Hears("no photo")
    /\ LET stale == direct.state = "stale"
           c == direct.command
       IN  /\ warned' = (warned \/ (stale /\ c = "submit"))
           /\ dialog' = IF c = "submit" \/ (stale /\ c = "recall") THEN NoDialog
                        ELSE IF stale /\ Showing(c) THEN [dialog EXCEPT !.stale = TRUE] ELSE dialog
    /\ direct' = Idle
    /\ UNCHANGED <<server, path, page, cache, get, seen, queue, flight, theirs, made>>

\* The tab of the photos, while the order on the screen awaits confirmation.  The
\* server reads the revision without a lock and inserts the photo later.
UploadConfirmation ==
    /\ OnTabs /\ Calm
    /\ Current.status = "AWAITING_CONFIRMATION"
    /\ \E read \in Current.revision..row[page.id].revision :
          photos' = [photos EXCEPT ![page.id] = @ \cup {read}]
    /\ UNCHANGED <<row, texts, screen, cache, get, seen, queue, flight, direct, theirs, made>>

(***************************************************************************)
(* The others                                                              *)
(***************************************************************************)
OthersMove(o) ==
    /\ o = page.id /\ row[o].version < MaxVersion
    /\ \E to \in Statuses :
          /\ <<row[o].status, to>> \in OthersMoves
          /\ row' = [row EXCEPT ![o].version = @ + 1, ![o].status = to,
                                ![o].revision = IF to = "REVISION" THEN @ + 1 ELSE @]
    /\ theirs' = [theirs EXCEPT ![o] = row'[o].version]
    /\ UNCHANGED <<photos, texts, screen, cache, get, seen, queue, flight, direct, made>>

OthersWrite(o) ==
    /\ o = page.id /\ row[o].version < MaxVersion /\ texts < MaxTexts
    /\ row[o].status \in {"DRAFT"} \cup EditableAfterSubmit
    /\ texts' = texts + 1
    /\ row' = [row EXCEPT ![o].version = @ + 1, ![o].header = texts + 1]
    /\ theirs' = [theirs EXCEPT ![o] = row'[o].version]
    /\ UNCHANGED <<photos, screen, cache, get, seen, queue, flight, direct, made>>

(***************************************************************************)
(* The specification                                                       *)
(***************************************************************************)
\* An order that was written before: its line came after it was created.
Existing(status) ==
    [version |-> 2, status |-> status, header |-> 1, line |-> TRUE, revision |-> 0]

\* The page is mounted: it asks for its order, also when the cache has it.
Init ==
    /\ \/ path = NoOrder /\ row = [o \in Orders |-> NoRow]
       \/ \E status \in Starts :
             /\ path = CHOOSE o \in Orders : TRUE
             /\ row = [o \in Orders |-> IF o = path THEN Existing(status) ELSE NoRow]
    /\ cache \in {row, [o \in Orders |-> NoRow]}
    /\ page = Filled(Mounted(path), IF path = NoOrder THEN NoRow ELSE cache[path])
    /\ get = IF path = NoOrder THEN Quiet
             ELSE [state |-> "answered", row |-> row[path], resets |-> FALSE]
    /\ photos = [o \in Orders |-> {}]
    /\ texts = 1
    /\ seen = [o \in Orders |-> {}]
    /\ dialog = NoDialog
    /\ warned = FALSE
    /\ queue = <<>>
    /\ flight = Idle
    /\ direct = Idle
    /\ theirs = [o \in Orders |-> IF row[o] = NoRow THEN 0 ELSE row[o].version]
    /\ made = {}

Edit == Type \/ Save \/ ChangeLine \/ OpenRemoval \/ RemoveLine \/ OpenLineSheet \/ AddLine
        \/ OpenContactSheet \/ SaveContact

Command == OpenCommand \/ (\E c \in Commands : Confirm(c)) \/ RecordFeedback \/ Dismiss
           \/ ReloadForm \/ ReloadSheet \/ UploadConfirmation

Answer == Created \/ StepDone \/ StepFailed

Hear == CommandDone \/ CommandFailed

Cache == Refetch \/ OrderArrives \/ OrderFails \/ ReadPhotos

Others == \E o \in Orders : OthersMove(o) \/ OthersWrite(o)

Next == Leave \/ Edit \/ Command \/ Start \/ Answer \/ Hear \/ Cache \/ Others

Spec == Init /\ [][Next]_vars

(***************************************************************************)
(* Properties                                                              *)
(***************************************************************************)
\* Every variable has its type, and only a mounted page sends anything.
TypeOK ==
    /\ row \in [Orders -> Row \cup {NoRow}]
    /\ photos \in [Orders -> SUBSET (0..MaxVersion)]
    /\ texts \in Texts
    /\ path \in Orders \cup {NoOrder, Away}
    /\ page \in [id : Orders \cup {NoOrder}, saved : BOOLEAN,
                 text : Texts, defaults : Texts, loaded : BOOLEAN]
    /\ cache \in [Orders -> Row \cup {NoRow}]
    /\ get \in [state : {"none", "answered", "failed"}, row : Row \cup {NoRow},
                resets : BOOLEAN]
    /\ seen \in [Orders -> SUBSET (0..MaxVersion)]
    /\ theirs \in [Orders -> 0..MaxVersion] /\ made \subseteq Orders
    /\ dialog \in [what : Commands \cup {"none", "line", "remove", "contact", "reload"}, at : 0..MaxVersion,
                   stale : BOOLEAN]
    /\ warned \in BOOLEAN
    /\ queue \in Seq(Step)
    /\ flight \in StepAnswer \cup {Idle} /\ (flight # Idle => queue # <<>>)
    /\ direct \in CommandAnswer \cup {Idle}
    /\ path = Away => queue = <<>> /\ flight = Idle /\ direct = Idle

\* A queued write is refused as stale only when something else than the queue
\* of this page wrote the order after the version it carries, or when the
\* answer to one of its writes was lost: a late GET or the write before it
\* never makes the page meet itself.
QueuedWritesNeverMeetThemselves ==
    flight # Idle /\ flight.state = "stale" =>
        theirs[flight.order] > flight.version

\* However often lines are added and the draft is saved, one form makes one
\* order, the one it shows, unless the answer to a creation was lost.
OneOrderPerForm == made # {} => made = {page.id}

\* Text typed into the form stays there until the user types again, reloads,
\* or the draft it belongs to is created (which resets the form), whatever
\* arrives from the server.
UnsavedTextSurvives ==
    [][path # Away /\ path' # Away /\ IsDirty(page) =>
          \/ page'.text = page.text
          \/ texts' # texts
          \/ get.resets
          \/ page.id # page'.id]_vars

\* "Hoan tat don" is offered only with a photo of the current revision: the
\* server misses it only if the order was written while the sheet was open.
CompleteFindsItsPhoto ==
    Hears("no photo") => direct.at < direct.version
=============================================================================
