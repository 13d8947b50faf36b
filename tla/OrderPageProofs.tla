--------------------------- MODULE OrderPageProofs ---------------------------
(***************************************************************************)
(* Proofs about OrderPage: for any number of orders and every bound, one   *)
(* form makes one order, its unsaved text survives, a completion offered   *)
(* with a photo finds it, and the write queue never runs into itself.      *)
(*                                                                         *)
(* Whatever the page knows of an order is a row the order had, and two     *)
(* things it knows of one version are the same.  The order has not moved   *)
(* past what the queue knows of it unless others moved it.                 *)
(***************************************************************************)
EXTENDS OrderPage, SequenceTheorems, TLAPS

\* The rows of order o that are somewhere between the database and the screen.
OnPage(o) == IF page.id = o THEN {get.row} \cup IF direct = Idle THEN {} ELSE {direct.row} ELSE {}
InFlight(o) == IF flight # Idle /\ flight.order = o THEN {flight.row} ELSE {}
Known(o) == ({row[o], cache[o]} \cup OnPage(o) \cup InFlight(o)) \ {NoRow}

SnapshotsArePast ==
    \A o \in Orders : \A r \in Known(o) : row[o] # NoRow /\ r.version <= row[o].version

SnapshotsAgree ==
    \A o \in Orders : \A r, s \in Known(o) : r.version = s.version => r = s

\* A revision takes a version of its own.
RevisionsFollow ==
    \A o \in Orders : row[o] # NoRow => row[o].revision < row[o].version

\* What is in flight belongs to the order of the page; a creation is under way
\* only as long as it has none.
PageHasItsOrder ==
    /\ path = Away => page.id = NoOrder
    /\ page.id # NoOrder => row[page.id] # NoRow
    /\ warned \/ dialog.stale => page.id # NoOrder
    /\ get.state = "answered" => page.id # NoOrder /\ get.row # NoRow
    /\ queue # <<>> /\ page.id # NoOrder => Current # NoRow
    /\ flight # Idle =>
          /\ IF flight.kind = "create" THEN page.id = NoOrder
             ELSE page.id # NoOrder /\ flight.order = page.id
          /\ flight.state = "ok" => flight.order # NoOrder /\ flight.row # NoRow
    /\ direct # Idle => Current # NoRow /\ (direct.state = "ok" => direct.row # NoRow)
    /\ dialog.what \in Commands => Current # NoRow

\* The form is filled as soon as there is an order to fill it from; before, there
\* is nothing typed.
FormIsFilled ==
    page.id # NoOrder => /\ page.loaded <=> Current # NoRow
                         /\ page.loaded \/ ~IsDirty(page)

\* Since "complete" was opened, the order on the screen has not changed, or its
\* version has.
SeenArePhotos == \A o \in Orders : seen[o] \subseteq photos[o]

CompleteWasOffered ==
    Showing("complete") =>
        /\ dialog.at <= Current.version
        /\ dialog.at = Current.version => Current.revision \in seen[page.id]

\* The order has only moved past what the queue knows of it, or is just being
\* told, where others moved it.
TheirsArePast ==
    \A o \in Orders : theirs[o] <= IF row[o] = NoRow THEN 0 ELSE row[o].version

Told == flight # Idle /\ flight.state = "ok"

WritesAreKnown ==
    /\ page.id # NoOrder =>
          \/ row[page.id].version <= theirs[page.id]
          \/ IF Told THEN row[page.id].version <= flight.row.version
             ELSE Current # NoRow /\ row[page.id].version <= Current.version
    /\ Told /\ flight.kind = "create" => row[flight.order] = flight.row

IInv ==
    /\ TypeOK
    /\ SnapshotsArePast /\ SnapshotsAgree /\ RevisionsFollow
    /\ PageHasItsOrder /\ FormIsFilled
    /\ OneOrderPerForm
    /\ SeenArePhotos /\ CompleteWasOffered /\ CompleteFindsItsPhoto
    /\ TheirsArePast /\ WritesAreKnown /\ QueuedWritesNeverMeetThemselves
-----------------------------------------------------------------------------
(***************************************************************************)
(* Types, and what the operators of the page make of a record              *)
(***************************************************************************)
Pages == [id : Orders \cup {NoOrder}, saved : BOOLEAN, text : Texts, defaults : Texts,
          loaded : BOOLEAN]
Gets == [state : {"none", "answered", "failed"}, row : Row \cup {NoRow}, resets : BOOLEAN]
Dialogs == [what : Commands \cup {"none", "line", "remove", "contact", "reload"},
            at : 0..MaxVersion, stale : BOOLEAN]
Steps == DraftSteps \cup LateSteps

LEMMA Bounds ==
    /\ MaxTexts \in Nat \ {0} /\ MaxQueue \in Nat \ {0} /\ MaxVersion \in Nat /\ MaxVersion >= 2
    /\ 0 \in Texts /\ 1 \in Texts /\ 0 \in 0..MaxVersion
BY BoundsArePositive, ExistingOrdersFit DEF Texts

LEMMA RowParts ==
    ASSUME NEW r \in Row
    PROVE  /\ r.version \in 1..MaxVersion /\ r.version \in Int /\ r.header \in Texts
           /\ r.status \in Statuses /\ r.revision \in 0..MaxVersion /\ r.revision \in Int
           /\ r # NoRow
BY MarkersAreNoRecords, Bounds DEF Row

LEMMA CurrentType ==
    ASSUME TypeOK
    PROVE  /\ Current \in Row \cup {NoRow}
           /\ page.id # NoOrder => page.id \in Orders /\ Current = cache[page.id]
           /\ page.id = NoOrder => Current = NoRow
           /\ Current # NoRow => page.id \in Orders /\ page.id # NoOrder /\ Current \in Row
BY MarkersAreNoOrders DEF TypeOK, Current

LEMMA MountedType ==
    ASSUME NEW p \in Orders \cup {NoOrder}
    PROVE  /\ Mounted(p) \in Pages /\ Mounted(p).id = p
           /\ ~Mounted(p).loaded /\ ~IsDirty(Mounted(p))
BY Bounds DEF Mounted, Pages, IsDirty

LEMMA ResetParts ==
    ASSUME NEW p \in Pages, NEW c \in Row
    PROVE  LET q == Reset(p, c)
           IN  /\ q \in Pages /\ q.id = p.id /\ q.saved = p.saved /\ q.loaded = p.loaded
               /\ q.text = c.header /\ q.defaults = c.header
<1>1. c.header \in Texts
  BY RowParts
<1> QED
  BY <1>1 DEF Reset, Pages

LEMMA FilledParts ==
    ASSUME NEW p \in Pages, NEW c \in Row
    PROVE  LET q == Filled(p, c)
           IN  /\ q \in Pages /\ q.id = p.id /\ q.saved = p.saved /\ q.loaded = TRUE
               /\ p.loaded => q = p
               /\ ~p.loaded => ~IsDirty(q)
<1>1. c # NoRow
  BY RowParts
<1>2. CASE p.loaded
  BY <1>2 DEF Filled, Pages
<1>3. CASE ~p.loaded
  <2> DEFINE r == Reset(p, c)
             q == [r EXCEPT !.loaded = TRUE]
  <2>1. Filled(p, c) = q
    BY <1>1, <1>3 DEF Filled
  <2>2. r \in Pages /\ r.id = p.id /\ r.saved = p.saved /\ r.text = r.defaults
    BY ResetParts
  <2> HIDE DEF r
  <2>3. q \in Pages /\ q.id = p.id /\ q.saved = p.saved /\ q.loaded = TRUE /\ q.text = q.defaults
    BY <2>2 DEF Pages
  <2> QED
    BY <1>3, <2>1, <2>3 DEF IsDirty
<1> QED
  BY <1>2, <1>3

\* The cache keeps the newer of two rows.
LEMMA FreshestParts ==
    ASSUME NEW cached \in Row \cup {NoRow}, NEW incoming \in Row
    PROVE  LET c == Freshest(cached, incoming)
           IN  /\ c \in Row /\ c \in {cached, incoming}
               /\ incoming.version <= c.version
               /\ cached # NoRow => cached.version <= c.version
<1>1. incoming.version \in Int /\ (cached # NoRow => cached.version \in Int)
  BY RowParts
<1> QED
  BY <1>1 DEF Freshest

LEMMA SetOrderParts ==
    ASSUME TypeOK, page.id # NoOrder, NEW r \in Row, NEW d, NEW w, SetOrder(r, d, w)
    PROVE  LET c == Freshest(Current, r)
           IN  /\ cache' \in [Orders -> Row \cup {NoRow}]
               /\ cache'[page.id] = c
               /\ \A o \in Orders \ {page.id} : cache'[o] = cache[o]
               /\ get' = get \/ get' = Quiet
               /\ dialog' = d \/ dialog' = NoDialog
               /\ warned' = w
<1> DEFINE c == Freshest(Current, r)
<1>1. c \in Row /\ page.id \in Orders
  BY CurrentType, FreshestParts
<1>2. cache' = [cache EXCEPT ![page.id] = c]
  BY DEF SetOrder
<1>3. /\ cache' \in [Orders -> Row \cup {NoRow}] /\ cache'[page.id] = c
      /\ \A o \in Orders \ {page.id} : cache'[o] = cache[o]
  BY <1>1, <1>2 DEF TypeOK
<1>4. /\ get' = get \/ get' = Quiet
      /\ dialog' = d \/ dialog' = NoDialog
      /\ warned' = w
  BY DEF SetOrder, Keeps
<1> QED
  BY <1>3, <1>4

LEMMA QuietType == Quiet \in Gets /\ Quiet.state = "none" /\ Quiet.row = NoRow
BY DEF Quiet, Gets

LEMMA NoDialogType == NoDialog \in Dialogs /\ NoDialog.what = "none" /\ ~NoDialog.stale
BY Bounds DEF NoDialog, Dialogs

LEMMA AskParts ==
    ASSUME TypeOK, page.id # NoOrder, NEW resets \in BOOLEAN, Ask(resets)
    PROVE  get' \in Gets /\ get'.state = "answered" /\ get'.row = row[page.id]
<1>1. row[page.id] \in Row \cup {NoRow} /\ get.resets \in BOOLEAN
  BY CurrentType DEF TypeOK
<1>2. get' = [state |-> "answered", row |-> row[page.id], resets |-> resets \/ get.resets]
  BY DEF Ask
<1> QED
  BY <1>1, <1>2 DEF Gets

LEMMA StepType ==
    ASSUME TypeOK, queue # <<>>
    PROVE  /\ Head(queue) \in Step /\ Head(queue).kind \in Steps /\ Head(queue).text \in Texts
           /\ Tail(queue) \in Seq(Step)
<1>1. queue \in Seq(Step)
  BY DEF TypeOK
<1>2. Head(queue) \in Step /\ Tail(queue) \in Seq(Step)
  BY <1>1, HeadTailProperties
<1> QED
  BY <1>2 DEF Step, Steps

LEMMA EnqueueType ==
    ASSUME TypeOK, NEW kind \in Steps, NEW text \in Texts, Enqueue(kind, text)
    PROVE  queue' \in Seq(Step) /\ queue' # <<>>
<1>1. [kind |-> kind, text |-> text] \in Step
  BY DEF Step, Steps
<1>2. queue \in Seq(Step) /\ queue' = Append(queue, [kind |-> kind, text |-> text])
  BY DEF TypeOK, Enqueue
<1> QED
  BY <1>1, <1>2, AppendProperties

(***************************************************************************)
(* What is known of an order, from one state to the next                   *)
(***************************************************************************)
\* A row is written with the next version, or is new.
RowMoves(o) ==
    \/ row'[o] = row[o]
    \/ row[o] = NoRow /\ row'[o] \in Row /\ row'[o].revision < row'[o].version
    \/ /\ row[o] \in Row /\ row'[o] \in Row
       /\ row'[o].version = row[o].version + 1 /\ row'[o].revision <= row[o].revision + 1

NothingOlderIsLearnt(o) == Known(o)' \subseteq Known(o) \cup {row'[o]}

LEMMA AnswerParts ==
    ASSUME TypeOK
    PROVE  /\ flight # Idle => /\ flight \in StepAnswer /\ flight.row \in Row \cup {NoRow}
                               /\ flight.order \in Orders \cup {NoOrder}
                               /\ flight.version \in 0..MaxVersion
                               /\ flight.state \in {"ok", "stale", "refused"}
           /\ direct # Idle => /\ direct \in CommandAnswer /\ direct.row \in Row \cup {NoRow}
                               /\ direct.at \in 0..MaxVersion /\ direct.version \in 0..MaxVersion
                               /\ direct.command \in Commands
           /\ get.row \in Row \cup {NoRow} /\ get.resets \in BOOLEAN
BY DEF TypeOK, StepAnswer, CommandAnswer

LEMMA KnownType ==
    ASSUME TypeOK, NEW o \in Orders
    PROVE  Known(o) \subseteq Row
<1>1. row[o] \in Row \cup {NoRow} /\ cache[o] \in Row \cup {NoRow}
  BY DEF TypeOK
<1>2. OnPage(o) \subseteq Row \cup {NoRow}
  BY AnswerParts DEF OnPage
<1>3. InFlight(o) \subseteq Row \cup {NoRow}
  BY AnswerParts DEF InFlight
<1> QED
  BY <1>1, <1>2, <1>3 DEF Known

LEMMA SnapshotsStep ==
    ASSUME TypeOK, SnapshotsArePast, SnapshotsAgree, RevisionsFollow,
           \A o \in Orders : RowMoves(o) /\ NothingOlderIsLearnt(o)
    PROVE  SnapshotsArePast' /\ SnapshotsAgree' /\ RevisionsFollow'
<1>1. ASSUME NEW o \in Orders
      PROVE  /\ \A r \in Known(o)' : row'[o] # NoRow /\ r.version <= row'[o].version
             /\ \A r, s \in Known(o)' : r.version = s.version => r = s
             /\ row'[o] # NoRow => row'[o].revision < row'[o].version
  <2>1. Known(o) \subseteq Row /\ NoRow \notin Known(o)' /\ NoRow \notin Row
        /\ Known(o)' \subseteq Known(o) \cup {row'[o]} /\ row[o] \in Row \cup {NoRow}
    BY <1>1, KnownType, MarkersAreNoRecords DEF Known, NothingOlderIsLearnt, TypeOK
  <2>2. /\ \A r \in Known(o) : row[o] # NoRow /\ r.version <= row[o].version
        /\ \A r, s \in Known(o) : r.version = s.version => r = s
        /\ row[o] # NoRow => row[o].revision < row[o].version
    BY <1>1 DEF SnapshotsArePast, SnapshotsAgree, RevisionsFollow
  <2>3. row[o] # NoRow => row[o] \in Known(o)
    BY DEF Known
  <2>4. \A r \in Row : r.version \in Int /\ r.revision \in Int
    BY RowParts
  <2>5. CASE row'[o] = row[o]
    BY <2>1, <2>2, <2>3, <2>5
  <2>6. CASE row[o] = NoRow /\ row'[o] \in Row /\ row'[o].revision < row'[o].version
    <3>1. Known(o) = {}
      BY <2>2, <2>6
    <3> QED
      BY <2>1, <2>4, <2>6, <3>1
  <2>7. CASE /\ row[o] \in Row /\ row'[o] \in Row
             /\ row'[o].version = row[o].version + 1 /\ row'[o].revision <= row[o].revision + 1
    <3>1. \A r \in Known(o) : r.version < row'[o].version
      BY <2>1, <2>2, <2>4, <2>7
    <3>2. row'[o].revision < row'[o].version
      BY <2>1, <2>2, <2>4, <2>7
    <3>3. row'[o] # NoRow /\ row'[o].version \in Int
      BY <2>1, <2>4, <2>7
    <3> QED
      BY <2>1, <2>2, <2>4, <3>1, <3>2, <3>3
  <2> QED
    BY <1>1, <2>5, <2>6, <2>7 DEF RowMoves
<1> QED
  BY <1>1 DEF SnapshotsArePast, SnapshotsAgree, RevisionsFollow

(***************************************************************************)
(* Steps that leave the order alone, in the database and in the cache      *)
(***************************************************************************)
OrderStays == UNCHANGED <<row, cache, path, theirs, made>> /\ path # Away

PageStays ==
    /\ page' \in Pages /\ page'.id = page.id /\ page'.loaded = page.loaded
    /\ page' = page \/ page.id = NoOrder \/ page.loaded

GetStays ==
    \/ get' = get
    \/ get' \in Gets /\ get'.state # "answered" /\ get'.row = NoRow
    \/ page.id \in Orders /\ get' \in Gets /\ get'.row = row[page.id]

PhotosStay ==
    /\ photos' \in [Orders -> SUBSET (0..MaxVersion)]
    /\ seen' \in [Orders -> SUBSET (0..MaxVersion)]
    /\ \A o \in Orders : photos[o] \subseteq photos'[o] /\ seen[o] \subseteq seen'[o]
                         /\ seen'[o] \subseteq photos'[o]

\* A dialog that opens has an order to show, and a completion a photo.
DialogStays ==
    /\ dialog' \in Dialogs
    /\ dialog'.stale => dialog.stale \/ page.id # NoOrder
    /\ \/ dialog'.what = dialog.what /\ dialog'.at = dialog.at
       \/ dialog'.what \notin Commands
       \/ /\ Current # NoRow
          /\ dialog'.what = "complete" =>
                dialog'.at = Current.version /\ Current.revision \in seen[page.id]

QueueStays ==
    /\ queue' \in Seq(Step)
    /\ queue' # <<>> => queue # <<>> \/ page.id = NoOrder \/ Current # NoRow
    /\ \/ flight' = flight /\ (flight # Idle => queue' # <<>>)
       \/ flight' = Idle /\ ~Told

LEMMA QuietStep ==
    ASSUME IInv, OrderStays, PageStays, GetStays, PhotosStay, DialogStays, QueueStays,
           texts' \in Texts, warned' \in BOOLEAN, warned' => warned \/ page.id # NoOrder,
           direct' = direct \/ direct' = Idle
    PROVE  IInv'
<1>1. TypeOK
  BY DEF IInv
<1>2. row' = row /\ cache' = cache /\ path' = path /\ theirs' = theirs /\ made' = made
      /\ path # Away /\ page'.id = page.id
  BY DEF OrderStays, PageStays
<1>3. Current' = Current
  BY <1>2 DEF Current
<1>4. TypeOK'
  <2>1. page' \in Pages /\ get' \in Gets /\ dialog' \in Dialogs
    BY <1>1 DEF TypeOK, PageStays, GetStays, DialogStays, Gets
  <2>2. queue' \in Seq(Step) /\ (flight' # Idle => queue' # <<>>)
        /\ flight' \in StepAnswer \cup {Idle} /\ direct' \in CommandAnswer \cup {Idle}
    BY <1>1 DEF TypeOK, QueueStays
  <2> QED
    BY <1>1, <1>2, <2>1, <2>2 DEF TypeOK, PhotosStay, Pages, Gets, Dialogs
<1>5. SnapshotsArePast' /\ SnapshotsAgree' /\ RevisionsFollow'
  <2>1. ASSUME NEW o \in Orders
        PROVE  RowMoves(o) /\ NothingOlderIsLearnt(o)
    <3>1. InFlight(o)' \subseteq InFlight(o)
      BY DEF InFlight, QueueStays
    <3>2. OnPage(o)' \subseteq OnPage(o) \cup {row[o], NoRow}
      BY <1>2 DEF OnPage, GetStays
    <3> QED
      BY <1>2, <3>1, <3>2 DEF RowMoves, NothingOlderIsLearnt, Known
  <2> QED
    BY <1>1, <2>1, SnapshotsStep DEF IInv
<1>6. PageHasItsOrder'
  <2>1. get'.state = "answered" => page.id # NoOrder /\ get'.row # NoRow
    BY MarkersAreNoOrders DEF IInv, PageHasItsOrder, GetStays
  <2>2. queue' # <<>> /\ page.id # NoOrder => Current # NoRow
    BY DEF IInv, PageHasItsOrder, QueueStays
  <2>3. flight' = flight \/ flight' = Idle
    BY DEF QueueStays
  <2>4. dialog'.what \in Commands => Current # NoRow
    BY DEF IInv, PageHasItsOrder, DialogStays
  <2>5. direct' # Idle => Current # NoRow /\ (direct'.state = "ok" => direct'.row # NoRow)
    BY DEF IInv, PageHasItsOrder
  <2>6. flight' # Idle =>
            /\ IF flight'.kind = "create" THEN page.id = NoOrder
               ELSE page.id # NoOrder /\ flight'.order = page.id
            /\ flight'.state = "ok" => flight'.order # NoOrder /\ flight'.row # NoRow
    BY <2>3 DEF IInv, PageHasItsOrder
  <2>7. page.id # NoOrder => row[page.id] # NoRow
    BY DEF IInv, PageHasItsOrder
  <2>8. warned' \/ dialog'.stale => page.id # NoOrder
    BY DEF IInv, PageHasItsOrder, DialogStays
  <2> QED
    BY <1>2, <1>3, <2>1, <2>2, <2>4, <2>5, <2>6, <2>7, <2>8 DEF PageHasItsOrder
<1>7. FormIsFilled'
  BY <1>2, <1>3 DEF IInv, FormIsFilled, PageStays, IsDirty
<1>8. OneOrderPerForm'
  BY <1>2 DEF IInv, OneOrderPerForm
<1>9. SeenArePhotos'
  BY DEF SeenArePhotos, PhotosStay
<1>10. CompleteWasOffered'
  <2>1. Current # NoRow => seen[page.id] \subseteq seen'[page.id] /\ Current.version \in Int
    BY <1>1, CurrentType, RowParts DEF PhotosStay
  <2>2. SUFFICES ASSUME dialog'.what = "complete"
                 PROVE  /\ dialog'.at <= Current.version
                        /\ dialog'.at = Current.version => Current.revision \in seen'[page.id]
    BY <1>2, <1>3 DEF CompleteWasOffered, Showing
  <2>3. CASE dialog'.what = dialog.what /\ dialog'.at = dialog.at
    <3>1. /\ Current # NoRow /\ dialog.at <= Current.version
          /\ dialog.at = Current.version => Current.revision \in seen[page.id]
      BY <2>2, <2>3 DEF IInv, CompleteWasOffered, Showing, PageHasItsOrder, Commands
    <3> QED
      BY <2>1, <2>3, <3>1
  <2>4. CASE /\ Current # NoRow
             /\ dialog'.at = Current.version /\ Current.revision \in seen[page.id]
    BY <2>1, <2>4
  <2> QED
    BY <2>2, <2>3, <2>4 DEF DialogStays, Commands
<1>11. CompleteFindsItsPhoto'
  BY DEF IInv, CompleteFindsItsPhoto, Hears
<1>12. TheirsArePast'
  BY <1>2 DEF IInv, TheirsArePast
<1>13. WritesAreKnown' /\ QueuedWritesNeverMeetThemselves'
  <2>1. CASE flight' = flight
    BY <1>2, <1>3, <2>1 DEF IInv, WritesAreKnown, QueuedWritesNeverMeetThemselves, Told
  <2>2. CASE flight' = Idle /\ ~Told
    BY <1>2, <1>3, <2>2 DEF IInv, WritesAreKnown, QueuedWritesNeverMeetThemselves, Told
  <2> QED
    BY <2>1, <2>2 DEF QueueStays
<1> QED
  BY <1>4, <1>5, <1>6, <1>7, <1>8, <1>9, <1>10, <1>11, <1>12, <1>13 DEF IInv

(***************************************************************************)
(* Steps that put a row that is known into the cache                       *)
(***************************************************************************)
CacheTakes(r) ==
    /\ page.id # NoOrder /\ r \in Known(page.id)
    /\ cache' \in [Orders -> Row \cup {NoRow}]
    /\ cache'[page.id] = Freshest(Current, r)
    /\ \A o \in Orders \ {page.id} : cache'[o] = cache[o]

StepIsOver(r) ==
    /\ queue' \in Seq(Step)
    /\ \/ flight' = flight /\ queue' = queue
       \/ flight' = Idle /\ flight # Idle /\ flight.row = r

LEMMA CacheStep ==
    ASSUME IInv, UNCHANGED <<row, photos, texts, path, seen, theirs, made>>,
           NEW r \in Row, CacheTakes(r), StepIsOver(r),
           page' \in Pages, page'.id = page.id, page'.loaded = TRUE,
           get' = get \/ get' = Quiet,
           dialog' = dialog \/ dialog' = NoDialog,
           warned' \in BOOLEAN, direct' = direct \/ direct' = Idle
    PROVE  IInv'
<1> DEFINE c == Freshest(Current, r)
<1>1. TypeOK
  BY DEF IInv
<1>2. /\ page.id # NoOrder /\ page.id \in Orders /\ path # Away
      /\ Current = cache[page.id] /\ Current \in Row \cup {NoRow}
  BY <1>1, CurrentType DEF IInv, PageHasItsOrder, CacheTakes
<1>3. Current' = c
  BY <1>2 DEF Current, CacheTakes
<1>4. /\ c \in Row /\ c # NoRow /\ c \in {Current, r} /\ r.version <= c.version
      /\ Current # NoRow => Current.version <= c.version
      /\ c.version \in Int /\ r.version \in Int /\ (Current # NoRow => Current.version \in Int)
  BY <1>2, FreshestParts, RowParts
<1> HIDE DEF c
<1>5. c \in Known(page.id) /\ (Current # NoRow => Current \in Known(page.id))
  BY <1>2, <1>4 DEF Known, CacheTakes
<1>6. TypeOK'
  <2>1. get' \in Gets /\ dialog' \in Dialogs
    BY <1>1, QuietType, NoDialogType DEF TypeOK, Gets, Dialogs
  <2>2. queue' \in Seq(Step) /\ (flight' # Idle => queue' # <<>>)
        /\ flight' \in StepAnswer \cup {Idle} /\ direct' \in CommandAnswer \cup {Idle}
    BY <1>1 DEF TypeOK, StepIsOver
  <2> QED
    BY <1>1, <1>2, <2>1, <2>2 DEF TypeOK, Pages, Gets, Dialogs, CacheTakes
<1>7. SnapshotsArePast' /\ SnapshotsAgree' /\ RevisionsFollow'
  <2>1. ASSUME NEW o \in Orders
        PROVE  RowMoves(o) /\ NothingOlderIsLearnt(o)
    <3>1. InFlight(o)' \subseteq InFlight(o)
      BY DEF InFlight, StepIsOver
    <3>2. OnPage(o)' \subseteq OnPage(o) \cup {NoRow}
      BY QuietType DEF OnPage
    <3>3. cache'[o] = cache[o] \/ cache'[o] \in Known(o)
      BY <1>2, <1>3, <1>5, <2>1 DEF CacheTakes, Current
    <3> QED
      BY <3>1, <3>2, <3>3 DEF RowMoves, NothingOlderIsLearnt, Known
  <2> QED
    BY <1>1, <2>1, SnapshotsStep DEF IInv
<1>8. PageHasItsOrder'
  <2>1. get'.state = "answered" => get'.row # NoRow
    BY QuietType DEF IInv, PageHasItsOrder
  <2>2. direct' # Idle => (direct'.state = "ok" => direct'.row # NoRow)
    BY DEF IInv, PageHasItsOrder
  <2>3. flight' # Idle =>
            /\ flight'.kind # "create" /\ flight'.order = page.id
            /\ flight'.state = "ok" => flight'.order # NoOrder /\ flight'.row # NoRow
    BY <1>2 DEF IInv, PageHasItsOrder, StepIsOver
  <2>4. row[page.id] # NoRow
    BY <1>2 DEF IInv, PageHasItsOrder
  <2> QED
    BY <1>2, <1>3, <1>4, <2>1, <2>2, <2>3, <2>4 DEF PageHasItsOrder
<1>9. FormIsFilled'
  BY <1>3, <1>4 DEF FormIsFilled
<1>10. OneOrderPerForm'
  BY DEF IInv, OneOrderPerForm
<1>11. SeenArePhotos'
  BY DEF IInv, SeenArePhotos
<1>12. CompleteWasOffered'
  <2>1. SUFFICES ASSUME dialog'.what = "complete"
                 PROVE  /\ dialog.at <= c.version
                        /\ dialog.at = c.version => c.revision \in seen[page.id]
    BY <1>3, NoDialogType DEF CompleteWasOffered, Showing
  <2>2. dialog' = dialog
    BY <2>1, NoDialogType
  <2>3. /\ Current # NoRow /\ dialog.at <= Current.version
        /\ dialog.at = Current.version => Current.revision \in seen[page.id]
    BY <2>1, <2>2 DEF IInv, CompleteWasOffered, Showing, PageHasItsOrder, Commands
  <2>4. dialog.at \in Int
    BY <1>1, Bounds DEF TypeOK
  <2>5. c.version = Current.version => c = Current
    BY <1>2, <1>5, <2>3 DEF IInv, SnapshotsAgree
  <2> QED
    BY <1>4, <2>3, <2>4, <2>5
<1>13. CompleteFindsItsPhoto'
  BY DEF IInv, CompleteFindsItsPhoto, Hears
<1>14. TheirsArePast'
  BY DEF IInv, TheirsArePast
<1>15. WritesAreKnown'
  <2>1. row[page.id] \in Row /\ row[page.id].version \in Int
    BY <1>1, <1>2, RowParts DEF IInv, PageHasItsOrder, TypeOK
  <2>2. Told => flight.kind # "create"
    BY <1>2 DEF IInv, PageHasItsOrder, Told
  <2>3. \/ row[page.id].version <= theirs[page.id]
        \/ Told /\ row[page.id].version <= flight.row.version
        \/ ~Told /\ Current # NoRow /\ row[page.id].version <= Current.version
    BY <1>2 DEF IInv, WritesAreKnown
  <2>4. CASE flight' = flight
    BY <1>2, <1>3, <1>4, <2>1, <2>2, <2>3, <2>4 DEF WritesAreKnown, Told
  <2>5. CASE flight' = Idle /\ flight # Idle /\ flight.row = r
    BY <1>2, <1>3, <1>4, <2>1, <2>3, <2>5 DEF WritesAreKnown, Told
  <2> QED
    BY <2>4, <2>5 DEF StepIsOver
<1>16. QueuedWritesNeverMeetThemselves'
  BY DEF IInv, QueuedWritesNeverMeetThemselves, StepIsOver
<1> QED
  BY <1>6, <1>7, <1>8, <1>9, <1>10, <1>11, <1>12, <1>13, <1>14, <1>15, <1>16 DEF IInv

(***************************************************************************)
(* The end of the visit, and writes that are not the queue's               *)
(***************************************************************************)
LEMMA UnmountsStep ==
    ASSUME IInv, Unmounts, UNCHANGED server
    PROVE  IInv'
<1>1. TypeOK
  BY DEF IInv
<1>2. row' = row /\ photos' = photos /\ texts' = texts
  BY DEF server
<1>3. /\ path' = Away /\ page' = Mounted(NoOrder) /\ cache' = [o \in Orders |-> NoRow]
      /\ seen' = [o \in Orders |-> {}] /\ theirs' = [o \in Orders |-> 0] /\ get' = Quiet
      /\ dialog' = NoDialog /\ warned' = FALSE /\ queue' = <<>> /\ flight' = Idle
      /\ direct' = Idle /\ made' = {}
  BY DEF Unmounts
<1>4. page' \in Pages /\ page'.id = NoOrder
  BY <1>3, MountedType
<1>5. TypeOK'
  <2>1. queue' \in Seq(Step)
    BY <1>3, EmptySeq
  <2>2. seen' \in [Orders -> SUBSET (0..MaxVersion)] /\ theirs' \in [Orders -> 0..MaxVersion]
    BY <1>3, Bounds
  <2> QED
    BY <1>1, <1>2, <1>3, <1>4, <2>1, <2>2, QuietType, NoDialogType
    DEF TypeOK, Pages, Gets, Dialogs
<1>6. SnapshotsArePast' /\ SnapshotsAgree' /\ RevisionsFollow'
  <2>1. ASSUME NEW o \in Orders
        PROVE  RowMoves(o) /\ NothingOlderIsLearnt(o)
    BY <1>2, <1>3, <1>4, MarkersAreNoOrders
    DEF RowMoves, NothingOlderIsLearnt, Known, InFlight, OnPage
  <2> QED
    BY <1>1, <2>1, SnapshotsStep DEF IInv
<1>7. PageHasItsOrder'
  BY <1>3, <1>4, QuietType, NoDialogType DEF PageHasItsOrder, Commands
<1>8. FormIsFilled' /\ OneOrderPerForm'
  BY <1>3, <1>4 DEF FormIsFilled, OneOrderPerForm
<1>9. SeenArePhotos' /\ CompleteWasOffered' /\ CompleteFindsItsPhoto'
  BY <1>3, NoDialogType
  DEF SeenArePhotos, CompleteWasOffered, CompleteFindsItsPhoto, Showing, Hears
<1>10. TheirsArePast'
  BY <1>1, <1>2, <1>3, RowParts DEF TheirsArePast, TypeOK
<1>11. WritesAreKnown' /\ QueuedWritesNeverMeetThemselves'
  BY <1>3, <1>4 DEF WritesAreKnown, QueuedWritesNeverMeetThemselves, Told
<1> QED
  BY <1>5, <1>6, <1>7, <1>8, <1>9, <1>10, <1>11 DEF IInv

\* Only the order o is written, if any.
Elsewhere(o) ==
    /\ row' \in [Orders -> Row \cup {NoRow}] /\ theirs' \in [Orders -> 0..MaxVersion]
    /\ \A p \in Orders \ {o} : row'[p] = row[p] /\ theirs'[p] = theirs[p]

\* Written and known to be written by others than the queue.
OthersWrote(o) ==
    \/ row'[o] = row[o] /\ theirs'[o] = theirs[o]
    \/ /\ row[o] \in Row /\ row'[o] \in Row
       /\ row'[o].version = row[o].version + 1 /\ row'[o].revision <= row[o].revision + 1
       /\ theirs'[o] = row'[o].version

CommandSays(o) ==
    \/ direct' = direct
    \/ /\ direct' \in CommandAnswer /\ Current # NoRow
       /\ direct'.row \in {NoRow, row'[o]}
       /\ direct'.state = "ok" => direct'.row # NoRow
       /\ direct'.state = "no photo" => direct'.at < direct'.version

LEMMA OthersStep ==
    ASSUME IInv, UNCHANGED <<photos, path, page, cache, get, seen, dialog, warned, queue, flight, made>>,
           NEW o \in Orders, o = page.id, texts' \in Texts,
           Elsewhere(o), OthersWrote(o), CommandSays(o)
    PROVE  IInv'
<1>1. TypeOK /\ Current' = Current /\ page.id # NoOrder
  BY MarkersAreNoOrders DEF IInv, Current
<1>2. path # Away
  BY <1>1 DEF IInv, PageHasItsOrder
<1>3. row[o] \in Row /\ row'[o] \in Row
  BY <1>1 DEF IInv, PageHasItsOrder, TypeOK, OthersWrote
<1>4. row[o].version \in Int /\ row'[o].version \in Int /\ row[o].version <= row'[o].version
  BY <1>3, RowParts DEF OthersWrote
<1>5. TypeOK'
  <2>1. direct' \in CommandAnswer \cup {Idle}
    BY <1>1 DEF TypeOK, CommandSays
  <2> QED
    BY <1>1, <1>2, <2>1 DEF TypeOK, Elsewhere
<1>6. SnapshotsArePast' /\ SnapshotsAgree' /\ RevisionsFollow'
  <2>1. ASSUME NEW p \in Orders
        PROVE  RowMoves(p) /\ NothingOlderIsLearnt(p)
    <3>1. RowMoves(p)
      BY <2>1 DEF RowMoves, Elsewhere, OthersWrote
    <3>2. InFlight(p)' = InFlight(p)
      BY DEF InFlight
    <3>3. OnPage(p)' \subseteq OnPage(p) \cup {NoRow, row'[p]}
      BY DEF OnPage, CommandSays
    <3> QED
      BY <3>1, <3>2, <3>3 DEF NothingOlderIsLearnt, Known
  <2> QED
    BY <1>1, <2>1, SnapshotsStep DEF IInv
<1>7. PageHasItsOrder'
  <2>1. direct' # Idle => Current # NoRow /\ (direct'.state = "ok" => direct'.row # NoRow)
    BY DEF IInv, PageHasItsOrder, CommandSays
  <2>2. row'[page.id] # NoRow
    BY <1>3, MarkersAreNoRecords
  <2> QED
    BY <1>1, <2>1, <2>2 DEF IInv, PageHasItsOrder
<1>8. FormIsFilled' /\ OneOrderPerForm'
  BY <1>1 DEF IInv, FormIsFilled, OneOrderPerForm
<1>9. SeenArePhotos' /\ CompleteWasOffered' /\ CompleteFindsItsPhoto'
  BY <1>1 DEF IInv, SeenArePhotos, CompleteWasOffered, CompleteFindsItsPhoto, Showing, Hears, CommandSays
<1>10. TheirsArePast'
  BY <1>1, <1>3, <1>4, MarkersAreNoRecords DEF IInv, TheirsArePast, Elsewhere, OthersWrote
<1>11. theirs[o] \in Int /\ theirs[o] <= theirs'[o] /\ theirs'[o] \in Int
  <2>1. theirs[o] <= row[o].version
    BY <1>3, MarkersAreNoRecords DEF IInv, TheirsArePast
  <2>2. theirs[o] \in Int /\ theirs'[o] \in Int
    BY <1>1, Bounds DEF TypeOK, Elsewhere
  <2> QED
    BY <1>4, <2>1, <2>2 DEF OthersWrote
<1>12. WritesAreKnown'
  <2>1. ~(Told /\ flight.kind = "create")
    BY <1>1 DEF IInv, PageHasItsOrder, Told
  <2>2. CASE row'[o] = row[o] /\ theirs'[o] = theirs[o]
    BY <1>1, <2>1, <2>2 DEF IInv, WritesAreKnown, Told
  <2>3. CASE theirs'[o] = row'[o].version
    BY <1>4, <2>1, <2>3 DEF WritesAreKnown, Told
  <2> QED
    BY <2>2, <2>3 DEF OthersWrote
<1>13. QueuedWritesNeverMeetThemselves'
  <2>1. SUFFICES ASSUME flight # Idle, flight.state = "stale"
                 PROVE  theirs'[flight.order] > flight.version
    BY DEF QueuedWritesNeverMeetThemselves
  <2>2. flight.order = o /\ theirs[o] > flight.version /\ flight.version \in Int
    BY <1>1, <2>1, AnswerParts, Bounds DEF IInv, PageHasItsOrder, QueuedWritesNeverMeetThemselves
  <2> QED
    BY <1>11, <2>2
<1> QED
  BY <1>5, <1>6, <1>7, <1>8, <1>9, <1>10, <1>12, <1>13 DEF IInv

(***************************************************************************)
(* What a request of the queue does                                        *)
(***************************************************************************)
LEMMA WrittenParts ==
    ASSUME NEW r \in Row, r.version < MaxVersion, NEW kind \in Steps, NEW text \in Texts,
           NEW remain \in BOOLEAN
    PROVE  LET w == Written(kind, text, r, remain)
           IN  w \in Row /\ w.version = r.version + 1 /\ w.revision = r.revision
<1>1. /\ r.version \in 1..MaxVersion /\ r.version + 1 \in 1..MaxVersion
      /\ r.header \in Texts /\ r.line \in BOOLEAN
  BY RowParts, Bounds DEF Row
<1>2. (IF kind \in {"save", "contact"} THEN text ELSE r.header) \in Texts
  BY <1>1
<1>3. (IF kind \in Removals THEN remain ELSE r.line \/ kind \in {"add", "lateAdd"}) \in BOOLEAN
  BY <1>1
<1> QED
  BY <1>1, <1>2, <1>3 DEF Written, Row

\* The answers there are, and what each means for the order.
WasStale(o, version) ==
    /\ row' = row /\ theirs' = theirs
    /\ flight'.state = "stale" /\ flight'.version = version /\ version # row[o].version
    /\ flight'.row = NoRow

WasRefused == row' = row /\ theirs' = theirs /\ flight'.state = "refused" /\ flight'.row = NoRow

WasWritten(o, version) ==
    /\ row[o] \in Row /\ row'[o] \in Row /\ row[o].version = version
    /\ row'[o].version = row[o].version + 1 /\ row'[o].revision = row[o].revision

WasDone(o, version) ==
    WasWritten(o, version) /\ theirs' = theirs /\ flight'.state = "ok" /\ flight'.row = row'[o]

WasLost(o, version) ==
    /\ WasWritten(o, version)
    /\ theirs'[o] = row'[o].version /\ flight'.state = "refused" /\ flight'.row = NoRow

LEMMA AnsweredType ==
    ASSUME NEW kind \in Steps \cup {"create"}, NEW o \in Orders \cup {NoOrder},
           NEW version \in 0..MaxVersion, NEW state \in {"ok", "stale", "refused"},
           NEW r \in Row \cup {NoRow}, Answered(kind, o, version, state, r)
    PROVE  /\ flight' \in StepAnswer /\ flight' # Idle /\ flight'.kind = kind
           /\ flight'.order = o /\ flight'.state = state /\ flight'.row = r
           /\ state = "stale" => flight'.version = version
<1> DEFINE v == IF state = "stale" THEN version ELSE 0
           a == [kind |-> kind, order |-> o, state |-> state, row |-> r, version |-> v]
<1>1. v \in 0..MaxVersion /\ (state = "stale" => v = version)
  BY Bounds
<1>2. flight' = a
  BY DEF Answered
<1> HIDE DEF v
<1>3. a \in StepAnswer
  BY <1>1 DEF StepAnswer, Steps
<1>4. a # Idle
  BY <1>3, MarkersAreNoRecords
<1> QED
  BY <1>1, <1>2, <1>3, <1>4

LEMMA RequestParts ==
    ASSUME TypeOK, NEW o \in Orders, row[o] \in Row,
           NEW kind \in Steps, NEW text \in Texts, NEW version \in 0..MaxVersion,
           Request(kind, text, o, version)
    PROVE  /\ flight' \in StepAnswer /\ flight' # Idle /\ flight'.kind = kind /\ flight'.order = o
           /\ Elsewhere(o)
           /\ WasStale(o, version) \/ WasRefused \/ WasDone(o, version) \/ WasLost(o, version)
<1>1. row \in [Orders -> Row \cup {NoRow}] /\ theirs \in [Orders -> 0..MaxVersion]
  BY DEF TypeOK
<1>2. CASE /\ version # row[o].version
           /\ Answered(kind, o, version, "stale", NoRow)
           /\ UNCHANGED <<row, theirs>>
  BY <1>1, <1>2, AnsweredType DEF Elsewhere, WasStale
<1>3. CASE Answered(kind, o, version, "refused", NoRow) /\ UNCHANGED <<row, theirs>>
  BY <1>1, <1>3, AnsweredType DEF Elsewhere, WasRefused
<1>4. ASSUME version = row[o].version, version < MaxVersion,
             NEW remain \in BOOLEAN, row' = [row EXCEPT ![o] = Written(kind, text, @, remain)],
             \/ Answered(kind, o, version, "ok", row'[o]) /\ UNCHANGED theirs
             \/ /\ Answered(kind, o, version, "refused", NoRow)
                /\ theirs' = [theirs EXCEPT ![o] = version + 1]
      PROVE  /\ flight' \in StepAnswer /\ flight' # Idle /\ flight'.kind = kind /\ flight'.order = o
             /\ Elsewhere(o)
             /\ WasDone(o, version) \/ WasLost(o, version)
  <2> DEFINE w == Written(kind, text, row[o], remain)
  <2>1. w \in Row /\ w.version = row[o].version + 1 /\ w.revision = row[o].revision
    BY <1>4, WrittenParts
  <2>2. row' = [row EXCEPT ![o] = w]
    BY <1>4
  <2> HIDE DEF w
  <2>3. /\ row' \in [Orders -> Row \cup {NoRow}] /\ row'[o] = w
        /\ \A p \in Orders \ {o} : row'[p] = row[p]
    BY <1>1, <2>1, <2>2
  <2>4. WasWritten(o, version)
    BY <1>4, <2>1, <2>3 DEF WasWritten
  <2>5. CASE Answered(kind, o, version, "ok", row'[o]) /\ UNCHANGED theirs
    <3>1. /\ flight' \in StepAnswer /\ flight' # Idle /\ flight'.kind = kind /\ flight'.order = o
          /\ flight'.state = "ok" /\ flight'.row = row'[o]
      BY <2>1, <2>3, <2>5, AnsweredType
    <3> QED
      BY <1>1, <2>3, <2>4, <2>5, <3>1 DEF Elsewhere, WasDone
  <2>6. CASE /\ Answered(kind, o, version, "refused", NoRow)
             /\ theirs' = [theirs EXCEPT ![o] = version + 1]
    <3>1. /\ flight' \in StepAnswer /\ flight' # Idle /\ flight'.kind = kind /\ flight'.order = o
          /\ flight'.state = "refused" /\ flight'.row = NoRow
      BY <2>6, AnsweredType
    <3>2. version + 1 \in 0..MaxVersion /\ version + 1 = row'[o].version
      BY <1>4, <2>1, <2>3, Bounds
    <3>3. /\ theirs' \in [Orders -> 0..MaxVersion] /\ theirs'[o] = row'[o].version
          /\ \A p \in Orders \ {o} : theirs'[p] = theirs[p]
      BY <1>1, <2>6, <3>2
    <3> QED
      BY <2>3, <2>4, <3>1, <3>3 DEF Elsewhere, WasLost
  <2> QED
    BY <1>4, <2>5, <2>6
<1> QED
  BY <1>2, <1>3, <1>4 DEF Request

\* A request that carries the version the page has keeps what is known of writes.
LEMMA RequestEffects ==
    ASSUME TypeOK, TheirsArePast, NEW o \in Orders, row[o] \in Row,
           NEW kind \in Steps, NEW text \in Texts, NEW version \in 0..MaxVersion,
           Request(kind, text, o, version),
           page'.id = o, Current' # NoRow, Current'.version = version,
           version <= row[o].version, row[o].version <= theirs[o] \/ row[o].version <= version
    PROVE  /\ \A p \in Orders : RowMoves(p) /\ InFlight(p)' \subseteq {NoRow, row'[p]}
           /\ flight' \in StepAnswer /\ flight' # Idle /\ flight'.kind = kind /\ flight'.order = o
           /\ flight'.state = "ok" => flight'.row # NoRow
           /\ Elsewhere(o) /\ row'[o] # NoRow
           /\ TheirsArePast' /\ WritesAreKnown' /\ QueuedWritesNeverMeetThemselves'
<1>1. /\ flight' \in StepAnswer /\ flight' # Idle /\ flight'.kind = kind /\ flight'.order = o
      /\ Elsewhere(o)
      /\ WasStale(o, version) \/ WasRefused \/ WasDone(o, version) \/ WasLost(o, version)
  BY RequestParts
<1>2. /\ row[o].version \in Int /\ theirs[o] \in Int /\ version \in Int /\ row[o] # NoRow
      /\ theirs[o] <= row[o].version
  BY RowParts, Bounds DEF TypeOK, TheirsArePast
<1>3. row'[o] \in Row /\ row'[o] # NoRow /\ row'[o].version \in Int
      /\ row[o].version <= row'[o].version
  <2>1. row' = row \/ WasWritten(o, version)
    BY <1>1 DEF WasStale, WasRefused, WasDone, WasLost
  <2>2. row'[o] \in Row /\ row'[o].version \in {row[o].version, row[o].version + 1}
    BY <2>1 DEF WasWritten
  <2> QED
    BY <1>2, <2>2, RowParts
<1>4. \A p \in Orders : RowMoves(p)
  <2>1. RowMoves(o)
    <3>1. CASE row' = row
      BY <3>1 DEF RowMoves
    <3>2. CASE WasWritten(o, version)
      <4>1. row'[o].revision <= row[o].revision + 1
        BY <3>2, RowParts DEF WasWritten
      <4> QED
        BY <3>2, <4>1 DEF WasWritten, RowMoves
    <3> QED
      BY <1>1, <3>1, <3>2 DEF WasStale, WasRefused, WasDone, WasLost
  <2> QED
    BY <1>1, <2>1 DEF RowMoves, Elsewhere
<1>5. flight'.row \in {NoRow, row'[o]} /\ (flight'.state = "ok" => flight'.row # NoRow)
  BY <1>1, <1>3 DEF WasStale, WasRefused, WasDone, WasLost
<1>6. \A p \in Orders : InFlight(p)' \subseteq {NoRow, row'[p]}
  BY <1>1, <1>5 DEF InFlight
<1>7. TheirsArePast'
  <2>1. theirs'[o] <= row'[o].version
    BY <1>1, <1>2, <1>3 DEF WasStale, WasRefused, WasDone, WasLost
  <2> QED
    BY <1>1, <1>3, <2>1 DEF TheirsArePast, Elsewhere
<1>8. WritesAreKnown'
  <2>1. ~(flight'.kind = "create")
    BY <1>1 DEF Steps, DraftSteps, LateSteps
  <2>2. CASE row' = row /\ theirs' = theirs /\ flight'.state # "ok"
    BY <1>1, <1>2, <2>1, <2>2 DEF WritesAreKnown, Told
  <2>3. CASE WasDone(o, version)
    BY <1>1, <1>3, <2>1, <2>3 DEF WritesAreKnown, Told, WasDone
  <2>4. CASE WasLost(o, version)
    BY <1>1, <1>3, <2>1, <2>4 DEF WritesAreKnown, Told, WasLost
  <2> QED
    BY <1>1, <2>2, <2>3, <2>4 DEF WasStale, WasRefused
<1>9. QueuedWritesNeverMeetThemselves'
  <2>1. SUFFICES ASSUME flight'.state = "stale"
                 PROVE  theirs'[o] > flight'.version
    BY <1>1 DEF QueuedWritesNeverMeetThemselves
  <2>2. theirs' = theirs /\ flight'.version = version /\ version # row[o].version
    BY <1>1, <2>1 DEF WasStale, WasRefused, WasDone, WasLost
  <2> QED
    BY <1>2, <2>2
<1> QED
  BY <1>1, <1>3, <1>4, <1>5, <1>6, <1>7, <1>8, <1>9

LEMMA DraftParts ==
    ASSUME TypeOK
    PROVE  Draft \in Row /\ Draft # NoRow /\ Draft.version = 1 /\ Draft.revision = 0
<1>1. page.text \in Texts /\ 1 \in 1..MaxVersion /\ 0 \in 0..MaxVersion
  BY Bounds DEF TypeOK
<1>2. Draft \in Row
  BY <1>1 DEF Draft, Row, Statuses
<1> QED
  BY <1>2, RowParts DEF Draft

LEMMA RequestCreateParts ==
    ASSUME TypeOK, RequestCreate
    PROVE  /\ flight' \in StepAnswer /\ flight' # Idle /\ flight'.kind = "create"
           /\ flight'.state # "stale"
           /\ \/ row' = row /\ theirs' = theirs /\ flight'.state # "ok" /\ flight'.row = NoRow
              \/ \E o \in Orders :
                    /\ row[o] = NoRow /\ row'[o] = Draft /\ Elsewhere(o)
                    /\ \/ /\ theirs' = theirs
                          /\ flight'.state = "ok" /\ flight'.order = o /\ flight'.row = Draft
                       \/ /\ theirs'[o] = 1
                          /\ flight'.state # "ok" /\ flight'.order = NoOrder /\ flight'.row = NoRow
<1>1. /\ row \in [Orders -> Row \cup {NoRow}] /\ theirs \in [Orders -> 0..MaxVersion]
      /\ 0 \in 0..MaxVersion /\ 1 \in 0..MaxVersion /\ Draft \in Row
  BY DraftParts, Bounds DEF TypeOK
<1>2. CASE Answered("create", NoOrder, 0, "refused", NoRow) /\ UNCHANGED <<row, theirs>>
  BY <1>1, <1>2, AnsweredType
<1>3. ASSUME NEW o \in Orders, row[o] = NoRow, row' = [row EXCEPT ![o] = Draft],
             \/ Answered("create", o, 0, "ok", Draft) /\ UNCHANGED theirs
             \/ /\ Answered("create", NoOrder, 0, "refused", NoRow)
                /\ theirs' = [theirs EXCEPT ![o] = 1]
      PROVE  /\ flight' \in StepAnswer /\ flight' # Idle /\ flight'.kind = "create"
             /\ row'[o] = Draft /\ Elsewhere(o)
             /\ \/ /\ theirs' = theirs
                   /\ flight'.state = "ok" /\ flight'.order = o /\ flight'.row = Draft
                \/ /\ theirs'[o] = 1
                   /\ flight'.state = "refused" /\ flight'.order = NoOrder /\ flight'.row = NoRow
  <2>1. /\ row' \in [Orders -> Row \cup {NoRow}] /\ row'[o] = Draft
        /\ \A p \in Orders \ {o} : row'[p] = row[p]
    BY <1>1, <1>3
  <2>2. CASE Answered("create", o, 0, "ok", Draft) /\ UNCHANGED theirs
    <3>1. /\ flight' \in StepAnswer /\ flight' # Idle /\ flight'.kind = "create"
          /\ flight'.state = "ok" /\ flight'.order = o /\ flight'.row = Draft
      BY <1>1, <2>2, AnsweredType
    <3>2. Elsewhere(o)
      BY <1>1, <2>1, <2>2 DEF Elsewhere
    <3> QED
      BY <2>1, <2>2, <3>1, <3>2
  <2>3. CASE /\ Answered("create", NoOrder, 0, "refused", NoRow)
             /\ theirs' = [theirs EXCEPT ![o] = 1]
    <3>1. /\ flight' \in StepAnswer /\ flight' # Idle /\ flight'.kind = "create"
          /\ flight'.state = "refused" /\ flight'.order = NoOrder /\ flight'.row = NoRow
      BY <1>1, <2>3, AnsweredType
    <3>2. Elsewhere(o) /\ theirs'[o] = 1
      BY <1>1, <1>3, <2>1, <2>3 DEF Elsewhere
    <3> QED
      BY <2>1, <3>1, <3>2
  <2> QED
    BY <1>3, <2>2, <2>3
<1>4. Free # {} => (CHOOSE o \in Free : TRUE) \in Free
  OBVIOUS
<1>5. CASE \E o \in Free :
             /\ row' = [row EXCEPT ![o] = Draft]
             /\ \/ Answered("create", o, 0, "ok", Draft) /\ UNCHANGED theirs
                \/ /\ Answered("create", NoOrder, 0, "refused", NoRow)
                   /\ theirs' = [theirs EXCEPT ![o] = 1]
  <2>1. PICK o \in Free :
             /\ row' = [row EXCEPT ![o] = Draft]
             /\ \/ Answered("create", o, 0, "ok", Draft) /\ UNCHANGED theirs
                \/ /\ Answered("create", NoOrder, 0, "refused", NoRow)
                   /\ theirs' = [theirs EXCEPT ![o] = 1]
    BY <1>5
  <2>2. o \in Orders /\ row[o] = NoRow
    BY DEF Free
  <2>3. /\ flight' \in StepAnswer /\ flight' # Idle /\ flight'.kind = "create"
        /\ row'[o] = Draft /\ Elsewhere(o)
        /\ \/ /\ theirs' = theirs
              /\ flight'.state = "ok" /\ flight'.order = o /\ flight'.row = Draft
           \/ /\ theirs'[o] = 1
              /\ flight'.state = "refused" /\ flight'.order = NoOrder /\ flight'.row = NoRow
    BY <1>3, <2>1, <2>2
  <2> QED
    BY <2>2, <2>3
<1> QED
  BY <1>2, <1>4, <1>5 DEF RequestCreate

(***************************************************************************)
(* The queue                                                               *)
(***************************************************************************)
LEMMA StartStep ==
    ASSUME IInv, Start
    PROVE  IInv'
<1>1. TypeOK
  BY DEF IInv
<1>2. /\ photos' = photos /\ texts' = texts /\ path' = path /\ page' = page /\ dialog' = dialog
      /\ warned' = warned /\ cache' = cache /\ get' = get /\ seen' = seen /\ queue' = queue
      /\ direct' = direct /\ made' = made
      /\ queue # <<>> /\ flight = Idle
  BY DEF Start, screen
<1>3. Current' = Current /\ path # Away /\ ~Told
  BY <1>1, <1>2 DEF Current, TypeOK, Told
<1>4. ASSUME flight' \in StepAnswer, flight' # Idle,
             row' \in [Orders -> Row \cup {NoRow}], theirs' \in [Orders -> 0..MaxVersion],
             \A p \in Orders : RowMoves(p) /\ InFlight(p)' \subseteq {NoRow, row'[p]},
             page.id # NoOrder => row'[page.id] # NoRow,
             IF flight'.kind = "create" THEN page.id = NoOrder
             ELSE page.id # NoOrder /\ flight'.order = page.id,
             flight'.state = "ok" => flight'.order # NoOrder /\ flight'.row # NoRow,
             TheirsArePast', WritesAreKnown', QueuedWritesNeverMeetThemselves'
      PROVE  IInv'
  <2>1. TypeOK'
    BY <1>1, <1>2, <1>3, <1>4 DEF TypeOK
  <2>2. SnapshotsArePast' /\ SnapshotsAgree' /\ RevisionsFollow'
    <3>1. ASSUME NEW p \in Orders
          PROVE  NothingOlderIsLearnt(p)
      <4>1. OnPage(p)' = OnPage(p)
        BY <1>2 DEF OnPage
      <4> QED
        BY <1>2, <1>4, <4>1 DEF NothingOlderIsLearnt, Known
    <3> QED
      BY <1>1, <1>4, <3>1, SnapshotsStep DEF IInv
  <2>3. PageHasItsOrder'
    BY <1>2, <1>3, <1>4 DEF IInv, PageHasItsOrder
  <2>4. FormIsFilled' /\ OneOrderPerForm'
    BY <1>2, <1>3 DEF IInv, FormIsFilled, OneOrderPerForm
  <2>5. SeenArePhotos' /\ CompleteWasOffered' /\ CompleteFindsItsPhoto'
    BY <1>2, <1>3
    DEF IInv, SeenArePhotos, CompleteWasOffered, CompleteFindsItsPhoto, Showing, Hears
  <2> QED
    BY <1>4, <2>1, <2>2, <2>3, <2>4, <2>5 DEF IInv
<1>5. CASE Current = NoRow
  <2>1. page.id = NoOrder /\ RequestCreate
    BY <1>2, <1>5 DEF IInv, PageHasItsOrder, Start
  <2>2. /\ flight' \in StepAnswer /\ flight' # Idle /\ flight'.kind = "create"
        /\ flight'.state # "stale"
        /\ \/ row' = row /\ theirs' = theirs /\ flight'.state # "ok" /\ flight'.row = NoRow
           \/ \E o \in Orders :
                 /\ row[o] = NoRow /\ row'[o] = Draft /\ Elsewhere(o)
                 /\ \/ /\ theirs' = theirs
                       /\ flight'.state = "ok" /\ flight'.order = o /\ flight'.row = Draft
                    \/ /\ theirs'[o] = 1
                       /\ flight'.state # "ok" /\ flight'.order = NoOrder /\ flight'.row = NoRow
    BY <1>1, <2>1, RequestCreateParts
  <2>3. Draft \in Row /\ Draft # NoRow /\ Draft.version = 1 /\ Draft.revision = 0
    BY <1>1, DraftParts
  <2>4. CASE row' = row /\ theirs' = theirs /\ flight'.state # "ok" /\ flight'.row = NoRow
    <3>1. \A p \in Orders : RowMoves(p) /\ InFlight(p)' \subseteq {NoRow, row'[p]}
      BY <2>4 DEF RowMoves, InFlight
    <3>2. TheirsArePast' /\ WritesAreKnown' /\ QueuedWritesNeverMeetThemselves'
      BY <1>2, <2>1, <2>2, <2>4
      DEF IInv, TheirsArePast, WritesAreKnown, QueuedWritesNeverMeetThemselves, Told
    <3> QED
      BY <1>1, <1>4, <2>1, <2>2, <2>4, <3>1, <3>2 DEF TypeOK
  <2>5. ASSUME NEW o \in Orders, row[o] = NoRow, row'[o] = Draft, Elsewhere(o),
               \/ /\ theirs' = theirs
                  /\ flight'.state = "ok" /\ flight'.order = o /\ flight'.row = Draft
               \/ /\ theirs'[o] = 1
                  /\ flight'.state # "ok" /\ flight'.order = NoOrder /\ flight'.row = NoRow
        PROVE  IInv'
    <3>1. \A p \in Orders : RowMoves(p)
      BY <2>3, <2>5 DEF RowMoves, Elsewhere
    <3>2. \A p \in Orders : InFlight(p)' \subseteq {NoRow, row'[p]}
      BY <2>5 DEF InFlight
    <3>3. TheirsArePast'
      <4>1. theirs[o] <= 0
        BY <2>5 DEF IInv, TheirsArePast
      <4>2. theirs'[o] <= row'[o].version
        BY <1>1, <2>3, <2>5, <4>1, Bounds DEF TypeOK
      <4> QED
        BY <2>3, <2>5, <4>2 DEF IInv, TheirsArePast, Elsewhere
    <3>4. WritesAreKnown' /\ QueuedWritesNeverMeetThemselves'
      BY <1>2, <2>1, <2>2, <2>5 DEF WritesAreKnown, QueuedWritesNeverMeetThemselves, Told
    <3>5. flight'.state = "ok" => flight'.order # NoOrder /\ flight'.row # NoRow
      BY <2>3, <2>5, MarkersAreNoOrders
    <3> QED
      BY <1>4, <2>1, <2>2, <2>5, <3>1, <3>2, <3>3, <3>4, <3>5 DEF Elsewhere
  <2> QED
    BY <2>2, <2>4, <2>5
<1>6. CASE Current # NoRow
  <2> DEFINE o == page.id
             step == Head(queue)
             version == Current.version
  <2>1. /\ o \in Orders /\ o # NoOrder /\ Current \in Row /\ version \in 0..MaxVersion
        /\ row[o] \in Row /\ version <= row[o].version
    <3>1. o \in Orders /\ o # NoOrder /\ Current \in Row /\ Current = cache[o]
      BY <1>1, <1>6, CurrentType
    <3>2. row[o] \in Row
      BY <1>1, <3>1 DEF IInv, PageHasItsOrder, TypeOK
    <3>3. version <= row[o].version
      BY <1>6, <3>1 DEF IInv, SnapshotsArePast, Known
    <3> QED
      BY <3>1, <3>2, <3>3, RowParts, Bounds
  <2>2. step.kind \in Steps /\ step.text \in Texts
    BY <1>1, <1>2, StepType
  <2>3. Request(step.kind, step.text, o, version)
    BY <1>6 DEF Start
  <2>4. row[o].version <= theirs[o] \/ row[o].version <= version
    BY <1>3, <2>1 DEF IInv, WritesAreKnown
  <2>5. TheirsArePast /\ page'.id = o /\ Current' # NoRow /\ Current'.version = version
    BY <1>2, <1>3, <1>6 DEF IInv
  <2> HIDE DEF o, step, version
  <2>6. /\ \A p \in Orders : RowMoves(p) /\ InFlight(p)' \subseteq {NoRow, row'[p]}
        /\ flight' \in StepAnswer /\ flight' # Idle /\ flight'.kind = step.kind /\ flight'.order = o
        /\ flight'.state = "ok" => flight'.row # NoRow
        /\ Elsewhere(o) /\ row'[o] # NoRow
        /\ TheirsArePast' /\ WritesAreKnown' /\ QueuedWritesNeverMeetThemselves'
    BY <1>1, <2>1, <2>2, <2>3, <2>4, <2>5, RequestEffects
  <2>7. flight'.kind # "create"
    BY <2>2, <2>6 DEF Steps, DraftSteps, LateSteps
  <2> QED
    BY <1>4, <2>1, <2>6, <2>7 DEF Elsewhere, o
<1> QED
  BY <1>5, <1>6

\* The page learns that its draft was created.
LEMMA CreatedStep ==
    ASSUME IInv, Created
    PROVE  IInv'
<1> DEFINE o == flight.order
           isSave == Head(queue).kind = "save"
<1>1. TypeOK
  BY DEF IInv
<1>2. flight # Idle /\ flight.kind = "create" /\ flight.state = "ok" /\ queue # <<>>
  BY <1>1 DEF Created, Sending, TypeOK
<1>3. /\ o \in Orders /\ o # NoOrder /\ flight.row \in Row /\ row[o] = flight.row
      /\ row[o] # NoRow /\ path # Away
  BY <1>1, <1>2, AnswerParts DEF IInv, PageHasItsOrder, WritesAreKnown, Told, TypeOK
<1>4. page.id = NoOrder /\ Current = NoRow /\ direct = Idle /\ dialog.what \notin Commands
  BY <1>1, <1>2, CurrentType DEF IInv, PageHasItsOrder
<1>5. /\ page' = [Filled([page EXCEPT !.id = o], flight.row) EXCEPT !.saved = @ \/ isSave]
      /\ cache' = [cache EXCEPT ![o] = Freshest(@, flight.row)]
      /\ path' = o
      /\ get' = [state |-> "answered", row |-> row[o], resets |-> FALSE]
      /\ made' = made \cup {o}
      /\ IF isSave THEN flight' = Idle /\ queue' = Tail(queue) /\ UNCHANGED <<row, theirs>>
         ELSE Request(Head(queue).kind, 0, o, flight.row.version) /\ UNCHANGED queue
      /\ photos' = photos /\ texts' = texts /\ seen' = seen /\ dialog' = dialog
      /\ warned' = warned /\ direct' = direct
  BY DEF Created
<1> HIDE DEF o, isSave
<1>6. /\ page' \in Pages /\ page'.id = o /\ page'.loaded = TRUE
  <2> DEFINE p == [page EXCEPT !.id = o]
             q == Filled(p, flight.row)
  <2>1. p \in Pages /\ p.id = o
    BY <1>1, <1>3 DEF TypeOK, Pages
  <2>2. q \in Pages /\ q.id = o /\ q.loaded = TRUE
    BY <1>3, <2>1, FilledParts
  <2>3. page' = [q EXCEPT !.saved = @ \/ isSave]
    BY <1>5
  <2> HIDE DEF q
  <2>4. (q.saved \/ isSave) \in BOOLEAN
    BY <2>2 DEF Pages, isSave
  <2> QED
    BY <2>2, <2>3, <2>4 DEF Pages
<1>7. /\ cache' \in [Orders -> Row \cup {NoRow}] /\ cache'[o] = row[o]
      /\ \A p \in Orders \ {o} : cache'[p] = cache[p]
  <2>1. cache \in [Orders -> Row \cup {NoRow}] /\ cache[o] \in Row \cup {NoRow}
    BY <1>1, <1>3 DEF TypeOK
  <2>2. cache[o] # NoRow => cache[o].version <= row[o].version /\ cache[o].version \in Int
                            /\ row[o].version \in Int
    BY <1>3, <2>1, RowParts DEF IInv, SnapshotsArePast, Known
  <2>3. Freshest(cache[o], flight.row) = row[o]
    BY <1>3, <2>2 DEF Freshest
  <2> QED
    BY <1>3, <1>5, <2>1, <2>3
<1>8. Current' = row[o] /\ row[o] \in Row
  BY <1>3, <1>6, <1>7 DEF Current
<1>9. get' \in Gets /\ get'.row = row[o]
  BY <1>3, <1>5, <1>8 DEF Gets
<1>10. row[o].version \in 0..MaxVersion /\ row[o].version \in Int
  BY <1>8, RowParts, Bounds
<1>11. /\ queue' \in Seq(Step) /\ (flight' # Idle => queue' # <<>>)
       /\ row' \in [Orders -> Row \cup {NoRow}] /\ theirs' \in [Orders -> 0..MaxVersion]
       /\ flight' \in StepAnswer \cup {Idle}
       /\ flight' # Idle => /\ flight'.kind # "create" /\ flight'.order = o
                            /\ flight'.state = "ok" => flight'.row # NoRow
       /\ row'[o] # NoRow
       /\ \A p \in Orders : RowMoves(p) /\ InFlight(p)' \subseteq {NoRow, row'[p]}
       /\ TheirsArePast' /\ WritesAreKnown' /\ QueuedWritesNeverMeetThemselves'
  <2>1. CASE isSave
    <3>1. flight' = Idle /\ queue' = Tail(queue) /\ row' = row /\ theirs' = theirs
      BY <1>5, <2>1
    <3>2. queue' \in Seq(Step)
      BY <1>1, <1>2, <3>1, StepType
    <3>3. TheirsArePast'
      BY <3>1 DEF IInv, TheirsArePast
    <3>4. WritesAreKnown' /\ QueuedWritesNeverMeetThemselves'
      BY <1>3, <1>6, <1>8, <1>10, <3>1
      DEF WritesAreKnown, QueuedWritesNeverMeetThemselves, Told
    <3>5. \A p \in Orders : RowMoves(p) /\ InFlight(p)' \subseteq {NoRow, row'[p]}
      BY <3>1 DEF RowMoves, InFlight
    <3>6. row' \in [Orders -> Row \cup {NoRow}] /\ theirs' \in [Orders -> 0..MaxVersion]
      BY <1>1, <3>1 DEF TypeOK
    <3> QED
      BY <1>3, <3>1, <3>2, <3>3, <3>4, <3>5, <3>6
  <2>2. CASE ~isSave
    <3>1. Head(queue).kind \in Steps /\ 0 \in Texts /\ queue' = queue /\ queue \in Seq(Step)
      BY <1>1, <1>2, <1>5, <2>2, StepType, Bounds DEF TypeOK
    <3>2. Request(Head(queue).kind, 0, o, row[o].version)
      BY <1>3, <1>5, <2>2
    <3>3. Current' # NoRow /\ Current'.version = row[o].version /\ TheirsArePast
      BY <1>3, <1>8 DEF IInv
    <3>4. row[o].version <= row[o].version
      BY <1>10
    <3>5. /\ \A p \in Orders : RowMoves(p) /\ InFlight(p)' \subseteq {NoRow, row'[p]}
          /\ flight' \in StepAnswer /\ flight' # Idle /\ flight'.kind = Head(queue).kind
          /\ flight'.order = o
          /\ flight'.state = "ok" => flight'.row # NoRow
          /\ Elsewhere(o) /\ row'[o] # NoRow
          /\ TheirsArePast' /\ WritesAreKnown' /\ QueuedWritesNeverMeetThemselves'
      BY <1>1, <1>3, <1>6, <1>8, <1>10, <3>1, <3>2, <3>3, <3>4, RequestEffects
    <3>6. flight'.kind # "create"
      BY <3>1, <3>5 DEF Steps, DraftSteps, LateSteps
    <3> QED
      BY <1>2, <3>1, <3>5, <3>6 DEF Elsewhere
  <2> QED
    BY <2>1, <2>2
<1>12. TypeOK'
  <2>1. path' \in Orders \cup {NoOrder, Away} /\ path' # Away /\ made' \subseteq Orders
    BY <1>1, <1>3, <1>5, MarkersAreNoOrders DEF TypeOK
  <2> QED
    BY <1>1, <1>5, <1>6, <1>7, <1>9, <1>11, <2>1 DEF TypeOK, Pages, Gets
<1>13. SnapshotsArePast' /\ SnapshotsAgree' /\ RevisionsFollow'
  <2>1. ASSUME NEW p \in Orders
        PROVE  NothingOlderIsLearnt(p)
    <3>1. OnPage(p)' \subseteq IF p = o THEN {row[o]} ELSE {}
      BY <1>4, <1>5, <1>6, <1>9 DEF OnPage
    <3>2. cache'[p] = IF p = o THEN row[p] ELSE cache[p]
      BY <1>7, <2>1
    <3> QED
      BY <1>11, <2>1, <3>1, <3>2 DEF NothingOlderIsLearnt, Known
  <2> QED
    BY <1>1, <1>11, <2>1, SnapshotsStep DEF IInv
<1>14. PageHasItsOrder'
  BY <1>3, <1>4, <1>5, <1>6, <1>8, <1>9, <1>11, MarkersAreNoOrders DEF PageHasItsOrder
<1>15. FormIsFilled'
  BY <1>3, <1>6, <1>8 DEF FormIsFilled
<1>16. OneOrderPerForm'
  <2>1. made = {}
    BY <1>1, <1>4, MarkersAreNoOrders DEF IInv, OneOrderPerForm, TypeOK
  <2> QED
    BY <1>5, <1>6, <2>1 DEF OneOrderPerForm
<1>17. SeenArePhotos' /\ CompleteFindsItsPhoto'
  BY <1>5 DEF IInv, SeenArePhotos, CompleteFindsItsPhoto, Hears
<1>18. CompleteWasOffered'
  BY <1>4, <1>5 DEF CompleteWasOffered, Showing, Commands
<1> QED
  BY <1>11, <1>12, <1>13, <1>14, <1>15, <1>16, <1>17, <1>18 DEF IInv

(***************************************************************************)
(* Commands, and the others                                                *)
(***************************************************************************)
LEMMA TransitionParts ==
    ASSUME NEW r \in Row, r.version < MaxVersion, r.revision < r.version, NEW c \in Commands
    PROVE  LET t == Transition(c, r)
           IN  t \in Row /\ t.version = r.version + 1 /\ t.revision <= r.revision + 1
<1>1. /\ r.version \in 1..MaxVersion /\ r.version + 1 \in 1..MaxVersion /\ r.status \in Statuses
      /\ r.revision \in 0..MaxVersion /\ r.revision + 1 \in 0..MaxVersion
  BY RowParts, Bounds
<1>2. Becomes(c, r) \in Statuses
  BY <1>1 DEF Becomes, Commands, Statuses
<1>3. (IF c = "revise" THEN r.revision + 1 ELSE r.revision) \in {r.revision, r.revision + 1}
  BY <1>1
<1> DEFINE v == IF c = "revise" THEN r.revision + 1 ELSE r.revision
           t == [r EXCEPT !.version = @ + 1, !.status = Becomes(c, r), !.revision = v]
<1>4. Transition(c, r) = t
  BY DEF Transition
<1>5. v \in 0..MaxVersion /\ v <= r.revision + 1
  BY <1>1
<1> HIDE DEF v
<1>6. t \in Row /\ t.version = r.version + 1 /\ t.revision = v
  BY <1>1, <1>2, <1>5 DEF Row
<1> QED
  BY <1>4, <1>5, <1>6

LEMMA HeardType ==
    ASSUME TypeOK, NEW c \in Commands, NEW version \in 0..MaxVersion,
           NEW state \in {"ok", "stale", "refused", "no photo"}, NEW r \in Row \cup {NoRow},
           Heard(c, version, state, r)
    PROVE  /\ direct' \in CommandAnswer /\ direct'.state = state /\ direct'.row = r
           /\ state = "no photo" => direct'.at = dialog.at /\ direct'.version = version
<1> DEFINE at == IF state = "no photo" THEN dialog.at ELSE 0
           v == IF state = "no photo" THEN version ELSE 0
           a == [command |-> c, state |-> state, row |-> r, at |-> at, version |-> v]
<1>1. /\ at \in 0..MaxVersion /\ v \in 0..MaxVersion
      /\ state = "no photo" => at = dialog.at /\ v = version
  BY Bounds DEF TypeOK
<1>2. direct' = a
  BY DEF Heard
<1> HIDE DEF at, v
<1>3. a \in CommandAnswer
  BY <1>1 DEF CommandAnswer
<1> QED
  BY <1>1, <1>2, <1>3

LEMMA SendStep ==
    ASSUME IInv, NEW c \in Commands, Send(c), Current # NoRow, c = "complete" => Showing(c)
    PROVE  IInv'
<1> DEFINE o == page.id
           version == Current.version
<1>1. TypeOK
  BY DEF IInv
<1>2. /\ photos' = photos /\ texts' = texts /\ path' = path /\ page' = page /\ dialog' = dialog
      /\ warned' = warned /\ cache' = cache /\ get' = get /\ seen' = seen /\ queue' = queue
      /\ flight' = flight /\ made' = made
  BY DEF Send, screen
<1>3. /\ o \in Orders /\ o # NoOrder /\ Current = cache[o] /\ Current \in Row
      /\ version \in 0..MaxVersion /\ texts \in Texts
  BY <1>1, CurrentType, RowParts, Bounds DEF TypeOK
<1>4. /\ row[o] \in Row /\ row[o] # NoRow /\ row[o].revision < row[o].version
      /\ row \in [Orders -> Row \cup {NoRow}] /\ theirs \in [Orders -> 0..MaxVersion]
  BY <1>1, <1>3 DEF IInv, PageHasItsOrder, RevisionsFollow, TypeOK
<1>5. \/ Heard(c, version, "stale", NoRow) /\ UNCHANGED <<row, theirs>>
      \/ /\ version = row[o].version /\ ~Guarded(c, o)
         /\ Heard(c, version, "no photo", NoRow) /\ UNCHANGED <<row, theirs>>
      \/ Heard(c, version, "refused", NoRow) /\ UNCHANGED <<row, theirs>>
      \/ /\ version = row[o].version /\ version < MaxVersion
         /\ row' = [row EXCEPT ![o] = Transition(c, @)]
         /\ Heard(c, version, "ok", row'[o])
         /\ theirs' = [theirs EXCEPT ![o] = version + 1]
  BY DEF Send
<1> HIDE DEF o, version
<1>6. SUFFICES Elsewhere(o) /\ OthersWrote(o) /\ CommandSays(o)
  BY <1>2, <1>3, OthersStep DEF o
<1>7. CASE Heard(c, version, "stale", NoRow) /\ UNCHANGED <<row, theirs>>
  BY <1>1, <1>3, <1>4, <1>7, HeardType DEF Elsewhere, OthersWrote, CommandSays
<1>8. CASE /\ version = row[o].version /\ ~Guarded(c, o)
           /\ Heard(c, version, "no photo", NoRow) /\ UNCHANGED <<row, theirs>>
  <2>1. dialog.what = "complete" /\ row[o].revision \notin photos[o]
    BY <1>8 DEF Guarded, Showing
  <2>2. Current = row[o]
    <3>1. Current \in Known(o) /\ row[o] \in Known(o)
      BY <1>3, <1>4 DEF Known
    <3> QED
      BY <1>3, <1>8, <3>1 DEF IInv, SnapshotsAgree, version
  <2>3. /\ dialog.at <= version
        /\ dialog.at = version => row[o].revision \in seen[o]
    BY <2>1, <2>2 DEF IInv, CompleteWasOffered, Showing, version, o
  <2>4. seen[o] \subseteq photos[o]
    BY <1>3 DEF IInv, SeenArePhotos
  <2>5. dialog.at \in Int /\ version \in Int
    BY <1>1, <1>3, Bounds DEF TypeOK
  <2>6. dialog.at < version
    BY <2>1, <2>3, <2>4, <2>5
  <2>7. /\ direct' \in CommandAnswer /\ direct'.state = "no photo" /\ direct'.row = NoRow
        /\ direct'.at = dialog.at /\ direct'.version = version
    BY <1>1, <1>3, <1>8, HeardType
  <2> QED
    BY <1>4, <1>8, <2>6, <2>7 DEF Elsewhere, OthersWrote, CommandSays
<1>9. CASE Heard(c, version, "refused", NoRow) /\ UNCHANGED <<row, theirs>>
  BY <1>1, <1>3, <1>4, <1>9, HeardType DEF Elsewhere, OthersWrote, CommandSays
<1>10. CASE /\ version = row[o].version /\ version < MaxVersion
            /\ row' = [row EXCEPT ![o] = Transition(c, @)]
            /\ Heard(c, version, "ok", row'[o])
            /\ theirs' = [theirs EXCEPT ![o] = version + 1]
  <2> DEFINE t == Transition(c, row[o])
  <2>1. t \in Row /\ t.version = row[o].version + 1 /\ t.revision <= row[o].revision + 1
    BY <1>4, <1>10, TransitionParts
  <2>2. row' = [row EXCEPT ![o] = t]
    BY <1>10
  <2> HIDE DEF t
  <2>3. /\ row' \in [Orders -> Row \cup {NoRow}] /\ row'[o] = t
        /\ \A p \in Orders \ {o} : row'[p] = row[p]
    BY <1>3, <1>4, <2>1, <2>2
  <2>4. version + 1 \in 0..MaxVersion /\ version + 1 = row'[o].version
    BY <1>3, <1>10, <2>1, <2>3, Bounds
  <2>5. /\ theirs' \in [Orders -> 0..MaxVersion] /\ theirs'[o] = row'[o].version
        /\ \A p \in Orders \ {o} : theirs'[p] = theirs[p]
    BY <1>3, <1>4, <1>10, <2>4
  <2>6. direct' \in CommandAnswer /\ direct'.state = "ok" /\ direct'.row = row'[o]
    <3>1. Heard(c, version, "ok", t) /\ t \in Row \cup {NoRow}
      BY <1>10, <2>1, <2>3
    <3>2. direct' \in CommandAnswer /\ direct'.state = "ok" /\ direct'.row = t
      BY <1>1, <1>3, <3>1, HeardType
    <3> QED
      BY <2>3, <3>2
  <2>7. row'[o] # NoRow
    BY <2>1, <2>3, RowParts
  <2> QED
    BY <1>4, <2>1, <2>3, <2>5, <2>6, <2>7 DEF Elsewhere, OthersWrote, CommandSays
<1> QED
  BY <1>5, <1>7, <1>8, <1>9, <1>10

LEMMA OthersActStep ==
    ASSUME IInv, NEW o \in Orders, OthersMove(o) \/ OthersWrite(o)
    PROVE  IInv'
<1>1. TypeOK
  BY DEF IInv
<1>2. /\ photos' = photos /\ path' = path /\ page' = page /\ dialog' = dialog
      /\ warned' = warned /\ cache' = cache /\ get' = get /\ seen' = seen /\ queue' = queue
      /\ flight' = flight /\ direct' = direct /\ made' = made
      /\ o = page.id /\ row[o].version < MaxVersion
      /\ theirs' = [theirs EXCEPT ![o] = row'[o].version]
  BY DEF OthersMove, OthersWrite, screen
<1>3. /\ row[o] \in Row /\ row[o].revision < row[o].version
      /\ row \in [Orders -> Row \cup {NoRow}] /\ theirs \in [Orders -> 0..MaxVersion]
      /\ texts \in Texts
  BY <1>1, <1>2, MarkersAreNoOrders DEF IInv, PageHasItsOrder, RevisionsFollow, TypeOK
<1>4. /\ row[o].version \in 1..MaxVersion /\ row[o].version + 1 \in 1..MaxVersion
      /\ row[o].revision \in 0..MaxVersion /\ row[o].revision + 1 \in 0..MaxVersion
  BY <1>2, <1>3, RowParts, Bounds
<1>5. /\ row' \in [Orders -> Row \cup {NoRow}] /\ row'[o] \in Row
      /\ row'[o].version = row[o].version + 1 /\ row'[o].revision <= row[o].revision + 1
      /\ \A p \in Orders \ {o} : row'[p] = row[p]
      /\ texts' \in Texts
  <2>1. CASE OthersMove(o)
    <3>1. PICK to \in Statuses :
              row' = [row EXCEPT ![o].version = @ + 1, ![o].status = to,
                                 ![o].revision = IF to = "REVISION" THEN @ + 1 ELSE @]
      BY <2>1 DEF OthersMove
    <3> DEFINE v == IF to = "REVISION" THEN row[o].revision + 1 ELSE row[o].revision
               r == [row[o] EXCEPT !.version = @ + 1, !.status = to, !.revision = v]
    <3>2. row' = [row EXCEPT ![o] = r]
      BY <1>3, <3>1
    <3>3. v \in 0..MaxVersion /\ v <= row[o].revision + 1
      BY <1>4
    <3> HIDE DEF v
    <3>4. r \in Row /\ r.version = row[o].version + 1 /\ r.revision = v
      BY <1>3, <1>4, <3>3 DEF Row
    <3> HIDE DEF r
    <3>5. /\ row' \in [Orders -> Row \cup {NoRow}] /\ row'[o] = r
          /\ \A p \in Orders \ {o} : row'[p] = row[p]
      BY <1>3, <3>2, <3>4
    <3>6. texts' = texts
      BY <2>1 DEF OthersMove
    <3> QED
      BY <1>3, <3>3, <3>4, <3>5, <3>6
  <2>2. CASE OthersWrite(o)
    <3>1. texts < MaxTexts /\ texts' = texts + 1
      BY <2>2 DEF OthersWrite
    <3>2. texts + 1 \in Texts
      BY <1>3, <3>1, Bounds DEF Texts
    <3> DEFINE r == [row[o] EXCEPT !.version = @ + 1, !.header = texts + 1]
    <3>3. row' = [row EXCEPT ![o] = r]
      BY <1>3, <2>2 DEF OthersWrite
    <3>4. r \in Row /\ r.version = row[o].version + 1 /\ r.revision = row[o].revision
      BY <1>3, <1>4, <3>2 DEF Row
    <3> HIDE DEF r
    <3>5. /\ row' \in [Orders -> Row \cup {NoRow}] /\ row'[o] = r
          /\ \A p \in Orders \ {o} : row'[p] = row[p]
      BY <1>3, <3>3, <3>4
    <3>6. r.revision <= row[o].revision + 1
      BY <1>4, <3>4
    <3> QED
      BY <3>1, <3>2, <3>4, <3>5, <3>6
  <2> QED
    BY <2>1, <2>2
<1>6. /\ theirs' \in [Orders -> 0..MaxVersion] /\ theirs'[o] = row'[o].version
      /\ \A p \in Orders \ {o} : theirs'[p] = theirs[p]
  <2>1. row'[o].version \in 0..MaxVersion
    BY <1>5, RowParts, Bounds
  <2> QED
    BY <1>2, <1>3, <2>1
<1>7. Elsewhere(o) /\ OthersWrote(o) /\ CommandSays(o)
  BY <1>2, <1>3, <1>5, <1>6 DEF Elsewhere, OthersWrote, CommandSays
<1> QED
  BY <1>2, <1>5, <1>7, OthersStep

(***************************************************************************)
(* The page, action by action                                              *)
(***************************************************************************)
LEMMA Unmoved ==
    ASSUME IInv
    PROVE  /\ page' = page => PageStays
           /\ get' = get => GetStays
           /\ photos' = photos /\ seen' = seen => PhotosStay
           /\ dialog' = dialog => DialogStays
           /\ queue' = queue /\ flight' = flight => QueueStays
           /\ texts \in Texts /\ warned \in BOOLEAN
<1>1. TypeOK
  BY DEF IInv
<1>2. page \in Pages /\ dialog \in Dialogs
  BY <1>1 DEF TypeOK, Pages, Dialogs
<1>3. photos' = photos /\ seen' = seen => PhotosStay
  BY <1>1 DEF IInv, TypeOK, PhotosStay, SeenArePhotos
<1>4. queue' = queue /\ flight' = flight => QueueStays
  BY <1>1 DEF TypeOK, QueueStays
<1> QED
  BY <1>1, <1>2, <1>3, <1>4 DEF TypeOK, PageStays, GetStays, DialogStays

LEMMA ReadyParts ==
    ASSUME IInv, Ready
    PROVE  /\ path # Away /\ (page.id = NoOrder \/ Current # NoRow)
           /\ page.id = NoOrder \/ page.loaded
BY DEF Ready, IInv, FormIsFilled

LEMMA OpensParts ==
    ASSUME IInv, NEW what \in Commands \cup {"line", "remove", "contact", "reload"}, Opens(what),
           what \in Commands => Current # NoRow,
           what = "complete" => Current.revision \in seen[page.id]
    PROVE  DialogStays
<1> DEFINE at == IF what = "complete" THEN Current.version ELSE 0
           d == [what |-> what, stale |-> FALSE, at |-> at]
<1>1. at \in 0..MaxVersion /\ (what = "complete" => at = Current.version)
  <2>1. CASE what = "complete"
    <3>1. Current \in Row
      BY <2>1, CurrentType DEF IInv, Commands
    <3> QED
      BY <2>1, <3>1, RowParts, Bounds
  <2>2. CASE what # "complete"
    BY <2>2, Bounds
  <2> QED
    BY <2>1, <2>2
<1>2. dialog' = d
  BY DEF Opens
<1> HIDE DEF at
<1>3. d \in Dialogs /\ ~d.stale /\ d.what = what /\ d.at = at
  BY <1>1 DEF Dialogs
<1> HIDE DEF d
<1> QED
  BY <1>1, <1>2, <1>3 DEF DialogStays

LEMMA OfferedParts ==
    ASSUME NEW c \in Offered
    PROVE  /\ Current # NoRow /\ c \in Commands
           /\ c = "complete" => Current.revision \in seen[page.id]
<1>1. Current # NoRow
  BY DEF Offered
<1>2. CASE Current.status = "DRAFT"
  BY <1>1, <1>2 DEF Offered, Commands
<1>3. CASE Current.status = "PENDING_DISPATCH"
  BY <1>1, <1>3 DEF Offered, Commands
<1>4. CASE Current.status = "AWAITING_CONFIRMATION"
  BY <1>1, <1>4 DEF Offered, Commands
<1>5. CASE Current.status = "COMPLETED"
  BY <1>1, <1>5 DEF Offered, Commands
<1>6. CASE Current.status \notin {"DRAFT", "PENDING_DISPATCH", "AWAITING_CONFIRMATION", "COMPLETED"}
  BY <1>1, <1>6 DEF Offered
<1> QED
  BY <1>1, <1>2, <1>3, <1>4, <1>5, <1>6

LEMMA EnqueueStep ==
    ASSUME IInv, Ready, NEW kind \in Steps, NEW text \in Texts, Enqueue(kind, text),
           UNCHANGED <<row, photos, path, page, dialog, warned, cache, get, seen, flight, direct,
                       theirs, made>>,
           texts' \in Texts
    PROVE  IInv'
<1>1. queue' \in Seq(Step) /\ queue' # <<>>
  BY EnqueueType DEF IInv
<1>2. path # Away /\ (page.id = NoOrder \/ Current # NoRow)
  BY ReadyParts
<1>3. QueueStays
  BY <1>1, <1>2 DEF QueueStays
<1>4. OrderStays
  BY <1>2 DEF OrderStays
<1> QED
  BY <1>3, <1>4, Unmoved, QuietStep

LEMMA OpensStep ==
    ASSUME IInv, Ready, NEW what \in Commands \cup {"line", "remove", "contact", "reload"}, Opens(what),
           what \in Commands => Current # NoRow,
           what = "complete" => Current.revision \in seen[page.id],
           UNCHANGED <<server, path, page, warned, cache, get, seen, queue, flight, direct, theirs, made>>
    PROVE  IInv'
<1>1. /\ row' = row /\ photos' = photos /\ texts' = texts /\ path' = path /\ page' = page
      /\ warned' = warned /\ cache' = cache /\ get' = get /\ seen' = seen /\ queue' = queue
      /\ flight' = flight /\ direct' = direct /\ theirs' = theirs /\ made' = made
  BY DEF server
<1>2. DialogStays
  BY OpensParts
<1>3. OrderStays
  BY <1>1, ReadyParts DEF OrderStays
<1> QED
  BY <1>1, <1>2, <1>3, Unmoved, QuietStep

LEMMA EditStep ==
    ASSUME IInv, Edit
    PROVE  IInv'
<1>1. TypeOK
  BY DEF IInv
<1>2. /\ page.text \in Texts /\ texts \in Texts /\ 0 \in Texts
      /\ texts < MaxTexts => texts + 1 \in Texts
  BY <1>1, Bounds DEF TypeOK, Texts
<1>3. OnForm \/ OnTabs \/ LinesEditable => Ready
  BY DEF OnForm, OnTabs, LinesEditable
<1>4. CASE Type
  <2>1. /\ row' = row /\ photos' = photos /\ path' = path /\ dialog' = dialog
        /\ warned' = warned /\ cache' = cache /\ get' = get /\ seen' = seen /\ queue' = queue
        /\ flight' = flight /\ direct' = direct /\ theirs' = theirs /\ made' = made
        /\ texts' \in Texts /\ page' = [page EXCEPT !.text = texts + 1] /\ texts + 1 \in Texts
    BY <1>2, <1>4 DEF Type
  <2>2. path # Away /\ (page.id = NoOrder \/ page.loaded)
    BY <1>3, <1>4, ReadyParts DEF Type
  <2>3. PageStays
    BY <1>1, <2>1, <2>2 DEF TypeOK, Pages, PageStays
  <2>4. OrderStays
    BY <2>1, <2>2 DEF OrderStays
  <2> QED
    BY <2>1, <2>3, <2>4, Unmoved, QuietStep
<1>5. CASE Save
  BY <1>2, <1>3, <1>5, EnqueueStep DEF Save, server, screen, Steps, DraftSteps
<1>6. CASE ChangeLine
  <2>1. (IF OnForm THEN "line" ELSE "lateLine") \in Steps
    BY DEF Steps, DraftSteps, LateSteps
  <2> QED
    BY <1>2, <1>3, <1>6, <2>1, EnqueueStep DEF ChangeLine, server, screen
<1>7. CASE OpenRemoval
  BY <1>3, <1>7, OpensStep DEF OpenRemoval, Commands
<1>8. CASE RemoveLine
  <2>1. (IF OnForm THEN "remove" ELSE "lateRemove") \in Steps
    BY DEF Steps, DraftSteps, LateSteps
  <2> QED
    BY <1>2, <1>3, <1>8, <2>1, EnqueueStep DEF RemoveLine, server, screen
<1>9. CASE OpenLineSheet
  BY <1>3, <1>9, OpensStep DEF OpenLineSheet, Commands
<1>10. CASE AddLine
  <2>1. (IF OnForm THEN "add" ELSE "lateAdd") \in Steps
    BY DEF Steps, DraftSteps, LateSteps
  <2> QED
    BY <1>2, <1>3, <1>10, <2>1, EnqueueStep DEF AddLine, server, screen
<1>11. CASE OpenContactSheet
  BY <1>3, <1>11, OpensStep DEF OpenContactSheet, Commands
<1>12. CASE SaveContact
  <2>1. "contact" \in Steps
    BY DEF Steps, LateSteps
  <2> QED
    BY <1>2, <1>3, <1>12, <2>1, EnqueueStep DEF SaveContact, screen
<1> QED
  BY <1>4, <1>5, <1>6, <1>7, <1>8, <1>9, <1>10, <1>11, <1>12 DEF Edit

LEMMA AskStep ==
    ASSUME IInv, path # Away, page.id # NoOrder, NEW resets \in BOOLEAN, Ask(resets),
           dialog' = dialog \/ dialog' = NoDialog,
           UNCHANGED <<server, path, page, warned, cache, seen, queue, flight, direct, theirs, made>>
    PROVE  IInv'
<1>1. /\ row' = row /\ photos' = photos /\ texts' = texts /\ path' = path /\ page' = page
      /\ warned' = warned /\ cache' = cache /\ seen' = seen /\ queue' = queue
      /\ flight' = flight /\ direct' = direct /\ theirs' = theirs /\ made' = made
  BY DEF server
<1>2. GetStays
  BY AskParts, CurrentType DEF IInv, GetStays
<1>3. DialogStays
  <2>1. dialog' = NoDialog => DialogStays
    BY NoDialogType DEF DialogStays, Commands
  <2> QED
    BY <2>1, Unmoved
<1>4. OrderStays
  BY <1>1 DEF OrderStays
<1> QED
  BY <1>1, <1>2, <1>3, <1>4, Unmoved, QuietStep

LEMMA CommandStep ==
    ASSUME IInv, Command
    PROVE  IInv'
<1>1. TypeOK
  BY DEF IInv
<1>2. CASE OpenCommand
  <2>1. PICK c \in Offered \ {"feedback"} : Opens(c)
    BY <1>2 DEF OpenCommand
  <2>2. c \in Commands /\ Current # NoRow /\ (c = "complete" => Current.revision \in seen[page.id])
    BY OfferedParts
  <2> QED
    BY <1>2, <2>1, <2>2, OpensStep DEF OpenCommand
<1>3. CASE \E c \in Commands : Confirm(c)
  <2>1. PICK c \in Commands : Confirm(c)
    BY <1>3
  <2>2. Send(c) /\ Showing(c) /\ Current # NoRow
    BY <2>1 DEF Confirm, Showing, IInv, PageHasItsOrder
  <2> QED
    BY <2>2, SendStep
<1>4. CASE RecordFeedback
  <2>1. Send("feedback") /\ Current # NoRow /\ "feedback" \in Commands
    BY <1>4, OfferedParts DEF RecordFeedback
  <2> QED
    BY <2>1, SendStep
<1>5. CASE Dismiss
  <2>1. /\ row' = row /\ photos' = photos /\ texts' = texts /\ path' = path /\ page' = page
        /\ warned' = warned /\ cache' = cache /\ seen' = seen /\ queue' = queue /\ get' = get
        /\ flight' = flight /\ direct' = direct /\ theirs' = theirs /\ made' = made
        /\ dialog' = NoDialog
    BY <1>5 DEF Dismiss, server
  <2>2. DialogStays
    BY <2>1, NoDialogType DEF DialogStays, Commands
  <2>3. OrderStays
    BY <1>5, <2>1, ReadyParts DEF Dismiss, OrderStays
  <2> QED
    BY <2>1, <2>2, <2>3, Unmoved, QuietStep
<1>6. CASE ReloadForm
  <2>1. OnForm /\ Ready
    BY <1>6 DEF ReloadForm, OnForm
  <2>2. CASE Calm /\ IsDirty(page) /\ Opens("reload") /\ UNCHANGED get
    BY <1>6, <2>1, <2>2, OpensStep DEF ReloadForm, Commands
  <2>3. page.id # NoOrder
    BY <1>6 DEF ReloadForm, IInv, PageHasItsOrder
  <2>4. CASE Ask(TRUE) /\ UNCHANGED dialog
    BY <1>6, <2>1, <2>3, <2>4, AskStep, ReadyParts DEF ReloadForm
  <2> QED
    BY <1>6, <2>2, <2>4 DEF ReloadForm
<1>7. CASE ReloadSheet
  <2>1. page.id # NoOrder /\ path # Away
    BY <1>7, ReadyParts DEF ReloadSheet, IInv, PageHasItsOrder
  <2> QED
    BY <1>7, <2>1, AskStep DEF ReloadSheet
<1>8. CASE UploadConfirmation
  <2>1. /\ row' = row /\ path' = path /\ page' = page /\ texts' = texts /\ dialog' = dialog
        /\ warned' = warned /\ cache' = cache /\ seen' = seen /\ queue' = queue /\ get' = get
        /\ flight' = flight /\ direct' = direct /\ theirs' = theirs /\ made' = made
        /\ Current # NoRow /\ Ready
    BY <1>8 DEF UploadConfirmation, screen, OnTabs, Screen
  <2>2. page.id \in Orders /\ row[page.id] \in Row /\ Current \in Row
    BY <1>1, <2>1, CurrentType DEF IInv, PageHasItsOrder, TypeOK
  <2>3. /\ row[page.id].revision \in 0..MaxVersion
        /\ Current.revision \in 0..MaxVersion
    BY <2>2, RowParts
  <2>7. PICK read \in Current.revision..row[page.id].revision :
           photos' = [photos EXCEPT ![page.id] = @ \cup {read}]
    BY <1>8 DEF UploadConfirmation
  <2>8. read \in 0..MaxVersion
    <3>1. Current.revision \in Int /\ row[page.id].revision \in Int
      BY <2>2, RowParts
    <3> QED
      BY <2>3, <3>1, Bounds, SMT
  <2>4. /\ photos' \in [Orders -> SUBSET (0..MaxVersion)]
        /\ \A o \in Orders : photos[o] \subseteq photos'[o]
    BY <1>1, <2>2, <2>7, <2>8 DEF TypeOK
  <2>5. PhotosStay
    BY <1>1, <2>1, <2>4 DEF IInv, TypeOK, SeenArePhotos, PhotosStay
  <2>6. OrderStays
    BY <2>1, ReadyParts DEF OrderStays
  <2> QED
    BY <2>1, <2>5, <2>6, Unmoved, QuietStep
<1> QED
  BY <1>2, <1>3, <1>4, <1>5, <1>6, <1>7, <1>8 DEF Command

LEMMA AnswerStep ==
    ASSUME IInv, Answer
    PROVE  IInv'
<1>1. TypeOK
  BY DEF IInv
<1>2. CASE StepDone
  <2> DEFINE r == flight.row
  <2>1. /\ row' = row /\ photos' = photos /\ texts' = texts /\ path' = path /\ seen' = seen
        /\ direct' = direct /\ theirs' = theirs /\ made' = made
        /\ flight' = Idle /\ queue' = Tail(queue)
        /\ page' = [page EXCEPT !.saved = @ \/ flight.kind = "save"]
        /\ flight # Idle /\ flight.state = "ok" /\ flight.kind \in Steps
    BY <1>2 DEF StepDone, Sending, server, Steps
  <2>2. flight.kind # "create"
    BY <2>1 DEF Steps, DraftSteps, LateSteps
  <2>3. page.id # NoOrder /\ flight.order = page.id /\ r # NoRow /\ r \in Row /\ queue # <<>>
        /\ Current # NoRow
    BY <1>1, <2>1, <2>2, AnswerParts DEF IInv, PageHasItsOrder, TypeOK
  <2>4. r \in Known(page.id)
    BY <2>1, <2>3 DEF Known, InFlight
  <2>5. PICK d \in {dialog, NoDialog} : SetOrder(r, d, warned)
    BY <1>2 DEF StepDone
  <2>6. /\ CacheTakes(r) /\ get' \in {get, Quiet} /\ dialog' \in {d, NoDialog} /\ warned' = warned
    BY <1>1, <2>3, <2>4, <2>5, SetOrderParts DEF CacheTakes
  <2>7. StepIsOver(r)
    BY <1>1, <2>1, <2>3, StepType DEF StepIsOver
  <2>8. page' \in Pages /\ page'.id = page.id /\ page'.loaded = TRUE
    <3>1. page \in Pages /\ page.loaded = TRUE
      BY <1>1, <2>3 DEF IInv, FormIsFilled, TypeOK, Pages
    <3>2. (page.saved \/ flight.kind = "save") \in BOOLEAN
      BY <3>1 DEF Pages
    <3> QED
      BY <2>1, <3>1, <3>2 DEF Pages
  <2> HIDE DEF r
  <2>9. warned' \in BOOLEAN
    BY <1>1, <2>6 DEF TypeOK
  <2> QED
    BY <2>1, <2>3, <2>6, <2>7, <2>8, <2>9, CacheStep DEF r
<1>3. CASE StepFailed
  <2>1. /\ row' = row /\ photos' = photos /\ texts' = texts /\ path' = path /\ page' = page
        /\ cache' = cache /\ get' = get /\ seen' = seen
        /\ direct' = direct /\ theirs' = theirs /\ made' = made
        /\ flight' = Idle /\ queue' = Tail(queue)
        /\ flight # Idle /\ flight.state \in {"stale", "refused"}
    BY <1>3 DEF StepFailed, server
  <2>2. queue # <<>> /\ queue' \in Seq(Step) /\ path # Away
    BY <1>1, <2>1, StepType DEF TypeOK
  <2>3. QueueStays
    BY <2>1, <2>2 DEF QueueStays, Told
  <2>4. /\ warned' \in BOOLEAN /\ (warned' => warned \/ flight.kind = "save")
        /\ \/ dialog' \in {dialog, NoDialog}
           \/ flight.kind = "contact" /\ dialog' = [dialog EXCEPT !.stale = TRUE]
    BY <1>1, <1>3 DEF StepFailed, TypeOK
  <2>5. flight.kind \in {"save", "contact"} => page.id # NoOrder
    BY <2>1 DEF IInv, PageHasItsOrder
  <2>6. DialogStays
    <3>1. CASE dialog' = NoDialog
      BY <3>1, NoDialogType DEF DialogStays, Commands
    <3>2. CASE page.id # NoOrder /\ dialog' = [dialog EXCEPT !.stale = TRUE]
      BY <1>1, <3>2 DEF TypeOK, Dialogs, DialogStays
    <3> QED
      BY <2>4, <2>5, <3>1, <3>2, Unmoved
  <2>7. OrderStays
    BY <2>1, <2>2 DEF OrderStays
  <2> QED
    BY <2>1, <2>3, <2>4, <2>5, <2>6, <2>7, Unmoved, QuietStep
<1> QED
  BY <1>2, <1>3, CreatedStep DEF Answer

LEMMA HearStep ==
    ASSUME IInv, Hear
    PROVE  IInv'
<1>1. TypeOK
  BY DEF IInv
<1>2. direct # Idle /\ Current # NoRow /\ page.id # NoOrder /\ path # Away
  BY <1>1, CurrentType DEF IInv, PageHasItsOrder, TypeOK, Hear, CommandDone, CommandFailed, Hears
<1>3. CASE CommandDone /\ Unmounts
  BY <1>3, UnmountsStep DEF CommandDone
<1>4. CASE CommandDone /\ ~Unmounts
  <2> DEFINE r == direct.row
  <2>1. /\ row' = row /\ photos' = photos /\ texts' = texts /\ path' = path /\ page' = page
        /\ seen' = seen /\ queue' = queue /\ flight' = flight
        /\ theirs' = theirs /\ made' = made /\ direct' = Idle /\ direct.state = "ok"
    BY <1>4 DEF CommandDone, server, Hears
  <2>2. r # NoRow /\ r \in Row
    BY <1>1, <1>2, <2>1, AnswerParts DEF IInv, PageHasItsOrder
  <2>3. r \in Known(page.id)
    BY <1>2, <2>2 DEF Known, OnPage
  <2>4. PICK d \in {dialog, NoDialog} : SetOrder(r, d, warned)
    BY <1>4 DEF CommandDone
  <2>5. /\ CacheTakes(r) /\ get' \in {get, Quiet} /\ dialog' \in {d, NoDialog} /\ warned' = warned
    BY <1>1, <1>2, <2>2, <2>3, <2>4, SetOrderParts DEF CacheTakes
  <2>6. StepIsOver(r)
    BY <1>1, <2>1 DEF StepIsOver, TypeOK
  <2>7. page' \in Pages /\ page'.id = page.id /\ page'.loaded = TRUE
    BY <1>1, <1>2, <2>1 DEF IInv, FormIsFilled, TypeOK, Pages
  <2> HIDE DEF r
  <2>8. warned' \in BOOLEAN
    BY <1>1, <2>5 DEF TypeOK
  <2> QED
    BY <2>1, <2>2, <2>5, <2>6, <2>7, <2>8, CacheStep
<1>5. CASE CommandFailed
  <2>1. /\ row' = row /\ photos' = photos /\ texts' = texts /\ path' = path /\ page' = page
        /\ cache' = cache /\ get' = get /\ seen' = seen /\ queue' = queue /\ flight' = flight
        /\ theirs' = theirs /\ made' = made /\ direct' = Idle
    BY <1>5 DEF CommandFailed, server
  <2>2. warned' \in BOOLEAN
    BY <1>1, <1>5 DEF CommandFailed, TypeOK
  <2>3. dialog' \in {dialog, NoDialog, [dialog EXCEPT !.stale = TRUE]}
    BY <1>5 DEF CommandFailed
  <2>4. DialogStays
    <3>1. CASE dialog' = NoDialog
      BY <3>1, NoDialogType DEF DialogStays, Commands
    <3>2. CASE dialog' = [dialog EXCEPT !.stale = TRUE]
      BY <1>1, <1>2, <3>2 DEF TypeOK, Dialogs, DialogStays
    <3> QED
      BY <2>3, <3>1, <3>2, Unmoved
  <2>5. OrderStays
    BY <1>2, <2>1 DEF OrderStays
  <2> QED
    BY <1>2, <2>1, <2>2, <2>4, <2>5, Unmoved, QuietStep
<1> QED
  BY <1>3, <1>4, <1>5 DEF Hear

LEMMA CachingStep ==
    ASSUME IInv, Cache
    PROVE  IInv'
<1>1. TypeOK
  BY DEF IInv
<1>2. CASE Refetch
  <2>1. UNCHANGED <<server, path, page, warned, cache, seen, queue, flight, direct, theirs, made>>
        /\ dialog' = dialog
    BY <1>2 DEF Refetch, screen
  <2> QED
    BY <1>2, <2>1, AskStep DEF Refetch
<1>3. CASE OrderArrives
  <2> DEFINE r == get.row
             c == Freshest(Current, r)
  <2>1. /\ row' = row /\ photos' = photos /\ texts' = texts /\ path' = path /\ seen' = seen
        /\ queue' = queue /\ flight' = flight /\ direct' = direct
        /\ theirs' = theirs /\ made' = made /\ get' = Quiet /\ get.state = "answered"
        /\ cache' = [cache EXCEPT ![page.id] = c]
        /\ page' = IF get.resets THEN Reset(Filled(page, c), c) ELSE Filled(page, c)
    BY <1>3 DEF OrderArrives, server
  <2>2. page.id # NoOrder /\ page.id \in Orders /\ r # NoRow /\ r \in Row
    BY <1>1, <2>1, AnswerParts, CurrentType DEF IInv, PageHasItsOrder
  <2>3. r \in Known(page.id)
    BY <2>2 DEF Known, OnPage
  <2>4. Current \in Row \cup {NoRow} /\ c \in Row
    BY <1>1, <2>2, CurrentType, FreshestParts
  <2>5. CacheTakes(r)
    BY <1>1, <2>1, <2>2, <2>3, <2>4 DEF CacheTakes, TypeOK
  <2>6. dialog' \in {dialog, NoDialog} /\ warned' \in BOOLEAN
    BY <1>1, <1>3 DEF OrderArrives, Keeps, TypeOK
  <2>7. StepIsOver(r)
    BY <1>1, <2>1 DEF StepIsOver, TypeOK
  <2> HIDE DEF c
  <2>8. page' \in Pages /\ page'.id = page.id /\ page'.loaded = TRUE
    <3> DEFINE q == Filled(page, c)
    <3>1. page \in Pages
      BY <1>1 DEF TypeOK, Pages
    <3>2. q \in Pages /\ q.id = page.id /\ q.loaded = TRUE
      BY <2>4, <3>1, FilledParts
    <3>3. page' = Reset(q, c) \/ page' = q
      BY <2>1
    <3> HIDE DEF q
    <3>4. Reset(q, c) \in Pages /\ Reset(q, c).id = page.id /\ Reset(q, c).loaded = TRUE
      BY <2>4, <3>2, ResetParts
    <3> QED
      BY <3>2, <3>3, <3>4
  <2> HIDE DEF r
  <2> QED
    BY <2>1, <2>2, <2>5, <2>6, <2>7, <2>8, CacheStep
<1>4. CASE OrderFails
  <2>1. /\ row' = row /\ photos' = photos /\ texts' = texts /\ path' = path /\ seen' = seen
        /\ cache' = cache /\ queue' = queue /\ flight' = flight /\ direct' = direct
        /\ theirs' = theirs /\ made' = made /\ get.state = "answered"
        /\ page' = page \/ (Current # NoRow /\ page' = Reset(page, Current))
        /\ get' = [Quiet EXCEPT !.state = "failed"]
    BY <1>4 DEF OrderFails, server
  <2>2. page.id # NoOrder /\ path # Away
    BY <2>1 DEF IInv, PageHasItsOrder
  <2>3. dialog' \in {dialog, NoDialog} /\ warned' \in BOOLEAN
    BY <1>1, <1>4 DEF OrderFails, TypeOK
  <2>4. DialogStays
    <3>1. CASE dialog' = NoDialog
      BY <3>1, NoDialogType DEF DialogStays, Commands
    <3> QED
      BY <2>3, <3>1, Unmoved
  <2>5. GetStays
    BY <2>1 DEF GetStays, Gets, Quiet
  <2>6. PageStays
    <3>1. CASE Current # NoRow /\ page' = Reset(page, Current)
      <4>1. page \in Pages /\ Current \in Row /\ page.loaded
        BY <1>1, <2>2, <3>1, CurrentType DEF IInv, FormIsFilled, TypeOK, Pages
      <4>2. page' \in Pages /\ page'.id = page.id /\ page'.loaded = page.loaded
        BY <3>1, <4>1, ResetParts
      <4> QED
        BY <4>1, <4>2 DEF PageStays
    <3> QED
      BY <2>1, <3>1, Unmoved
  <2>7. OrderStays
    BY <2>1, <2>2 DEF OrderStays
  <2> QED
    BY <2>1, <2>2, <2>3, <2>4, <2>5, <2>6, <2>7, Unmoved, QuietStep
<1>5. CASE ReadPhotos
  <2>1. /\ row' = row /\ photos' = photos /\ texts' = texts /\ path' = path /\ page' = page
        /\ dialog' = dialog /\ warned' = warned /\ get' = get
        /\ cache' = cache /\ queue' = queue /\ flight' = flight /\ direct' = direct
        /\ theirs' = theirs /\ made' = made
        /\ seen' = [seen EXCEPT ![page.id] = photos[page.id]]
        /\ Current # NoRow /\ Ready
    BY <1>5 DEF ReadPhotos, server, screen, OnTabs, Screen
  <2>2. page.id \in Orders
    BY <1>1, <2>1, CurrentType
  <2>3. PhotosStay
    BY <1>1, <2>1, <2>2 DEF IInv, TypeOK, SeenArePhotos, PhotosStay
  <2>4. OrderStays
    BY <2>1, ReadyParts DEF OrderStays
  <2> QED
    BY <2>1, <2>3, <2>4, Unmoved, QuietStep
<1> QED
  BY <1>2, <1>3, <1>4, <1>5 DEF Cache

(***************************************************************************)
(* The theorems                                                            *)
(***************************************************************************)
LEMMA ExistingParts ==
    ASSUME NEW status \in Statuses
    PROVE  /\ Existing(status) \in Row /\ Existing(status).version = 2
           /\ Existing(status).revision = 0
BY Bounds DEF Existing, Row

LEMMA InitHolds ==
    ASSUME Init
    PROVE  IInv
<1>1. /\ cache \in {row, [o \in Orders |-> NoRow]}
      /\ page = Filled(Mounted(path), IF path = NoOrder THEN NoRow ELSE cache[path])
      /\ get = IF path = NoOrder THEN Quiet
               ELSE [state |-> "answered", row |-> row[path], resets |-> FALSE]
      /\ photos = [o \in Orders |-> {}] /\ texts = 1 /\ seen = [o \in Orders |-> {}]
      /\ dialog = NoDialog /\ warned = FALSE /\ queue = <<>> /\ flight = Idle /\ direct = Idle
      /\ theirs = [o \in Orders |-> IF row[o] = NoRow THEN 0 ELSE row[o].version]
      /\ made = {}
  BY DEF Init
<1>2. /\ path \in Orders \cup {NoOrder} /\ path # Away
      /\ row \in [Orders -> Row \cup {NoRow}]
      /\ path # NoOrder => row[path] \in Row
      /\ \A o \in Orders : row[o] # NoRow =>
            row[o].version = 2 /\ row[o].revision = 0 /\ row[o] \in Row
  <2>1. CASE path = NoOrder /\ row = [o \in Orders |-> NoRow]
    BY <2>1, MarkersAreNoOrders
  <2>2. ASSUME NEW status \in Starts, path = CHOOSE o \in Orders : TRUE,
               row = [o \in Orders |-> IF o = path THEN Existing(status) ELSE NoRow]
        PROVE  /\ path \in Orders
               /\ row \in [Orders -> Row \cup {NoRow}]
               /\ row[path] \in Row
               /\ \A o \in Orders : row[o] # NoRow =>
                     row[o].version = 2 /\ row[o].revision = 0 /\ row[o] \in Row
    <3>1. path \in Orders
      BY <2>2, ThereIsAnOrder
    <3>2. /\ Existing(status) \in Row /\ Existing(status).version = 2
          /\ Existing(status).revision = 0
      BY <2>2, StartsAreStatuses, ExistingParts
    <3> QED
      BY <2>2, <3>1, <3>2
  <2>3. \/ path = NoOrder /\ row = [o \in Orders |-> NoRow]
        \/ \E status \in Starts :
              /\ path = CHOOSE o \in Orders : TRUE
              /\ row = [o \in Orders |-> IF o = path THEN Existing(status) ELSE NoRow]
    BY DEF Init
  <2>4. CASE \E status \in Starts :
                /\ path = CHOOSE o \in Orders : TRUE
                /\ row = [o \in Orders |-> IF o = path THEN Existing(status) ELSE NoRow]
    <3>1. PICK status \in Starts :
                /\ path = CHOOSE o \in Orders : TRUE
                /\ row = [o \in Orders |-> IF o = path THEN Existing(status) ELSE NoRow]
      BY <2>4
    <3>2. /\ path \in Orders
          /\ row \in [Orders -> Row \cup {NoRow}]
          /\ row[path] \in Row
          /\ \A o \in Orders : row[o] # NoRow =>
                row[o].version = 2 /\ row[o].revision = 0 /\ row[o] \in Row
      BY <2>2, <3>1
    <3> QED
      BY <3>2, MarkersAreNoOrders
  <2> QED
    BY <2>1, <2>3, <2>4
<1>3. /\ cache \in [Orders -> Row \cup {NoRow}]
      /\ \A o \in Orders : cache[o] \in {row[o], NoRow}
  BY <1>1, <1>2
<1>4. /\ page \in Pages /\ page.id = path
      /\ path # NoOrder => (page.loaded <=> cache[path] # NoRow) /\ (page.loaded \/ ~IsDirty(page))
  <2> DEFINE p == Mounted(path)
             c == IF path = NoOrder THEN NoRow ELSE cache[path]
  <2>1. p \in Pages /\ p.id = path /\ ~p.loaded /\ ~IsDirty(p) /\ page = Filled(p, c)
    BY <1>1, <1>2, MountedType
  <2> HIDE DEF p
  <2>2. CASE c = NoRow
    BY <2>1, <2>2 DEF Filled
  <2>3. CASE c # NoRow
    <3>1. path # NoOrder /\ path \in Orders /\ c = cache[path]
      BY <1>2, <2>3
    <3>2. c \in Row
      BY <1>3, <2>3, <3>1
    <3> HIDE DEF c
    <3>3. page \in Pages /\ page.id = path /\ page.loaded = TRUE
      BY <2>1, <3>2, FilledParts
    <3> QED
      BY <2>3, <3>1, <3>3
  <2> QED
    BY <2>2, <2>3
<1>5. Current = IF path = NoOrder THEN NoRow ELSE cache[path]
  BY <1>4 DEF Current
<1>6. get \in Gets /\ (path # NoOrder => get.row = row[path])
      /\ (path = NoOrder => get.state = "none" /\ get.row = NoRow)
  BY <1>1, <1>2, QuietType DEF Gets
<1>7. TypeOK
  <2>1. queue \in Seq(Step) /\ texts \in Texts
    BY <1>1, Bounds, EmptySeq
  <2>2. dialog \in Dialogs
    BY <1>1, NoDialogType
  <2>3. theirs \in [Orders -> 0..MaxVersion]
    <3>1. \A o \in Orders : (IF row[o] = NoRow THEN 0 ELSE row[o].version) \in 0..MaxVersion
      BY <1>2, Bounds
    <3> QED
      BY <1>1, <3>1
  <2>4. photos \in [Orders -> SUBSET (0..MaxVersion)] /\ seen \in [Orders -> SUBSET (0..MaxVersion)]
    BY <1>1
  <2> QED
    BY <1>1, <1>2, <1>3, <1>4, <1>6, <2>1, <2>2, <2>3, <2>4 DEF TypeOK, Pages, Gets, Dialogs
<1>8. \A o \in Orders : Known(o) \subseteq {row[o]} \ {NoRow}
  <2>1. ASSUME NEW o \in Orders
        PROVE  Known(o) \subseteq {row[o]} \ {NoRow}
    <3>1. OnPage(o) \subseteq {row[o], NoRow} /\ InFlight(o) = {}
      BY <1>1, <1>4, <1>6, MarkersAreNoOrders DEF OnPage, InFlight
    <3> QED
      BY <1>3, <3>1 DEF Known
  <2> QED
    BY <2>1
<1>9. SnapshotsArePast /\ SnapshotsAgree /\ RevisionsFollow
  BY <1>2, <1>8 DEF SnapshotsArePast, SnapshotsAgree, RevisionsFollow
<1>10. PageHasItsOrder
  <2>1. path # NoOrder => row[path] # NoRow
    BY <1>2, MarkersAreNoRecords
  <2> QED
    BY <1>1, <1>2, <1>4, <1>6, <2>1, NoDialogType DEF PageHasItsOrder, Commands
<1>11. FormIsFilled /\ OneOrderPerForm
  BY <1>1, <1>4, <1>5 DEF FormIsFilled, OneOrderPerForm
<1>12. SeenArePhotos /\ CompleteWasOffered /\ CompleteFindsItsPhoto
  BY <1>1, NoDialogType
  DEF SeenArePhotos, CompleteWasOffered, CompleteFindsItsPhoto, Showing, Hears
<1>13. TheirsArePast
  BY <1>1, <1>2 DEF TheirsArePast
<1>14. WritesAreKnown /\ QueuedWritesNeverMeetThemselves
  <2>1. path # NoOrder => row[path].version <= theirs[path]
    BY <1>1, <1>2, MarkersAreNoRecords
  <2> QED
    BY <1>1, <1>4, <2>1 DEF WritesAreKnown, QueuedWritesNeverMeetThemselves, Told
<1> QED
  BY <1>7, <1>9, <1>10, <1>11, <1>12, <1>13, <1>14 DEF IInv

LEMMA StutterHolds ==
    ASSUME IInv, UNCHANGED vars
    PROVE  IInv'
<1>1. /\ row' = row /\ photos' = photos /\ texts' = texts /\ path' = path /\ page' = page
      /\ cache' = cache /\ get' = get /\ seen' = seen /\ dialog' = dialog /\ warned' = warned
      /\ queue' = queue /\ flight' = flight /\ direct' = direct
      /\ theirs' = theirs /\ made' = made
  BY DEF vars
<1>2. TypeOK' /\ OneOrderPerForm'
  BY <1>1 DEF IInv, TypeOK, OneOrderPerForm
<1>3. SnapshotsArePast' /\ SnapshotsAgree' /\ RevisionsFollow'
  BY <1>1 DEF IInv, SnapshotsArePast, SnapshotsAgree, RevisionsFollow, Known, OnPage, InFlight
<1>4. PageHasItsOrder' /\ FormIsFilled'
  BY <1>1 DEF IInv, PageHasItsOrder, FormIsFilled, Current
<1>5. SeenArePhotos' /\ CompleteWasOffered' /\ CompleteFindsItsPhoto'
  BY <1>1
  DEF IInv, SeenArePhotos, CompleteWasOffered, CompleteFindsItsPhoto, Showing, Hears, Current
<1>6. TheirsArePast' /\ WritesAreKnown' /\ QueuedWritesNeverMeetThemselves'
  BY <1>1
  DEF IInv, TheirsArePast, WritesAreKnown, QueuedWritesNeverMeetThemselves, Told, Current
<1> QED
  BY <1>2, <1>3, <1>4, <1>5, <1>6 DEF IInv

LEMMA StepHolds ==
    ASSUME IInv, [Next]_vars
    PROVE  IInv'
<1>1. CASE Leave
  BY <1>1, UnmountsStep DEF Leave
<1>2. CASE Others
  BY <1>2, OthersActStep DEF Others
<1> QED
  BY <1>1, <1>2, EditStep, CommandStep, StartStep, AnswerStep, HearStep, CachingStep, StutterHolds
  DEF Next

\* What the page, the queue and a command in flight know of an order is a row
\* it had, and what they do not know was written by others.
THEOREM Invariant == Spec => []IInv
<1>1. Init => IInv
  BY InitHolds
<1>2. IInv /\ [Next]_vars => IInv'
  BY StepHolds
<1> QED
  BY <1>1, <1>2, PTL DEF Spec

\* Every variable keeps its type.
THEOREM TypeCorrect == Spec => []TypeOK
<1>1. IInv => TypeOK
  BY DEF IInv
<1> QED
  BY <1>1, Invariant, PTL

\* A write of the queue is refused as stale only where something else than
\* the queue wrote the order after the version it carries.
THEOREM QueueNeverMeetsItself == Spec => []QueuedWritesNeverMeetThemselves
<1>1. IInv => QueuedWritesNeverMeetThemselves
  BY DEF IInv
<1> QED
  BY <1>1, Invariant, PTL

\* However often lines are added and the draft is saved, one form makes the
\* one order it shows.
THEOREM FormMakesOneOrder == Spec => []OneOrderPerForm
<1>1. IInv => OneOrderPerForm
  BY DEF IInv
<1> QED
  BY <1>1, Invariant, PTL

\* A completion offered with a photo of the revision finds that photo, unless
\* the order was written while the sheet was open.
THEOREM CompletionFindsItsPhoto == Spec => []CompleteFindsItsPhoto
<1>1. IInv => CompleteFindsItsPhoto
  BY DEF IInv
<1> QED
  BY <1>1, Invariant, PTL

TypedStays ==
    path # Away /\ path' # Away /\ IsDirty(page) =>
       \/ page'.text = page.text
       \/ texts' # texts
       \/ get.resets
       \/ page.id # page'.id

LEMMA TypedStaysStep ==
    ASSUME IInv, [Next]_vars
    PROVE  TypedStays
<1>1. TypeOK /\ page \in Pages
  BY DEF IInv, TypeOK, Pages
<1>2. SUFFICES ASSUME path' # Away, IsDirty(page), page'.text # page.text
               PROVE  texts' # texts \/ get.resets \/ page.id # page'.id
  BY DEF TypedStays
<1>3. ~Unmounts /\ page' # page
  BY <1>2 DEF Unmounts
<1>4. CASE Edit
  <2>1. Type
    BY <1>3, <1>4
    DEF Edit, Save, ChangeLine, OpenRemoval, RemoveLine, OpenLineSheet, AddLine, OpenContactSheet,
        SaveContact, screen
  <2>2. texts \in Int /\ texts' = texts + 1
    BY <1>1, <2>1, Bounds DEF Type, TypeOK, Texts
  <2> QED
    BY <2>2
<1>5. ~Command
  BY <1>3
  DEF Command, OpenCommand, Confirm, RecordFeedback, Send, Dismiss, ReloadForm, ReloadSheet,
      UploadConfirmation, screen
<1>6. CASE Answer
  <2>1. CASE Created
    <3>1. page.id = NoOrder /\ flight.order # NoOrder /\ flight.row \in Row
      BY <1>1, <2>1, AnswerParts DEF IInv, PageHasItsOrder, Created, Sending
    <3>2. page'.id = flight.order
      <4> DEFINE p == [page EXCEPT !.id = flight.order]
                 q == Filled(p, flight.row)
      <4>1. p \in Pages /\ p.id = flight.order
        BY <1>1, <2>1, AnswerParts DEF Created, Sending, Pages
      <4>2. q \in Pages /\ q.id = flight.order
        BY <3>1, <4>1, FilledParts
      <4>3. \E b : page' = [q EXCEPT !.saved = b]
        BY <2>1 DEF Created
      <4> HIDE DEF q
      <4> QED
        BY <4>2, <4>3 DEF Pages
    <3> QED
      BY <3>1, <3>2
  <2>2. CASE StepDone
    <3>1. page'.text = page.text
      BY <1>1, <2>2 DEF StepDone, Pages
    <3> QED
      BY <1>2, <3>1
  <2>3. ~StepFailed
    BY <1>3 DEF StepFailed
  <2> QED
    BY <1>6, <2>1, <2>2, <2>3 DEF Answer
<1>7. ~Hear
  BY <1>3 DEF Hear, CommandDone, CommandFailed
<1>8. CASE Cache
  <2>1. CASE OrderArrives
    <3> DEFINE c == Freshest(Current, get.row)
    <3>1. page.id # NoOrder /\ get.row \in Row /\ Current \in Row \cup {NoRow}
      BY <1>1, <2>1, AnswerParts, CurrentType DEF OrderArrives, IInv, PageHasItsOrder
    <3>2. page.loaded
      BY <1>2, <3>1 DEF IInv, FormIsFilled
    <3>3. Filled(page, c) = page
      BY <3>2 DEF Filled
    <3>4. get.resets \/ page' = Filled(page, c)
      BY <2>1 DEF OrderArrives
    <3> QED
      BY <1>3, <3>3, <3>4
  <2>2. CASE OrderFails
    BY <1>3, <2>2 DEF OrderFails
  <2>3. ~Refetch /\ ~ReadPhotos
    BY <1>3 DEF Refetch, ReadPhotos, screen
  <2> QED
    BY <1>8, <2>1, <2>2, <2>3 DEF Cache
<1>9. ~Start /\ ~Others /\ ~Leave /\ vars' # vars
  BY <1>3 DEF Start, Others, OthersMove, OthersWrite, Leave, screen, vars
<1> QED
  BY <1>4, <1>5, <1>6, <1>7, <1>8, <1>9 DEF Next

\* Text typed into the form stays there until the user types again, reloads,
\* or the draft it belongs to is created.
THEOREM TypedTextStays == Spec => UnsavedTextSurvives
<1>1. IInv /\ [Next]_vars => [TypedStays]_vars
  BY TypedStaysStep
<1>2. [][TypedStays]_vars => UnsavedTextSurvives
  BY PTL DEF UnsavedTextSurvives, TypedStays
<1> QED
  BY <1>1, <1>2, Invariant, PTL DEF Spec
=============================================================================
