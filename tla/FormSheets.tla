------------------------------ MODULE FormSheets ------------------------------
(***************************************************************************)
(* The pages of the master data: a list in the query cache, a sheet with a *)
(* form over one of its rows, commands that carry the version of the row.  *)
(*                                                                         *)
(* Seven screens share one protocol: employees, products, services,        *)
(* customers, product and service groups, departments, gifts of customers. *)
(* They differ in what a sheet does with an answer; those differences are  *)
(* the operators under "The screens".  One user works on one record while  *)
(* others write the same row.  What a field contains is abstracted to the  *)
(* version that last wrote it, so "the form shows what is stored" is an    *)
(* equality.                                                               *)
(*                                                                         *)
(* The backend takes the row lock, compares the version, writes and        *)
(* commits in one transaction: one step here.                              *)
(*                                                                         *)
(* Operators named Mut... are plausible bugs of the definition that        *)
(* follows them; no specification uses them.                               *)
(***************************************************************************)
EXTENDS Integers, Sequences

CONSTANTS
    Kinds,          \* the screens considered
    Capabilities,   \* what the user may do: subsets of {"read", "manage"}
    MaxVersion,     \* bound on the version of the row
    NoRow,          \* no record
    Failed,         \* the list could not be fetched
    Closed,         \* no sheet is open
    Idle            \* no request is in flight

AllKinds == {"employee", "product", "service", "customer", "group", "department", "gift"}

ASSUME KindsAreKnown == Kinds \subseteq AllKinds
ASSUME CapabilitiesAreKnown == Capabilities \subseteq SUBSET {"read", "manage"}
ASSUME MaxVersionIsPositive == MaxVersion \in Nat \ {0}

\* info and roles: the version that last wrote that part of the record.
Row == [version : 1..MaxVersion, active : BOOLEAN, info : 1..MaxVersion, roles : 1..MaxVersion]

ASSUME MarkersAreNoRows == NoRow \notin Row /\ Failed \notin Row /\ NoRow # Failed

\* An open sheet: the record it works on, the version a save was refused for,
\* and what its fields were filled from.
OpenSheet == [copy : Row \cup {NoRow}, stale : 0..MaxVersion,
              info : 0..MaxVersion, roles : 0..MaxVersion]

\* A command on its way to the server, or its answer on the way back.
Request ==
    [command : {"create", "update", "roles", "reset", "deactivate", "activate", "image"},
     version : 0..MaxVersion, state : {"sent", "ok", "stale", "refused"},
     row : Row \cup {NoRow}, info : 0..MaxVersion, roles : 0..MaxVersion,
     rest : {<<>>, <<"roles">>}, from : Row \cup {NoRow}, mine : BOOLEAN]

ASSUME MarkersAreNoRecords == Closed \notin OpenSheet /\ Idle \notin Request

VARIABLES
    kind,       \* the screen
    may,        \* capabilities of the user, as /me answered them
    row,        \* the record in the database
    list,       \* the record in the query cache, Failed when the last fetch failed
    fetch,      \* the fetch of the list
    sheet,      \* the open sheet
    dialog,     \* the command a confirm dialog asks about
    target,     \* the row the dialog of the departments page is about
    flight,     \* the request in flight on each channel
    disturbed   \* history: what may have come between the open sheet and the row

vars == <<kind, may, row, list, fetch, sheet, dialog, target, flight, disturbed>>

(***************************************************************************)
(* The screens.  For each of them                                          *)
(*   Page    the capability that shows the page, and that offers a new     *)
(*           record                                                        *)
(*   List    the capability that opens a record, and whether the list      *)
(*           itself offers to toggle one                                   *)
(*   Api     which commands there are; the success of each but an upload   *)
(*           invalidates the list                                          *)
(*   Form    the parts of the record its fields are filled from; whoever   *)
(*           may not manage reads them, where there is anything to read    *)
(*   Submit  the commands one save may send, one after the other, and what *)
(*           becomes of the sheet after a record was created or saved      *)
(*   Sheet   what its confirm dialogs offer for an active and an inactive  *)
(*           record, the channels that keep it from being dismissed while  *)
(*           a request is in flight, whether "Tai lai" (reload) asks for   *)
(*           the list again before it closes the sheet, and what an upload *)
(*           ends in                                                       *)
(***************************************************************************)
None == [active |-> {}, inactive |-> {}]
Toggle == [active |-> {"deactivate"}, inactive |-> {"activate"}]

EmployeesPage == [shows |-> "read", creates |-> "manage"]
EmployeesList == [opens |-> "read", toggles |-> FALSE]
EmployeesApi == {"create", "update", "roles", "deactivate", "activate", "reset"}
EmployeeForm == {"info", "roles"}
EmployeeSubmit ==
    [sends |-> {<<"update">>, <<"roles">>, <<"update", "roles">>},
     created |-> {"closes"}, updated |-> {"closes"}]
EmployeeSheet ==
    [dialogs |-> [active |-> {"deactivate", "reset"}, inactive |-> {"activate", "reset"}],
     holds |-> {"save", "confirm"}, reloadRefetches |-> TRUE, upload |-> "none"]

ProductsPage == [shows |-> "read", creates |-> "manage"]
ProductsList == [opens |-> "read", toggles |-> FALSE]
ProductsApi == {"create", "update", "deactivate", "activate", "image"}
ProductForm == {"info"}
ProductImage == "workingCopy"
ProductSubmit == [sends |-> {<<"update">>}, created |-> {"closes"}, updated |-> {"closes"}]
ProductSheet ==
    [dialogs |-> Toggle, holds |-> {"save", "confirm", "upload"}, reloadRefetches |-> TRUE,
     upload |-> ProductImage]

ServicesPage == [shows |-> "read", creates |-> "manage"]
ServicesList == [opens |-> "read", toggles |-> FALSE]
ServicesApi == {"create", "update", "deactivate", "activate"}
ServiceForm == {"info"}
ServiceSubmit == [sends |-> {<<"update">>}, created |-> {"closes"}, updated |-> {"closes"}]
ServiceSheet ==
    [dialogs |-> Toggle, holds |-> {"save", "confirm"}, reloadRefetches |-> TRUE, upload |-> "none"]

\* The sheet of a customer stays open when it has to show who else has that
\* telephone number.
CustomersPage == [shows |-> "read", creates |-> "manage"]
CustomersList == [opens |-> "read", toggles |-> FALSE]
CustomersApi == {"create", "update"}
CustomerForm == {"info"}
CustomerSubmit ==
    [sends |-> {<<"update">>}, created |-> {"closes", "stays"}, updated |-> {"closes", "stays"}]
CustomerSheet ==
    [dialogs |-> None, holds |-> {"save"}, reloadRefetches |-> TRUE, upload |-> "none"]

GroupsPage == [shows |-> "read", creates |-> "manage"]
GroupsList == [opens |-> "read", toggles |-> FALSE]
GroupsApi == {"create", "update", "deactivate", "activate"}
GroupForm == {"info"}
GroupSubmit == [sends |-> {<<"update">>}, created |-> {"closes"}, updated |-> {"closes"}]
GroupSheet ==
    [dialogs |-> Toggle, holds |-> {"save", "confirm"}, reloadRefetches |-> FALSE, upload |-> "none"]

\* A department is toggled by a dialog of the page: it opens from the list, and
\* from the sheet, which it closes.
DepartmentsPage == [shows |-> "manage", creates |-> "manage"]
DepartmentsList == [opens |-> "manage", toggles |-> TRUE]
DepartmentsApi == {"create", "update", "deactivate", "activate"}
DepartmentSubmit == [sends |-> {<<"update">>}, created |-> {"closes"}, updated |-> {"closes"}]
DepartmentForm == {"info"}
DepartmentSheet ==
    [dialogs |-> None, holds |-> {"save"}, reloadRefetches |-> FALSE, upload |-> "none"]

\* The sheet of a gift stays open for its photos, which are rows of their own.
GiftsPage == [shows |-> "read", creates |-> "manage"]
GiftsList == [opens |-> "manage", toggles |-> FALSE]
GiftsApi == {"create", "update", "photo"}
GiftForm == {"info"}
GiftPhotos == "photos"
GiftSubmit == [sends |-> {<<"update">>}, created |-> {"stays"}, updated |-> {"stays"}]
GiftSheet ==
    [dialogs |-> None, holds |-> {"save"}, reloadRefetches |-> FALSE, upload |-> GiftPhotos]

Screen ==
    [employee   |-> [page |-> EmployeesPage, list |-> EmployeesList, api |-> EmployeesApi,
                     form |-> EmployeeForm, submit |-> EmployeeSubmit, sheet |-> EmployeeSheet],
     product    |-> [page |-> ProductsPage, list |-> ProductsList, api |-> ProductsApi,
                     form |-> ProductForm, submit |-> ProductSubmit, sheet |-> ProductSheet],
     service    |-> [page |-> ServicesPage, list |-> ServicesList, api |-> ServicesApi,
                     form |-> ServiceForm, submit |-> ServiceSubmit, sheet |-> ServiceSheet],
     customer   |-> [page |-> CustomersPage, list |-> CustomersList, api |-> CustomersApi,
                     form |-> CustomerForm, submit |-> CustomerSubmit, sheet |-> CustomerSheet],
     group      |-> [page |-> GroupsPage, list |-> GroupsList, api |-> GroupsApi,
                     form |-> GroupForm, submit |-> GroupSubmit, sheet |-> GroupSheet],
     department |-> [page |-> DepartmentsPage, list |-> DepartmentsList, api |-> DepartmentsApi,
                     form |-> DepartmentForm, submit |-> DepartmentSubmit, sheet |-> DepartmentSheet],
     gift       |-> [page |-> GiftsPage, list |-> GiftsList, api |-> GiftsApi,
                     form |-> GiftForm, submit |-> GiftSubmit, sheet |-> GiftSheet]]

Page == Screen[kind].page
List == Screen[kind].list
Submit == Screen[kind].submit
Sheet == Screen[kind].sheet

(***************************************************************************)
(* What the user has open                                                  *)
(***************************************************************************)
Channels == {"save", "confirm", "upload"}
IsOpen == sheet # Closed
NoDialog == dialog = "none"

\* The working copy is NoRow while a new record is being written; what the
\* fields were filled from is remembered next to it.
Opened(r) == [copy |-> r, stale |-> 0,
              info |-> IF r = NoRow THEN 0 ELSE r.info,
              roles |-> IF r = NoRow \/ "roles" \notin Screen[kind].form THEN 0 ELSE r.roles]

ReadOnly == sheet.copy # NoRow /\ "manage" \notin may

\* The row a confirmed command is for.
Confirmed == IF List.toggles THEN target ELSE sheet.copy

\* A request of the sheet that is open now: the sheet of an older one is gone,
\* what its component still does to itself has no effect.
Mine(ch) == flight[ch] # Idle /\ flight[ch].mine

Orphaned == [ch \in Channels |->
                IF flight[ch] = Idle THEN Idle ELSE [flight[ch] EXCEPT !.mine = FALSE]]

(***************************************************************************)
(* The list                                                                *)
(***************************************************************************)
NoFetch == [state |-> "none", row |-> NoRow]
Asked == [state |-> "asked", row |-> NoRow]

\* invalidateQueries: a fetch that is in flight is cancelled and asked again.
Invalidate == fetch' = Asked

\* The network comes back, the page is mounted, a filter changes, "Thu lai".
Refetch ==
    /\ fetch.state = "none"
    /\ fetch' = Asked
    /\ UNCHANGED <<kind, may, row, list, sheet, dialog, target, flight, disturbed>>

ReadList ==
    /\ fetch.state = "asked"
    /\ fetch' = [state |-> "answered", row |-> row]
    /\ UNCHANGED <<kind, may, row, list, sheet, dialog, target, flight, disturbed>>

ListArrives ==
    /\ fetch.state = "answered"
    /\ list' = fetch.row
    /\ fetch' = NoFetch
    /\ UNCHANGED <<kind, may, row, sheet, dialog, target, flight, disturbed>>

\* No retry: the page shows the error, and rows only after another fetch.
ListFails ==
    /\ fetch.state # "none"
    /\ list' = Failed
    /\ fetch' = NoFetch
    /\ UNCHANGED <<kind, may, row, sheet, dialog, target, flight, disturbed>>

(***************************************************************************)
(* Opening and closing a sheet                                             *)
(***************************************************************************)
Shown == list \in Row /\ Page.shows \in may

OpenNew ==
    /\ Page.shows \in may
    /\ Page.creates \in may
    /\ row = NoRow
    /\ ~IsOpen /\ NoDialog
    /\ sheet' = Opened(NoRow)
    /\ disturbed' = {}
    /\ UNCHANGED <<kind, may, row, list, fetch, dialog, target, flight>>

OpenRow ==
    /\ Shown
    /\ List.opens \in may
    /\ ~IsOpen /\ NoDialog
    /\ sheet' = Opened(list)
    /\ disturbed' = IF list = row THEN {} ELSE {"opened stale"}
    /\ UNCHANGED <<kind, may, row, list, fetch, dialog, target, flight>>

\* Escape, the overlay, the cross.
Dismiss ==
    /\ IsOpen /\ NoDialog
    /\ \A ch \in Sheet.holds : ~Mine(ch)
    /\ sheet' = Closed
    /\ flight' = Orphaned
    /\ UNCHANGED <<kind, may, row, list, fetch, dialog, target, disturbed>>

\* "Tai lai", offered in the place of "Luu" once a save was refused as stale.
Reload ==
    /\ IsOpen /\ NoDialog
    /\ sheet.stale # 0
    /\ IF Sheet.reloadRefetches THEN Invalidate ELSE UNCHANGED fetch
    /\ sheet' = Closed
    /\ flight' = Orphaned
    /\ UNCHANGED <<kind, may, row, list, dialog, target, disturbed>>

(***************************************************************************)
(* Sending                                                                 *)
(***************************************************************************)
\* Nothing else of the sheet can be reached while a dialog is open over it.
CanEdit == IsOpen /\ NoDialog /\ ~ReadOnly

\* rest: what one save sends after this command; from: the working copy that
\* the callback of the request has closed over.
Sends(ch, command, version, rest) ==
    flight' = [flight EXCEPT ![ch] =
        [command |-> command, version |-> version, state |-> "sent", row |-> NoRow,
         info |-> IF IsOpen THEN sheet.info ELSE 0, roles |-> IF IsOpen THEN sheet.roles ELSE 0,
         rest |-> rest, from |-> IF IsOpen THEN sheet.copy ELSE NoRow, mine |-> IsOpen]]

Create ==
    /\ CanEdit
    /\ sheet.copy = NoRow
    /\ row = NoRow
    /\ flight["save"] = Idle
    /\ "create" \in Screen[kind].api
    /\ Sends("save", "create", 0, <<>>)
    /\ sheet' = [sheet EXCEPT !.stale = 0]
    /\ UNCHANGED <<kind, may, row, list, fetch, dialog, target, disturbed>>

Save ==
    /\ CanEdit
    /\ sheet.copy # NoRow
    /\ sheet.stale = 0
    /\ flight["save"] = Idle
    /\ \E parts \in Submit.sends :
          Sends("save", Head(parts), sheet.copy.version, Tail(parts))
    /\ UNCHANGED <<kind, may, row, list, fetch, sheet, dialog, target, disturbed>>

\* The image of a product, a photo of a gift.
Upload ==
    /\ CanEdit
    /\ sheet.copy # NoRow
    /\ Sheet.upload # "none"
    /\ flight["upload"] = Idle
    /\ Sends("upload", "image", 0, <<>>)
    /\ UNCHANGED <<kind, may, row, list, fetch, sheet, dialog, target, disturbed>>

\* A button of the sheet asks for a confirmation.
AskInSheet ==
    /\ CanEdit
    /\ sheet.copy # NoRow
    /\ ~List.toggles
    /\ \E command \in IF sheet.copy.active THEN Sheet.dialogs.active ELSE Sheet.dialogs.inactive :
          dialog' = command
    /\ UNCHANGED <<kind, may, row, list, fetch, sheet, target, flight, disturbed>>

\* The departments page asks about a row of the list, or about the one in the
\* sheet, which it closes, whatever the sheet is waiting for.
AskOnPage ==
    /\ List.toggles
    /\ NoDialog
    /\ \/ ~IsOpen /\ Shown /\ target' = list
       \/ CanEdit /\ sheet.copy # NoRow /\ target' = sheet.copy
    /\ dialog' = IF target'.active THEN "deactivate" ELSE "activate"
    /\ sheet' = Closed
    /\ flight' = Orphaned
    /\ UNCHANGED <<kind, may, row, list, fetch, disturbed>>

Confirm ==
    /\ ~NoDialog
    /\ flight["confirm"] = Idle
    /\ Sends("confirm", dialog, Confirmed.version, <<>>)
    /\ UNCHANGED <<kind, may, row, list, fetch, sheet, dialog, target, disturbed>>

CancelDialog ==
    /\ ~NoDialog
    /\ flight["confirm"] = Idle
    /\ dialog' = "none"
    /\ target' = NoRow
    /\ UNCHANGED <<kind, may, row, list, fetch, sheet, flight, disturbed>>

(***************************************************************************)
(* The server                                                              *)
(***************************************************************************)
\* What a versioned command makes of the row; a toggle is refused when the row
\* is in that state already.
Applies(command, r) ==
    /\ command = "deactivate" => r.active
    /\ command = "activate" => ~r.active

MutUpdateKeepsVersion(command, r) ==
    [version |-> IF command = "update" THEN r.version ELSE r.version + 1,
     active |-> CASE command = "deactivate" -> FALSE [] command = "activate" -> TRUE
                  [] OTHER -> r.active,
     info |-> IF command = "update" THEN (r.info % MaxVersion) + 1 ELSE r.info,
     roles |-> IF command = "roles" THEN r.version + 1 ELSE r.roles]

MutToggleKeepsVersion(command, r) ==
    [version |-> IF command \in {"update", "roles", "reset"} THEN r.version + 1 ELSE r.version,
     active |-> CASE command = "deactivate" -> FALSE [] command = "activate" -> TRUE
                  [] OTHER -> r.active,
     info |-> IF command = "update" THEN r.version + 1 ELSE r.info,
     roles |-> IF command = "roles" THEN r.version + 1 ELSE r.roles]

Written(command, r) ==
    LET v == r.version + 1
    IN  [version |-> v,
         active |-> CASE command = "deactivate" -> FALSE [] command = "activate" -> TRUE
                      [] OTHER -> r.active,
         info |-> IF command = "update" THEN v ELSE r.info,
         roles |-> IF command = "roles" THEN v ELSE r.roles]

Answers(ch, state, r) == flight' = [flight EXCEPT ![ch].state = state, ![ch].row = r]

\* _locked compares the versions under the row lock.
ExecuteVersioned(ch) ==
    /\ flight[ch] # Idle /\ flight[ch].state = "sent"
    /\ flight[ch].command \notin {"create", "image"}
    /\ \/ /\ flight[ch].version = row.version
          /\ row.version < MaxVersion
          /\ Applies(flight[ch].command, row)
          /\ row' = Written(flight[ch].command, row)
          /\ Answers(ch, "ok", row')
          /\ disturbed' = IF IsOpen /\ ~Mine(ch) THEN disturbed \cup {"others"} ELSE disturbed
       \/ /\ flight[ch].version # row.version
          /\ UNCHANGED <<row, disturbed>>
          /\ Answers(ch, "stale", NoRow)
    /\ UNCHANGED <<kind, may, list, fetch, sheet, dialog, target>>

\* A name that is taken, the last manager, a field that is not valid.
ExecuteRefuses(ch) ==
    /\ flight[ch] # Idle /\ flight[ch].state = "sent"
    /\ flight[ch].command \notin {"image"}
    /\ Answers(ch, "refused", NoRow)
    /\ UNCHANGED <<kind, may, row, list, fetch, sheet, dialog, target, disturbed>>

\* Renaming a department to the name it has keeps the version.
ExecuteNoChange ==
    /\ kind = "department"
    /\ flight["save"] # Idle /\ flight["save"].state = "sent"
    /\ flight["save"].command = "update"
    /\ flight["save"].version = row.version
    /\ flight["save"].info = row.info
    /\ Answers("save", "ok", row)
    /\ UNCHANGED <<kind, may, row, list, fetch, sheet, dialog, target, disturbed>>

ExecuteCreate ==
    /\ flight["save"] # Idle /\ flight["save"].state = "sent"
    /\ flight["save"].command = "create"
    /\ row = NoRow
    /\ row' = [version |-> 1, active |-> TRUE, info |-> 1, roles |-> 1]
    /\ Answers("save", "ok", row')
    /\ UNCHANGED <<kind, may, list, fetch, sheet, dialog, target, disturbed>>

\* An image is stored under the row whatever its version, which stays.
ExecuteUpload ==
    /\ flight["upload"] # Idle /\ flight["upload"].state = "sent"
    /\ \/ Answers("upload", "ok", NoRow)
       \/ Answers("upload", "refused", NoRow)
    /\ UNCHANGED <<kind, may, row, list, fetch, sheet, dialog, target, disturbed>>

\* Somebody else, from another device.
Elsewhere ==
    /\ row # NoRow
    /\ row.version < MaxVersion
    /\ \E command \in {"update", "roles", "deactivate", "activate"} :
          /\ command \in Screen[kind].api
          /\ Applies(command, row)
          /\ row' = Written(command, row)
    /\ disturbed' = IF IsOpen THEN disturbed \cup {"others"} ELSE disturbed
    /\ UNCHANGED <<kind, may, list, fetch, sheet, dialog, target, flight>>

(***************************************************************************)
(* Answers                                                                 *)
(***************************************************************************)
Free(ch) == flight' = [flight EXCEPT ![ch] = Idle]

\* onClose of the page that opened the sheet: whatever is open is closed.
SheetGone ==
    /\ sheet' = Closed
    /\ dialog' = IF List.toggles THEN dialog ELSE "none"

\* The working copy of the sheet the request came from.
Holds(r) == sheet' = [Opened(r) EXCEPT !.stale = sheet.stale]

MutSaveKeepsVersion ==
    LET f == flight["save"]
    IN  /\ f # Idle /\ f.state = "ok"
        /\ f.rest # <<>>
        /\ Sends("save", Head(f.rest), f.row.version, Tail(f.rest))
        /\ Invalidate
        /\ UNCHANGED <<kind, may, row, list, sheet, dialog, target, disturbed>>

\* The profile of an employee is saved, the roles follow with the new version:
\* those that were chosen on the form, which keeps them.
SaveGoesOn ==
    LET f == flight["save"]
    IN  /\ f # Idle /\ f.state = "ok"
        /\ f.rest # <<>>
        /\ sheet' = [Opened(f.row) EXCEPT !.stale = sheet.stale, !.roles = sheet.roles]
        /\ flight' = [flight EXCEPT !["save"] =
              [f EXCEPT !.command = Head(f.rest), !.version = f.row.version, !.state = "sent",
                        !.row = NoRow, !.info = f.row.info, !.rest = Tail(f.rest), !.from = f.row]]
        /\ Invalidate
        /\ UNCHANGED <<kind, may, row, list, dialog, target, disturbed>>

SaveSucceeds ==
    LET f == flight["save"]
    IN  /\ f # Idle /\ f.state = "ok"
        /\ f.rest = <<>>
        /\ \E next \in IF f.command = "create" THEN Submit.created ELSE Submit.updated :
              \/ /\ next = "closes"
                 /\ SheetGone
                 /\ flight' = [Orphaned EXCEPT !["save"] = Idle]
              \/ /\ next = "stays"
                 /\ IF Mine("save") THEN Holds(f.row) ELSE UNCHANGED sheet
                 /\ UNCHANGED dialog
                 /\ Free("save")
        /\ Invalidate
        /\ UNCHANGED <<kind, may, row, list, target, disturbed>>

\* The message stays in the sheet; only a stale version offers to reload.
SaveFails ==
    LET f == flight["save"]
    IN  /\ f # Idle /\ f.state \in {"stale", "refused"}
        /\ sheet' = IF Mine("save") /\ f.state = "stale"
                    THEN [sheet EXCEPT !.stale = f.version] ELSE sheet
        /\ Free("save")
        /\ UNCHANGED <<kind, may, row, list, fetch, dialog, target, disturbed>>

ConfirmSucceeds ==
    /\ flight["confirm"] # Idle /\ flight["confirm"].state = "ok"
    /\ dialog' = IF Mine("confirm") \/ List.toggles THEN "none" ELSE dialog
    /\ target' = NoRow
    /\ IF Mine("confirm")
       THEN /\ sheet' = [sheet EXCEPT !.copy = flight["confirm"].row]
            /\ disturbed' = IF flight["upload"] # Idle THEN disturbed \cup {"crossed"} ELSE disturbed
       ELSE UNCHANGED <<sheet, disturbed>>
    /\ Free("confirm")
    /\ Invalidate
    /\ UNCHANGED <<kind, may, row, list>>

\* The dialog stays and shows why.
ConfirmFails ==
    /\ flight["confirm"] # Idle /\ flight["confirm"].state \in {"stale", "refused"}
    /\ Free("confirm")
    /\ UNCHANGED <<kind, may, row, list, fetch, sheet, dialog, target, disturbed>>

\* A product goes into the working copy as it was when the upload began, with
\* the new image; the photos of a gift are a list of their own.
UploadSucceeds ==
    LET f == flight["upload"]
    IN  /\ f # Idle /\ f.state = "ok"
        /\ IF Sheet.upload = "workingCopy"
           THEN /\ sheet' = IF f.mine THEN [sheet EXCEPT !.copy = f.from] ELSE sheet
                /\ Invalidate
           ELSE UNCHANGED <<sheet, fetch>>
        /\ Free("upload")
        /\ UNCHANGED <<kind, may, row, list, dialog, target, disturbed>>

UploadFails ==
    /\ flight["upload"] # Idle /\ flight["upload"].state = "refused"
    /\ Free("upload")
    /\ UNCHANGED <<kind, may, row, list, fetch, sheet, dialog, target, disturbed>>

\* The request or its answer is lost: nobody knows whether it was executed.
Lose(ch) ==
    /\ flight[ch] # Idle
    /\ Free(ch)
    /\ disturbed' = IF IsOpen /\ flight[ch].state = "ok" THEN disturbed \cup {"lost"} ELSE disturbed
    /\ UNCHANGED <<kind, may, row, list, fetch, sheet, dialog, target>>

(***************************************************************************)
(* Specification                                                           *)
(***************************************************************************)
Init ==
    /\ kind \in Kinds
    /\ may \in Capabilities
    /\ row \in {NoRow, [version |-> 1, active |-> TRUE, info |-> 1, roles |-> 1]}
    /\ list = row
    /\ fetch = NoFetch
    /\ sheet = Closed
    /\ dialog = "none"
    /\ target = NoRow
    /\ flight = [ch \in Channels |-> Idle]
    /\ disturbed = {}

ListStep == Refetch \/ ReadList \/ ListArrives \/ ListFails

UserStep ==
    \/ OpenNew \/ OpenRow \/ Dismiss \/ Reload
    \/ Create \/ Save \/ Upload
    \/ AskInSheet \/ AskOnPage \/ Confirm \/ CancelDialog

ServerStep ==
    \/ \E ch \in Channels : ExecuteVersioned(ch) \/ ExecuteRefuses(ch)
    \/ ExecuteNoChange \/ ExecuteCreate \/ ExecuteUpload
    \/ Elsewhere

AnswerStep ==
    \/ SaveGoesOn \/ SaveSucceeds \/ SaveFails
    \/ ConfirmSucceeds \/ ConfirmFails
    \/ UploadSucceeds \/ UploadFails
    \/ \E ch \in Channels : Lose(ch)

Next == ListStep \/ UserStep \/ ServerStep \/ AnswerStep

Spec == Init /\ [][Next]_vars

(***************************************************************************)
(* Properties                                                              *)
(***************************************************************************)
TypeOK ==
    /\ kind \in Kinds
    /\ may \in Capabilities
    /\ row \in Row \cup {NoRow}
    /\ list \in Row \cup {NoRow, Failed}
    /\ fetch \in [state : {"none", "asked", "answered"}, row : Row \cup {NoRow}]
    /\ sheet \in OpenSheet \cup {Closed}
    /\ dialog \in {"none", "deactivate", "activate", "reset"}
    /\ target \in Row \cup {NoRow}
    /\ flight \in [Channels -> Request \cup {Idle}]
    /\ disturbed \subseteq {"opened stale", "others", "crossed", "lost"}

\* No lost update: a save that the server is about to accept was written over
\* the very content the row has now.
SavesWhatItShowed ==
    LET f == flight["save"]
    IN  f # Idle /\ f.state = "sent" /\ row # NoRow /\ f.version = row.version =>
           /\ f.command = "update" => f.info = row.info
           /\ f.command = "roles" => f.roles = row.roles

\* A confirmed command does what its dialog says: the record the server is
\* about to deactivate is active, the one it is about to activate is not.
ConfirmsWhatItShowed ==
    LET f == flight["confirm"]
    IN  f # Idle /\ f.state = "sent" /\ f.version = row.version => Applies(f.command, row)

QuietSheet == IsOpen /\ sheet.copy # NoRow /\ \A ch \in Channels : flight[ch] = Idle

\* A second command from the same sheet does not fail because of the first: when
\* nobody else wrote, nothing was lost and no upload was overtaken, the sheet
\* holds the row as it is, after a save that went half way too.
OwnWorkIsFresh == QuietSheet /\ disturbed = {} => sheet.copy = row
=============================================================================
