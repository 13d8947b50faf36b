--------------------------- MODULE FormSheetsProofs ---------------------------
(***************************************************************************)
(* Proofs about FormSheets: for every set of screens and capabilities and  *)
(* every bound on the version, a save the server accepts was written over  *)
(* what the row holds, a confirmed command does what its dialog said, and  *)
(* a sheet whose own commands were the only ones holds the row as it is.   *)
(***************************************************************************)
EXTENDS FormSheets, TLAPS

(***************************************************************************)
(* The inductive invariant.  A snapshot of the row (in the cache, in the   *)
(* sheet, in a request) is older than the row or is the row: everything    *)
(* the three properties need from the version rests on that.               *)
(***************************************************************************)
Past(r, w) ==
    r \in Row => /\ w \in Row
                 /\ r.version <= w.version
                 /\ r.version = w.version => r = w

SnapshotsArePast ==
    /\ Past(list, row) /\ Past(fetch.row, row) /\ Past(target, row)
    /\ IsOpen => Past(sheet.copy, row)
    /\ \A ch \in Channels : flight[ch] # Idle => Past(flight[ch].row, row) /\ Past(flight[ch].from, row)

\* The fields show the working copy.
FieldsShowTheCopy ==
    IsOpen /\ sheet.copy # NoRow =>
        /\ sheet.info = sheet.copy.info
        /\ kind = "employee" => sheet.roles = sheet.copy.roles

\* What is on its way on each channel.
SavesAreSaves ==
    LET f == flight["save"]
    IN  f # Idle =>
           /\ f.command \in {"create", "update", "roles"}
           /\ f.command = "create" => f.version = 0
           /\ f.command # "create" =>
                 f.from \in Row /\ f.version = f.from.version /\ f.info = f.from.info
           /\ f.command = "roles" => kind = "employee" /\ f.roles = f.from.roles
           /\ f.rest # <<>> =>
                 kind = "employee" /\ f.command = "update" /\ f.roles = f.from.roles
           /\ kind # "department" \/ (f.command = "create" /\ row = NoRow) => f.mine
           /\ f.mine => IsOpen /\ sheet.stale = 0 /\ (f.command = "create" <=> sheet.copy = NoRow)

ConfirmsAreConfirms ==
    LET f == flight["confirm"]
    IN  f # Idle =>
           /\ f.command \in {"deactivate", "activate", "reset"}
           /\ f.mine => IsOpen /\ sheet.copy # NoRow /\ ~NoDialog /\ kind # "department"
           /\ kind = "department" =>
                 ~NoDialog /\ f.command = dialog /\ f.version = target.version
           /\ kind # "department" =>
                 /\ f.from \in Row /\ f.version = f.from.version
                 /\ Applies(f.command, f.from) \/ f.from.version < row.version

UploadsAreUploads ==
    LET f == flight["upload"]
    IN  f # Idle =>
           /\ f.command = "image" /\ f.state # "stale"
           /\ f.mine => IsOpen /\ sheet.copy # NoRow /\ f.from \in Row

\* A dialog is open over a record its command can still be applied to, or over
\* one the row has left behind.
DialogsAskWhatApplies ==
    ~NoDialog =>
        /\ kind \notin {"customer", "gift"}
        /\ kind = "department" => ~IsOpen /\ target \in Row /\ Applies(dialog, target)
        /\ kind # "department" =>
              /\ IsOpen /\ sheet.copy \in Row
              /\ \/ Applies(dialog, sheet.copy)
                 \/ kind = "product" /\ sheet.copy.version < row.version

\* An answer is the row the command made, one version on; the server accepts a
\* version once.
Commands == {"save", "confirm"}

AnswersAreWritten ==
    kind # "department" =>
        /\ \A ch \in Commands :
              LET f == flight[ch]
              IN  f # Idle /\ f.state = "ok" =>
                     /\ f.version < row.version
                     /\ f.row \in Row /\ f.row.version = f.version + 1
                     /\ f.command # "create" => f.row = Written(f.command, f.from)
        /\ LET f == flight["save"]
               g == flight["confirm"]
           IN  f # Idle /\ g # Idle /\ f.state = "ok" /\ g.state = "ok" => f.version # g.version

\* The working copy is what an accepted command was sent from; an upload may
\* put an older copy back in its place.
CopyIsWhatWasSent ==
    kind \notin {"department", "product"} =>
        \A ch \in Commands :
            LET f == flight[ch]
            IN  f # Idle /\ f.mine /\ f.command # "create" =>
                   sheet.copy = f.from \/ (f.state # "ok" /\ f.version < row.version)

UploadsPutBack ==
    LET f == flight["upload"]
        g == flight["confirm"]
    IN  kind = "product" =>
           /\ f # Idle /\ f.mine =>
                 /\ f.from.version <= sheet.copy.version
                 /\ f.from.info = sheet.info
                 /\ disturbed = {} => f.from = sheet.copy
           /\ g # Idle /\ g.mine =>
                 /\ sheet.copy.version <= g.version
                 /\ g.from.info = sheet.info
           /\ f # Idle /\ f.mine /\ g # Idle /\ g.mine => f.from.version <= g.version

\* Undisturbed, the working copy is the row, or the answer that will make it so
\* is on its way.
Undisturbed ==
    IsOpen /\ disturbed = {} =>
        \/ sheet.copy = row
        \/ \E ch \in Commands :
              flight[ch] # Idle /\ flight[ch].mine /\ flight[ch].state = "ok" /\ flight[ch].row = row

IInv ==
    /\ TypeOK
    /\ SnapshotsArePast
    /\ FieldsShowTheCopy
    /\ SavesAreSaves /\ ConfirmsAreConfirms /\ UploadsAreUploads
    /\ DialogsAskWhatApplies
    /\ AnswersAreWritten
    /\ CopyIsWhatWasSent /\ UploadsPutBack
    /\ Undisturbed
-----------------------------------------------------------------------------
(***************************************************************************)
(* What the tables of the screens say                                      *)
(***************************************************************************)
LEMMA ScreenTables ==
    ASSUME NEW k \in AllKinds
    PROVE  /\ Screen[k].list.toggles \in BOOLEAN
           /\ Screen[k].list.toggles <=> k = "department"
           /\ Screen[k].sheet.upload = "workingCopy" <=> k = "product"
           /\ "save" \in Screen[k].sheet.holds
           /\ "roles" \in Screen[k].form <=> k = "employee"
           /\ Screen[k].submit.sends \subseteq {<<"update">>, <<"roles">>, <<"update", "roles">>}
           /\ k # "employee" => Screen[k].submit.sends = {<<"update">>}
           /\ Screen[k].submit.created \cup Screen[k].submit.updated \subseteq {"closes", "stays"}
           /\ k \notin {"customer", "gift"} =>
                 "stays" \notin Screen[k].submit.created \cup Screen[k].submit.updated
           /\ Screen[k].sheet.dialogs.active \subseteq {"deactivate", "reset"}
           /\ Screen[k].sheet.dialogs.inactive \subseteq {"activate", "reset"}
           /\ k \in {"customer", "gift"} =>
                 Screen[k].sheet.dialogs.active = {} /\ Screen[k].sheet.dialogs.inactive = {}
<1>1. CASE k = "employee"
  BY <1>1 DEF Screen, EmployeesList, EmployeeForm, EmployeeSubmit, EmployeeSheet
<1>2. CASE k = "product"
  BY <1>2 DEF Screen, ProductsList, ProductForm, ProductSubmit, ProductSheet, ProductImage, Toggle
<1>3. CASE k = "service"
  BY <1>3 DEF Screen, ServicesList, ServiceForm, ServiceSubmit, ServiceSheet, Toggle
<1>4. CASE k = "customer"
  BY <1>4 DEF Screen, CustomersList, CustomerForm, CustomerSubmit, CustomerSheet, None
<1>5. CASE k = "group"
  BY <1>5 DEF Screen, GroupsList, GroupForm, GroupSubmit, GroupSheet, Toggle
<1>6. CASE k = "department"
  BY <1>6 DEF Screen, DepartmentsList, DepartmentForm, DepartmentSubmit, DepartmentSheet, None
<1>7. CASE k = "gift"
  BY <1>7 DEF Screen, GiftsList, GiftForm, GiftSubmit, GiftSheet, GiftPhotos, None
<1> QED
  BY <1>1, <1>2, <1>3, <1>4, <1>5, <1>6, <1>7 DEF AllKinds

LEMMA ThisScreen ==
    ASSUME TypeOK
    PROVE  /\ kind \in AllKinds
           /\ List.toggles \in BOOLEAN
           /\ List.toggles <=> kind = "department"
           /\ Sheet.upload = "workingCopy" <=> kind = "product"
           /\ "save" \in Sheet.holds
           /\ "roles" \in Screen[kind].form <=> kind = "employee"
           /\ Submit.sends \subseteq {<<"update">>, <<"roles">>, <<"update", "roles">>}
           /\ kind # "employee" => Submit.sends = {<<"update">>}
           /\ Submit.created \cup Submit.updated \subseteq {"closes", "stays"}
           /\ kind \notin {"customer", "gift"} => "stays" \notin Submit.created \cup Submit.updated
           /\ Sheet.dialogs.active \subseteq {"deactivate", "reset"}
           /\ Sheet.dialogs.inactive \subseteq {"activate", "reset"}
           /\ kind \in {"customer", "gift"} =>
                 Sheet.dialogs.active = {} /\ Sheet.dialogs.inactive = {}
<1>1. kind \in AllKinds
  BY KindsAreKnown DEF TypeOK
<1> QED
  BY <1>1, ScreenTables DEF List, Sheet, Submit
-----------------------------------------------------------------------------
(***************************************************************************)
(* Types                                                                   *)
(***************************************************************************)
\* What a command makes of each part of the record.
LEMMA WrittenParts ==
    ASSUME NEW r \in Row, NEW command
    PROVE  LET w == Written(command, r)
           IN  /\ w.version = r.version + 1
               /\ command = "deactivate" => w.active = FALSE
               /\ command = "activate" => w.active = TRUE
               /\ command \notin {"deactivate", "activate"} => w.active = r.active
               /\ w.info = IF command = "update" THEN r.version + 1 ELSE r.info
               /\ w.roles = IF command = "roles" THEN r.version + 1 ELSE r.roles
<1>1. CASE command = "deactivate"
  BY <1>1 DEF Written
<1>2. CASE command = "activate"
  BY <1>2 DEF Written
<1>3. CASE command \notin {"deactivate", "activate"}
  BY <1>3 DEF Written
<1> QED
  BY <1>1, <1>2, <1>3

LEMMA WrittenType ==
    ASSUME NEW r \in Row, NEW command, r.version < MaxVersion
    PROVE  Written(command, r) \in Row
<1> DEFINE w == Written(command, r)
<1>1. w = [version |-> w.version, active |-> w.active, info |-> w.info, roles |-> w.roles]
  BY DEF Written
<1>2. /\ w.version = r.version + 1
      /\ w.active \in {TRUE, FALSE, r.active}
      /\ w.info \in {r.version + 1, r.info} /\ w.roles \in {r.version + 1, r.roles}
  BY WrittenParts
<1> HIDE DEF w
<1>3. r.active \in BOOLEAN
  BY DEF Row
<1>4. w.active \in BOOLEAN
  BY <1>2, <1>3
<1>5. w.version \in 1..MaxVersion /\ w.info \in 1..MaxVersion /\ w.roles \in 1..MaxVersion
  BY <1>2, MaxVersionIsPositive DEF Row
<1>6. w \in Row
  BY <1>1, <1>4, <1>5 DEF Row
<1> QED
  BY <1>6 DEF w

LEMMA OpenedType ==
    ASSUME TypeOK, NEW r \in Row \cup {NoRow}
    PROVE  Opened(r) \in OpenSheet
<1>1. CASE r = NoRow
  BY <1>1, MaxVersionIsPositive DEF Opened, OpenSheet
<1>2. CASE r \in Row
  BY <1>2, MaxVersionIsPositive, MarkersAreNoRows DEF Opened, OpenSheet, Row
<1> QED
  BY <1>1, <1>2

LEMMA SheetType ==
    ASSUME TypeOK, IsOpen
    PROVE  /\ sheet \in OpenSheet
           /\ sheet.copy \in Row \cup {NoRow}
           /\ sheet.info \in 0..MaxVersion /\ sheet.roles \in 0..MaxVersion
           /\ sheet.stale \in 0..MaxVersion
BY DEF TypeOK, OpenSheet, IsOpen

LEMMA PartsOfASave ==
    ASSUME NEW parts \in {<<"update">>, <<"roles">>, <<"update", "roles">>}
    PROVE  /\ Head(parts) \in {"update", "roles"} /\ Tail(parts) \in {<<>>, <<"roles">>}
           /\ parts = <<"update">> => Head(parts) = "update"
           /\ Tail(parts) # <<>> => Head(parts) = "update" /\ parts # <<"update">>
           /\ Head(parts) = "roles" => parts # <<"update">>
<1>1. CASE parts = <<"update">>
  BY <1>1
<1>2. CASE parts = <<"roles">>
  BY <1>2
<1>3. CASE parts = <<"update", "roles">>
  <2>1. Head(parts) = "update" /\ Tail(parts) = <<"roles">>
    BY <1>3
  <2>2. parts # <<"update">>
    BY <1>3
  <2> QED
    BY <1>3, <2>1, <2>2
<1> QED
  BY <1>1, <1>2, <1>3

\* What a request carries besides its command.
LEMMA RequestType ==
    ASSUME TypeOK, NEW ch \in Channels, flight[ch] # Idle
    PROVE  flight[ch] \in Request
BY DEF TypeOK

LEMMA SendsType ==
    ASSUME TypeOK, NEW ch \in Channels,
           NEW command \in {"create", "update", "roles", "reset", "deactivate", "activate", "image"},
           NEW version \in 0..MaxVersion, NEW rest \in {<<>>, <<"roles">>},
           Sends(ch, command, version, rest)
    PROVE  flight' \in [Channels -> Request \cup {Idle}]
<1> DEFINE r == [command |-> command, version |-> version, state |-> "sent", row |-> NoRow,
                 info |-> IF IsOpen THEN sheet.info ELSE 0,
                 roles |-> IF IsOpen THEN sheet.roles ELSE 0,
                 rest |-> rest, from |-> IF IsOpen THEN sheet.copy ELSE NoRow, mine |-> IsOpen]
<1>1. /\ r.info \in 0..MaxVersion /\ r.roles \in 0..MaxVersion
      /\ r.from \in Row \cup {NoRow} /\ r.mine \in BOOLEAN
  BY SheetType, MaxVersionIsPositive DEF IsOpen
<1>2. r \in Request
  BY <1>1 DEF Request
<1>3. flight' = [flight EXCEPT ![ch] = r]
  BY DEF Sends
<1> HIDE DEF r
<1> QED
  BY <1>2, <1>3 DEF TypeOK

LEMMA AnswersType ==
    ASSUME TypeOK, NEW ch \in Channels, flight[ch] # Idle,
           NEW state \in {"ok", "stale", "refused"}, NEW r \in Row \cup {NoRow},
           Answers(ch, state, r)
    PROVE  flight' \in [Channels -> Request \cup {Idle}]
<1>1. [[flight[ch] EXCEPT !.state = state] EXCEPT !.row = r] \in Request
  BY RequestType DEF Request
<1>2. flight' = [flight EXCEPT ![ch] = [[flight[ch] EXCEPT !.state = state] EXCEPT !.row = r]]
  BY DEF Answers, TypeOK
<1> QED
  BY <1>1, <1>2 DEF TypeOK

LEMMA OrphanedType ==
    ASSUME TypeOK
    PROVE  /\ Orphaned \in [Channels -> Request \cup {Idle}]
           /\ \A ch \in Channels : [Orphaned EXCEPT ![ch] = Idle] \in [Channels -> Request \cup {Idle}]
<1>1. ASSUME NEW ch \in Channels, flight[ch] # Idle
      PROVE  [flight[ch] EXCEPT !.mine = FALSE] \in Request
  BY <1>1, RequestType DEF Request
<1>2. Orphaned \in [Channels -> Request \cup {Idle}]
  BY <1>1 DEF Orphaned
<1> QED
  BY <1>2

LEMMA FreeType ==
    ASSUME TypeOK, NEW ch \in Channels, Free(ch)
    PROVE  flight' \in [Channels -> Request \cup {Idle}]
BY DEF TypeOK, Free

\* A versioned command that is on its way was sent for a row that exists.
LEMMA CommandsHaveARow ==
    ASSUME IInv, NEW ch \in Channels, flight[ch] # Idle, flight[ch].command \notin {"create", "image"}
    PROVE  /\ row \in Row /\ ch \in Commands
           /\ kind # "department" \/ ch = "save" =>
                 flight[ch].from \in Row /\ flight[ch].version = flight[ch].from.version
           /\ kind = "department" /\ ch = "confirm" =>
                 target \in Row /\ flight[ch].version = target.version
<1>1. ch \in Commands
  BY DEF Channels, Commands, IInv, UploadsAreUploads
<1>2. CASE ch = "save"
  BY <1>1, <1>2 DEF IInv, SavesAreSaves, SnapshotsArePast, Past
<1>3. CASE ch = "confirm" /\ kind # "department"
  BY <1>1, <1>3 DEF IInv, ConfirmsAreConfirms, SnapshotsArePast, Past
<1>4. CASE ch = "confirm" /\ kind = "department"
  BY <1>1, <1>4 DEF IInv, ConfirmsAreConfirms, DialogsAskWhatApplies, SnapshotsArePast, Past
<1> QED
  BY <1>1, <1>2, <1>3, <1>4 DEF Commands

\* The row only goes forward, one version at a time, and never goes away.
RowAdvances ==
    \/ row' = row
    \/ row = NoRow /\ row' \in Row
    \/ row \in Row /\ row' \in Row /\ row'.version = row.version + 1

LEMMA RowStep ==
    ASSUME IInv, [Next]_vars
    PROVE  RowAdvances
<1> USE DEF RowAdvances
<1>1. ASSUME NEW ch \in Channels, ExecuteVersioned(ch) PROVE RowAdvances
  <2>1. flight[ch] # Idle /\ flight[ch].command \notin {"create", "image"}
    BY <1>1 DEF ExecuteVersioned
  <2>2. row \in Row
    BY <2>1, CommandsHaveARow
  <2>3. CASE row.version < MaxVersion /\ row' = Written(flight[ch].command, row)
    BY <2>2, <2>3, WrittenType, WrittenParts
  <2>4. CASE UNCHANGED row
    BY <2>4
  <2> QED
    BY <1>1, <2>3, <2>4 DEF ExecuteVersioned
<1>2. CASE Elsewhere
  <2>1. row \in Row /\ row.version < MaxVersion
    BY <1>2 DEF Elsewhere, IInv, TypeOK
  <2>2. PICK command : row' = Written(command, row)
    BY <1>2 DEF Elsewhere
  <2> QED
    BY <2>1, <2>2, WrittenType, WrittenParts
<1>3. CASE ExecuteCreate
  <2>1. [version |-> 1, active |-> TRUE, info |-> 1, roles |-> 1] \in Row
    BY MaxVersionIsPositive DEF Row
  <2> QED
    BY <1>3, <2>1 DEF ExecuteCreate
<1>4. CASE ListStep \/ UserStep \/ AnswerStep \/ UNCHANGED vars
  BY <1>4 DEF ListStep, Refetch, ReadList, ListArrives, ListFails, UserStep, OpenNew, OpenRow,
     Dismiss, Reload, Create, Save, Upload, AskInSheet, AskOnPage, Confirm, CancelDialog,
     AnswerStep, SaveGoesOn, SaveSucceeds, SaveFails, ConfirmSucceeds, ConfirmFails,
     UploadSucceeds, UploadFails, Lose, vars
<1>5. ASSUME NEW ch \in Channels, ExecuteRefuses(ch) PROVE RowAdvances
  BY <1>5 DEF ExecuteRefuses
<1>6. CASE ExecuteNoChange \/ ExecuteUpload
  BY <1>6 DEF ExecuteNoChange, ExecuteUpload
<1> QED
  BY <1>1, <1>2, <1>3, <1>4, <1>5, <1>6 DEF Next, ServerStep

LEMMA RowKeepsType ==
    ASSUME IInv, [Next]_vars
    PROVE  row' \in Row \cup {NoRow}
BY RowStep DEF RowAdvances, IInv, TypeOK

\* Whatever is sent after a save has succeeded half way goes with the sheet the
\* save came from: there is one, and it shows the profile of an employee.
LEMMA SaveThatGoesOn ==
    ASSUME IInv, SaveGoesOn
    PROVE  LET f == flight["save"]
           IN  /\ kind = "employee" /\ IsOpen /\ sheet \in OpenSheet
               /\ f \in Request /\ f.mine /\ f.state = "ok" /\ f.command = "update"
               /\ f.rest = <<"roles">>
               /\ f.from \in Row /\ f.row \in Row /\ f.row = Written("update", f.from)
               /\ f.version = f.from.version /\ f.row.version = f.version + 1
               /\ f.version < row.version
               /\ sheet.copy = f.from
               /\ f.roles = f.row.roles /\ sheet.roles = f.row.roles
<1> DEFINE f == flight["save"]
<1>1. f # Idle /\ f.state = "ok" /\ f.rest # <<>>
  BY DEF SaveGoesOn
<1>2. f \in Request
  BY <1>1, RequestType DEF Channels, IInv
<1>3. /\ kind = "employee" /\ f.command = "update" /\ f.mine /\ IsOpen
      /\ f.from \in Row /\ f.version = f.from.version
  BY <1>1 DEF IInv, SavesAreSaves
<1>4. f.rest = <<"roles">>
  BY <1>1, <1>2 DEF Request
<1>5. /\ f.version < row.version
      /\ f.row \in Row /\ f.row.version = f.version + 1 /\ f.row = Written("update", f.from)
  BY <1>1, <1>3 DEF IInv, AnswersAreWritten, Commands
<1>6. sheet \in OpenSheet
  BY <1>3 DEF IInv, TypeOK, IsOpen
<1>7. sheet.copy = f.from
  BY <1>1, <1>3 DEF IInv, CopyIsWhatWasSent, Commands
<1>8. f.row.roles = f.from.roles
  BY <1>5 DEF Written
<1>9. f.roles = f.from.roles
  BY <1>1 DEF IInv, SavesAreSaves
<1>10. sheet.roles = f.from.roles
  BY <1>3, <1>7, MarkersAreNoRows DEF IInv, FieldsShowTheCopy
<1> QED
  BY <1>1, <1>2, <1>3, <1>4, <1>5, <1>6, <1>7, <1>8, <1>9, <1>10

\* What it sends.
Follows ==
    LET f == flight["save"]
    IN  [f EXCEPT !.command = "roles", !.version = f.row.version, !.state = "sent", !.row = NoRow,
                  !.info = f.row.info, !.rest = <<>>, !.from = f.row]

LEMMA FollowsParts ==
    ASSUME IInv, SaveGoesOn
    PROVE  LET f == flight["save"]
           IN  /\ flight' = [flight EXCEPT !["save"] = Follows]
               /\ Follows \in Request
               /\ Follows.command = "roles" /\ Follows.version = f.row.version
               /\ Follows.state = "sent" /\ Follows.row = NoRow
               /\ Follows.info = f.row.info /\ Follows.roles = f.row.roles
               /\ Follows.rest = <<>> /\ Follows.from = f.row /\ Follows.mine = f.mine
<1> DEFINE f == flight["save"]
<1>1. f \in Request /\ f.rest = <<"roles">> /\ f.row \in Row /\ f.roles = f.row.roles
  BY SaveThatGoesOn
<1>2. Head(f.rest) = "roles" /\ Tail(f.rest) = <<>>
  BY <1>1
<1>3. flight' = [flight EXCEPT !["save"] = Follows]
  BY <1>2 DEF SaveGoesOn, Follows
<1>4. /\ f.row.version \in 0..MaxVersion /\ f.row.info \in 0..MaxVersion
      /\ f.row.roles \in 0..MaxVersion
  BY <1>1, MaxVersionIsPositive DEF Row
<1>5. Follows \in Request
  BY <1>1, <1>4 DEF Follows, Request
<1>6. /\ Follows.command = "roles" /\ Follows.version = f.row.version
      /\ Follows.state = "sent" /\ Follows.row = NoRow
      /\ Follows.info = f.row.info /\ Follows.roles = f.row.roles
      /\ Follows.rest = <<>> /\ Follows.from = f.row /\ Follows.mine = f.mine
  BY <1>1 DEF Follows, Request
<1> QED
  BY <1>3, <1>5, <1>6

LEMMA FlightKeepsType ==
    ASSUME IInv, [Next]_vars
    PROVE  flight' \in [Channels -> Request \cup {Idle}]
<1> USE DEF IInv
<1> DEFINE Typed == flight' \in [Channels -> Request \cup {Idle}]
<1>1. CASE Create
  BY <1>1, SendsType, MaxVersionIsPositive DEF Create, Channels
<1>2. CASE Save
  <2>1. PICK parts \in Submit.sends : Sends("save", Head(parts), sheet.copy.version, Tail(parts))
    BY <1>2 DEF Save
  <2>2. parts \in {<<"update">>, <<"roles">>, <<"update", "roles">>}
    BY <2>1, ThisScreen
  <2>3. Head(parts) \in {"update", "roles"} /\ Tail(parts) \in {<<>>, <<"roles">>}
    BY <2>2, PartsOfASave
  <2>4. sheet.copy \in Row
    BY <1>2, SheetType DEF Save, CanEdit
  <2>5. sheet.copy.version \in 0..MaxVersion
    BY <2>4, MaxVersionIsPositive DEF Row
  <2> QED
    BY <2>1, <2>3, <2>5, SendsType DEF Channels
<1>3. CASE Upload
  BY <1>3, SendsType, MaxVersionIsPositive DEF Upload, Channels
<1>4. CASE Confirm
  <2>1. Confirmed \in Row
    BY <1>4, ThisScreen DEF Confirm, DialogsAskWhatApplies, Confirmed
  <2>2. Confirmed.version \in 0..MaxVersion
    BY <2>1, MaxVersionIsPositive DEF Row
  <2>3. dialog \in {"create", "update", "roles", "reset", "deactivate", "activate", "image"}
    BY <1>4 DEF Confirm, NoDialog, TypeOK
  <2> QED
    BY <1>4, <2>2, <2>3, SendsType DEF Confirm, Channels
<1>5. CASE Dismiss \/ Reload \/ AskOnPage
  BY <1>5, OrphanedType DEF Dismiss, Reload, AskOnPage
<1>6. ASSUME NEW ch \in Channels, ExecuteVersioned(ch) PROVE Typed
  BY <1>6, RowKeepsType, AnswersType DEF ExecuteVersioned, Next, ServerStep
<1>7. ASSUME NEW ch \in Channels, ExecuteRefuses(ch) PROVE Typed
  BY <1>7, AnswersType DEF ExecuteRefuses
<1>8. CASE ExecuteNoChange
  BY <1>8, AnswersType DEF ExecuteNoChange, TypeOK, Channels
<1>9. CASE ExecuteCreate
  BY <1>9, RowKeepsType, AnswersType DEF ExecuteCreate, Channels
<1>10. CASE ExecuteUpload
  BY <1>10, AnswersType DEF ExecuteUpload, Channels
<1>11. CASE SaveGoesOn
  BY <1>11, FollowsParts DEF TypeOK
<1>12. CASE SaveSucceeds
  BY <1>12, OrphanedType, FreeType DEF SaveSucceeds, Channels
<1>13. CASE SaveFails \/ ConfirmSucceeds \/ ConfirmFails \/ UploadSucceeds \/ UploadFails
  BY <1>13, FreeType DEF SaveFails, ConfirmSucceeds, ConfirmFails, UploadSucceeds, UploadFails,
     Channels
<1>14. ASSUME NEW ch \in Channels, Lose(ch) PROVE Typed
  BY <1>14, FreeType DEF Lose
<1>15. CASE ListStep \/ OpenNew \/ OpenRow \/ AskInSheet \/ CancelDialog \/ Elsewhere
            \/ UNCHANGED vars
  BY <1>15 DEF ListStep, Refetch, ReadList, ListArrives, ListFails, OpenNew, OpenRow, AskInSheet,
     CancelDialog, Elsewhere, TypeOK, vars
<1> QED
  BY <1>1, <1>2, <1>3, <1>4, <1>5, <1>6, <1>7, <1>8, <1>9, <1>10, <1>11, <1>12, <1>13, <1>14, <1>15
  DEF Next, UserStep, ServerStep, AnswerStep

\* The sheet after each change of it.
LEMMA OpenedParts ==
    ASSUME NEW r
    PROVE  /\ Opened(r).copy = r /\ Opened(r).stale = 0
           /\ r # NoRow => Opened(r).info = r.info
           /\ r # NoRow /\ "roles" \in Screen[kind].form => Opened(r).roles = r.roles
BY DEF Opened

LEMMA HoldsParts ==
    ASSUME TypeOK, IsOpen, NEW r \in Row \cup {NoRow}, Holds(r)
    PROVE  /\ sheet' \in OpenSheet /\ IsOpen'
           /\ sheet'.copy = r /\ sheet'.stale = sheet.stale
           /\ r # NoRow => sheet'.info = r.info
           /\ r # NoRow /\ kind = "employee" => sheet'.roles = r.roles
<1>1. sheet.stale \in 0..MaxVersion /\ Opened(r) \in OpenSheet
  BY SheetType, OpenedType
<1>2. sheet' = [Opened(r) EXCEPT !.stale = sheet.stale]
  BY DEF Holds
<1>3. /\ sheet' \in OpenSheet /\ sheet'.stale = sheet.stale
      /\ sheet'.copy = Opened(r).copy /\ sheet'.info = Opened(r).info
      /\ sheet'.roles = Opened(r).roles
  BY <1>1, <1>2 DEF OpenSheet
<1> QED
  BY <1>3, OpenedParts, ThisScreen, MarkersAreNoRecords DEF IsOpen

\* The form keeps the roles when only the profile was saved; those are the
\* roles of the answer, too.
LEMMA GoesOnParts ==
    ASSUME IInv, SaveGoesOn
    PROVE  LET r == flight["save"].row
           IN  /\ sheet' \in OpenSheet /\ IsOpen'
               /\ sheet'.copy = r /\ sheet'.stale = sheet.stale
               /\ r # NoRow => sheet'.info = r.info
               /\ r # NoRow /\ kind = "employee" => sheet'.roles = r.roles
<1> DEFINE r == flight["save"].row
<1>1. r \in Row /\ sheet \in OpenSheet /\ sheet.roles = r.roles
  BY SaveThatGoesOn
<1>2. /\ sheet.stale \in 0..MaxVersion /\ sheet.roles \in 0..MaxVersion
      /\ Opened(r) \in OpenSheet
  <2>1. sheet.stale \in 0..MaxVersion /\ sheet.roles \in 0..MaxVersion
    BY <1>1 DEF OpenSheet
  <2>2. TypeOK /\ r \in Row \cup {NoRow}
    BY <1>1 DEF IInv
  <2>3. Opened(r) \in OpenSheet
    BY <2>2, OpenedType
  <2> QED
    BY <2>1, <2>3
<1>3. sheet' = [Opened(r) EXCEPT !.stale = sheet.stale, !.roles = sheet.roles]
  BY DEF SaveGoesOn
<1>4. /\ sheet' \in OpenSheet /\ sheet'.stale = sheet.stale
      /\ sheet'.copy = Opened(r).copy /\ sheet'.info = Opened(r).info
      /\ sheet'.roles = sheet.roles
  BY <1>2, <1>3 DEF OpenSheet
<1> QED
  BY <1>1, <1>4, OpenedParts, MarkersAreNoRecords DEF IsOpen

LEMMA CopyParts ==
    ASSUME TypeOK, IsOpen, NEW r \in Row \cup {NoRow}, sheet' = [sheet EXCEPT !.copy = r]
    PROVE  /\ sheet' \in OpenSheet /\ IsOpen'
           /\ sheet'.copy = r /\ sheet'.stale = sheet.stale
           /\ sheet'.info = sheet.info /\ sheet'.roles = sheet.roles
<1>1. sheet \in OpenSheet
  BY SheetType
<1> QED
  BY <1>1, MarkersAreNoRecords DEF OpenSheet, IsOpen

LEMMA StaleParts ==
    ASSUME TypeOK, IsOpen, NEW v \in 0..MaxVersion, sheet' = [sheet EXCEPT !.stale = v]
    PROVE  /\ sheet' \in OpenSheet /\ IsOpen'
           /\ sheet'.copy = sheet.copy /\ sheet'.stale = v
           /\ sheet'.info = sheet.info /\ sheet'.roles = sheet.roles
<1>1. sheet \in OpenSheet
  BY SheetType
<1> QED
  BY <1>1, MarkersAreNoRecords DEF OpenSheet, IsOpen

\* The step that turns an answer into a working copy finds a sheet open, and a
\* row in the answer.
LEMMA ConfirmThatIsMine ==
    ASSUME IInv, ConfirmSucceeds, flight["confirm"].mine
    PROVE  LET f == flight["confirm"]
           IN  /\ f # Idle /\ f.state = "ok" /\ f \in Request
               /\ IsOpen /\ sheet.copy \in Row /\ kind # "department" /\ ~NoDialog
               /\ f.command \in {"deactivate", "activate", "reset"}
               /\ f.from \in Row /\ f.row \in Row /\ f.row = Written(f.command, f.from)
               /\ f.version = f.from.version /\ f.row.version = f.version + 1
               /\ f.version < row.version
               /\ f.row.info = f.from.info /\ f.row.roles = f.from.roles
               /\ sheet' = [sheet EXCEPT !.copy = f.row]
<1> DEFINE f == flight["confirm"]
<1>1. f # Idle /\ f.state = "ok"
  BY DEF ConfirmSucceeds
<1>2. f \in Request
  BY <1>1, RequestType DEF Channels, IInv
<1>3. /\ IsOpen /\ sheet.copy # NoRow /\ kind # "department" /\ ~NoDialog
      /\ f.command \in {"deactivate", "activate", "reset"}
      /\ f.from \in Row /\ f.version = f.from.version
  BY <1>1 DEF IInv, ConfirmsAreConfirms
<1>4. sheet.copy \in Row
  BY <1>3, SheetType DEF IInv
<1>5. /\ f.version < row.version
      /\ f.row \in Row /\ f.row.version = f.version + 1 /\ f.row = Written(f.command, f.from)
  BY <1>1, <1>3 DEF IInv, AnswersAreWritten, Commands
<1>6. f.row.info = f.from.info /\ f.row.roles = f.from.roles
  <2>1. f.command # "update" /\ f.command # "roles"
    BY <1>3
  <2>2. /\ Written(f.command, f.from).info = f.from.info
        /\ Written(f.command, f.from).roles = f.from.roles
    BY <2>1 DEF Written
  <2> QED
    BY <1>5, <2>2
<1>7. sheet' = [sheet EXCEPT !.copy = f.row]
  BY <1>1 DEF ConfirmSucceeds, Mine
<1> QED
  BY <1>1, <1>2, <1>3, <1>4, <1>5, <1>6, <1>7

LEMMA SheetKeepsType ==
    ASSUME IInv, [Next]_vars
    PROVE  sheet' \in OpenSheet \cup {Closed}
<1> USE DEF IInv
<1>1. CASE OpenNew
  BY <1>1, OpenedType DEF OpenNew
<1>2. CASE OpenRow
  BY <1>2, OpenedType DEF OpenRow, Shown
<1>3. CASE Dismiss \/ Reload \/ AskOnPage
  BY <1>3 DEF Dismiss, Reload, AskOnPage
<1>4. CASE Create
  BY <1>4, StaleParts, MaxVersionIsPositive DEF Create, CanEdit
<1>5. CASE SaveGoesOn
  BY <1>5, GoesOnParts
<1>6. CASE SaveSucceeds
  <2> DEFINE f == flight["save"]
  <2>1. f # Idle /\ f.row \in Row \cup {NoRow}
    BY <1>6, RequestType DEF SaveSucceeds, Channels, Request
  <2>2. Mine("save") => IsOpen
    BY DEF Mine, SavesAreSaves
  <2>3. CASE SheetGone
    BY <2>3 DEF SheetGone
  <2>4. CASE IF Mine("save") THEN Holds(f.row) ELSE UNCHANGED sheet
    BY <2>1, <2>2, <2>4, HoldsParts DEF TypeOK
  <2> QED
    BY <1>6, <2>3, <2>4 DEF SaveSucceeds
<1>7. CASE SaveFails
  <2> DEFINE f == flight["save"]
  <2>1. f # Idle /\ f.version \in 0..MaxVersion
    BY <1>7, RequestType DEF SaveFails, Channels, Request
  <2>2. Mine("save") => IsOpen
    BY DEF Mine, SavesAreSaves
  <2> QED
    BY <1>7, <2>1, <2>2, StaleParts DEF SaveFails, TypeOK
<1>8. CASE ConfirmSucceeds
  <2>1. CASE Mine("confirm")
    BY <1>8, <2>1, ConfirmThatIsMine, CopyParts DEF Mine
  <2>2. CASE ~Mine("confirm")
    BY <1>8, <2>2 DEF ConfirmSucceeds, TypeOK
  <2> QED
    BY <2>1, <2>2
<1>9. CASE UploadSucceeds
  <2> DEFINE f == flight["upload"]
  <2>1. f # Idle /\ (f.mine => IsOpen /\ f.from \in Row)
    BY <1>9 DEF UploadSucceeds, UploadsAreUploads
  <2> QED
    BY <1>9, <2>1, CopyParts DEF UploadSucceeds, TypeOK
<1>10. CASE ListStep \/ Save \/ Upload \/ AskInSheet \/ Confirm \/ CancelDialog
            \/ ExecuteNoChange \/ ExecuteCreate \/ ExecuteUpload \/ Elsewhere
            \/ ConfirmFails \/ UploadFails \/ UNCHANGED vars
  BY <1>10 DEF ListStep, Refetch, ReadList, ListArrives, ListFails, Save, Upload, AskInSheet,
     Confirm, CancelDialog, ExecuteNoChange, ExecuteCreate, ExecuteUpload, Elsewhere,
     ConfirmFails, UploadFails, TypeOK, vars
<1>11. CASE \E ch \in Channels : ExecuteVersioned(ch) \/ ExecuteRefuses(ch) \/ Lose(ch)
  BY <1>11 DEF ExecuteVersioned, ExecuteRefuses, Lose, TypeOK
<1> QED
  BY <1>1, <1>2, <1>3, <1>4, <1>5, <1>6, <1>7, <1>8, <1>9, <1>10, <1>11
  DEF Next, UserStep, ServerStep, AnswerStep

\* Nobody changes screens, nobody's capabilities change.
LEMMA SameScreen ==
    ASSUME [Next]_vars
    PROVE  kind' = kind /\ may' = may
<1>1. CASE ListStep \/ UserStep \/ UNCHANGED vars
  BY <1>1 DEF ListStep, Refetch, ReadList, ListArrives, ListFails, UserStep, OpenNew, OpenRow,
     Dismiss, Reload, Create, Save, Upload, AskInSheet, AskOnPage, Confirm, CancelDialog, vars
<1>2. CASE ServerStep \/ AnswerStep
  BY <1>2 DEF ServerStep, ExecuteVersioned, ExecuteRefuses, ExecuteNoChange, ExecuteCreate,
     ExecuteUpload, Elsewhere, AnswerStep, SaveGoesOn, SaveSucceeds, SaveFails, ConfirmSucceeds,
     ConfirmFails, UploadSucceeds, UploadFails, Lose
<1> QED
  BY <1>1, <1>2 DEF Next

\* Where the list and an answer to it come from.
ListMoves ==
    /\ list' \in {list, fetch.row, Failed}
    /\ fetch' \in {fetch, Asked, NoFetch, [state |-> "answered", row |-> row]}

LEMMA ListStepParts ==
    ASSUME [Next]_vars
    PROVE  ListMoves
<1> USE DEF ListMoves
<1>1. ASSUME Refetch \/ ReadList \/ ListArrives \/ ListFails PROVE  ListMoves
  BY <1>1 DEF Refetch, ReadList, ListArrives, ListFails
<1>2. ASSUME Reload \/ SaveGoesOn \/ SaveSucceeds \/ ConfirmSucceeds \/ UploadSucceeds
      PROVE  ListMoves
  BY <1>2 DEF Reload, SaveGoesOn, SaveSucceeds, ConfirmSucceeds, UploadSucceeds, Invalidate
<1>3. ASSUME UserStep /\ ~Reload
      PROVE  ListMoves
  BY <1>3 DEF UserStep, OpenNew, OpenRow, Dismiss, Create, Save, Upload, AskInSheet, AskOnPage,
     Confirm, CancelDialog
<1>4. ASSUME ServerStep
      PROVE  ListMoves
  BY <1>4 DEF ServerStep, ExecuteVersioned, ExecuteRefuses, ExecuteNoChange, ExecuteCreate,
     ExecuteUpload, Elsewhere
<1>5. ASSUME SaveFails \/ ConfirmFails \/ UploadFails \/ UNCHANGED vars
      PROVE  ListMoves
  BY <1>5 DEF SaveFails, ConfirmFails, UploadFails, vars
<1>6. ASSUME \E ch \in Channels : Lose(ch)
      PROVE  ListMoves
  BY <1>6 DEF Lose
<1> QED
  BY <1>1, <1>2, <1>3, <1>4, <1>5, <1>6 DEF Next, ListStep, AnswerStep

LEMMA ListKeepsType ==
    ASSUME TypeOK, [Next]_vars
    PROVE  /\ list' \in Row \cup {NoRow, Failed}
           /\ fetch' \in [state : {"none", "asked", "answered"}, row : Row \cup {NoRow}]
<1>1. fetch.row \in Row \cup {NoRow}
  BY DEF TypeOK
<1>2. list' \in Row \cup {NoRow, Failed}
  BY <1>1, ListStepParts DEF TypeOK, ListMoves
<1>3. /\ Asked \in [state : {"none", "asked", "answered"}, row : Row \cup {NoRow}]
      /\ NoFetch \in [state : {"none", "asked", "answered"}, row : Row \cup {NoRow}]
      /\ [state |-> "answered", row |-> row]
            \in [state : {"none", "asked", "answered"}, row : Row \cup {NoRow}]
  BY DEF TypeOK, Asked, NoFetch
<1> QED
  BY <1>2, <1>3, ListStepParts DEF TypeOK, ListMoves

LEMMA DialogKeepsType ==
    ASSUME TypeOK, [Next]_vars
    PROVE  dialog' \in {"none", "deactivate", "activate", "reset"} /\ target' \in Row \cup {NoRow}
<1>1. CASE AskInSheet
  BY <1>1, ThisScreen DEF AskInSheet, TypeOK
<1>2. CASE AskOnPage
  <2>1. target' \in Row
    BY <1>2, SheetType DEF AskOnPage, CanEdit, Shown, TypeOK
  <2> QED
    BY <1>2, <2>1 DEF AskOnPage
<1>3. CASE CancelDialog \/ SaveSucceeds \/ ConfirmSucceeds
  BY <1>3 DEF CancelDialog, SaveSucceeds, SheetGone, ConfirmSucceeds, TypeOK
<1>4. CASE ListStep \/ OpenNew \/ OpenRow \/ Dismiss \/ Reload \/ Create \/ Save \/ Upload \/ Confirm
  BY <1>4 DEF ListStep, Refetch, ReadList, ListArrives, ListFails, OpenNew, OpenRow, Dismiss,
     Reload, Create, Save, Upload, Confirm, TypeOK
<1>5. CASE ServerStep
  BY <1>5 DEF ServerStep, ExecuteVersioned, ExecuteRefuses, ExecuteNoChange, ExecuteCreate,
     ExecuteUpload, Elsewhere, TypeOK
<1>6. CASE SaveGoesOn \/ SaveFails \/ ConfirmFails \/ UploadSucceeds \/ UploadFails \/ UNCHANGED vars
  BY <1>6 DEF SaveGoesOn, SaveFails, ConfirmFails, UploadSucceeds, UploadFails, TypeOK, vars
<1>7. CASE \E ch \in Channels : Lose(ch)
  BY <1>7 DEF Lose, TypeOK
<1> QED
  BY <1>1, <1>2, <1>3, <1>4, <1>5, <1>6, <1>7 DEF Next, UserStep, AnswerStep

\* What is remembered of disturbances: which steps can add one.
LEMMA DisturbedStep ==
    ASSUME [Next]_vars
    PROVE  \/ UNCHANGED disturbed
           \/ OpenNew /\ disturbed' = {}
           \/ OpenRow /\ disturbed' = IF list = row THEN {} ELSE {"opened stale"}
           \/ \E ch \in Channels : ExecuteVersioned(ch) /\ disturbed' = disturbed \cup {"others"}
           \/ Elsewhere /\ disturbed' = disturbed \cup {"others"}
           \/ ConfirmSucceeds /\ disturbed' = disturbed \cup {"crossed"}
           \/ \E ch \in Channels : Lose(ch) /\ disturbed' = disturbed \cup {"lost"}
<1>1. CASE OpenNew \/ OpenRow
  BY <1>1 DEF OpenNew, OpenRow
<1>2. CASE Elsewhere \/ ConfirmSucceeds
  BY <1>2 DEF Elsewhere, ConfirmSucceeds
<1>3. ASSUME NEW ch \in Channels, ExecuteVersioned(ch)
      PROVE  UNCHANGED disturbed \/ disturbed' = disturbed \cup {"others"}
  BY <1>3 DEF ExecuteVersioned
<1>4. ASSUME NEW ch \in Channels, Lose(ch)
      PROVE  UNCHANGED disturbed \/ disturbed' = disturbed \cup {"lost"}
  BY <1>4 DEF Lose
<1>5. CASE ListStep \/ (UserStep /\ ~OpenNew /\ ~OpenRow)
  BY <1>5 DEF ListStep, Refetch, ReadList, ListArrives, ListFails, UserStep, Dismiss, Reload,
     Create, Save, Upload, AskInSheet, AskOnPage, Confirm, CancelDialog
<1>6. CASE \/ \E ch \in Channels : ExecuteRefuses(ch)
           \/ ExecuteNoChange \/ ExecuteCreate \/ ExecuteUpload
  BY <1>6 DEF ExecuteRefuses, ExecuteNoChange, ExecuteCreate, ExecuteUpload
<1>7. CASE SaveGoesOn \/ SaveSucceeds \/ SaveFails \/ ConfirmFails \/ UploadSucceeds \/ UploadFails
            \/ UNCHANGED vars
  BY <1>7 DEF SaveGoesOn, SaveSucceeds, SaveFails, ConfirmFails, UploadSucceeds, UploadFails, vars
<1> QED
  BY <1>1, <1>2, <1>3, <1>4, <1>5, <1>6, <1>7 DEF Next, ServerStep, AnswerStep

LEMMA TypesStep ==
    ASSUME IInv, [Next]_vars
    PROVE  TypeOK'
<1>1. kind' \in Kinds /\ may' \in Capabilities
  BY SameScreen DEF IInv, TypeOK
<1>2. disturbed' \subseteq {"opened stale", "others", "crossed", "lost"}
  BY DisturbedStep DEF IInv, TypeOK
<1> QED
  BY <1>1, <1>2, RowKeepsType, ListKeepsType, SheetKeepsType, DialogKeepsType, FlightKeepsType
  DEF IInv, TypeOK
-----------------------------------------------------------------------------
(***************************************************************************)
(* The requests after each change of them                                  *)
(***************************************************************************)
\* Two requests that differ in nothing but the answer.
SameCommand(f, g) ==
    /\ g.command = f.command /\ g.version = f.version /\ g.info = f.info /\ g.roles = f.roles
    /\ g.rest = f.rest /\ g.from = f.from

LEMMA OthersStay ==
    ASSUME TypeOK, NEW ch \in Channels, NEW r, flight' = [flight EXCEPT ![ch] = r]
    PROVE  flight'[ch] = r /\ \A c \in Channels \ {ch} : flight'[c] = flight[c]
BY DEF TypeOK

LEMMA FreeParts ==
    ASSUME TypeOK, NEW ch \in Channels, Free(ch)
    PROVE  flight'[ch] = Idle /\ \A c \in Channels \ {ch} : flight'[c] = flight[c]
BY OthersStay DEF Free

\* What is sent.
Sent(command, version, rest) ==
    [command |-> command, version |-> version, state |-> "sent", row |-> NoRow,
     info |-> IF IsOpen THEN sheet.info ELSE 0, roles |-> IF IsOpen THEN sheet.roles ELSE 0,
     rest |-> rest, from |-> IF IsOpen THEN sheet.copy ELSE NoRow, mine |-> IsOpen]

LEMMA SendsSent ==
    ASSUME TypeOK, NEW ch \in Channels, NEW command, NEW version, NEW rest,
           Sends(ch, command, version, rest)
    PROVE  /\ flight'[ch] = Sent(command, version, rest)
           /\ \A c \in Channels \ {ch} : flight'[c] = flight[c]
<1> DEFINE r == Sent(command, version, rest)
<1>1. flight' = [flight EXCEPT ![ch] = r]
  BY DEF Sends, Sent
<1> HIDE DEF r
<1>2. flight'[ch] = r /\ \A c \in Channels \ {ch} : flight'[c] = flight[c]
  BY <1>1, OthersStay
<1> QED
  BY <1>2 DEF r

LEMMA AnswersParts ==
    ASSUME TypeOK, NEW ch \in Channels, flight[ch] # Idle, NEW state, NEW r, Answers(ch, state, r)
    PROVE  /\ flight'[ch].state = state /\ flight'[ch].row = r
           /\ SameCommand(flight[ch], flight'[ch]) /\ flight'[ch].mine = flight[ch].mine
           /\ \A c \in Channels \ {ch} : flight'[c] = flight[c]
<1> DEFINE f == flight[ch]
           g == [[f EXCEPT !.state = state] EXCEPT !.row = r]
<1>1. f \in Request
  BY RequestType
<1>2. flight' = [flight EXCEPT ![ch] = g]
  BY DEF Answers, TypeOK
<1>3. g.state = state /\ g.row = r /\ SameCommand(f, g) /\ g.mine = f.mine
  BY <1>1 DEF Request, SameCommand
<1> HIDE DEF g
<1> QED
  BY <1>2, <1>3, OthersStay

LEMMA OrphanedParts ==
    ASSUME TypeOK, NEW ch \in Channels
    PROVE  /\ flight[ch] = Idle => Orphaned[ch] = Idle
           /\ flight[ch] # Idle =>
                 /\ Orphaned[ch] # Idle /\ Orphaned[ch].mine = FALSE
                 /\ SameCommand(flight[ch], Orphaned[ch])
                 /\ Orphaned[ch].state = flight[ch].state /\ Orphaned[ch].row = flight[ch].row
<1>1. CASE flight[ch] = Idle
  BY <1>1 DEF Orphaned
<1>2. CASE flight[ch] # Idle
  <2> DEFINE g == [flight[ch] EXCEPT !.mine = FALSE]
  <2>1. flight[ch] \in Request
    BY <1>2, RequestType
  <2>2. g \in Request
    BY <2>1 DEF Request
  <2>3. /\ g.mine = FALSE /\ SameCommand(flight[ch], g)
        /\ g.state = flight[ch].state /\ g.row = flight[ch].row
    BY <2>1 DEF Request, SameCommand
  <2>4. Orphaned[ch] = g
    BY <1>2 DEF Orphaned
  <2> HIDE DEF g
  <2> QED
    BY <1>2, <2>2, <2>3, <2>4, MarkersAreNoRecords
<1> QED
  BY <1>1, <1>2
-----------------------------------------------------------------------------
(***************************************************************************)
(* The save channel                                                        *)
(***************************************************************************)
\* The steps that close the sheet; the first two find no save of a screen that
\* keeps its sheet open until the save has been answered.
Closes == Dismiss \/ Reload \/ AskOnPage

LEMMA ClosesParts ==
    ASSUME IInv, Closes
    PROVE  /\ sheet' = Closed /\ ~IsOpen' /\ flight' = Orphaned
           /\ flight["save"] # Idle =>
                 kind = "department" /\ (flight["save"].command = "create" => row # NoRow)
<1>1. CASE Dismiss
  BY <1>1, ThisScreen DEF Dismiss, Mine, IInv, SavesAreSaves, IsOpen
<1>2. CASE Reload
  BY <1>2 DEF Reload, IInv, SavesAreSaves, IsOpen
<1>3. CASE AskOnPage
  <2>1. list \in Row \/ (IsOpen /\ sheet.copy \in Row)
    BY <1>3, SheetType DEF AskOnPage, Shown, CanEdit, IInv
  <2>2. row # NoRow
    BY <2>1, MarkersAreNoRows DEF IInv, SnapshotsArePast, Past
  <2> QED
    BY <1>3, <2>2, ThisScreen DEF AskOnPage, IInv, IsOpen
<1> QED
  BY <1>1, <1>2, <1>3 DEF Closes

\* A sheet that was opened has nothing in flight that is its own.
LEMMA OpensParts ==
    ASSUME IInv, OpenNew \/ OpenRow
    PROVE  /\ ~IsOpen /\ flight' = flight /\ sheet' \in OpenSheet /\ IsOpen'
           /\ \A ch \in Channels : flight[ch] # Idle => ~flight[ch].mine
           /\ flight["save"] # Idle =>
                 kind = "department" /\ (flight["save"].command = "create" => row # NoRow)
<1>1. ~IsOpen /\ flight' = flight
  BY DEF OpenNew, OpenRow
<1>2. sheet' \in OpenSheet
  BY OpenedType DEF OpenNew, OpenRow, Shown, IInv
<1>3. \A ch \in Channels : flight[ch] # Idle => ~flight[ch].mine
  BY <1>1 DEF IInv, SavesAreSaves, ConfirmsAreConfirms, UploadsAreUploads, Channels
<1>4. flight["save"] # Idle =>
         kind = "department" /\ (flight["save"].command = "create" => row # NoRow)
  BY <1>3 DEF IInv, SavesAreSaves, Channels
<1> QED
  BY <1>1, <1>2, <1>3, <1>4, MarkersAreNoRecords DEF IsOpen

\* The sheet stays as it is, or stays open over a record.
LEMMA SavesStay ==
    ASSUME IInv, kind' = kind, row' = NoRow => row = NoRow,
           flight["save"] # Idle, flight'["save"] # Idle,
           SameCommand(flight["save"], flight'["save"]), flight'["save"].mine = flight["save"].mine,
           \/ sheet' = sheet
           \/ /\ IsOpen /\ IsOpen' /\ sheet'.stale = sheet.stale
              /\ (sheet.copy = NoRow) <=> (sheet'.copy = NoRow)
    PROVE  SavesAreSaves'
BY DEF SavesAreSaves, SameCommand, IInv, IsOpen

LEMMA SavesStep ==
    ASSUME IInv, [Next]_vars
    PROVE  SavesAreSaves'
<1> DEFINE f == flight["save"]
           g == flight'["save"]
<1>0. /\ TypeOK /\ kind' = kind /\ "save" \in Channels
      /\ row' = NoRow => row = NoRow
  BY SameScreen, RowStep, MarkersAreNoRows DEF IInv, Channels, RowAdvances
<1>1. CASE g = Idle
  BY <1>1 DEF SavesAreSaves
<1>2. CASE OpenNew \/ OpenRow
  BY <1>0, <1>2, OpensParts DEF SavesAreSaves, IInv
<1>3. CASE Closes
  BY <1>0, <1>3, ClosesParts, OrphanedParts DEF SavesAreSaves, SameCommand, IInv
<1>4. CASE Create
  <2>1. Sends("save", "create", 0, <<>>) /\ IsOpen /\ sheet.copy = NoRow
    BY <1>4 DEF Create, CanEdit
  <2>2. g = Sent("create", 0, <<>>)
    BY <1>0, <2>1, SendsSent
  <2>3. g.command = "create" /\ g.version = 0 /\ g.rest = <<>>
    BY <2>2 DEF Sent
  <2>4. g.mine = TRUE
    BY <2>1, <2>2 DEF Sent
  <2>5. IsOpen' /\ sheet'.stale = 0 /\ sheet'.copy = NoRow
    BY <1>0, <1>4, <2>1, StaleParts, MaxVersionIsPositive DEF Create
  <2> QED
    BY <2>3, <2>4, <2>5 DEF SavesAreSaves
<1>5. CASE Save
  <2>1. PICK parts \in Submit.sends : Sends("save", Head(parts), sheet.copy.version, Tail(parts))
    BY <1>5 DEF Save
  <2>2. /\ parts \in {<<"update">>, <<"roles">>, <<"update", "roles">>}
        /\ kind # "employee" => parts = <<"update">>
    BY <1>0, <2>1, ThisScreen
  <2>3. /\ Head(parts) \in {"update", "roles"}
        /\ Tail(parts) # <<>> => Head(parts) = "update" /\ kind = "employee"
        /\ Head(parts) = "roles" => kind = "employee"
        /\ Tail(parts) \in {<<>>, <<"roles">>}
    BY <2>2, PartsOfASave
  <2>4. IsOpen /\ sheet.copy \in Row /\ sheet.copy # NoRow /\ sheet.stale = 0 /\ UNCHANGED sheet
    BY <1>0, <1>5, SheetType DEF Save, CanEdit
  <2>5. sheet.copy.version \in 0..MaxVersion
    BY <2>4, MaxVersionIsPositive DEF Row
  <2>6. PICK command \in {"update", "roles"}, rest \in {<<>>, <<"roles">>},
             version \in 0..MaxVersion :
           /\ Sends("save", command, version, rest) /\ version = sheet.copy.version
           /\ rest # <<>> => command = "update" /\ kind = "employee"
           /\ command = "roles" => kind = "employee"
    BY <2>1, <2>3, <2>5, Zenon
  <2>7. /\ g.command = command /\ g.version = version /\ g.rest = rest /\ g.mine = TRUE
        /\ g.info = sheet.info /\ g.roles = sheet.roles /\ g.from = sheet.copy
    <3>1. g = Sent(command, version, rest)
      BY <1>0, <2>6, SendsSent
    <3>2. /\ g.command = command /\ g.version = version /\ g.rest = rest
          /\ g.info = sheet.info /\ g.roles = sheet.roles /\ g.from = sheet.copy
      BY <2>4, <3>1 DEF Sent
    <3>3. g.mine = TRUE
      BY <2>4, <3>1 DEF Sent
    <3> QED
      BY <3>2, <3>3
  <2>8. sheet.info = sheet.copy.info /\ (kind = "employee" => sheet.roles = sheet.copy.roles)
    BY <2>4 DEF IInv, FieldsShowTheCopy
  <2> QED
    BY <1>0, <2>4, <2>6, <2>7, <2>8 DEF SavesAreSaves, IsOpen
<1>6. CASE SaveGoesOn
  <2>1. IsOpen' /\ sheet'.copy = f.row /\ sheet'.stale = sheet.stale
    BY <1>0, <1>6, GoesOnParts
  <2>2. /\ g.command = "roles" /\ g.version = f.row.version /\ g.info = f.row.info
        /\ g.roles = f.row.roles /\ g.rest = <<>> /\ g.from = f.row /\ g.mine = f.mine
    BY <1>0, <1>6, FollowsParts, OthersStay
  <2>3. /\ kind = "employee" /\ f.mine /\ f.row \in Row /\ f # Idle
    BY <1>6, SaveThatGoesOn DEF SaveGoesOn
  <2>4. sheet.stale = 0 /\ f.row # NoRow
    BY <2>3, MarkersAreNoRows DEF IInv, SavesAreSaves
  <2> QED
    BY <1>0, <2>1, <2>2, <2>3, <2>4 DEF SavesAreSaves
<1>7. ASSUME NEW ch \in Channels, ExecuteVersioned(ch) \/ ExecuteRefuses(ch) \/ Lose(ch)
      PROVE  SavesAreSaves'
  <2>1. UNCHANGED sheet /\ flight[ch] # Idle
    BY <1>7 DEF ExecuteVersioned, ExecuteRefuses, Lose
  <2>2. CASE ch = "save"
    <3>1. CASE Lose(ch)
      BY <1>0, <1>1, <2>2, <3>1, FreeParts DEF Lose
    <3>2. PICK state, r : ~Lose(ch) => Answers(ch, state, r)
      BY <1>7 DEF ExecuteVersioned, ExecuteRefuses
    <3> QED
      BY <1>0, <1>1, <2>1, <2>2, <3>1, <3>2, AnswersParts, SavesStay
  <2>3. CASE ch # "save"
    <3>1. g = f
      BY <1>0, <1>7, <2>1, <2>3, AnswersParts, FreeParts
      DEF ExecuteVersioned, ExecuteRefuses, Lose
    <3> QED
      BY <1>0, <1>1, <2>1, <3>1, SavesStay DEF SameCommand
  <2> QED
    BY <2>2, <2>3
<1>8. CASE ExecuteNoChange \/ ExecuteCreate
  <2>1. UNCHANGED sheet /\ f # Idle
    BY <1>8 DEF ExecuteNoChange, ExecuteCreate
  <2>2. PICK r : Answers("save", "ok", r)
    BY <1>8 DEF ExecuteNoChange, ExecuteCreate
  <2> QED
    BY <1>0, <1>1, <2>1, <2>2, AnswersParts, SavesStay
<1>9. CASE SaveSucceeds
  BY <1>0, <1>1, <1>9, FreeParts DEF SaveSucceeds, IInv, TypeOK, Orphaned
<1>10. CASE SaveFails
  BY <1>0, <1>1, <1>10, FreeParts DEF SaveFails
<1>11. CASE ConfirmSucceeds
  <2>1. g = f
    BY <1>0, <1>11, FreeParts DEF ConfirmSucceeds, Channels
  <2>2. CASE Mine("confirm")
    <3>1. IsOpen' /\ sheet'.stale = sheet.stale /\ sheet'.copy # NoRow /\ IsOpen /\ sheet.copy # NoRow
      BY <1>0, <1>11, <2>2, ConfirmThatIsMine, CopyParts, MarkersAreNoRows DEF Mine
    <3> QED
      BY <1>0, <1>1, <2>1, <3>1, SavesStay DEF SameCommand
  <2>3. CASE ~Mine("confirm")
    BY <1>0, <1>1, <1>11, <2>1, <2>3, SavesStay DEF SameCommand, ConfirmSucceeds
  <2> QED
    BY <2>2, <2>3
<1>12. CASE UploadSucceeds
  <2> DEFINE u == flight["upload"]
  <2>1. g = f
    BY <1>0, <1>12, FreeParts DEF UploadSucceeds, Channels
  <2>2. CASE sheet' = [sheet EXCEPT !.copy = u.from] /\ u.mine
    <3>1. IsOpen /\ sheet.copy # NoRow /\ u.from \in Row
      BY <1>12, <2>2 DEF UploadSucceeds, IInv, UploadsAreUploads
    <3>2. IsOpen' /\ sheet'.stale = sheet.stale /\ sheet'.copy # NoRow
      BY <1>0, <2>2, <3>1, CopyParts, MarkersAreNoRows
    <3> QED
      BY <1>0, <1>1, <2>1, <3>1, <3>2, SavesStay DEF SameCommand
  <2>3. CASE sheet' = sheet
    BY <1>0, <1>1, <2>1, <2>3, SavesStay DEF SameCommand
  <2> QED
    BY <1>12, <2>2, <2>3 DEF UploadSucceeds
<1>13. CASE \/ ListStep \/ Elsewhere
            \/ Upload \/ AskInSheet \/ Confirm \/ CancelDialog
            \/ ExecuteUpload \/ ConfirmFails \/ UploadFails \/ UNCHANGED vars
  <2>1. UNCHANGED sheet
    BY <1>13 DEF ListStep, Refetch, ReadList, ListArrives, ListFails, Elsewhere, Upload, AskInSheet,
       Confirm, CancelDialog, ExecuteUpload, ConfirmFails, UploadFails, vars
  <2>2. g = f
    <3>1. CASE ListStep \/ Elsewhere \/ AskInSheet \/ CancelDialog \/ UNCHANGED vars
      BY <3>1 DEF ListStep, Refetch, ReadList, ListArrives, ListFails, Elsewhere, AskInSheet,
         CancelDialog, vars
    <3>2. CASE Upload \/ Confirm
      BY <1>0, <3>2, OthersStay DEF Upload, Confirm, Sends, Channels
    <3>3. CASE ExecuteUpload
      BY <1>0, <3>3, AnswersParts DEF ExecuteUpload, Channels
    <3>4. CASE ConfirmFails \/ UploadFails
      BY <1>0, <3>4, FreeParts DEF ConfirmFails, UploadFails, Channels
    <3> QED
      BY <1>13, <3>1, <3>2, <3>3, <3>4
  <2> QED
    BY <1>0, <1>1, <2>1, <2>2, SavesStay DEF SameCommand
<1> QED
  BY <1>2, <1>3, <1>4, <1>5, <1>6, <1>7, <1>8, <1>9, <1>10, <1>11, <1>12, <1>13
  DEF Next, UserStep, ServerStep, AnswerStep, Closes
-----------------------------------------------------------------------------
(***************************************************************************)
(* What a step can do to a channel, and to the sheet                       *)
(***************************************************************************)
Executes(ch) ==
    \/ ExecuteVersioned(ch) \/ ExecuteRefuses(ch)
    \/ ch = "save" /\ (ExecuteNoChange \/ ExecuteCreate)
    \/ ch = "upload" /\ ExecuteUpload

IsAnswered(ch) ==
    /\ Executes(ch)
    /\ flight[ch] # Idle /\ flight[ch].state = "sent"
    /\ SameCommand(flight[ch], flight'[ch]) /\ flight'[ch].mine = flight[ch].mine
    /\ \/ flight'[ch].state = "ok" /\ flight'[ch].row \in {NoRow, row'}
       \/ flight'[ch].state \in {"stale", "refused"} /\ flight'[ch].row = NoRow
    /\ sheet' = sheet /\ dialog' = dialog /\ target' = target

IsSent(ch) ==
    /\ sheet' = sheet /\ UNCHANGED <<row, dialog, target, disturbed>>
    /\ \/ /\ ch = "save" /\ Save /\ IsOpen
          /\ \E command \in {"update", "roles"}, rest \in {<<>>, <<"roles">>} :
                flight'[ch] = Sent(command, sheet.copy.version, rest)
       \/ ch = "confirm" /\ Confirm /\ flight'[ch] = Sent(dialog, Confirmed.version, <<>>)
       \/ ch = "upload" /\ Upload /\ IsOpen /\ flight'[ch] = Sent("image", 0, <<>>)

ChannelMoves(ch) ==
    \/ flight'[ch] = Idle
    \/ flight'[ch] = flight[ch]
    \/ sheet' = Closed /\ flight'[ch] = Orphaned[ch]
    \/ IsAnswered(ch)
    \/ IsSent(ch)
    \/ ch = "save" /\ Create /\ flight'[ch] = Sent("create", 0, <<>>)
    \/ ch = "save" /\ SaveGoesOn /\ flight'[ch] = Follows

LEMMA AnswersStep ==
    ASSUME IInv, [Next]_vars, NEW ch \in Channels, Executes(ch)
    PROVE  IsAnswered(ch) /\ \A c \in Channels \ {ch} : flight'[c] = flight[c]
<1>0. TypeOK /\ "save" \in Channels /\ "upload" \in Channels
  BY DEF IInv, Channels
<1>1. /\ flight[ch] # Idle /\ flight[ch].state = "sent"
      /\ sheet' = sheet /\ dialog' = dialog /\ target' = target
  BY DEF Executes, ExecuteVersioned, ExecuteRefuses, ExecuteNoChange, ExecuteCreate, ExecuteUpload
<1>2. PICK state, r :
         /\ state \in {"ok", "stale", "refused"}
         /\ Answers(ch, state, r)
         /\ state = "ok" => r \in {NoRow, row'}
         /\ state # "ok" => r = NoRow
  BY DEF Executes, ExecuteVersioned, ExecuteRefuses, ExecuteNoChange, ExecuteCreate, ExecuteUpload
<1>3. /\ flight'[ch].state = state /\ flight'[ch].row = r
      /\ SameCommand(flight[ch], flight'[ch]) /\ flight'[ch].mine = flight[ch].mine
      /\ \A c \in Channels \ {ch} : flight'[c] = flight[c]
  BY <1>0, <1>1, <1>2, AnswersParts
<1> QED
  BY <1>1, <1>2, <1>3 DEF IsAnswered

LEMMA ChannelStep ==
    ASSUME IInv, [Next]_vars, NEW ch \in Channels
    PROVE  ChannelMoves(ch)
<1> USE DEF ChannelMoves
<1>0. /\ TypeOK /\ "save" \in Channels /\ "confirm" \in Channels /\ "upload" \in Channels
  BY DEF IInv, Channels
<1>1. CASE Closes
  BY <1>1, ClosesParts
<1>2. CASE OpenNew \/ OpenRow
  BY <1>2, OpensParts
<1>3. CASE Create
  BY <1>0, <1>3, SendsSent DEF Create
<1>4. CASE Save
  <2>1. PICK parts \in Submit.sends : Sends("save", Head(parts), sheet.copy.version, Tail(parts))
    BY <1>4 DEF Save
  <2>2. Head(parts) \in {"update", "roles"} /\ Tail(parts) \in {<<>>, <<"roles">>}
    BY <1>0, <2>1, ThisScreen, PartsOfASave
  <2>3. PICK command \in {"update", "roles"}, rest \in {<<>>, <<"roles">>} :
           Sends("save", command, sheet.copy.version, rest)
    BY <2>1, <2>2, Zenon
  <2>4. /\ flight'["save"] = Sent(command, sheet.copy.version, rest)
        /\ \A c \in Channels \ {"save"} : flight'[c] = flight[c]
    BY <1>0, <2>3, SendsSent
  <2>5. sheet' = sheet /\ UNCHANGED <<row, dialog, target, disturbed>> /\ IsOpen
    BY <1>4 DEF Save, CanEdit
  <2> QED
    BY <1>4, <2>4, <2>5 DEF IsSent
<1>5. CASE Upload
  BY <1>0, <1>5, SendsSent DEF Upload, CanEdit, IsSent
<1>6. CASE Confirm
  BY <1>0, <1>6, SendsSent DEF Confirm, IsSent
<1>7. ASSUME NEW c \in Channels, Executes(c) PROVE ChannelMoves(ch)
  BY <1>7, AnswersStep
<1>8. CASE SaveGoesOn
  <2>1. flight' = [flight EXCEPT !["save"] = Follows]
    BY <1>8, FollowsParts
  <2>2. flight'["save"] = Follows /\ \A c \in Channels \ {"save"} : flight'[c] = flight[c]
    BY <1>0, <2>1, OthersStay
  <2> QED
    BY <1>8, <2>2
<1>9. CASE SaveSucceeds
  <2>1. CASE SheetGone /\ flight' = [Orphaned EXCEPT !["save"] = Idle]
    <3>1. flight'[ch] = Idle \/ flight'[ch] = Orphaned[ch]
      BY <2>1 DEF Orphaned
    <3> QED
      BY <2>1, <3>1 DEF SheetGone
  <2>2. CASE Free("save")
    BY <1>0, <2>2, FreeParts
  <2> QED
    BY <1>9, <2>1, <2>2 DEF SaveSucceeds
<1>10. CASE SaveFails \/ ConfirmSucceeds \/ ConfirmFails \/ UploadSucceeds \/ UploadFails
  BY <1>0, <1>10, FreeParts
  DEF SaveFails, ConfirmSucceeds, ConfirmFails, UploadSucceeds, UploadFails
<1>11. ASSUME NEW c \in Channels, Lose(c) PROVE ChannelMoves(ch)
  BY <1>0, <1>11, FreeParts DEF Lose
<1>12. CASE ListStep \/ Elsewhere \/ AskInSheet \/ CancelDialog \/ UNCHANGED vars
  BY <1>12 DEF ListStep, Refetch, ReadList, ListArrives, ListFails, Elsewhere, AskInSheet,
     CancelDialog, vars
<1>13. ServerStep /\ ~Elsewhere => \E c \in Channels : Executes(c)
  BY <1>0 DEF ServerStep, Executes
<1> QED
  BY <1>1, <1>2, <1>3, <1>4, <1>5, <1>6, <1>7, <1>8, <1>9, <1>10, <1>11, <1>12, <1>13
  DEF Next, UserStep, AnswerStep, Closes

\* What the sheet keeps when only its working copy changes.
SameFields == sheet'.info = sheet.info /\ sheet'.roles = sheet.roles

SheetCloses ==
    /\ sheet' = Closed
    /\ \A ch \in Channels : flight'[ch] = Idle \/ flight'[ch] = Orphaned[ch]
    /\ kind # "department" => dialog' = "none"
    /\ UNCHANGED <<row, disturbed>>

SheetOpens ==
    /\ OpenNew \/ OpenRow
    /\ ~IsOpen /\ IsOpen' /\ flight' = flight
    /\ UNCHANGED <<row, list, dialog>>
    /\ sheet'.stale = 0
    /\ sheet'.copy = NoRow \/ sheet'.copy = list
    /\ sheet'.copy # NoRow => /\ sheet'.info = sheet'.copy.info
                              /\ kind = "employee" => sheet'.roles = sheet'.copy.roles
    /\ OpenNew => sheet'.copy = NoRow /\ row = NoRow
    /\ OpenRow => sheet'.copy = list

\* The working copy becomes what the save answered.
SaveIsShown ==
    /\ SaveGoesOn \/ (SaveSucceeds /\ flight'["save"] = Idle /\ kind \in {"customer", "gift"})
    /\ IsOpen /\ IsOpen'
    /\ flight["save"] # Idle /\ flight["save"].state = "ok" /\ flight["save"].mine
    /\ sheet'.copy = flight["save"].row /\ sheet'.stale = sheet.stale
    /\ sheet'.copy # NoRow => /\ sheet'.info = sheet'.copy.info
                              /\ kind = "employee" => sheet'.roles = sheet'.copy.roles
    /\ \A ch \in Channels \ {"save"} : flight'[ch] = flight[ch]
    /\ UNCHANGED <<row, dialog, disturbed>>

StaleIsNoted ==
    /\ Create \/ SaveFails
    /\ IsOpen /\ IsOpen' /\ sheet'.copy = sheet.copy /\ SameFields
    /\ UNCHANGED <<row, dialog, disturbed>>

ConfirmIsShown ==
    /\ ConfirmSucceeds /\ Mine("confirm") /\ IsOpen /\ IsOpen'
    /\ sheet'.copy = flight["confirm"].row /\ sheet'.stale = sheet.stale /\ SameFields
    /\ flight'["confirm"] = Idle
    /\ \A ch \in Channels \ {"confirm"} : flight'[ch] = flight[ch]
    /\ dialog' = "none" /\ UNCHANGED row

UploadIsShown ==
    /\ UploadSucceeds /\ Mine("upload") /\ kind = "product" /\ IsOpen /\ IsOpen'
    /\ flight["upload"].from \in Row
    /\ sheet'.copy = flight["upload"].from /\ sheet'.stale = sheet.stale /\ SameFields
    /\ flight'["upload"] = Idle
    /\ \A ch \in Channels \ {"upload"} : flight'[ch] = flight[ch]
    /\ UNCHANGED <<row, dialog, disturbed>>

SheetMoves ==
    \/ sheet' = sheet
    \/ SheetOpens \/ SheetCloses
    \/ SaveIsShown \/ StaleIsNoted \/ ConfirmIsShown \/ UploadIsShown

LEMMA SheetStep ==
    ASSUME IInv, [Next]_vars
    PROVE  SheetMoves
<1> USE DEF SheetMoves
<1>0. /\ TypeOK /\ "save" \in Channels /\ "confirm" \in Channels /\ "upload" \in Channels
  BY DEF IInv, Channels
<1>1. CASE OpenNew \/ OpenRow
  <2>1. PICK r \in Row \cup {NoRow} :
           /\ sheet' = Opened(r)
           /\ r = NoRow \/ r = list
           /\ OpenNew => r = NoRow /\ row = NoRow
           /\ OpenRow => r = list
    BY <1>1 DEF OpenNew, OpenRow, Shown
  <2>2. /\ sheet'.copy = r /\ sheet'.stale = 0
        /\ r # NoRow => sheet'.info = r.info
        /\ r # NoRow /\ kind = "employee" => sheet'.roles = r.roles
    BY <1>0, <2>1, OpenedParts, ThisScreen
  <2>3. UNCHANGED <<row, list, dialog>>
    BY <1>1 DEF OpenNew, OpenRow
  <2> QED
    BY <1>1, <2>1, <2>2, <2>3, OpensParts DEF SheetOpens
<1>2. CASE Closes
  <2>1. UNCHANGED <<row, disturbed>>
    BY <1>2 DEF Closes, Dismiss, Reload, AskOnPage
  <2>2. kind # "department" => dialog' = "none"
    BY <1>0, <1>2, ThisScreen DEF Closes, Dismiss, Reload, AskOnPage, NoDialog
  <2> QED
    BY <1>2, <2>1, <2>2, ClosesParts DEF SheetCloses
<1>3. CASE Create
  <2>1. IsOpen /\ UNCHANGED <<row, dialog, disturbed>>
    BY <1>3 DEF Create, CanEdit
  <2>2. sheet' = [sheet EXCEPT !.stale = 0] /\ 0 \in 0..MaxVersion
    BY <1>3, MaxVersionIsPositive DEF Create
  <2> QED
    BY <1>0, <1>3, <2>1, <2>2, StaleParts DEF StaleIsNoted, SameFields
<1>4. CASE SaveGoesOn
  <2> DEFINE f == flight["save"]
  <2>1. kind = "employee" /\ IsOpen /\ f.mine /\ f.state = "ok" /\ f.row \in Row /\ f # Idle
    BY <1>4, SaveThatGoesOn DEF SaveGoesOn
  <2>2. /\ IsOpen' /\ sheet'.copy = f.row /\ sheet'.stale = sheet.stale
        /\ f.row # NoRow => sheet'.info = f.row.info
        /\ f.row # NoRow /\ kind = "employee" => sheet'.roles = f.row.roles
    BY <1>0, <1>4, <2>1, GoesOnParts
  <2>3. \A ch \in Channels \ {"save"} : flight'[ch] = flight[ch]
    BY <1>0, <1>4, FollowsParts, OthersStay
  <2>4. UNCHANGED <<row, dialog, disturbed>>
    BY <1>4 DEF SaveGoesOn
  <2> QED
    BY <1>4, <2>1, <2>2, <2>3, <2>4 DEF SaveIsShown
<1>5. CASE SaveSucceeds
  <2> DEFINE f == flight["save"]
  <2>1. f # Idle /\ f.state = "ok" /\ f.row \in Row \cup {NoRow} /\ UNCHANGED <<row, disturbed>>
    BY <1>0, <1>5, RequestType DEF SaveSucceeds, Request
  <2>2. CASE SheetGone /\ flight' = [Orphaned EXCEPT !["save"] = Idle]
    <3>1. \A ch \in Channels : flight'[ch] = Idle \/ flight'[ch] = Orphaned[ch]
      BY <2>2 DEF Orphaned
    <3> QED
      BY <1>0, <2>1, <2>2, <3>1, ThisScreen DEF SheetGone, SheetCloses
  <2>3. CASE /\ Mine("save") /\ Holds(f.row) /\ UNCHANGED dialog /\ Free("save")
             /\ kind \in {"customer", "gift"}
    <3>1. IsOpen /\ f.mine
      BY <2>3 DEF IInv, SavesAreSaves, Mine
    <3>2. /\ IsOpen' /\ sheet'.copy = f.row /\ sheet'.stale = sheet.stale
          /\ f.row # NoRow => sheet'.info = f.row.info
          /\ f.row # NoRow /\ kind = "employee" => sheet'.roles = f.row.roles
      BY <1>0, <2>1, <2>3, <3>1, HoldsParts
    <3>3. flight'["save"] = Idle /\ \A ch \in Channels \ {"save"} : flight'[ch] = flight[ch]
      BY <1>0, <2>3, FreeParts
    <3> QED
      BY <1>5, <2>1, <2>3, <3>1, <3>2, <3>3 DEF SaveIsShown
  <2>4. PICK next \in Submit.created \cup Submit.updated :
           \/ next = "closes" /\ SheetGone /\ flight' = [Orphaned EXCEPT !["save"] = Idle]
           \/ /\ next = "stays"
              /\ IF Mine("save") THEN Holds(f.row) ELSE UNCHANGED sheet
              /\ UNCHANGED dialog /\ Free("save")
    BY <1>5 DEF SaveSucceeds
  <2>5. next = "stays" => kind \in {"customer", "gift"}
    BY <1>0, <2>4, ThisScreen
  <2> QED
    BY <2>2, <2>3, <2>4, <2>5
<1>6. CASE SaveFails
  <2> DEFINE f == flight["save"]
  <2>1. f # Idle /\ f.version \in 0..MaxVersion
    BY <1>0, <1>6, RequestType DEF SaveFails, Request
  <2>2. UNCHANGED <<row, dialog, disturbed>>
    BY <1>6 DEF SaveFails
  <2>3. sheet' = sheet \/ (sheet' = [sheet EXCEPT !.stale = f.version] /\ IsOpen)
    BY <1>6 DEF SaveFails, Mine, IInv, SavesAreSaves
  <2> QED
    BY <1>0, <1>6, <2>1, <2>2, <2>3, StaleParts DEF StaleIsNoted, SameFields
<1>7. CASE ConfirmSucceeds
  <2>1. CASE Mine("confirm")
    <3> DEFINE f == flight["confirm"]
    <3>1. IsOpen /\ f.row \in Row /\ sheet' = [sheet EXCEPT !.copy = f.row]
      BY <1>7, <2>1, ConfirmThatIsMine DEF Mine
    <3>2. IsOpen' /\ sheet'.copy = f.row /\ sheet'.stale = sheet.stale /\ SameFields
      BY <1>0, <3>1, CopyParts DEF SameFields
    <3>3. flight'["confirm"] = Idle /\ \A ch \in Channels \ {"confirm"} : flight'[ch] = flight[ch]
      BY <1>0, <1>7, FreeParts DEF ConfirmSucceeds
    <3>4. dialog' = "none" /\ UNCHANGED row
      BY <1>7, <2>1 DEF ConfirmSucceeds
    <3> QED
      BY <1>7, <2>1, <3>1, <3>2, <3>3, <3>4 DEF ConfirmIsShown
  <2>2. CASE ~Mine("confirm")
    BY <1>7, <2>2 DEF ConfirmSucceeds
  <2> QED
    BY <2>1, <2>2
<1>8. CASE UploadSucceeds
  <2> DEFINE f == flight["upload"]
  <2>1. CASE /\ sheet' = [sheet EXCEPT !.copy = f.from] /\ Mine("upload")
             /\ Sheet.upload = "workingCopy"
    <3>1. IsOpen /\ f.from \in Row
      BY <2>1 DEF Mine, IInv, UploadsAreUploads
    <3>2. IsOpen' /\ sheet'.copy = f.from /\ sheet'.stale = sheet.stale /\ SameFields
      BY <1>0, <2>1, <3>1, CopyParts DEF SameFields
    <3>3. flight'["upload"] = Idle /\ \A ch \in Channels \ {"upload"} : flight'[ch] = flight[ch]
      BY <1>0, <1>8, FreeParts DEF UploadSucceeds
    <3>4. UNCHANGED <<row, dialog, disturbed>> /\ kind = "product"
      BY <1>0, <1>8, <2>1, ThisScreen DEF UploadSucceeds
    <3> QED
      BY <1>8, <2>1, <3>1, <3>2, <3>3, <3>4 DEF UploadIsShown
  <2>2. sheet' = sheet \/ (/\ sheet' = [sheet EXCEPT !.copy = f.from] /\ Mine("upload")
                           /\ Sheet.upload = "workingCopy")
    BY <1>8 DEF UploadSucceeds, Mine
  <2> QED
    BY <2>1, <2>2
<1>9. CASE ListStep \/ Save \/ Upload \/ AskInSheet \/ Confirm \/ CancelDialog
            \/ Elsewhere \/ ConfirmFails \/ UploadFails \/ UNCHANGED vars
  BY <1>9 DEF ListStep, Refetch, ReadList, ListArrives, ListFails, Save, Upload, AskInSheet,
     Confirm, CancelDialog, Elsewhere, ConfirmFails, UploadFails, vars
<1>10. CASE \E ch \in Channels : Executes(ch)
  BY <1>10, AnswersStep DEF IsAnswered
<1>11. CASE \E ch \in Channels : Lose(ch)
  BY <1>11 DEF Lose
<1>12. ServerStep /\ ~Elsewhere => \E c \in Channels : Executes(c)
  BY <1>0 DEF ServerStep, Executes
<1> QED
  BY <1>1, <1>2, <1>3, <1>4, <1>5, <1>6, <1>7, <1>8, <1>9, <1>10, <1>11, <1>12
  DEF Next, UserStep, AnswerStep, Closes
-----------------------------------------------------------------------------
(***************************************************************************)
(* Snapshots                                                               *)
(***************************************************************************)
LEMMA PastStays ==
    ASSUME IInv, [Next]_vars, NEW r, Past(r, row)
    PROVE  Past(r, row')
<1>1. CASE r \notin Row \/ row' = row
  BY <1>1 DEF Past
<1>2. CASE r \in Row /\ row' # row
  <2>1. /\ row \in Row /\ row' \in Row /\ row'.version = row.version + 1
        /\ r.version <= row.version
    BY <1>2, RowStep, MarkersAreNoRows DEF RowAdvances, Past
  <2>2. r.version \in Int /\ row.version \in Int
    BY <1>2, <2>1 DEF Row
  <2> QED
    BY <2>1, <2>2 DEF Past
<1> QED
  BY <1>1, <1>2

\* A working copy, and what a channel carries, come from what was there before.
LEMMA CopyIsPast ==
    ASSUME IInv, [Next]_vars, IsOpen'
    PROVE  Past(sheet'.copy, row')
<1>1. SheetMoves
  BY SheetStep
<1>2. CASE sheet' = sheet
  BY <1>2, PastStays DEF IInv, SnapshotsArePast, IsOpen
<1>3. CASE SheetOpens
  BY <1>3, PastStays, MarkersAreNoRows DEF SheetOpens, IInv, SnapshotsArePast, Past
<1>4. CASE SheetCloses
  BY <1>4 DEF SheetCloses, IsOpen
<1>5. CASE SaveIsShown
  BY <1>5, PastStays DEF SaveIsShown, IInv, SnapshotsArePast, Channels
<1>6. CASE StaleIsNoted
  BY <1>6, PastStays DEF StaleIsNoted, IInv, SnapshotsArePast
<1>7. CASE ConfirmIsShown
  BY <1>7, PastStays DEF ConfirmIsShown, Mine, IInv, SnapshotsArePast, Channels
<1>8. CASE UploadIsShown
  BY <1>8, PastStays DEF UploadIsShown, Mine, IInv, SnapshotsArePast, Channels
<1> QED
  BY <1>1, <1>2, <1>3, <1>4, <1>5, <1>6, <1>7, <1>8 DEF SheetMoves

LEMMA NothingIsPast == ASSUME NEW w PROVE Past(NoRow, w)
BY MarkersAreNoRows DEF Past

LEMMA RowIsPast == ASSUME NEW r \in Row \cup {NoRow} PROVE Past(r, r)
<1>1. r \in Row => r.version \in Int
  BY DEF Row
<1> QED
  BY <1>1 DEF Past

LEMMA SentIsPast ==
    ASSUME IInv, NEW command, NEW version, NEW rest
    PROVE  LET g == Sent(command, version, rest)
           IN  Past(g.row, row) /\ Past(g.from, row)
<1> DEFINE g == Sent(command, version, rest)
<1>1. g.row = NoRow /\ g.from = IF IsOpen THEN sheet.copy ELSE NoRow
  BY DEF Sent
<1> HIDE DEF g
<1>2. Past(g.row, row) /\ Past(g.from, row)
  BY <1>1, NothingIsPast DEF IInv, SnapshotsArePast
<1> QED
  BY <1>2 DEF g

LEMMA RequestIsPast ==
    ASSUME IInv, [Next]_vars, NEW ch \in Channels, flight'[ch] # Idle
    PROVE  Past(flight'[ch].row, row') /\ Past(flight'[ch].from, row')
<1> DEFINE f == flight[ch]
           g == flight'[ch]
<1>0. TypeOK /\ "save" \in Channels
  BY DEF IInv, Channels
<1>1. ChannelMoves(ch)
  BY ChannelStep
<1>2. f # Idle => Past(f.row, row') /\ Past(f.from, row')
  BY PastStays DEF IInv, SnapshotsArePast
<1>3. CASE g = f
  BY <1>2, <1>3
<1>4. CASE g = Orphaned[ch]
  BY <1>0, <1>2, <1>4, OrphanedParts DEF SameCommand
<1>5. CASE IsAnswered(ch)
  BY <1>2, <1>5, NothingIsPast, RowIsPast, RowKeepsType DEF IsAnswered, SameCommand
<1>6. CASE IsSent(ch) \/ (ch = "save" /\ Create /\ g = Sent("create", 0, <<>>))
  <2>1. \E command, version, rest : g = Sent(command, version, rest)
    BY <1>6 DEF IsSent
  <2> QED
    BY <2>1, SentIsPast, PastStays
<1>7. CASE ch = "save" /\ SaveGoesOn /\ g = Follows
  <2>1. Follows.row = NoRow /\ Follows.from = f.row
    BY <1>7, FollowsParts
  <2> QED
    BY <1>2, <1>7, <2>1, NothingIsPast DEF SaveGoesOn
<1> QED
  BY <1>1, <1>3, <1>4, <1>5, <1>6, <1>7 DEF ChannelMoves

LEMMA TargetIsPast ==
    ASSUME IInv, [Next]_vars
    PROVE  Past(target', row')
<1>1. target' \in {target, NoRow, list} \/ (IsOpen /\ target' = sheet.copy)
  <2>1. CASE AskOnPage \/ CancelDialog \/ ConfirmSucceeds
    BY <2>1 DEF AskOnPage, CanEdit, CancelDialog, ConfirmSucceeds
  <2>2. CASE ListStep \/ OpenNew \/ OpenRow \/ Dismiss \/ Reload \/ Create \/ Save \/ Upload
             \/ AskInSheet \/ Confirm
    BY <2>2 DEF ListStep, Refetch, ReadList, ListArrives, ListFails, OpenNew, OpenRow, Dismiss,
       Reload, Create, Save, Upload, AskInSheet, Confirm
  <2>3. CASE ServerStep
    BY <2>3 DEF ServerStep, ExecuteVersioned, ExecuteRefuses, ExecuteNoChange, ExecuteCreate,
       ExecuteUpload, Elsewhere
  <2>4. CASE SaveGoesOn \/ SaveSucceeds \/ SaveFails \/ ConfirmFails \/ UploadSucceeds
             \/ UploadFails \/ UNCHANGED vars
    BY <2>4 DEF SaveGoesOn, SaveSucceeds, SaveFails, ConfirmFails, UploadSucceeds, UploadFails, vars
  <2>5. CASE \E ch \in Channels : Lose(ch)
    BY <2>5 DEF Lose
  <2> QED
    BY <2>1, <2>2, <2>3, <2>4, <2>5 DEF Next, UserStep, AnswerStep
<1> QED
  BY <1>1, PastStays, NothingIsPast DEF IInv, SnapshotsArePast

LEMMA SnapshotsStep ==
    ASSUME IInv, [Next]_vars
    PROVE  SnapshotsArePast'
<1>1. list' = Failed \/ Past(list', row')
  BY ListStepParts, PastStays DEF ListMoves, IInv, SnapshotsArePast
<1>2. fetch' \in {fetch, Asked, NoFetch} \/ fetch' = [state |-> "answered", row |-> row]
  BY ListStepParts DEF ListMoves
<1>3. Past(fetch'.row, row')
  <2>1. fetch'.row \in {fetch.row, NoRow, row}
    BY <1>2 DEF Asked, NoFetch
  <2>2. Past(row, row)
    BY RowIsPast DEF IInv, TypeOK
  <2> QED
    BY <2>1, <2>2, PastStays, NothingIsPast DEF IInv, SnapshotsArePast
<1> QED
  BY <1>1, <1>3, CopyIsPast, RequestIsPast, TargetIsPast, MarkersAreNoRows
  DEF SnapshotsArePast, Past
-----------------------------------------------------------------------------
(***************************************************************************)
(* The fields, the dialog, the confirm and the upload channel              *)
(***************************************************************************)
LEMMA FieldsStep ==
    ASSUME IInv, [Next]_vars
    PROVE  FieldsShowTheCopy'
<1> USE DEF FieldsShowTheCopy
<1>0. kind' = kind /\ "confirm" \in Channels /\ SheetMoves
  BY SameScreen, SheetStep DEF Channels
<1>1. CASE sheet' = sheet
  BY <1>0, <1>1 DEF IInv, IsOpen
<1>2. CASE SheetOpens
  BY <1>0, <1>2 DEF SheetOpens
<1>3. CASE SheetCloses
  BY <1>3 DEF SheetCloses, IsOpen
<1>4. CASE SaveIsShown
  BY <1>0, <1>4 DEF SaveIsShown
<1>5. CASE StaleIsNoted
  BY <1>0, <1>5 DEF StaleIsNoted, SameFields, IInv
<1>6. CASE ConfirmIsShown
  <2> DEFINE f == flight["confirm"]
  <2>1. /\ f # Idle /\ f.mine /\ f.state = "ok" /\ IsOpen /\ sheet.copy \in Row
        /\ kind # "department" /\ f.command # "create"
        /\ f.row.info = f.from.info /\ f.row.roles = f.from.roles
    BY <1>6, ConfirmThatIsMine DEF ConfirmIsShown, Mine
  <2>2. CASE kind = "product"
    BY <1>0, <1>6, <2>1, <2>2 DEF IInv, UploadsPutBack, ConfirmIsShown, SameFields
  <2>3. CASE kind # "product"
    <3>1. sheet.copy = f.from
      BY <2>1, <2>3 DEF IInv, CopyIsWhatWasSent, Commands
    <3>2. sheet.info = f.from.info /\ (kind = "employee" => sheet.roles = f.from.roles)
      BY <2>1, <3>1, MarkersAreNoRows DEF IInv
    <3> QED
      BY <1>0, <1>6, <2>1, <3>2 DEF ConfirmIsShown, SameFields
  <2> QED
    BY <2>2, <2>3
<1>7. CASE UploadIsShown
  BY <1>0, <1>7 DEF UploadIsShown, Mine, SameFields, IInv, UploadsPutBack
<1> QED
  BY <1>0, <1>1, <1>2, <1>3, <1>4, <1>5, <1>6, <1>7 DEF SheetMoves

\* What a step can do to the dialog and to the row the page asks about.
DialogMoves ==
    \/ dialog' = dialog /\ target' = target
    \/ /\ AskInSheet /\ NoDialog /\ IsOpen /\ sheet.copy \in Row /\ sheet' = sheet
       /\ UNCHANGED <<row, flight>>
       /\ kind \notin {"department", "customer", "gift"} /\ Applies(dialog', sheet.copy)
    \/ /\ AskOnPage /\ NoDialog /\ kind = "department" /\ sheet' = Closed
       /\ target' \in Row /\ Applies(dialog', target')
    \/ dialog' = "none" /\ CancelDialog /\ flight["confirm"] = Idle /\ flight' = flight
    \/ dialog' = "none" /\ SaveSucceeds /\ sheet' = Closed /\ kind # "department"
    \/ /\ ConfirmSucceeds /\ flight'["confirm"] = Idle
       /\ \/ dialog' = "none"
          \/ dialog' = dialog /\ kind # "department" /\ UNCHANGED sheet

LEMMA DialogStep ==
    ASSUME IInv, [Next]_vars
    PROVE  DialogMoves
<1> USE DEF DialogMoves
<1>0. TypeOK /\ "confirm" \in Channels
  BY DEF IInv, Channels
<1>1. CASE AskInSheet
  <2>1. /\ NoDialog /\ IsOpen /\ sheet.copy \in Row /\ sheet' = sheet /\ UNCHANGED <<row, flight>>
        /\ kind # "department"
    BY <1>0, <1>1, SheetType, ThisScreen DEF AskInSheet, CanEdit
  <2>2. dialog' \in IF sheet.copy.active THEN Sheet.dialogs.active ELSE Sheet.dialogs.inactive
    BY <1>1 DEF AskInSheet
  <2>3. kind \notin {"customer", "gift"}
    BY <1>0, <2>2, ThisScreen
  <2>4. Applies(dialog', sheet.copy)
    BY <1>0, <2>2, ThisScreen DEF Applies
  <2> QED
    BY <1>1, <2>1, <2>3, <2>4
<1>2. CASE AskOnPage
  <2>1. target' \in Row /\ sheet' = Closed /\ kind = "department" /\ NoDialog
    BY <1>0, <1>2, SheetType, ThisScreen DEF AskOnPage, CanEdit, Shown
  <2>2. dialog' = IF target'.active THEN "deactivate" ELSE "activate"
    BY <1>2 DEF AskOnPage
  <2>3. Applies(dialog', target')
    BY <2>2 DEF Applies
  <2> QED
    BY <1>2, <2>1, <2>3
<1>3. CASE CancelDialog
  BY <1>3 DEF CancelDialog
<1>4. CASE SaveSucceeds
  BY <1>0, <1>4, ThisScreen DEF SaveSucceeds, SheetGone
<1>5. CASE ConfirmSucceeds
  BY <1>0, <1>5, FreeParts, ThisScreen DEF ConfirmSucceeds
<1>6. CASE ListStep \/ OpenNew \/ OpenRow \/ Dismiss \/ Reload \/ Create \/ Save \/ Upload \/ Confirm
  BY <1>6 DEF ListStep, Refetch, ReadList, ListArrives, ListFails, OpenNew, OpenRow, Dismiss,
     Reload, Create, Save, Upload, Confirm
<1>7. CASE ServerStep
  BY <1>7 DEF ServerStep, ExecuteVersioned, ExecuteRefuses, ExecuteNoChange, ExecuteCreate,
     ExecuteUpload, Elsewhere
<1>8. CASE SaveGoesOn \/ SaveFails \/ ConfirmFails \/ UploadSucceeds \/ UploadFails \/ UNCHANGED vars
  BY <1>8 DEF SaveGoesOn, SaveFails, ConfirmFails, UploadSucceeds, UploadFails, vars
<1>9. CASE \E ch \in Channels : Lose(ch)
  BY <1>9 DEF Lose
<1> QED
  BY <1>1, <1>2, <1>3, <1>4, <1>5, <1>6, <1>7, <1>8, <1>9 DEF Next, UserStep, AnswerStep

\* Who is behind the row stays behind it.
LEMMA BehindStays ==
    ASSUME IInv, [Next]_vars, NEW v \in Int, row \in Row, v < row.version
    PROVE  row' \in Row /\ v < row'.version
<1>1. row' = row \/ (row' \in Row /\ row'.version = row.version + 1)
  BY RowStep, MarkersAreNoRows DEF RowAdvances
<1>2. row.version \in Int
  BY DEF Row
<1> QED
  BY <1>1, <1>2

LEMMA DialogsStep ==
    ASSUME IInv, [Next]_vars
    PROVE  DialogsAskWhatApplies'
<1> USE DEF NoDialog
<1>0. kind' = kind /\ TypeOK /\ "upload" \in Channels /\ SheetMoves /\ DialogMoves
  BY SameScreen, SheetStep, DialogStep DEF Channels, IInv
<1>1. CASE dialog' = "none"
  BY <1>1 DEF DialogsAskWhatApplies
<1>2. CASE dialog' = dialog /\ dialog # "none" /\ kind = "department" /\ target' = target
  <2>1. ~IsOpen /\ target \in Row /\ Applies(dialog, target) /\ kind \notin {"customer", "gift"}
    BY <1>2 DEF IInv, DialogsAskWhatApplies
  <2>2. ~IsOpen'
    BY <1>0, <1>2, <2>1
    DEF SheetMoves, SheetOpens, OpenNew, OpenRow, SheetCloses, SaveIsShown, StaleIsNoted,
        ConfirmIsShown, UploadIsShown, IsOpen
  <2> QED
    BY <1>0, <1>2, <2>1, <2>2 DEF DialogsAskWhatApplies
<1>3. CASE dialog' = dialog /\ dialog # "none" /\ kind # "department"
  <2>1. /\ IsOpen /\ sheet.copy \in Row /\ kind \notin {"customer", "gift"}
        /\ \/ Applies(dialog, sheet.copy)
           \/ kind = "product" /\ sheet.copy.version < row.version
    BY <1>3 DEF IInv, DialogsAskWhatApplies
  <2>2. row \in Row /\ sheet.copy.version <= row.version
    BY <2>1 DEF IInv, SnapshotsArePast, Past
  <2>3. sheet.copy.version \in Int /\ row.version \in Int
    BY <2>1, <2>2 DEF Row
  <2>4. CASE IsOpen' /\ sheet'.copy = sheet.copy
    BY <1>0, <1>3, <2>1, <2>2, <2>3, <2>4, BehindStays DEF DialogsAskWhatApplies
  <2>5. CASE SaveIsShown
    <3> DEFINE f == flight["save"]
    <3>1. SaveGoesOn
      BY <2>1, <2>5 DEF SaveIsShown
    <3>2. kind = "employee" /\ f.from \in Row /\ f.row \in Row /\ f.row = Written("update", f.from)
          /\ sheet.copy = f.from
      BY <3>1, SaveThatGoesOn
    <3>3. f.row.active = f.from.active
      BY <3>2 DEF Written
    <3>4. Applies(dialog, f.row)
      BY <2>1, <3>2, <3>3 DEF Applies
    <3> QED
      BY <1>0, <1>3, <2>1, <2>5, <3>2, <3>4 DEF SaveIsShown, DialogsAskWhatApplies
  <2>6. CASE ConfirmIsShown
    BY <1>3, <2>6 DEF ConfirmIsShown
  <2>7. CASE UploadIsShown
    <3> DEFINE f == flight["upload"]
    <3>1. /\ kind = "product" /\ f.from \in Row /\ f # Idle /\ f.mine
          /\ sheet'.copy = f.from /\ IsOpen' /\ row' = row /\ dialog' = dialog
      BY <2>7 DEF UploadIsShown, Mine
    <3>2. f.from.version <= sheet.copy.version
      BY <3>1 DEF IInv, UploadsPutBack
    <3>3. Past(f.from, row) /\ Past(sheet.copy, row)
      BY <1>0, <2>1, <3>1 DEF IInv, SnapshotsArePast
    <3>4. f.from.version \in Int
      BY <3>1 DEF Row
    <3>5. f.from.version < row.version \/ f.from = sheet.copy
      BY <2>1, <2>2, <2>3, <3>1, <3>2, <3>3, <3>4 DEF Past
    <3> QED
      BY <1>0, <2>1, <3>1, <3>5 DEF DialogsAskWhatApplies
  <2> QED
    BY <1>0, <1>3, <2>1, <2>4, <2>5, <2>6, <2>7
    DEF SheetMoves, SheetOpens, SheetCloses, StaleIsNoted, IsOpen
<1>4. CASE AskInSheet /\ dialog' # "none" /\ dialog' # dialog
  BY <1>0, <1>4 DEF DialogMoves, DialogsAskWhatApplies, IsOpen
<1>5. CASE AskOnPage /\ dialog' # "none" /\ dialog' # dialog
  BY <1>0, <1>5 DEF DialogMoves, DialogsAskWhatApplies, IsOpen
<1> QED
  BY <1>0, <1>1, <1>2, <1>3, <1>4, <1>5 DEF DialogMoves

LEMMA UploadsStep ==
    ASSUME IInv, [Next]_vars
    PROVE  UploadsAreUploads'
<1> DEFINE f == flight["upload"]
           g == flight'["upload"]
<1>0. TypeOK /\ "upload" \in Channels /\ ChannelMoves("upload") /\ SheetMoves
  BY SheetStep, ChannelStep DEF Channels, IInv
<1>1. CASE g = Idle
  BY <1>1 DEF UploadsAreUploads
<1>2. CASE g # Idle /\ g.mine /\ f # Idle /\ g.from = f.from /\ f.mine
           /\ g.command = f.command /\ g.state # "stale"
  <2>1. IsOpen /\ sheet.copy # NoRow /\ f.from \in Row /\ f.command = "image"
    BY <1>2 DEF IInv, UploadsAreUploads
  <2>2. IsOpen' /\ sheet'.copy # NoRow
    <3>1. CASE sheet' = sheet
      BY <2>1, <3>1 DEF IsOpen
    <3>2. CASE SheetOpens \/ SheetCloses
      BY <1>0, <1>2, <2>1, <3>2, OrphanedParts DEF SheetOpens, SheetCloses
    <3>3. CASE SaveIsShown
      <4>1. CASE SaveGoesOn
        BY <3>3, <4>1, SaveThatGoesOn, MarkersAreNoRows DEF SaveIsShown
      <4>2. CASE kind \in {"customer", "gift"}
        BY <3>3, <4>2, MarkersAreNoRows DEF SaveIsShown, IInv, AnswersAreWritten, Commands
      <4> QED
        BY <3>3, <4>1, <4>2 DEF SaveIsShown
    <3>4. CASE StaleIsNoted
      BY <2>1, <3>4 DEF StaleIsNoted
    <3>5. CASE ConfirmIsShown
      BY <3>5, ConfirmThatIsMine, MarkersAreNoRows DEF ConfirmIsShown, Mine
    <3>6. CASE UploadIsShown
      BY <3>6, MarkersAreNoRows DEF UploadIsShown
    <3> QED
      BY <1>0, <3>1, <3>2, <3>3, <3>4, <3>5, <3>6 DEF SheetMoves
  <2> QED
    BY <1>2, <2>1, <2>2 DEF UploadsAreUploads
<1>3. CASE f # Idle /\ g # Idle /\ ~g.mine /\ g.command = f.command /\ g.state # "stale"
  BY <1>3 DEF IInv, UploadsAreUploads
<1>4. CASE g = f \/ g = Orphaned["upload"]
  <2>1. CASE f # Idle
    <3>1. g.command = f.command /\ g.state = f.state /\ g.from = f.from
      BY <1>0, <1>4, <2>1, OrphanedParts DEF SameCommand
    <3>2. ~g.mine \/ (g.mine /\ f.mine)
      BY <1>0, <1>4, <2>1, OrphanedParts
    <3>3. f.state # "stale"
      BY <2>1 DEF IInv, UploadsAreUploads
    <3> QED
      BY <1>1, <1>2, <1>3, <2>1, <3>1, <3>2, <3>3
  <2>2. CASE f = Idle
    BY <1>0, <1>1, <1>4, <2>2, OrphanedParts
  <2> QED
    BY <2>1, <2>2
<1>5. CASE IsAnswered("upload")
  <2>1. f # Idle /\ SameCommand(f, g) /\ g.mine = f.mine
    BY <1>5 DEF IsAnswered
  <2>2. f.command = "image" /\ ~ExecuteVersioned("upload") /\ ~ExecuteRefuses("upload")
    BY <2>1 DEF IInv, UploadsAreUploads, ExecuteVersioned, ExecuteRefuses
  <2>3. ExecuteUpload
    BY <1>5, <2>2 DEF IsAnswered, Executes
  <2>4. g.state # "stale"
    <3>1. PICK state \in {"ok", "refused"} : Answers("upload", state, NoRow)
      BY <2>3 DEF ExecuteUpload
    <3> QED
      BY <1>0, <2>1, <3>1, AnswersParts
  <2> QED
    BY <1>1, <1>2, <1>3, <2>1, <2>4 DEF SameCommand
<1>6. CASE IsSent("upload")
  <2>1. Upload /\ IsOpen /\ g = Sent("image", 0, <<>>) /\ sheet' = sheet
    BY <1>6 DEF IsSent
  <2>2. sheet.copy \in Row /\ sheet.copy # NoRow
    BY <1>0, <2>1, SheetType DEF Upload
  <2>3. g.command = "image" /\ g.from = sheet.copy /\ g.state = "sent"
    BY <2>1 DEF Sent
  <2> QED
    BY <2>1, <2>2, <2>3 DEF UploadsAreUploads, IsOpen
<1> QED
  BY <1>0, <1>1, <1>4, <1>5, <1>6 DEF ChannelMoves

LEMMA ConfirmsStep ==
    ASSUME IInv, [Next]_vars
    PROVE  ConfirmsAreConfirms'
<1> DEFINE f == flight["confirm"]
           g == flight'["confirm"]
<1>0. /\ kind' = kind /\ TypeOK /\ "confirm" \in Channels
      /\ ChannelMoves("confirm") /\ SheetMoves /\ DialogMoves
  BY SameScreen, SheetStep, DialogStep, ChannelStep DEF Channels, IInv
<1>1. CASE g = Idle
  BY <1>1 DEF ConfirmsAreConfirms
<1>2. CASE IsSent("confirm")
  <2>1. /\ Confirm /\ g = Sent(dialog, Confirmed.version, <<>>)
        /\ sheet' = sheet /\ row' = row /\ dialog' = dialog /\ target' = target
    BY <1>2 DEF IsSent
  <2>2. g.command = dialog /\ g.version = Confirmed.version
    BY <2>1 DEF Sent
  <2>3. dialog \in {"deactivate", "activate", "reset"} /\ ~NoDialog
    BY <1>0, <2>1 DEF Confirm, TypeOK, NoDialog
  <2>4. CASE kind = "department"
    <3>1. ~IsOpen /\ Confirmed = target
      BY <1>0, <2>3, <2>4, ThisScreen DEF IInv, DialogsAskWhatApplies, Confirmed
    <3>2. g.mine = FALSE
      BY <2>1, <3>1 DEF Sent
    <3> QED
      BY <1>0, <2>1, <2>2, <2>3, <2>4, <3>1, <3>2 DEF ConfirmsAreConfirms, NoDialog
  <2>5. CASE kind # "department"
    <3>1. /\ IsOpen /\ Confirmed = sheet.copy /\ sheet.copy \in Row
          /\ Applies(dialog, sheet.copy) \/ sheet.copy.version < row.version
      BY <1>0, <2>3, <2>5, ThisScreen DEF IInv, DialogsAskWhatApplies, Confirmed
    <3>2. g.from = sheet.copy
      BY <2>1, <3>1 DEF Sent
    <3> QED
      BY <1>0, <2>1, <2>2, <2>3, <2>5, <3>1, <3>2, MarkersAreNoRows
      DEF ConfirmsAreConfirms, NoDialog, IsOpen
  <2> QED
    BY <2>4, <2>5
<1>3. CASE f # Idle /\ g # Idle /\ SameCommand(f, g) /\ (g.mine => f.mine)
           /\ (g.mine = f.mine \/ sheet' = Closed)
  <2>1. /\ f.command \in {"deactivate", "activate", "reset"}
        /\ f.mine => IsOpen /\ sheet.copy # NoRow /\ ~NoDialog /\ kind # "department"
    BY <1>3 DEF IInv, ConfirmsAreConfirms
  <2>2. CASE kind = "department"
    <3>1. ~NoDialog /\ f.command = dialog /\ f.version = target.version /\ ~f.mine
      BY <1>3, <2>1, <2>2 DEF IInv, ConfirmsAreConfirms
    <3>2. dialog' = dialog /\ target' = target
      BY <1>0, <1>3, <2>2, <3>1 DEF DialogMoves
    <3> QED
      BY <1>0, <1>3, <2>1, <2>2, <3>1, <3>2 DEF ConfirmsAreConfirms, NoDialog, SameCommand
  <2>3. CASE kind # "department"
    <3>1. /\ f.from \in Row /\ f.version = f.from.version
          /\ Applies(f.command, f.from) \/ f.from.version < row.version
      BY <1>3, <2>3 DEF IInv, ConfirmsAreConfirms
    <3>2. Applies(f.command, f.from) \/ f.from.version < row'.version
      <4>1. row \in Row /\ f.from.version \in Int
        BY <1>0, <1>3, <3>1 DEF IInv, SnapshotsArePast, Past, Row
      <4> QED
        BY <3>1, <4>1, BehindStays
    <3>3. g.mine => IsOpen' /\ sheet'.copy # NoRow /\ dialog' # "none"
      <4> SUFFICES ASSUME g.mine PROVE IsOpen' /\ sheet'.copy # NoRow /\ dialog' # "none"
        OBVIOUS
      <4>1. IsOpen /\ sheet.copy # NoRow /\ ~NoDialog
        BY <1>3, <2>1
      <4>2. kind \notin {"customer", "gift"} /\ sheet.copy \in Row
        BY <4>1, <2>3 DEF IInv, DialogsAskWhatApplies
      <4>3. ~SheetCloses
        <5> SUFFICES ASSUME SheetCloses PROVE FALSE
          OBVIOUS
        <5>1. g = Orphaned["confirm"]
          BY <1>0, <1>3 DEF SheetCloses
        <5> QED
          BY <1>0, <1>3, <5>1, OrphanedParts
      <4>4. ~ConfirmIsShown
        BY <1>3 DEF ConfirmIsShown
      <4>5. IsOpen' /\ sheet'.copy # NoRow
        <5>1. CASE sheet' = sheet
          BY <4>1, <5>1 DEF IsOpen
        <5>2. CASE SaveIsShown
          <6>1. SaveGoesOn
            BY <4>2, <5>2 DEF SaveIsShown
          <6> QED
            BY <5>2, <6>1, SaveThatGoesOn, MarkersAreNoRows DEF SaveIsShown
        <5>3. CASE StaleIsNoted
          BY <4>1, <5>3 DEF StaleIsNoted
        <5>4. CASE UploadIsShown
          BY <5>4, MarkersAreNoRows DEF UploadIsShown
        <5> QED
          BY <1>0, <4>1, <4>3, <4>4, <5>1, <5>2, <5>3, <5>4 DEF SheetMoves, SheetOpens
      <4>6. dialog' = dialog
        BY <1>0, <1>3, <2>3, <4>1, <4>5 DEF DialogMoves, IsOpen
      <4> QED
        BY <4>1, <4>5, <4>6 DEF NoDialog
    <3> QED
      BY <1>0, <1>3, <2>1, <2>3, <3>1, <3>2, <3>3 DEF ConfirmsAreConfirms, NoDialog, SameCommand
  <2> QED
    BY <2>2, <2>3
<1>4. CASE f # Idle /\ (g = f \/ (g = Orphaned["confirm"] /\ sheet' = Closed))
  BY <1>0, <1>1, <1>3, <1>4, OrphanedParts DEF SameCommand
<1>5. CASE f = Idle /\ (g = f \/ g = Orphaned["confirm"])
  BY <1>0, <1>1, <1>5, OrphanedParts
<1>6. CASE IsAnswered("confirm")
  BY <1>1, <1>3, <1>6 DEF IsAnswered
<1> QED
  BY <1>0, <1>1, <1>2, <1>4, <1>5, <1>6 DEF ChannelMoves
-----------------------------------------------------------------------------
(***************************************************************************)
(* Answers and the working copy                                            *)
(***************************************************************************)
\* An answer that no execution has just given was there before.
LEMMA OkWasOk ==
    ASSUME IInv, [Next]_vars, NEW ch \in Channels,
           flight'[ch] # Idle, flight'[ch].state = "ok", ~Executes(ch)
    PROVE  /\ flight[ch] # Idle /\ flight[ch].state = "ok"
           /\ SameCommand(flight[ch], flight'[ch]) /\ flight'[ch].row = flight[ch].row
           /\ flight'[ch].mine => flight'[ch] = flight[ch]
<1> DEFINE f == flight[ch]
           g == flight'[ch]
<1>0. TypeOK /\ "save" \in Channels
  BY DEF IInv, Channels
<1>1. ChannelMoves(ch)
  BY ChannelStep
<1>2. CASE g = f
  BY <1>2 DEF SameCommand
<1>3. CASE g = Orphaned[ch]
  BY <1>0, <1>3, OrphanedParts
<1>4. CASE IsSent(ch) \/ (ch = "save" /\ Create /\ g = Sent("create", 0, <<>>))
  <2>1. \E command, version, rest : g = Sent(command, version, rest)
    BY <1>4 DEF IsSent
  <2> QED
    BY <2>1 DEF Sent
<1>5. CASE ch = "save" /\ SaveGoesOn /\ g = Follows
  BY <1>5, FollowsParts
<1> QED
  BY <1>1, <1>2, <1>3, <1>4, <1>5 DEF ChannelMoves, IsAnswered

\* What the server has just accepted.
LEMMA OkIsNew ==
    ASSUME IInv, [Next]_vars, kind # "department",
           NEW ch \in Commands, Executes(ch), flight'[ch].state = "ok"
    PROVE  LET f == flight[ch]
           IN  /\ f # Idle /\ f.state = "sent"
               /\ flight'[ch].row = row' /\ row' \in Row /\ row'.version = f.version + 1
               /\ f.command = "create" => ch = "save" /\ row = NoRow /\ f.version = 0
               /\ f.command # "create" => /\ f.version = row.version /\ row \in Row /\ f.from = row
                                          /\ row' = Written(f.command, row)
<1> DEFINE f == flight[ch]
<1>0. ch \in Channels /\ TypeOK
  BY DEF Commands, Channels, IInv
<1>1. f # Idle /\ f.state = "sent"
  BY <1>0, AnswersStep DEF IsAnswered
<1>2. CASE ExecuteVersioned(ch)
  <2>1. f.command \notin {"create", "image"}
    BY <1>2 DEF ExecuteVersioned
  <2>2. /\ row \in Row /\ f.from \in Row /\ f.version = f.from.version
    BY <1>0, <1>1, <2>1, CommandsHaveARow
  <2>3. PICK state, r : /\ Answers(ch, state, r)
                        /\ \/ /\ state = "ok" /\ r = row' /\ f.version = row.version
                              /\ row.version < MaxVersion /\ row' = Written(f.command, row)
                           \/ state = "stale"
    BY <1>2 DEF ExecuteVersioned
  <2>4. flight'[ch].state = state /\ flight'[ch].row = r
    BY <1>0, <1>1, <2>3, AnswersParts
  <2>5. f.version = row.version /\ row' = Written(f.command, row) /\ row.version < MaxVersion
        /\ flight'[ch].row = row'
    BY <2>3, <2>4
  <2>6. f.from = row
    BY <1>0, <1>1, <2>2, <2>5 DEF IInv, SnapshotsArePast, Past
  <2>7. row' \in Row
    BY <2>2, <2>5, WrittenType
  <2>8. row'.version = row.version + 1
    BY <2>5 DEF Written
  <2> QED
    BY <1>1, <2>1, <2>2, <2>5, <2>6, <2>7, <2>8
<1>3. CASE ch = "save" /\ ExecuteCreate
  <2>1. /\ row = NoRow /\ f.command = "create" /\ Answers("save", "ok", row')
        /\ row' = [version |-> 1, active |-> TRUE, info |-> 1, roles |-> 1]
    BY <1>3 DEF ExecuteCreate
  <2>2. f.version = 0
    BY <1>1, <1>3, <2>1 DEF IInv, SavesAreSaves
  <2>3. flight'[ch].row = row'
    BY <1>0, <1>1, <1>3, <2>1, AnswersParts
  <2>4. row' \in Row /\ row'.version = 1
    BY <2>1, MaxVersionIsPositive DEF Row
  <2> QED
    BY <1>1, <1>3, <2>1, <2>2, <2>3, <2>4
<1>4. CASE ExecuteRefuses(ch)
  BY <1>0, <1>1, <1>4, AnswersParts DEF ExecuteRefuses
<1> QED
  BY <1>2, <1>3, <1>4 DEF Executes, ExecuteNoChange, Commands

LEMMA AnswersAreWrittenStep ==
    ASSUME IInv, [Next]_vars
    PROVE  AnswersAreWritten'
<1> SUFFICES ASSUME kind # "department"
             PROVE  AnswersAreWritten'
  BY SameScreen DEF AnswersAreWritten
<1>0. TypeOK /\ \A ch \in Commands : ch \in Channels
  BY DEF Commands, Channels, IInv
<1>1. ASSUME NEW ch \in Commands, flight'[ch] # Idle, flight'[ch].state = "ok"
      PROVE  LET g == flight'[ch]
             IN  /\ g.version < row'.version
                 /\ g.row \in Row /\ g.row.version = g.version + 1
                 /\ g.command # "create" => g.row = Written(g.command, g.from)
  <2> DEFINE f == flight[ch]
             g == flight'[ch]
  <2>1. CASE Executes(ch)
    <3>1. SameCommand(f, g) /\ f # Idle
      BY <1>0, <2>1, AnswersStep DEF IsAnswered
    <3>2. /\ g.row = row' /\ row' \in Row /\ row'.version = f.version + 1
          /\ f.command # "create" => f.from = row /\ row' = Written(f.command, row)
      BY <1>1, <2>1, OkIsNew
    <3>3. f.version \in Int
      BY <1>0, <3>1, RequestType DEF Request
    <3> QED
      BY <3>1, <3>2, <3>3 DEF SameCommand
  <2>2. CASE ~Executes(ch)
    <3>1. f # Idle /\ f.state = "ok" /\ SameCommand(f, g) /\ g.row = f.row
      BY <1>0, <1>1, <2>2, OkWasOk
    <3>2. /\ f.version < row.version
          /\ f.row \in Row /\ f.row.version = f.version + 1
          /\ f.command # "create" => f.row = Written(f.command, f.from)
      BY <3>1 DEF IInv, AnswersAreWritten
    <3>3. row \in Row /\ f.version \in Int
      BY <1>0, <3>1, <3>2, RequestType DEF IInv, SnapshotsArePast, Past, Request
    <3>4. f.version < row'.version
      BY <3>2, <3>3, BehindStays
    <3> QED
      BY <3>1, <3>2, <3>4 DEF SameCommand
  <2> QED
    BY <2>1, <2>2
<1>2. ASSUME NEW a \in Commands, NEW b \in Commands, a # b,
             flight'[a] # Idle, flight'[a].state = "ok", flight'[b] # Idle, flight'[b].state = "ok",
             Executes(a)
      PROVE  flight'[a].version # flight'[b].version
  <2>1. flight'[b] = flight[b] /\ SameCommand(flight[a], flight'[a]) /\ flight[a] # Idle
    BY <1>0, <1>2, AnswersStep DEF IsAnswered
  <2>2. flight[b].version < row.version /\ row \in Row
    BY <1>0, <1>2, <2>1 DEF IInv, AnswersAreWritten, SnapshotsArePast, Past
  <2>3. flight[a].version = row.version
    BY <1>2, <2>2, OkIsNew, MarkersAreNoRows
  <2>4. row.version \in Int /\ flight[b].version \in Int
    BY <1>0, <1>2, <2>1, <2>2, RequestType DEF Row, Request
  <2> QED
    BY <2>1, <2>2, <2>3, <2>4 DEF SameCommand
<1>3. ASSUME flight'["save"] # Idle, flight'["save"].state = "ok",
             flight'["confirm"] # Idle, flight'["confirm"].state = "ok"
      PROVE  flight'["save"].version # flight'["confirm"].version
  <2>1. CASE Executes("save")
    BY <1>2, <1>3, <2>1 DEF Commands
  <2>2. CASE Executes("confirm")
    BY <1>2, <1>3, <2>2 DEF Commands
  <2>3. CASE ~Executes("save") /\ ~Executes("confirm")
    BY <1>3, <2>3, OkWasOk DEF Channels, SameCommand, IInv, AnswersAreWritten
  <2> QED
    BY <2>1, <2>2, <2>3
<1> QED
  BY <1>1, <1>3 DEF AnswersAreWritten

LEMMA CopyStep ==
    ASSUME IInv, [Next]_vars
    PROVE  CopyIsWhatWasSent'
<1> SUFFICES ASSUME kind \notin {"department", "product"}, NEW ch \in Commands,
                    flight'[ch] # Idle, flight'[ch].mine, flight'[ch].command # "create"
             PROVE  \/ sheet'.copy = flight'[ch].from
                    \/ flight'[ch].state # "ok" /\ flight'[ch].version < row'.version
  BY SameScreen DEF CopyIsWhatWasSent
<1> DEFINE f == flight[ch]
           g == flight'[ch]
<1>0. /\ TypeOK /\ ch \in Channels /\ "save" \in Channels /\ "confirm" \in Channels
      /\ ChannelMoves(ch) /\ SheetMoves
  BY ChannelStep, SheetStep DEF Commands, Channels, IInv
<1>1. CASE IsSent(ch)
  <2>1. IsOpen /\ sheet' = sheet /\ \E command, version, rest : g = Sent(command, version, rest)
    BY <1>0, <1>1, ThisScreen DEF IsSent, Commands, Confirm, IInv, DialogsAskWhatApplies, NoDialog
  <2> QED
    BY <2>1 DEF Sent
<1>2. CASE ch = "save" /\ Create /\ g = Sent("create", 0, <<>>)
  BY <1>2 DEF Sent
<1>3. CASE ch = "save" /\ SaveGoesOn /\ g = Follows
  <2>1. g.from = f.row /\ IsOpen /\ f.row \in Row
    BY <1>3, FollowsParts, SaveThatGoesOn
  <2>2. sheet'.copy = f.row
    BY <1>0, <1>3, <2>1, GoesOnParts
  <2> QED
    BY <2>1, <2>2
<1>4. CASE g = Orphaned[ch]
  BY <1>0, <1>4, OrphanedParts
<1>5. CASE /\ f # Idle /\ SameCommand(f, g) /\ f.mine
           /\ \/ g = f
              \/ IsAnswered(ch)
  <2>1. sheet.copy = f.from \/ (f.state # "ok" /\ f.version < row.version)
    BY <1>5 DEF IInv, CopyIsWhatWasSent, SameCommand
  <2>2. row \in Row /\ f.from \in Row /\ f.version = f.from.version /\ f.version \in Int
    BY <1>0, <1>5, RequestType
    DEF IInv, SavesAreSaves, ConfirmsAreConfirms, Commands, SameCommand, SnapshotsArePast, Past,
        Request
  <2>3. CASE f.state # "ok" /\ f.version < row.version
    <3>1. f.version < row'.version
      BY <2>2, <2>3, BehindStays
    <3>2. g.state # "ok"
      <4>1. CASE g = f
        BY <2>3, <4>1
      <4>2. CASE IsAnswered(ch) /\ g.state = "ok"
        <5>1. f.version = row.version
          BY <1>5, <4>2, OkIsNew DEF IsAnswered, SameCommand
        <5> QED
          BY <2>2, <2>3, <5>1
      <4> QED
        BY <1>5, <4>1, <4>2
    <3> QED
      BY <1>5, <3>1, <3>2 DEF SameCommand
  <2>4. CASE sheet.copy = f.from
    <3>1. IsOpen
      BY <1>5 DEF IInv, SavesAreSaves, ConfirmsAreConfirms, Commands
    <3>2. CASE sheet' = sheet \/ StaleIsNoted
      BY <1>5, <2>4, <3>2 DEF StaleIsNoted, SameCommand
    <3>3. ~SheetOpens /\ ~UploadIsShown
      BY <3>1 DEF SheetOpens, UploadIsShown
    <3>4. ~SheetCloses
      BY <1>0, <1>5, OrphanedParts DEF SheetCloses
    <3>5. CASE SaveIsShown
      <4> DEFINE s == flight["save"]
      <4>1. ch = "confirm" /\ g = f
        <5>1. ch # "save"
          <6> SUFFICES ASSUME ch = "save" PROVE FALSE
            OBVIOUS
          <6>1. ~SaveGoesOn
            <7>1. f.state = "ok" /\ f.command = "update"
              BY <3>5, SaveThatGoesOn DEF SaveIsShown
            <7>2. SaveGoesOn => g.command = "roles"
              BY <1>0, FollowsParts, OthersStay
            <7>3. SaveGoesOn => f.command = "update"
              BY SaveThatGoesOn
            <7> QED
              BY <1>5, <7>2, <7>3 DEF SameCommand
          <6> QED
            BY <3>5, <6>1 DEF SaveIsShown
        <5> QED
          BY <3>5, <5>1 DEF SaveIsShown, Commands, Channels
      <4>2. s # Idle /\ s.state = "ok" /\ s.mine
        BY <3>5 DEF SaveIsShown
      <4>3. sheet.copy # NoRow
        BY <1>5, <4>1 DEF IInv, ConfirmsAreConfirms
      <4>4. s.command # "create"
        BY <4>2, <4>3 DEF IInv, SavesAreSaves
      <4>5. sheet.copy = s.from /\ s.version = s.from.version /\ s.version < row.version
        BY <4>2, <4>4 DEF IInv, CopyIsWhatWasSent, SavesAreSaves, AnswersAreWritten, Commands
      <4>6. f.state # "ok" /\ f.version < row.version
        BY <1>5, <2>2, <2>4, <4>1, <4>2, <4>5 DEF IInv, AnswersAreWritten
      <4> QED
        BY <2>3, <4>6
    <3>6. CASE ConfirmIsShown
      <4> DEFINE c == flight["confirm"]
      <4>1. ch = "save" /\ g = f
        BY <1>5, <3>6 DEF ConfirmIsShown, Commands, Channels
      <4>2. c # Idle /\ c.state = "ok" /\ c.mine /\ c.command # "create" /\ c.version = c.from.version
        BY <3>6, ConfirmThatIsMine DEF ConfirmIsShown, Mine
      <4>3. sheet.copy = c.from /\ c.version < row.version
        BY <4>2 DEF IInv, CopyIsWhatWasSent, AnswersAreWritten, Commands
      <4>4. f.state # "ok" /\ f.version < row.version
        BY <1>5, <2>2, <2>4, <4>1, <4>2, <4>3 DEF IInv, AnswersAreWritten
      <4> QED
        BY <2>3, <4>4
    <3> QED
      BY <1>0, <3>2, <3>3, <3>4, <3>5, <3>6 DEF SheetMoves
  <2> QED
    BY <2>1, <2>3, <2>4
<1>6. CASE g = f
  BY <1>5, <1>6 DEF SameCommand
<1>7. CASE IsAnswered(ch)
  BY <1>5, <1>7 DEF IsAnswered
<1> QED
  BY <1>0, <1>1, <1>2, <1>3, <1>4, <1>6, <1>7 DEF ChannelMoves
-----------------------------------------------------------------------------
(***************************************************************************)
(* A product: uploads and confirmed commands that cross                    *)
(***************************************************************************)
LEMMA StaysDisturbed ==
    ASSUME [Next]_vars, IsOpen
    PROVE  disturbed \subseteq disturbed'
BY DisturbedStep DEF OpenNew, OpenRow

\* A request of the open sheet has just been sent, or was there before; nothing
\* but the answer to the other one has touched the working copy since.
LEMMA MineStays ==
    ASSUME IInv, [Next]_vars, kind = "product", NEW ch \in {"confirm", "upload"},
           flight'[ch] # Idle, flight'[ch].mine
    PROVE  \/ IsSent(ch)
           \/ /\ flight[ch] # Idle /\ flight[ch].mine /\ SameCommand(flight[ch], flight'[ch])
              /\ \/ sheet' = sheet \/ StaleIsNoted
                 \/ ch = "confirm" /\ UploadIsShown
                 \/ ch = "upload" /\ ConfirmIsShown
<1> DEFINE f == flight[ch]
           g == flight'[ch]
<1>0. TypeOK /\ ch \in Channels /\ ChannelMoves(ch) /\ SheetMoves
  BY SheetStep, ChannelStep DEF Channels, IInv
<1>1. f # Idle => g # Orphaned[ch]
  BY <1>0, OrphanedParts
<1>2. f = Idle => Orphaned[ch] = Idle
  BY <1>0, OrphanedParts
<1>3. CASE IsSent(ch)
  BY <1>3
<1>4. CASE ~IsSent(ch)
  <2>1. f # Idle /\ f.mine /\ SameCommand(f, g)
    BY <1>0, <1>1, <1>2, <1>4 DEF ChannelMoves, IsAnswered, SameCommand
  <2>2. IsOpen
    BY <2>1 DEF IInv, ConfirmsAreConfirms, UploadsAreUploads
  <2>3. ~SheetOpens /\ ~SheetCloses
    BY <1>0, <1>1, <2>1, <2>2 DEF SheetOpens, SheetCloses
  <2>4. ~SaveIsShown
    BY SaveThatGoesOn DEF SaveIsShown
  <2>5. ch = "confirm" => ~ConfirmIsShown
    BY DEF ConfirmIsShown
  <2>6. ch = "upload" => ~UploadIsShown
    BY DEF UploadIsShown
  <2> QED
    BY <1>0, <2>1, <2>3, <2>4, <2>5, <2>6 DEF SheetMoves
<1> QED
  BY <1>3, <1>4

\* What the sheet of a product sends carries its working copy.
LEMMA SentFromTheCopy ==
    ASSUME IInv, kind = "product", NEW ch \in {"confirm", "upload"}, IsSent(ch)
    PROVE  /\ IsOpen /\ sheet.copy \in Row /\ sheet' = sheet /\ disturbed' = disturbed
           /\ flight'[ch].from = sheet.copy /\ sheet.info = sheet.copy.info
           /\ ch = "confirm" => flight'[ch].version = sheet.copy.version
           /\ ch = "upload" => NoDialog
<1>0. TypeOK
  BY DEF IInv
<1>1. sheet' = sheet /\ disturbed' = disturbed
  BY DEF IsSent
<1>2. CASE ch = "confirm"
  <2>1. Confirm /\ flight'[ch] = Sent(dialog, Confirmed.version, <<>>)
    BY <1>2 DEF IsSent
  <2>2. IsOpen /\ sheet.copy \in Row /\ Confirmed = sheet.copy
    BY <1>0, <2>1, ThisScreen DEF Confirm, IInv, DialogsAskWhatApplies, Confirmed
  <2>3. flight'[ch].from = sheet.copy /\ flight'[ch].version = sheet.copy.version
    BY <2>1, <2>2 DEF Sent
  <2> QED
    BY <1>1, <1>2, <2>2, <2>3, MarkersAreNoRows DEF IInv, FieldsShowTheCopy
<1>3. CASE ch = "upload"
  <2>1. Upload /\ flight'[ch] = Sent("image", 0, <<>>)
    BY <1>3 DEF IsSent
  <2>2. IsOpen /\ sheet.copy \in Row /\ NoDialog
    BY <1>0, <2>1, SheetType DEF Upload, CanEdit
  <2>3. flight'[ch].from = sheet.copy
    BY <2>1, <2>2 DEF Sent
  <2> QED
    BY <1>1, <1>3, <2>2, <2>3, MarkersAreNoRows DEF IInv, FieldsShowTheCopy
<1> QED
  BY <1>2, <1>3

LEMMA PutBackStep ==
    ASSUME IInv, [Next]_vars
    PROVE  UploadsPutBack'
<1> SUFFICES ASSUME kind = "product"
             PROVE  UploadsPutBack'
  BY SameScreen DEF UploadsPutBack
<1> DEFINE u == flight["upload"]
           c == flight["confirm"]
           v == flight'["upload"]
           d == flight'["confirm"]
<1>0. TypeOK /\ "upload" \in Channels /\ "confirm" \in Channels
  BY DEF Channels, IInv
\* An upload of the open sheet.
<1>1. ASSUME v # Idle, v.mine
      PROVE  /\ v.from.version <= sheet'.copy.version /\ v.from.info = sheet'.info
             /\ disturbed' = {} => v.from = sheet'.copy
  <2>1. CASE IsSent("upload")
    <3>1. /\ sheet.copy \in Row /\ sheet' = sheet
          /\ v.from = sheet.copy /\ sheet.info = sheet.copy.info
      BY <2>1, SentFromTheCopy
    <3>2. sheet.copy.version \in Int
      BY <3>1 DEF Row
    <3> QED
      BY <3>1, <3>2
  <2>2. CASE u # Idle /\ u.mine /\ SameCommand(u, v)
    <3>1. /\ u.from.version <= sheet.copy.version /\ u.from.info = sheet.info
          /\ disturbed = {} => u.from = sheet.copy
      BY <2>2 DEF IInv, UploadsPutBack
    <3>2. v.from = u.from /\ IsOpen /\ u.from \in Row
      BY <2>2 DEF SameCommand, IInv, UploadsAreUploads
    <3>3. CASE sheet' = sheet \/ StaleIsNoted
      <4>1. sheet'.copy = sheet.copy /\ sheet'.info = sheet.info
        BY <3>3 DEF StaleIsNoted, SameFields
      <4>2. disturbed' = {} => disturbed = {}
        BY <3>2, StaysDisturbed
      <4> QED
        BY <3>1, <3>2, <4>1, <4>2
    <3>4. CASE ConfirmIsShown
      <4>1. /\ sheet'.copy = c.row /\ sheet'.info = sheet.info /\ c # Idle /\ c.mine
            /\ ConfirmSucceeds /\ Mine("confirm")
        BY <3>4 DEF ConfirmIsShown, SameFields, Mine
      <4>2. c.row \in Row /\ c.row.version = c.version + 1 /\ c.version = c.from.version /\ c.from \in Row
        BY <4>1, ConfirmThatIsMine
      <4>3. u.from.version <= c.version
        BY <2>2, <4>1 DEF IInv, UploadsPutBack
      <4>4. u.from.version \in Int /\ c.version \in Int
        BY <3>2, <4>2 DEF Row
      <4>5. disturbed' # {}
        BY <2>2, <4>1 DEF ConfirmSucceeds
      <4> QED
        BY <3>1, <3>2, <4>1, <4>2, <4>3, <4>4, <4>5
    <3> QED
      BY <1>1, <2>1, <3>3, <3>4, MineStays DEF IsSent, UploadIsShown
  <2> QED
    BY <1>1, <2>1, <2>2, MineStays
\* A confirmed command of the open sheet.
<1>2. ASSUME d # Idle, d.mine
      PROVE  sheet'.copy.version <= d.version /\ d.from.info = sheet'.info
  <2>1. CASE IsSent("confirm")
    <3>1. /\ sheet.copy \in Row /\ sheet' = sheet
          /\ d.from = sheet.copy /\ sheet.info = sheet.copy.info /\ d.version = sheet.copy.version
      BY <2>1, SentFromTheCopy
    <3>2. sheet.copy.version \in Int
      BY <3>1 DEF Row
    <3> QED
      BY <3>1, <3>2
  <2>2. CASE c # Idle /\ c.mine /\ SameCommand(c, d)
    <3>1. sheet.copy.version <= c.version /\ c.from.info = sheet.info
      BY <2>2 DEF IInv, UploadsPutBack
    <3>2. d.from = c.from /\ d.version = c.version
      BY <2>2 DEF SameCommand
    <3>3. CASE sheet' = sheet \/ StaleIsNoted
      BY <3>1, <3>2, <3>3 DEF StaleIsNoted, SameFields
    <3>4. CASE UploadIsShown
      <4>1. /\ sheet'.copy = u.from /\ sheet'.info = sheet.info /\ u # Idle /\ u.mine
        BY <3>4 DEF UploadIsShown, SameFields, Mine
      <4>2. u.from.version <= c.version
        BY <2>2, <4>1 DEF IInv, UploadsPutBack
      <4> QED
        BY <3>1, <3>2, <4>1, <4>2
    <3> QED
      BY <1>2, <2>1, <3>3, <3>4, MineStays DEF IsSent, ConfirmIsShown
  <2> QED
    BY <1>2, <2>1, <2>2, MineStays
\* Both: the upload came first, no dialog is open when one begins.
<1>3. ASSUME v # Idle, v.mine, d # Idle, d.mine
      PROVE  v.from.version <= d.version
  <2>1. CASE IsSent("confirm")
    <3>1. sheet' = sheet /\ d.version = sheet.copy.version
      BY <2>1, SentFromTheCopy
    <3> QED
      BY <1>1, <1>3, <3>1
  <2>2. CASE c # Idle /\ c.mine /\ SameCommand(c, d)
    <3>1. ~NoDialog
      BY <2>2 DEF IInv, ConfirmsAreConfirms
    <3>2. ~IsSent("upload")
      BY <3>1, SentFromTheCopy
    <3>3. u # Idle /\ u.mine /\ SameCommand(u, v)
      BY <1>3, <3>2, MineStays
    <3>4. u.from.version <= c.version
      BY <2>2, <3>3 DEF IInv, UploadsPutBack
    <3> QED
      BY <2>2, <3>3, <3>4 DEF SameCommand
  <2> QED
    BY <1>3, <2>1, <2>2, MineStays
<1> QED
  BY <1>1, <1>2, <1>3 DEF UploadsPutBack
-----------------------------------------------------------------------------
(***************************************************************************)
(* The working copy and the row                                            *)
(***************************************************************************)
\* An accepted answer to the open sheet waits, or is shown, or is known to be
\* lost, or the sheet is gone.
LEMMA AnswerIsTaken ==
    ASSUME IInv, [Next]_vars, NEW ch \in Commands,
           flight[ch] # Idle, flight[ch].state = "ok", flight[ch].mine
    PROVE  \/ flight'[ch] = flight[ch]
           \/ ~IsOpen'
           \/ "lost" \in disturbed'
           \/ sheet'.copy = flight[ch].row
<1> DEFINE f == flight[ch]
           Taken == \/ flight'[ch] = f
                    \/ ~IsOpen'
                    \/ "lost" \in disturbed'
                    \/ sheet'.copy = f.row
<1>0. /\ TypeOK /\ ch \in Channels
      /\ "save" \in Channels /\ "confirm" \in Channels /\ "upload" \in Channels
  BY DEF Commands, Channels, IInv
<1>1. IsOpen
  BY DEF IInv, SavesAreSaves, ConfirmsAreConfirms, Commands
<1>2. CASE Closes
  BY <1>2, ClosesParts
<1>3. CASE OpenNew \/ OpenRow
  BY <1>1, <1>3, OpensParts
<1>4. CASE Create \/ Save
  <2>1. ch = "confirm"
    BY <1>4 DEF Create, Save, Commands
  <2>2. flight'[ch] = f
    BY <1>0, <1>4, <2>1, OthersStay DEF Create, Save, Sends
  <2> QED
    BY <2>2
<1>5. CASE Upload
  BY <1>0, <1>5, OthersStay DEF Upload, Sends, Commands
<1>6. CASE Confirm
  <2>1. ch = "save"
    BY <1>6 DEF Confirm, Commands
  <2>2. flight'[ch] = f
    BY <1>0, <1>6, <2>1, OthersStay DEF Confirm, Sends
  <2> QED
    BY <2>2
<1>7. ASSUME NEW c \in Channels, Executes(c) PROVE Taken
  <2>1. c # ch
    BY <1>7, AnswersStep DEF IsAnswered
  <2> QED
    BY <1>0, <1>7, <2>1, AnswersStep
<1>8. CASE SaveGoesOn
  <2>1. CASE ch = "save"
    BY <1>0, <1>8, <2>1, GoesOnParts
  <2>2. CASE ch # "save"
    BY <1>0, <1>8, <2>2, FollowsParts, OthersStay
  <2> QED
    BY <2>1, <2>2
<1>9. CASE SaveSucceeds
  <2>1. CASE SheetGone
    BY <2>1 DEF SheetGone, IsOpen
  <2>2. CASE ch = "save" /\ Mine("save") /\ Holds(flight["save"].row)
    <3>1. flight["save"].row \in Row \cup {NoRow}
      BY <1>0, <2>2, RequestType DEF Request
    <3> QED
      BY <1>0, <1>1, <2>2, <3>1, HoldsParts
  <2>3. CASE ch # "save" /\ Free("save")
    BY <1>0, <2>3, FreeParts
  <2>4. ch = "save" => Mine("save")
    BY DEF Mine
  <2> QED
    BY <1>9, <2>1, <2>2, <2>3, <2>4 DEF SaveSucceeds
<1>10. CASE SaveFails
  <2>1. ch # "save"
    BY <1>10 DEF SaveFails
  <2> QED
    BY <1>0, <1>10, <2>1, FreeParts DEF SaveFails
<1>11. CASE ConfirmSucceeds
  <2>1. CASE ch = "confirm"
    BY <1>0, <1>1, <1>11, <2>1, ConfirmThatIsMine, CopyParts
  <2>2. CASE ch # "confirm"
    BY <1>0, <1>11, <2>2, FreeParts DEF ConfirmSucceeds
  <2> QED
    BY <2>1, <2>2
<1>12. CASE ConfirmFails
  <2>1. ch # "confirm"
    BY <1>12 DEF ConfirmFails
  <2> QED
    BY <1>0, <1>12, <2>1, FreeParts DEF ConfirmFails
<1>13. CASE UploadSucceeds \/ UploadFails
  BY <1>0, <1>13, FreeParts DEF UploadSucceeds, UploadFails, Commands
<1>14. ASSUME NEW c \in Channels, Lose(c) PROVE Taken
  <2>1. CASE c = ch
    BY <1>1, <1>14, <2>1 DEF Lose
  <2>2. CASE c # ch
    BY <1>0, <1>14, <2>2, FreeParts DEF Lose
  <2> QED
    BY <2>1, <2>2
<1>15. CASE ListStep \/ Elsewhere \/ AskInSheet \/ CancelDialog \/ UNCHANGED vars
  BY <1>15 DEF ListStep, Refetch, ReadList, ListArrives, ListFails, Elsewhere, AskInSheet,
     CancelDialog, vars
<1>16. ServerStep /\ ~Elsewhere => \E c \in Channels : Executes(c)
  BY <1>0 DEF ServerStep, Executes
<1> QED
  BY <1>2, <1>3, <1>4, <1>5, <1>6, <1>7, <1>8, <1>9, <1>10, <1>11, <1>12, <1>13, <1>14, <1>15, <1>16
  DEF Next, UserStep, AnswerStep, Closes

\* Who changes the row of an open sheet is remembered, or has its answer on the
\* way to that sheet.
LEMMA RowIsAnswered ==
    ASSUME IInv, [Next]_vars, IsOpen, row' # row, disturbed' = {}
    PROVE  \E ch \in Commands :
              flight'[ch] # Idle /\ flight'[ch].mine /\ flight'[ch].state = "ok" /\ flight'[ch].row = row'
<1>0. TypeOK /\ "save" \in Channels /\ "save" \in Commands
  BY DEF Channels, Commands, IInv
<1>1. ~Elsewhere
  BY DEF Elsewhere
<1>2. ASSUME NEW ch \in Channels, ExecuteVersioned(ch)
      PROVE  /\ ch \in Commands
             /\ flight'[ch] # Idle /\ flight'[ch].mine
             /\ flight'[ch].state = "ok" /\ flight'[ch].row = row'
  <2>1. flight[ch] # Idle /\ flight[ch].command \notin {"create", "image"}
    BY <1>2 DEF ExecuteVersioned
  <2>2. ch \in Commands
    BY <2>1, CommandsHaveARow
  <2>3. Answers(ch, "ok", row') /\ Mine(ch)
    BY <1>2 DEF ExecuteVersioned
  <2>4. flight'[ch].state = "ok" /\ flight'[ch].row = row' /\ flight'[ch].mine
    BY <1>0, <2>1, <2>3, AnswersParts DEF Mine
  <2>5. flight'[ch] # Idle
    <3>1. [[flight[ch] EXCEPT !.state = "ok"] EXCEPT !.row = row'] \in Request
      BY <1>0, <2>1, RequestType, RowKeepsType DEF Request
    <3>2. flight'[ch] = [[flight[ch] EXCEPT !.state = "ok"] EXCEPT !.row = row']
      BY <1>0, <2>3 DEF Answers, TypeOK
    <3> QED
      BY <3>1, <3>2, MarkersAreNoRecords
  <2> QED
    BY <2>2, <2>4, <2>5
<1>3. ASSUME ExecuteCreate
      PROVE  /\ flight'["save"] # Idle /\ flight'["save"].mine
             /\ flight'["save"].state = "ok" /\ flight'["save"].row = row'
  <2>1. /\ flight["save"] # Idle /\ flight["save"].command = "create" /\ row = NoRow
        /\ Answers("save", "ok", row')
    BY <1>3 DEF ExecuteCreate
  <2>2. flight["save"].mine
    BY <2>1 DEF IInv, SavesAreSaves
  <2>3. flight'["save"].state = "ok" /\ flight'["save"].row = row' /\ flight'["save"].mine
    BY <1>0, <2>1, <2>2, AnswersParts
  <2>4. flight'["save"] # Idle
    <3>1. [[flight["save"] EXCEPT !.state = "ok"] EXCEPT !.row = row'] \in Request
      BY <1>0, <2>1, RequestType, RowKeepsType DEF Request
    <3>2. flight'["save"] = [[flight["save"] EXCEPT !.state = "ok"] EXCEPT !.row = row']
      BY <1>0, <2>1 DEF Answers, TypeOK
    <3> QED
      BY <3>1, <3>2, MarkersAreNoRecords
  <2> QED
    BY <2>3, <2>4
<1>4. ExecuteCreate \/ \E ch \in Channels : ExecuteVersioned(ch)
  <2>1. CASE ListStep \/ UserStep \/ AnswerStep \/ UNCHANGED vars
    BY <2>1 DEF ListStep, Refetch, ReadList, ListArrives, ListFails, UserStep, OpenNew, OpenRow,
       Dismiss, Reload, Create, Save, Upload, AskInSheet, AskOnPage, Confirm, CancelDialog,
       AnswerStep, SaveGoesOn, SaveSucceeds, SaveFails, ConfirmSucceeds, ConfirmFails,
       UploadSucceeds, UploadFails, Lose, vars
  <2>2. CASE ExecuteNoChange \/ ExecuteUpload \/ \E ch \in Channels : ExecuteRefuses(ch)
    BY <2>2 DEF ExecuteNoChange, ExecuteUpload, ExecuteRefuses
  <2> QED
    BY <1>1, <2>1, <2>2 DEF Next, ServerStep
<1> QED
  BY <1>0, <1>2, <1>3, <1>4

\* A sheet that holds the row has no accepted answer of its own to show.
LEMMA FreshHasNoAnswer ==
    ASSUME IInv, [Next]_vars, sheet.copy = row
    PROVE  ~SaveIsShown /\ ~ConfirmIsShown
<1>0. TypeOK /\ "save" \in Channels /\ "confirm" \in Channels /\ "save" \in Commands
      /\ "confirm" \in Commands
  BY DEF Channels, Commands, IInv
<1>1. ASSUME SaveIsShown PROVE FALSE
  <2> DEFINE f == flight["save"]
  <2>1. f # Idle /\ f.state = "ok" /\ f.mine /\ kind \in {"employee", "customer", "gift"}
    BY <1>1, SaveThatGoesOn DEF SaveIsShown
  <2>2. f.version < row.version /\ f.row \in Row /\ Past(f.row, row)
    BY <1>0, <2>1 DEF IInv, AnswersAreWritten, SnapshotsArePast
  <2>3. row \in Row /\ row # NoRow /\ f.version \in Int /\ row.version \in Int
    BY <1>0, <2>1, <2>2, RequestType, MarkersAreNoRows DEF Past, Row, Request
  <2>4. f.command # "create"
    BY <2>1, <2>3 DEF IInv, SavesAreSaves
  <2>5. f.version = row.version
    BY <1>0, <2>1, <2>4 DEF IInv, SavesAreSaves, CopyIsWhatWasSent
  <2> QED
    BY <2>2, <2>3, <2>5
<1>2. ASSUME ConfirmIsShown PROVE FALSE
  <2> DEFINE f == flight["confirm"]
  <2>1. /\ f # Idle /\ f.state = "ok" /\ f.mine /\ kind # "department" /\ f.command # "create"
        /\ f.version < row.version /\ sheet.copy \in Row /\ f.version = f.from.version
    BY <1>2, ConfirmThatIsMine DEF ConfirmIsShown, Mine
  <2>2. f.version \in Int /\ row.version \in Int
    BY <1>0, <2>1, RequestType DEF Row, Request
  <2>3. row.version <= f.version
    <3>1. CASE kind = "product"
      BY <2>1, <3>1 DEF IInv, UploadsPutBack
    <3>2. CASE kind # "product"
      <4>1. sheet.copy = f.from
        BY <1>0, <2>1, <3>2 DEF IInv, CopyIsWhatWasSent
      <4> QED
        BY <2>1, <2>2, <4>1
    <3> QED
      BY <3>1, <3>2
  <2> QED
    BY <2>1, <2>2, <2>3
<1> QED
  BY <1>1, <1>2

LEMMA UndisturbedStep ==
    ASSUME IInv, [Next]_vars
    PROVE  Undisturbed'
<1> DEFINE Fresh == \/ sheet'.copy = row'
                    \/ \E ch \in Commands : /\ flight'[ch] # Idle /\ flight'[ch].mine
                                            /\ flight'[ch].state = "ok" /\ flight'[ch].row = row'
<1> SUFFICES ASSUME IsOpen', disturbed' = {}
             PROVE  Fresh
  BY DEF Undisturbed
<1>0. SheetMoves
  BY SheetStep
<1>1. CASE SheetOpens
  BY <1>1 DEF SheetOpens, OpenNew, OpenRow
<1>2. ~SheetCloses
  BY DEF SheetCloses, IsOpen
<1>3. CASE ~SheetOpens
  <2>1. IsOpen
    BY <1>0, <1>2, <1>3
    DEF SheetMoves, SaveIsShown, StaleIsNoted, ConfirmIsShown, UploadIsShown, IsOpen
  <2>2. disturbed = {}
    BY <2>1, StaysDisturbed
  <2>3. CASE row' # row
    BY <2>1, <2>3, RowIsAnswered
  <2>4. CASE row' = row /\ sheet.copy = row
    <3>1. CASE sheet' = sheet \/ StaleIsNoted
      BY <2>4, <3>1 DEF StaleIsNoted
    <3>2. CASE UploadIsShown
      BY <2>2, <2>4, <3>2 DEF UploadIsShown, Mine, IInv, UploadsPutBack
    <3> QED
      BY <1>0, <1>2, <1>3, <2>4, <3>1, <3>2, FreshHasNoAnswer DEF SheetMoves
  <2>5. CASE row' = row /\ sheet.copy # row
    <3>1. PICK ch \in Commands :
             /\ flight[ch] # Idle /\ flight[ch].mine
             /\ flight[ch].state = "ok" /\ flight[ch].row = row
      BY <2>1, <2>2, <2>5 DEF IInv, Undisturbed
    <3> QED
      BY <2>5, <3>1, AnswerIsTaken
  <2> QED
    BY <2>3, <2>4, <2>5
<1> QED
  BY <1>1, <1>3
-----------------------------------------------------------------------------
(***************************************************************************)
(* The theorems                                                            *)
(***************************************************************************)
LEMMA InitInv == Init => IInv
<1> SUFFICES ASSUME Init PROVE IInv
  OBVIOUS
<1>1. row \in Row \cup {NoRow}
  <2>1. [version |-> 1, active |-> TRUE, info |-> 1, roles |-> 1] \in Row
    BY MaxVersionIsPositive DEF Row
  <2> QED
    BY <2>1 DEF Init
<1>2. TypeOK
  BY <1>1 DEF Init, TypeOK, NoFetch
<1>3. ~IsOpen /\ NoDialog /\ \A ch \in Channels : flight[ch] = Idle
  BY DEF Init, IsOpen, NoDialog
<1>4. SnapshotsArePast
  BY <1>1, <1>3, RowIsPast, NothingIsPast DEF Init, SnapshotsArePast, NoFetch
<1>5. "save" \in Channels /\ "confirm" \in Channels /\ "upload" \in Channels
      /\ \A ch \in Commands : ch \in Channels
  BY DEF Channels, Commands
<1> QED
  BY <1>2, <1>3, <1>4, <1>5
  DEF IInv, FieldsShowTheCopy, SavesAreSaves, ConfirmsAreConfirms, UploadsAreUploads,
      DialogsAskWhatApplies, AnswersAreWritten, CopyIsWhatWasSent, UploadsPutBack, Undisturbed

LEMMA InvStep == IInv /\ [Next]_vars => IInv'
<1> SUFFICES ASSUME IInv, [Next]_vars PROVE IInv'
  OBVIOUS
<1> QED
  BY TypesStep, SnapshotsStep, FieldsStep, SavesStep, ConfirmsStep, UploadsStep, DialogsStep,
     AnswersAreWrittenStep, CopyStep, PutBackStep, UndisturbedStep
  DEF IInv

\* The inductive invariant holds throughout.
THEOREM Invariant == Spec => []IInv
BY InitInv, InvStep, PTL DEF Spec

\* Every variable keeps its type: no version runs past the bound, no answer
\* carries anything but a row.
THEOREM TypeCorrect == Spec => []TypeOK
<1>1. IInv => TypeOK
  BY DEF IInv
<1> QED
  BY <1>1, Invariant, PTL

\* No lost update, on any of the seven screens: a save the server is about to
\* accept was written over the very content the row has.
THEOREM NoLostUpdate == Spec => []SavesWhatItShowed
<1>1. IInv => SavesWhatItShowed
  <2> DEFINE f == flight["save"]
  <2> SUFFICES ASSUME IInv, f # Idle, f.state = "sent", row # NoRow, f.version = row.version
               PROVE  /\ f.command = "update" => f.info = row.info
                      /\ f.command = "roles" => f.roles = row.roles
    BY DEF SavesWhatItShowed
  <2>1. row \in Row /\ "save" \in Channels
    BY DEF IInv, TypeOK, Channels
  <2>2. ASSUME f.command # "create"
        PROVE  /\ f.from = row /\ f.info = f.from.info
               /\ f.command = "roles" => f.roles = f.from.roles
    BY <2>1, <2>2 DEF IInv, SavesAreSaves, SnapshotsArePast, Past
  <2> QED
    BY <2>2
<1> QED
  BY <1>1, Invariant, PTL

\* A confirmed command does what its dialog said, whatever crossed it: the
\* version it carries is that of the record the dialog was opened over.
THEOREM DialogsAreTrue == Spec => []ConfirmsWhatItShowed
<1>1. IInv => ConfirmsWhatItShowed
  <2> DEFINE f == flight["confirm"]
  <2> SUFFICES ASSUME IInv, f # Idle, f.state = "sent", f.version = row.version
               PROVE  Applies(f.command, row)
    BY DEF ConfirmsWhatItShowed
  <2>0. "confirm" \in Channels
    BY DEF Channels
  <2>1. CASE kind = "department"
    <3>1. f.command = dialog /\ f.version = target.version /\ ~NoDialog
      BY <2>1 DEF IInv, ConfirmsAreConfirms
    <3>2. target \in Row /\ Applies(dialog, target) /\ Past(target, row)
      BY <2>1, <3>1 DEF IInv, DialogsAskWhatApplies, SnapshotsArePast
    <3> QED
      BY <3>1, <3>2 DEF Past
  <2>2. CASE kind # "department"
    <3>1. /\ f.from \in Row /\ f.version = f.from.version
          /\ Applies(f.command, f.from) \/ f.from.version < row.version
      BY <2>2 DEF IInv, ConfirmsAreConfirms
    <3>2. Past(f.from, row) /\ f.from.version \in Int
      BY <2>0, <3>1 DEF IInv, SnapshotsArePast, Row
    <3> QED
      BY <3>1, <3>2 DEF Past
  <2> QED
    BY <2>1, <2>2
<1> QED
  BY <1>1, Invariant, PTL

\* A sheet whose own commands were the only ones that wrote, none of whose
\* answers was lost or crossed, holds the row as it is: the next command from it
\* is not refused for the sake of the last one.
THEOREM OwnWorkStaysFresh == Spec => []OwnWorkIsFresh
<1>1. IInv => OwnWorkIsFresh
  BY DEF IInv, Undisturbed, OwnWorkIsFresh, QuietSheet, Commands, Channels
<1> QED
  BY <1>1, Invariant, PTL
=============================================================================
