--------------------------- MODULE OrderLifecycle ---------------------------
(***************************************************************************)
(* What an order promises its customer and the office, with tasks,         *)
(* assignments and photos left out: which status may follow which, that    *)
(* every round of work (the first one, and one per revision) reaches the   *)
(* customer only after some job of that round is done, and that the        *)
(* customer signs every round before the order is completed.               *)
(***************************************************************************)
EXTENDS Naturals

VARIABLES
    status,     \* the status of the order
    revision,   \* the number of the current round of work
    signed,     \* the customer has signed for this round
    worked      \* some job of this round is done

vars == <<status, revision, signed, worked>>

Init ==
    /\ status = "DRAFT"
    /\ revision = 0
    /\ ~signed
    /\ ~worked

Move(from, to) == status \in from /\ status' = to

\* Moves that leave the round of work as it is.
Submit == Move({"DRAFT"}, "PENDING_DISPATCH") /\ UNCHANGED <<revision, signed, worked>>
Recall == Move({"PENDING_DISPATCH"}, "DRAFT") /\ UNCHANGED <<revision, signed, worked>>
Cancel ==
    /\ Move({"DRAFT", "PENDING_DISPATCH"}, "CANCELLED")
    /\ UNCHANGED <<revision, signed, worked>>
Complete ==
    /\ signed
    /\ Move({"AWAITING_CONFIRMATION"}, "COMPLETED")
    /\ UNCHANGED <<revision, signed, worked>>

\* An order the customer has signed for cannot be called off any more.
CancelActive ==
    /\ ~signed
    /\ Move({"IN_PROGRESS", "AWAITING_CONFIRMATION", "REVISION"}, "CANCELLED")
    /\ UNCHANGED <<revision, signed, worked>>

RequestRevision ==
    /\ Move({"AWAITING_CONFIRMATION", "COMPLETED"}, "REVISION")
    /\ revision' = revision + 1
    /\ ~signed'
    /\ ~worked'

Sign == signed' /\ UNCHANGED <<status, revision, worked>>

\* Jobs are given out, done, taken back; the order follows the first two.
Work ==
    /\ \/ Move({"PENDING_DISPATCH"}, "IN_PROGRESS")
       \/ Move({"IN_PROGRESS"}, "PENDING_DISPATCH")
       \/ /\ status \in {"PENDING_DISPATCH", "IN_PROGRESS", "REVISION"}
          /\ UNCHANGED status
    /\ worked' \in BOOLEAN
    /\ UNCHANGED <<revision, signed>>

AllTasksDone ==
    /\ Move({"IN_PROGRESS", "REVISION"}, "AWAITING_CONFIRMATION")
    /\ worked'
    /\ UNCHANGED <<revision, signed>>

Next ==
    \/ Submit \/ Recall \/ Cancel \/ Complete \/ CancelActive \/ RequestRevision
    \/ Sign \/ Work \/ AllTasksDone

Spec == Init /\ [][Next]_vars
=============================================================================
