---------------------------- MODULE MCTaskScreens ----------------------------
(***************************************************************************)
(* TaskScreens for TLC.  So that all the commands fit between few versions *)
(* the order has just been sent, or one of two technicians has finished    *)
(* its one task, or it has come back for a revision with that task done.   *)
(* They share the bound on the version: a technician has four commands,    *)
(* the lead, with many more screens, three, and two on an order just sent. *)
(***************************************************************************)
EXTENDS TaskScreens, TLC

MCSymmetry == Permutations(Assignments) \cup Permutations(Technicians)

JustSent ==
    /\ status = "PENDING_DISPATCH" /\ revision = 0
    /\ task = [t \in Tasks |-> NoTask]
    /\ asg = [a \in Assignments |-> NoAssignment]
    /\ trail = [from |-> "DRAFT", to |-> "PENDING_DISPATCH"]
    /\ care = "none"

HalfDone ==
    /\ status = "IN_PROGRESS" /\ revision = 0
    /\ task = [t \in Tasks |-> [status |-> "IN_PROGRESS", cancelled |-> FALSE, cycle |-> 1,
                                createdIn |-> 0, reopenedIn |-> NeverReopened]]
    /\ \E done, open \in Assignments : \E e \in Technicians :
          /\ done # open
          /\ asg = [a \in Assignments |->
                     IF a \in {done, open}
                     THEN [task |-> CHOOSE t \in Tasks : TRUE,
                           employee |-> IF a = done THEN e ELSE CHOOSE f \in Technicians : f # e,
                           cycle |-> 1, status |-> IF a = done THEN "DONE" ELSE "IN_PROGRESS"]
                     ELSE NoAssignment]
    /\ trail = [from |-> "PENDING_DISPATCH", to |-> "IN_PROGRESS"]
    /\ care = "none"

CameBack ==
    /\ status = "REVISION" /\ revision = 1
    /\ task = [t \in Tasks |-> [status |-> "DONE", cancelled |-> FALSE, cycle |-> 1,
                                createdIn |-> 0, reopenedIn |-> NeverReopened]]
    /\ \E done \in Assignments, e \in Technicians :
          asg = [a \in Assignments |->
                   IF a = done THEN [task |-> CHOOSE t \in Tasks : TRUE, employee |-> e,
                                     cycle |-> 1, status |-> "DONE"]
                   ELSE NoAssignment]
    /\ trail = [from |-> "AWAITING_CONFIRMATION", to |-> "REVISION"]
    /\ care = "request_revision"

MCInit ==
    /\ JustSent \/ HalfDone \/ CameBack
    /\ confirmed = {} /\ defects = {} /\ onDuty = Technicians
    /\ user \in {Lead} \cup Technicians
    /\ version = CASE user # Lead -> 1 [] status = "PENDING_DISPATCH" -> 3 [] OTHER -> 2
    /\ sheet = "none" /\ fetch = Nothing /\ seen = Nothing
    /\ failed = FALSE /\ picker = FALSE /\ reload = FALSE
    /\ dialog = NoDialog /\ answer = NoAnswer

\* The confirmation comes when it is asked for, and one technician stays.
FewAside ==
    /\ confirmed # {} => confirmed = {revision} /\ status \in {"AWAITING_CONFIRMATION", "COMPLETED"}
    /\ onDuty # {}

MCSpec == MCInit /\ [][NextScreens]_vars2
=============================================================================
