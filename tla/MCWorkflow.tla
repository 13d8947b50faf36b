----------------------------- MODULE MCWorkflow -----------------------------
(***************************************************************************)
(* Workflow for TLC, and what the documents of the repository say of it    *)
(* that the code does not keep.                                            *)
(***************************************************************************)
EXTENDS Workflow, TLC

Symmetry == Permutations(Tasks) \cup Permutations(Assignments) \cup Permutations(Technicians)

\* "re-evaluated after every task/assignment change": an order whose tasks
\* are all done is not left in progress (or in revision, with its work done).
AllTasksDoneIsReevaluated == ~AllTasksDone(task)
=============================================================================
