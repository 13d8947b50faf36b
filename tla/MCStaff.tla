------------------------------- MODULE MCStaff -------------------------------
(* Staff with two or three employees and two or three transactions.        *)
EXTENDS Staff, TLC

Symmetry == Permutations(Employees) \cup Permutations(Requests)
=============================================================================
