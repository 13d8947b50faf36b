------------------------ MODULE MCOrderTransactions ------------------------
(***************************************************************************)
(* OrderTransactions for TLC, and what the documents of the repository say *)
(* of it that the code does not keep.                                      *)
(***************************************************************************)
EXTENDS OrderTransactions

\* The version in the body of a command prevents overwriting, for the task
\* sheet too: it changes the task it shows.
TaskSheetNeverOverwrites ==
    \A s \in TaskSheets : tx[s].phase = "holding" => Current(tx[s].seen)
=============================================================================
