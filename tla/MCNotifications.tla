--------------------------- MODULE MCNotifications ---------------------------
(* Notifications with a row that is there when the tab is opened and one that *)
(* another command may write.                                                 *)
EXTENDS Notifications

CONSTANT Old

MCInit == Init /\ row \in [Notes -> {"none", "unread"}] /\ \A n \in Notes : row[n] = "unread" <=> n = Old

MCSpec == MCInit /\ [][Next]_vars /\ Fairness
=============================================================================
