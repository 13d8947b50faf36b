----------------------------- MODULE MCOrderPage -----------------------------
(* One order that may exist already and one that may be made.  The others    *)
(* send a draft; after that they ask for a revision and finish it.           *)
EXTENDS OrderPage

MCSent == {<<"DRAFT", "PENDING_DISPATCH">>}
MCRevised == {<<"AWAITING_CONFIRMATION", "REVISION">>, <<"REVISION", "AWAITING_CONFIRMATION">>}
=============================================================================
