----------------------------- MODULE MCFormSheets -----------------------------
EXTENDS FormSheets

MCCapabilities == {{"read"}, {"read", "manage"}}
=============================================================================
