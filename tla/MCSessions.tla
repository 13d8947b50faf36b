----------------------------- MODULE MCSessions -----------------------------
(***************************************************************************)
(* Sessions for TLC, and what the documents of the repository say of it    *)
(* that the code does not keep.                                            *)
(***************************************************************************)
EXTENDS Sessions, TLC

Symmetry == Permutations(Tokens) \cup Permutations(Requests)

\* Once logout has answered, the session it was sent for is revoked.
LogoutEndsTheSession ==
    \A r \in Requests :
        request[r].kind = "logout" /\ request[r].phase = "answered"
            => OfFamily(row[request[r].subject].family) = {}
=============================================================================
