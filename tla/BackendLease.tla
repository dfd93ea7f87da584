---------------------------- MODULE BackendLease ----------------------------
(***************************************************************************)
(* What applications may rely on although PGlite has a single backend and  *)
(* a single session: work of two clients is never mixed.  Before another   *)
(* client's first message reaches the backend, what the previous one left  *)
(* there (a transaction, prepared statements, settings, COPY input) is     *)
(* gone.                                                                   *)
(***************************************************************************)
CONSTANTS Client, Nobody

VARIABLE user      \* whose work the session holds

Init == user = Nobody
Touch(c) == user \in {Nobody, c} /\ user' = c
Clean == user' = Nobody
Next == (\E c \in Client : Touch(c)) \/ Clean

Spec == Init /\ [][Next]_user
=============================================================================
