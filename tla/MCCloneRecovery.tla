--------------------------- MODULE MCCloneRecovery ---------------------------
(* CloneRecovery for TLC.                                                  *)
EXTENDS CloneRecovery

(* A main with a database in a container, one in files and two             *)
(* applications, web depending on api and api on both databases.           *)
ServiceOrder == <<"pg", "lite", "api", "web">>
==============================================================================
