----------------------------- MODULE LockService -----------------------------
(***************************************************************************)
(* What EnvironmentLocks.use promises its callers: each names a set of     *)
(* environments, and its work runs only while no other caller's work runs  *)
(* on any of them.  A caller may give up while it is pending.              *)
(***************************************************************************)
CONSTANTS Client, Lock

VARIABLES
  request,   \* request[c]: the environments caller c asked for
  stage      \* stage[c]: "out", "pending" or "in" (its work is running)
vars == <<request, stage>>

Init ==
  /\ request = [c \in Client |-> {}]
  /\ stage = [c \in Client |-> "out"]

Ask(c, ids) ==
  /\ stage[c] = "out"
  /\ request' = [request EXCEPT ![c] = ids]
  /\ stage' = [stage EXCEPT ![c] = "pending"]

Enter(c) ==
  /\ stage[c] = "pending"
  /\ \A d \in Client \ {c} : stage[d] = "in" => request[c] \cap request[d] = {}
  /\ stage' = [stage EXCEPT ![c] = "in"]
  /\ UNCHANGED request

Exit(c) ==
  /\ stage[c] \in {"pending", "in"}
  /\ stage' = [stage EXCEPT ![c] = "out"]
  /\ request' = [request EXCEPT ![c] = {}]

Next == \E c \in Client : \/ \E ids \in SUBSET Lock : Ask(c, ids)
                          \/ Enter(c)
                          \/ Exit(c)

Spec == Init /\ [][Next]_vars
==============================================================================
