---------------------------- MODULE IdleShutdown ----------------------------
(***************************************************************************)
(* The hub stops environments nobody uses, and itself:                     *)
(* packages/hub/src/idle.ts with the stop request and close of server.ts.  *)
(*                                                                         *)
(* Operations and tunnel sessions appear as what the hub knows of them:    *)
(* which environments are in an operation's hands (Operations.busy, the    *)
(* invariant BusyCoversHands of Operations), which are shared, and who has *)
(* the lock of an environment.  A call of locks.use enters when nobody     *)
(* works on any of its environments (LockService, which EnvironmentLocks   *)
(* implements).  A step is the code between two awaits.                    *)
(***************************************************************************)
EXTENDS Naturals

CONSTANTS
  Env,        \* environment ids
  Main,       \* the clone source
  Background, \* environments with idle_timeout_seconds: 0
  Used,       \* BOUND: environments users do more with than deploy them
  Timeout,    \* ticks until an environment is idle
  MaxFails,   \* BOUND on the stops that fail
  MaxDeletes  \* BOUND on the environments deleted

ASSUME IdleAssumption ==
  /\ Main \in Env /\ Background \subseteq Env /\ Used \subseteq Env
  /\ Timeout \in Nat \ {0} /\ {MaxFails, MaxDeletes} \subseteq Nat

VARIABLES
  status,     \* status[e]: Status of environment e, "absent" without a record
  age,        \* age[e]: ticks since last_activity_at, up to Timeout
  connections,\* environments with an open connection
  retries,    \* environments whose idle stop failed
  sweep,      \* what the sweep does and the environments it has still to visit
  stale,      \* those of its environments that were deleted since it began
  op,         \* op[e]: the operation of environment e
  session,    \* session[e]: where its tunnel session is
  held,       \* environments whose lock a request has without an operation
  aborted,    \* IdleShutdown's controller is aborted
  accepting,  \* Operations.accepting
  closing,    \* TunnelSessions.closing
  stop,       \* what the stop request does
  close,      \* what close() does
  fails, deletes, \* so far
  quiet       \* HISTORY: quiet[e]: ticks since e was last used, up to Timeout

idleVars == <<age, retries, sweep, stale>>
useVars == <<connections, session, held>>
flagVars == <<aborted, accepting, closing>>
endVars == <<flagVars, stop, close>>
vars == <<status, idleVars, op, useVars, endVars, fails, deletes, quiet>>

Status == {"absent", "deploying", "running", "failed", "stopping", "stopped", "deleting"}
Present == {e \in Env : status[e] # "absent"}

(* An operation holds `ids` from the moment it is submitted.               *)
NoOp == [at |-> "none", kind |-> "hold", ids |-> {}]
Op == [at : {"none", "queued", "working"}, kind : {"deploy", "down", "delete", "hold"},
       ids : SUBSET Env]
NoSweep == [at |-> "none", todo |-> {}, cur |-> Main]
NoStop == [at |-> "none", todo |-> {}, cur |-> Main, error |-> FALSE]
Up == close # "released"

Sharing(e) == session[e] # "none"
Busy(e) == \E d \in Env : op[d].at # "none" /\ e \in op[d].ids \cup {d}
Locked(e) ==
  \/ \E d \in Env : op[d].at = "working" /\ e \in op[d].ids
  \/ session[e] \in {"starting", "restoring"}
  \/ sweep.at = "stopping" /\ sweep.cur = e
  \/ e \in held

(* touch: nothing once idle shutdown is closed.                            *)
Touched(e) == IF aborted \/ status[e] = "absent" THEN age ELSE [age EXCEPT ![e] = 0]
Touch(e) == age' = Touched(e)
Protected(e) == Busy(e) \/ e \in connections \/ Sharing(e)
Expired(e) ==
  /\ e \notin Background
  /\ status[e] \in {"running", "failed"} \/ e \in retries
  /\ age[e] >= Timeout

(* The two ways down() can begin and end.                                  *)
Downing(e) == IF status[e] = "deleting" THEN "deleting" ELSE "stopping"
Downed(e) == IF status[e] = "deleting" THEN "deleting" ELSE "stopped"
MayFail == fails < MaxFails
Fails == fails' = fails + 1
Set(e, s) == status' = [status EXCEPT ![e] = s]

Init ==
  /\ status = [e \in Env |-> "running"]
  /\ age = [e \in Env |-> 0]
  /\ connections = {} /\ retries = {} /\ sweep = NoSweep /\ stale = {}
  /\ op = [e \in Env |-> NoOp]
  /\ session = [e \in Env |-> "none"] /\ held = {}
  /\ aborted = FALSE /\ accepting = TRUE /\ closing = FALSE
  /\ stop = NoStop /\ close = "none"
  /\ fails = 0 /\ deletes = 0
  /\ quiet = [e \in Env |-> 0]
------------------------------------------------------------------------------
(* The users: requests, connections through the proxy or the CLI.          *)
Request(e) ==
  /\ Up /\ e \in Present
  /\ Touch(e)
  /\ UNCHANGED <<status, retries, sweep, stale, op, useVars, endVars, fails, deletes>>

Connect(e) ==
  /\ Up /\ e \in (Used \cap Present) \ connections
  /\ Touch(e) /\ connections' = connections \cup {e}
  /\ UNCHANGED <<status, retries, sweep, stale, op, session, held, endVars, fails, deletes>>
DisconnectUntouched(e) ==                \* mutant of Disconnect
  /\ Up /\ e \in connections
  /\ connections' = connections \ {e}
  /\ UNCHANGED <<status, idleVars, op, session, held, endVars, fails, deletes>>
Disconnect(e) ==
  /\ Up /\ e \in connections
  /\ Touch(e) /\ connections' = connections \ {e}
  /\ UNCHANGED <<status, retries, sweep, stale, op, session, held, endVars, fails, deletes>>

(* A sharing request without a session works under the lock alone.         *)
Hold(e) ==
  /\ Up /\ e \in Used \cap Present /\ ~Locked(e) /\ ~Sharing(e)
  /\ Touch(e) /\ held' = held \cup {e}
  /\ UNCHANGED <<status, retries, sweep, stale, op, connections, session, endVars, fails, deletes>>
Unhold(e) ==
  /\ Up /\ e \in held
  /\ held' = held \ {e}
  /\ UNCHANGED <<status, idleVars, op, connections, session, endVars, fails, deletes>>

Tick ==
  /\ Up /\ \E e \in Env : age[e] < Timeout
  /\ age' = [e \in Env |-> IF age[e] < Timeout THEN age[e] + 1 ELSE Timeout]
  /\ UNCHANGED <<status, retries, sweep, stale, op, useVars, endVars, fails, deletes>>
------------------------------------------------------------------------------
(* Operations, each transition of which touches its environment.           *)
Submit(e, kind, ids) ==
  /\ Up /\ accepting /\ op[e] = NoOp
  /\ kind # "deploy" => e \in Used \cap Present /\ ids = {e}
  /\ kind = "delete" => deletes < MaxDeletes /\ \A d \in Env : op[d].kind # "delete"
  /\ op' = [op EXCEPT ![e] = [at |-> "queued", kind |-> kind, ids |-> ids]]
  /\ Touch(e)
  /\ UNCHANGED <<status, retries, sweep, stale, useVars, endVars, fails, deletes>>

(* Its work begins: a shared environment is neither deployed nor stopped.  *)
OpRefused(e) ==
  \/ op[e].kind # "hold" /\ Sharing(e)
  \/ op[e].kind = "deploy" /\ status[e] = "deleting"
OpBegin(e) ==
  /\ Up /\ op[e].at = "queued" /\ accepting
  /\ \A d \in op[e].ids : ~Locked(d)
  /\ IF OpRefused(e)
       THEN op' = [op EXCEPT ![e] = NoOp] /\ UNCHANGED status
       ELSE /\ op' = [op EXCEPT ![e].at = "working"]
            /\ CASE op[e].kind = "deploy" -> status' \in {status, [status EXCEPT ![e] = "deploying"]}
                 [] op[e].kind = "down" -> Set(e, Downing(e))
                 [] op[e].kind = "delete" -> Set(e, "deleting")
                 [] OTHER -> UNCHANGED status
  /\ Touch(e)
  /\ UNCHANGED <<retries, sweep, stale, useVars, endVars, fails, deletes>>
OpLeave(e) ==                            \* aborted while it waits
  /\ Up /\ op[e].at = "queued" /\ ~accepting
  /\ op' = [op EXCEPT ![e] = NoOp]
  /\ Touch(e)
  /\ UNCHANGED <<status, retries, sweep, stale, useVars, endVars, fails, deletes>>

(* It ends, aborted or not, with its effect or without: a failed deploy    *)
(* that had begun to replace services leaves "failed", a failed stop what  *)
(* it had set.                                                             *)
OpEnd(e) ==
  /\ Up /\ op[e].at = "working"
  /\ \/ /\ CASE op[e].kind = "deploy" -> Set(e, "running")
             [] op[e].kind = "down" -> Set(e, Downed(e))
             [] op[e].kind = "delete" -> Set(e, "absent")
             [] OTHER -> UNCHANGED status
        /\ UNCHANGED fails
     \/ /\ IF status[e] = "deploying" THEN Set(e, "failed") ELSE UNCHANGED status
        /\ MayFail \/ ~accepting
        /\ IF accepting THEN Fails ELSE UNCHANGED fails
  /\ op' = [op EXCEPT ![e] = NoOp]
  /\ age' = IF aborted THEN age ELSE [age EXCEPT ![e] = 0]
  /\ IF e \in Present /\ status'[e] = "absent"
       THEN deletes' = deletes + 1 /\ stale' = IF sweep.at = "none" THEN {} ELSE stale \cup {e}
       ELSE UNCHANGED <<deletes, stale>>
  /\ UNCHANGED <<retries, sweep, useVars, endVars>>
------------------------------------------------------------------------------
(* Tunnel sessions (TunnelSessions): the lock at both ends.                *)
SessionGoes(e, s) == session' = [session EXCEPT ![e] = s]
SessionRest == <<retries, sweep, stale, op, connections, held, endVars, fails, deletes>>
OpenSession(e) ==
  /\ Up /\ ~closing /\ e \in Used /\ session[e] = "none" /\ status[e] = "running"
  /\ SessionGoes(e, "waiting") /\ Touch(e)
  /\ UNCHANGED <<SessionRest, status>>
EndSession(e) ==                         \* its owner, its lease or shutdown
  /\ Up /\ session[e] \in {"waiting", "starting", "sharing"}
  /\ SessionGoes(e, "cleanup")
  /\ UNCHANGED <<SessionRest, status, age>>
SessionStep(e) ==
  /\ Up
  /\ \/ /\ session[e] = "waiting" /\ ~Locked(e) /\ ~closing
        /\ SessionGoes(e, IF status[e] = "running" THEN "starting" ELSE "cleanup")
     \/ session[e] = "starting" /\ ~closing /\ SessionGoes(e, "sharing")
     \/ session[e] = "cleanup" /\ ~Locked(e) /\ SessionGoes(e, "restoring")
     \/ session[e] = "restoring" /\ SessionGoes(e, "none")
  /\ UNCHANGED <<SessionRest, status, age>>
CleanupFails(e) ==                       \* out of time, or not restored
  /\ Up
  /\ \/ session[e] = "cleanup" /\ Locked(e) /\ UNCHANGED fails
     \/ session[e] = "restoring" /\ MayFail /\ Fails
  /\ SessionGoes(e, "none") /\ Set(e, "failed")
  /\ UNCHANGED <<retries, sweep, stale, op, connections, held, endVars, deletes, age>>
------------------------------------------------------------------------------
(* sweep(): one at a time, over the environments there are when it begins. *)
SweepGoes(at, todo, cur) == sweep' = [at |-> at, todo |-> todo, cur |-> cur]
SweepRest == <<op, useVars, endVars, deletes>>
SweepStart ==
  /\ Up /\ ~aborted /\ sweep.at = "none"
  /\ SweepGoes("loop", Present, Main) /\ stale' = {}
  /\ UNCHANGED <<SweepRest, status, age, retries, fails>>

(* The loop looks at one: in use, not idle yet, or to be stopped.  The     *)
(* record of one deleted since is not the one its id names now.            *)
SweepVisit(e) ==
  /\ Up /\ ~aborted /\ sweep.at = "loop" /\ e \in sweep.todo
  /\ \/ Protected(e) /\ Touch(e) /\ SweepGoes("loop", sweep.todo \ {e}, Main)
     \/ /\ ~Protected(e) /\ UNCHANGED age
        /\ \/ (e \in stale \/ ~Expired(e)) /\ SweepGoes("loop", sweep.todo \ {e}, Main)
           \/ (IF e \in stale THEN e \in retries ELSE Expired(e))
              /\ SweepGoes("locking", sweep.todo \ {e}, e)
  /\ UNCHANGED <<SweepRest, status, retries, stale, fails>>

(* With the lock everything is looked at again; if it still holds, down()  *)
(* begins in the same step.  (A call handed the lock just before close     *)
(* still enters.)                                                          *)
StillIdle(e) == e \notin stale /\ ~Protected(e) /\ Expired(e)
SweepLock ==
  /\ Up /\ sweep.at = "locking" /\ ~Locked(sweep.cur)
  /\ \/ /\ StillIdle(sweep.cur)
        /\ SweepGoes("stopping", sweep.todo, sweep.cur)
        /\ Set(sweep.cur, Downing(sweep.cur))
     \/ /\ aborted \/ ~StillIdle(sweep.cur)
        /\ SweepGoes("loop", sweep.todo, Main)
        /\ UNCHANGED status
  /\ UNCHANGED <<SweepRest, age, retries, stale, fails>>

(* The wait ends without the lock: after 180 seconds, or by close.         *)
Failed(e) == retries' = IF aborted THEN retries ELSE retries \cup {e}
SweepTimeout ==
  /\ Up /\ sweep.at = "locking" /\ Locked(sweep.cur)
  /\ Failed(sweep.cur)
  /\ SweepGoes("loop", sweep.todo, Main)
  /\ UNCHANGED <<SweepRest, status, age, stale, fails>>

(* down() returns, or throws: local services left, or only a tunnel.       *)
SweepStopped ==
  /\ Up /\ sweep.at = "stopping"
  /\ \/ /\ Set(sweep.cur, Downed(sweep.cur))
        /\ retries' = retries \ {sweep.cur}
        /\ UNCHANGED fails
     \/ /\ aborted \/ MayFail
        /\ status' \in {status, [status EXCEPT ![sweep.cur] = Downed(sweep.cur)]}
        /\ Failed(sweep.cur)
        /\ IF aborted THEN UNCHANGED fails ELSE Fails
  /\ SweepGoes("loop", sweep.todo, Main)
  /\ UNCHANGED <<SweepRest, age, stale>>

SweepEnd ==
  /\ Up /\ sweep.at = "loop" /\ (sweep.todo = {} \/ aborted)
  /\ sweep' = NoSweep /\ stale' = {}
  /\ retries' = retries \cap Present
  /\ UNCHANGED <<SweepRest, status, age, fails>>
------------------------------------------------------------------------------
DrainedLater == ~accepting               \* mutant of Drained: nobody is awaited
Drained == \A e \in Env : op[e] = NoOp

(* The stop request: idle shutdown, sharing and operations are closed and  *)
(* joined, and then every environment is stopped, without locks.           *)
StopGoes(at, todo, cur, error) ==
  stop' = [at |-> at, todo |-> todo, cur |-> cur, error |-> error]
StopRest == <<retries, sweep, stale, op, connections, held, close, deletes>>
StopRequest ==
  /\ Up /\ stop = NoStop
  /\ aborted' = TRUE /\ stop' = [stop EXCEPT !.at = "idle"]
  /\ UNCHANGED <<StopRest, status, age, session, accepting, closing, fails>>
StopSharing ==
  /\ Up /\ stop.at = "idle" /\ sweep.at = "none"
  /\ closing' = TRUE /\ stop' = [stop EXCEPT !.at = "sharing"]
  /\ UNCHANGED <<StopRest, status, age, session, aborted, accepting, fails>>
StopOperations ==
  /\ Up /\ stop.at = "sharing" /\ \A e \in Env : ~Sharing(e)
  /\ accepting' = FALSE /\ stop' = [stop EXCEPT !.at = "operations"]
  /\ UNCHANGED <<StopRest, status, age, session, aborted, closing, fails>>
StopEnvironments ==
  /\ Up /\ stop.at = "operations" /\ Drained
  /\ StopGoes("environments", Present, Main, FALSE)
  /\ UNCHANGED <<StopRest, status, age, session, flagVars, fails>>
StopDown(e) ==
  /\ Up /\ stop.at = "environments" /\ e \in stop.todo
  /\ Set(e, Downing(e))
  /\ StopGoes("stopping", stop.todo \ {e}, e, stop.error)
  /\ UNCHANGED <<StopRest, age, session, flagVars, fails>>
StopDowned ==
  /\ Up /\ stop.at = "stopping"
  /\ \/ /\ Set(stop.cur, Downed(stop.cur))
        /\ StopGoes("environments", stop.todo, Main, stop.error)
        /\ UNCHANGED fails
     \/ /\ MayFail /\ Fails
        /\ UNCHANGED status
        /\ StopGoes("environments", stop.todo, Main, TRUE)
  /\ UNCHANGED <<StopRest, age, session, flagVars>>
StopEnd ==
  /\ Up /\ stop.at = "environments" /\ stop.todo = {}
  /\ stop' = [stop EXCEPT !.at = "done"]
  /\ UNCHANGED <<StopRest, status, age, session, flagVars, fails>>

(* close(), by a signal or after a stop request, whose downs it does not   *)
(* wait for; then the lock on the hub's state is released.                 *)
CloseRest == <<status, idleVars, op, useVars, stop, fails, deletes>>
Close ==
  /\ close = "none"
  /\ close' = "idle" /\ aborted' = TRUE
  /\ UNCHANGED <<CloseRest, accepting, closing>>
CloseOperationsUnjoined ==               \* mutant of CloseOperations: the sweep goes on
  /\ close = "idle"
  /\ close' = "operations" /\ accepting' = FALSE
  /\ UNCHANGED <<CloseRest, aborted, closing>>
CloseOperations ==
  /\ close = "idle" /\ sweep.at = "none"
  /\ close' = "operations" /\ accepting' = FALSE
  /\ UNCHANGED <<CloseRest, aborted, closing>>
CloseSharing ==
  /\ close = "operations" /\ Drained
  /\ close' = "sharing" /\ closing' = TRUE
  /\ UNCHANGED <<CloseRest, aborted, accepting>>
CloseRelease ==
  /\ close = "sharing" /\ \A e \in Env : ~Sharing(e)
  /\ close' = "released"
  /\ UNCHANGED <<CloseRest, flagVars>>
------------------------------------------------------------------------------
Sweeping ==
  \/ (\E e \in Env : SweepVisit(e)) \/ SweepLock \/ SweepTimeout \/ SweepStopped \/ SweepEnd
Stopping ==
  \/ StopSharing \/ StopOperations \/ StopEnvironments
  \/ (\E e \in Env : StopDown(e)) \/ StopDowned \/ StopEnd
Closing == CloseOperations \/ CloseSharing \/ CloseRelease
Deploying(e) == \E ids \in {{e}, {e, Main}} : Submit(e, "deploy", ids)
Use(e) == Request(e) \/ Connect(e) \/ Disconnect(e) \/ Hold(e) \/ OpenSession(e)

(* The history: a request names e or a session opens on it (both are in    *)
(* Use), or e has a connection or an operation of its own, before or after *)
(* the step.  It is kept apart from age, which the code keeps.             *)
InUse(e) == e \in connections \/ op[e].at # "none"
Noticed(S) ==
  quiet' = [e \in Env |-> IF e \in S \/ InUse(e) \/ InUse(e)' THEN 0 ELSE quiet[e]]
Passed ==
  quiet' = [e \in Env |-> IF InUse(e) THEN 0
                          ELSE IF quiet[e] < Timeout THEN quiet[e] + 1 ELSE Timeout]
Next ==
  \/ \E e \in Env : Use(e) /\ Noticed({e})
  \/ /\ \/ \E e \in Env :
             \/ Unhold(e) \/ Deploying(e)
             \/ \E kind \in {"down", "delete", "hold"} : Submit(e, kind, {e})
             \/ OpBegin(e) \/ OpLeave(e) \/ OpEnd(e)
             \/ EndSession(e) \/ SessionStep(e) \/ CleanupFails(e)
        \/ SweepStart \/ Sweeping
        \/ StopRequest \/ Stopping \/ Close \/ Closing
     /\ Noticed({})
  \/ Tick /\ Passed

Spec == Init /\ [][Next]_vars
------------------------------------------------------------------------------
(* The state has the shape the code gives it.                              *)
TypeOK ==
  /\ status \in [Env -> Status] /\ age \in [Env -> 0 .. Timeout]
  /\ connections \subseteq Env /\ retries \subseteq Env /\ stale \subseteq Env
  /\ sweep \in [at : {"none", "loop", "locking", "stopping"}, todo : SUBSET Env, cur : Env]
  /\ op \in [Env -> Op] /\ held \subseteq Env
  /\ session \in [Env -> {"none", "waiting", "starting", "sharing", "cleanup", "restoring"}]
  /\ aborted \in BOOLEAN /\ accepting \in BOOLEAN /\ closing \in BOOLEAN
  /\ stop \in [at : {"none", "idle", "sharing", "operations", "environments", "stopping", "done"},
               todo : SUBSET Env, cur : Env, error : BOOLEAN]
  /\ close \in {"none", "idle", "operations", "sharing", "released"}
  /\ fails \in 0 .. MaxFails /\ deletes \in 0 .. MaxDeletes
  /\ quiet \in [Env -> 0 .. Timeout]

(* Until idle shutdown is closed, an idle stop begins only after a whole   *)
(* window without a use: no request, no connection, no session opened and  *)
(* no operation of its own, however they fell between the visits of the    *)
(* sweep, its wait for the lock, a failed stop it tries again and a        *)
(* deletion (compact-config.md:33: "A closed connection starts a fresh     *)
(* idle window").  A clone source and a shared environment are kept only   *)
(* while that lasts, by what the sweep sees.                               *)
StopsOnlyIdle ==
  [][\A e \in Env :
       ~aborted /\ sweep'.at = "stopping" /\ sweep.at # "stopping" /\ sweep.cur = e
         => quiet[e] = Timeout]_vars

(* Whoever stops an environment is alone with it: the sweep by its lock,   *)
(* the stop request, which takes none, because sweeps, sessions and        *)
(* operations were closed and joined in that order before.                 *)
StopsAlone ==
  \A e \in Env :
    LET sweeping == sweep.at = "stopping" /\ sweep.cur = e
        stopping == stop.at = "stopping" /\ stop.cur = e
        working == \E d \in Env : op[d].at = "working" /\ e \in op[d].ids
        tunnel == session[e] \in {"starting", "restoring"}
    IN (sweeping => ~working /\ ~tunnel /\ ~stopping) /\ (stopping => ~working /\ ~tunnel)

(* "joins in-flight shutdown before releasing its state lock" (idle.ts:7): *)
(* once another hub may start, this one sweeps, shares and works on        *)
(* nothing.                                                                *)
ReleasedQuiet ==
  close = "released" => sweep.at = "none" /\ Drained /\ \A e \in Env : ~Sharing(e)
=============================================================================
