------------------------------ MODULE HubProofs ------------------------------
(***************************************************************************)
(* The hub process, in two halves that share no state: IdleShutdown, what  *)
(* a hub that serves does to its environments, and from the rule on        *)
(* HubLife, how hubs start, reap and end (its names begin with Hub).       *)
(*                                                                         *)
(* IdleShutdown: whoever stops an environment is alone with it, and a hub  *)
(* that has let its lock go does nothing any more, for any environments,   *)
(* timeouts and failures.                                                  *)
(***************************************************************************)
EXTENDS IdleShutdown, HubLife, TLAPS

(* What each end of the hub has closed and joined by the time it is where  *)
(* it is: the sweep first, whose controller it aborted; sharing and        *)
(* operations then, in one order or the other.                             *)
NobodyShares == \A e \in Env : ~Sharing(e)
Stops == {"operations", "environments", "stopping", "done"}
Joined ==
  /\ stop.at # "none" \/ close # "none" => aborted
  /\ stop.at \in {"sharing"} \cup Stops => sweep.at = "none" /\ closing
  /\ stop.at \in Stops => NobodyShares /\ ~accepting
  /\ stop.at \in Stops \ {"operations"} => Drained
  /\ close \in {"operations", "sharing", "released"} => sweep.at = "none" /\ ~accepting
  /\ close \in {"sharing", "released"} => Drained /\ closing
  /\ close = "released" => NobodyShares

(* The sweep that stops an environment has its lock.                       *)
Worked(e) == \E d \in Env : op[d].at = "working" /\ e \in op[d].ids
Tunnelled(e) == session[e] \in {"starting", "restoring"}
SweepsAlone ==
  sweep.at = "stopping" => ~Worked(sweep.cur) /\ ~Tunnelled(sweep.cur)

(* The parts of TypeOK: the flags, the history, and everything else.       *)
Flags == aborted \in BOOLEAN /\ accepting \in BOOLEAN /\ closing \in BOOLEAN
Heard == quiet \in [Env -> 0 .. Timeout]
Sessions == {"none", "waiting", "starting", "sharing", "cleanup", "restoring"}
Sweep == [at : {"none", "loop", "locking", "stopping"}, todo : SUBSET Env, cur : Env]
StopState ==
  [at : {"none", "idle", "sharing", "operations", "environments", "stopping", "done"},
   todo : SUBSET Env, cur : Env, error : BOOLEAN]
Shape ==
  /\ status \in [Env -> Status] /\ age \in [Env -> 0 .. Timeout]
  /\ connections \subseteq Env /\ retries \subseteq Env /\ stale \subseteq Env
  /\ sweep \in Sweep /\ op \in [Env -> Op] /\ held \subseteq Env
  /\ session \in [Env -> Sessions] /\ stop \in StopState
  /\ close \in {"none", "idle", "operations", "sharing", "released"}
  /\ fails \in 0 .. MaxFails /\ deletes \in 0 .. MaxDeletes

(* One deletion is asked for at a time, and only below its bound.          *)
OneDeletion ==
  \A d \in Env : op[d].kind = "delete" =>
    deletes < MaxDeletes /\ \A e \in Env : op[e].kind = "delete" => e = d

(* An environment is deleted by its own operation alone, under its lock    *)
(* and not while it is shared.                                             *)
Deleting(e) == op[e].kind = "delete" /\ op[e].at = "working"
DeletesAlone ==
  \A e \in Env : /\ op[e].kind = "delete" => op[e].ids = {e}
                 /\ Deleting(e) => status[e] = "deleting"
                 /\ session[e] # "none" => status[e] # "absent" /\ ~Deleting(e)

(* The sweep knows which of the environments before it are gone, and stops *)
(* none of them.                                                           *)
Before(e) == e \in sweep.todo \/ (sweep.at = "locking" /\ sweep.cur = e)
SweepKnows ==
  /\ sweep.at # "none" =>
       \A e \in Env : Before(e) /\ status[e] = "absent" => e \in stale
  /\ sweep.at = "stopping" => status[sweep.cur] # "absent"

(* The last activity the code keeps is never older than the last use.      *)
Noted ==
  ~aborted => \A e \in Env : status[e] # "absent" /\ ~InUse(e) => age[e] <= quiet[e]

IInv ==
  /\ TypeOK /\ Joined /\ SweepsAlone /\ OneDeletion
  /\ DeletesAlone /\ SweepKnows /\ Noted
------------------------------------------------------------------------------
(* TypeOK is its parts.                                                    *)
LEMMA Halves == TypeOK <=> Flags /\ Shape /\ Heard
  BY DEF TypeOK, Flags, Shape, Heard, Sweep, StopState, Sessions

(* Every step keeps the history within its bound.                          *)
LEMMA HeardStep == Heard /\ [Next]_vars => Heard'
<1> SUFFICES ASSUME Heard, [Next]_vars PROVE Heard'
  OBVIOUS
<1> USE IdleAssumption DEF Heard
<1>1. ASSUME NEW S \in SUBSET Env, Noticed(S) PROVE Heard'
  BY <1>1 DEF Noticed
<1>2. ASSUME Passed PROVE Heard'
  BY <1>2 DEF Passed
<1>3. CASE UNCHANGED vars
  BY <1>3 DEF vars
<1>4. (\E S \in SUBSET Env : Noticed(S)) \/ Passed \/ UNCHANGED vars
  BY DEF Next
<1> QED
  BY <1>1, <1>2, <1>3, <1>4

(* The submissions of Next, of whatever kind.                              *)
Submitted(e) ==
  \E kind \in {"deploy", "down", "delete", "hold"}, ids \in SUBSET Env : Submit(e, kind, ids)
LEMMA AnySubmit ==
  ASSUME NEW e \in Env
  PROVE  /\ Deploying(e) => Submitted(e)
         /\ (\E kind \in {"down", "delete", "hold"} : Submit(e, kind, {e})) => Submitted(e)
<1>1. {e} \in SUBSET Env /\ {e, Main} \in SUBSET Env
  BY IdleAssumption
<1>2. ASSUME Deploying(e) PROVE Submitted(e)
  BY <1>1, <1>2 DEF Deploying, Submitted
<1>3. ASSUME NEW kind \in {"down", "delete", "hold"}, Submit(e, kind, {e}) PROVE Submitted(e)
  BY <1>1, <1>3 DEF Submitted
<1> QED
  BY <1>2, <1>3

(* What a sweep, a stop request or an operation becomes is of its type.    *)
LEMMA Typed ==
  ASSUME NEW left \in SUBSET Env, NEW cur \in Env
  PROVE  /\ \A at \in {"none", "loop", "locking", "stopping"} :
              [at |-> at, todo |-> left, cur |-> cur] \in Sweep
         /\ \A at \in {"none", "idle", "sharing", "operations", "environments", "stopping", "done"},
               error \in BOOLEAN :
              [at |-> at, todo |-> left, cur |-> cur, error |-> error] \in StopState
  BY DEF Sweep, StopState

(* Every step keeps the flags truth values.                                *)
LEMMA FlagsStep == Flags /\ [Next]_vars => Flags'
<1> SUFFICES ASSUME Flags, [Next]_vars PROVE Flags'
  OBVIOUS
<1> USE DEF Flags, endVars, flagVars
<1>1. ASSUME NEW e \in Env, Request(e) PROVE Flags'
  BY <1>1, Zenon DEF Request
<1>2. ASSUME NEW e \in Env, Connect(e) PROVE Flags'
  BY <1>2, Zenon DEF Connect
<1>3. ASSUME NEW e \in Env, Disconnect(e) PROVE Flags'
  BY <1>3, Zenon DEF Disconnect
<1>4. ASSUME NEW e \in Env, Hold(e) PROVE Flags'
  BY <1>4, Zenon DEF Hold
<1>5. ASSUME NEW e \in Env, Unhold(e) PROVE Flags'
  BY <1>5, Zenon DEF Unhold
<1>6. ASSUME NEW e \in Env, OpenSession(e) PROVE Flags'
  BY <1>6, Zenon DEF OpenSession, SessionRest
<1>7. ASSUME NEW e \in Env, Submitted(e) PROVE Flags'
  BY <1>7, Zenon DEF Submitted, Submit
<1>8. ASSUME NEW e \in Env, OpBegin(e) PROVE Flags'
  BY <1>8, Zenon DEF OpBegin
<1>9. ASSUME NEW e \in Env, OpLeave(e) PROVE Flags'
  BY <1>9, Zenon DEF OpLeave
<1>10. ASSUME NEW e \in Env, OpEnd(e) PROVE Flags'
  BY <1>10, Zenon DEF OpEnd
<1>11. ASSUME NEW e \in Env, EndSession(e) PROVE Flags'
  BY <1>11, Zenon DEF EndSession, SessionRest
<1>12. ASSUME NEW e \in Env, SessionStep(e) PROVE Flags'
  BY <1>12, Zenon DEF SessionStep, SessionRest
<1>13. ASSUME NEW e \in Env, CleanupFails(e) PROVE Flags'
  BY <1>13, Zenon DEF CleanupFails, SessionRest
<1>14. CASE Tick
  BY <1>14, Zenon DEF Tick
<1>15. CASE SweepStart
  BY <1>15, Zenon DEF SweepStart, SweepRest
<1>16. ASSUME NEW e \in Env, SweepVisit(e) PROVE Flags'
  BY <1>16, Zenon DEF SweepVisit, SweepRest
<1>17. CASE SweepLock
  BY <1>17, Zenon DEF SweepLock, SweepRest
<1>18. CASE SweepTimeout
  BY <1>18, Zenon DEF SweepTimeout, SweepRest
<1>19. CASE SweepStopped
  BY <1>19, Zenon DEF SweepStopped, SweepRest
<1>20. CASE SweepEnd
  BY <1>20, Zenon DEF SweepEnd, SweepRest
<1>21. CASE StopRequest
  BY <1>21, Zenon DEF StopRequest, StopRest
<1>22. CASE StopSharing
  BY <1>22, Zenon DEF StopSharing, StopRest
<1>23. CASE StopOperations
  BY <1>23, Zenon DEF StopOperations, StopRest
<1>24. CASE StopEnvironments
  BY <1>24, Zenon DEF StopEnvironments, StopRest
<1>25. ASSUME NEW e \in Env, StopDown(e) PROVE Flags'
  BY <1>25, Zenon DEF StopDown, StopRest
<1>26. CASE StopDowned
  BY <1>26, Zenon DEF StopDowned, StopRest
<1>27. CASE StopEnd
  BY <1>27, Zenon DEF StopEnd, StopRest
<1>28. CASE Close
  BY <1>28, Zenon DEF Close, CloseRest
<1>29. CASE CloseOperations
  BY <1>29, Zenon DEF CloseOperations, CloseRest
<1>30. CASE CloseSharing
  BY <1>30, Zenon DEF CloseSharing, CloseRest
<1>31. CASE CloseRelease
  BY <1>31, Zenon DEF CloseRelease, CloseRest
<1>32. CASE UNCHANGED vars
  BY <1>32 DEF vars
<1> QED
  BY <1>1, <1>2, <1>3, <1>4, <1>5, <1>6, <1>7, <1>8, <1>9, <1>10, <1>11, <1>12, <1>13, <1>14,
      <1>15, <1>16, <1>17, <1>18, <1>19, <1>20, <1>21, <1>22, <1>23, <1>24, <1>25, <1>26, <1>27,
      <1>28, <1>29, <1>30, <1>31, <1>32, AnySubmit
     DEF Next, Use, Sweeping, Stopping, Closing

(* Every step keeps the rest of the shape.                                 *)
LEMMA ShapeStep == TypeOK /\ OneDeletion /\ [Next]_vars => Shape'
<1> SUFFICES ASSUME TypeOK, OneDeletion, [Next]_vars PROVE Shape'
  OBVIOUS
<1>z. NoOp \in Op /\ NoSweep \in Sweep
  BY IdleAssumption DEF NoOp, Op, NoSweep, Sweep
<1>s. Shape
  BY Halves
<1>p. Present \subseteq Env
  BY DEF Present
<1>f. sweep.todo \in SUBSET Env /\ sweep.cur \in Env /\ stop.todo \in SUBSET Env /\ stop.cur \in Env
  BY <1>s DEF Shape, Sweep, StopState
<1>e. stop.error \in BOOLEAN
  BY <1>s, Zenon DEF Shape, StopState
<1>a. \A at \in {"none", "idle", "sharing", "operations", "environments", "stopping", "done"} :
        [stop EXCEPT !.at = at] \in StopState
  BY <1>s, Zenon DEF Shape, StopState
<1>m. MaxFails \in Nat /\ MaxDeletes \in Nat
  BY IdleAssumption
<1> USE <1>z, <1>s, <1>p, <1>f, IdleAssumption DEF Shape, Status, Sessions, idleVars, useVars,
    endVars, flagVars
<1>1. ASSUME NEW e \in Env, Request(e) PROVE Shape'
  BY <1>1, SMT DEF Request, Touch, Touched
<1>2. ASSUME NEW e \in Env, Connect(e) PROVE Shape'
  BY <1>2, SMT DEF Connect, Touch, Touched
<1>3. ASSUME NEW e \in Env, Disconnect(e) PROVE Shape'
  BY <1>3, SMT DEF Disconnect, Touch, Touched
<1>4. ASSUME NEW e \in Env, Hold(e) PROVE Shape'
  BY <1>4, SMT DEF Hold, Touch, Touched
<1>5. ASSUME NEW e \in Env, Unhold(e) PROVE Shape'
  BY <1>5, SMT DEF Unhold
<1>6. ASSUME NEW e \in Env, OpenSession(e) PROVE Shape'
  BY <1>6, SMT DEF OpenSession, SessionGoes, SessionRest, Touch, Touched
<1>7. ASSUME NEW e \in Env, Submitted(e) PROVE Shape'
  <2>1. PICK kind \in {"deploy", "down", "delete", "hold"}, ids \in SUBSET Env : Submit(e, kind, ids)
    BY <1>7 DEF Submitted
  <2>2. [at |-> "queued", kind |-> kind, ids |-> ids] \in Op
    BY DEF Op
  <2>3. op' \in [Env -> Op]
    BY <2>1, <2>2 DEF Submit
  <2> QED
    BY <2>1, <2>3, SMT DEF Submit, Touch, Touched
<1>8. ASSUME NEW e \in Env, OpBegin(e) PROVE Shape'
  <2>1. [op[e] EXCEPT !.at = "working"] \in Op
    BY DEF Op
  <2>2. op' \in [Env -> Op]
    BY <1>8, <2>1 DEF OpBegin
  <2>3. Downing(e) \in Status
    BY DEF Downing
  <2>4. status' \in [Env -> Status]
    BY <1>8, <2>3 DEF OpBegin, Set
  <2> QED
    BY <1>8, <2>2, <2>4, SMT DEF OpBegin, Touch, Touched
<1>9. ASSUME NEW e \in Env, OpLeave(e) PROVE Shape'
  BY <1>9, SMT DEF OpLeave, Touch, Touched
<1>10. ASSUME NEW e \in Env, OpEnd(e) PROVE Shape'
  <2>1. Downed(e) \in Status
    BY DEF Downed
  <2>2. status' \in [Env -> Status]
    BY <1>10, <2>1 DEF OpEnd, Set
  <2>3. age' \in [Env -> 0 .. Timeout]
    BY <1>10, SMT DEF OpEnd
  <2>4. fails' \in 0 .. MaxFails /\ deletes' \in 0 .. MaxDeletes
    <3>1. fails' \in 0 .. MaxFails
      BY <1>10, <1>m, SMT DEF OpEnd, Fails, MayFail
    <3>2. CASE deletes' = deletes
      BY <3>1, <3>2
    <3>3. CASE deletes' # deletes
      <4>1. e \in Present /\ status'[e] = "absent" /\ deletes' = deletes + 1
        BY <1>10, <3>3 DEF OpEnd
      <4>2. status[e] # "absent"
        BY <4>1 DEF Present
      <4>3. op[e].kind = "delete"
        BY <1>10, <4>1, <4>2 DEF OpEnd, Set, Downed
      <4> QED
        BY <3>1, <4>1, <4>3, <1>m, SMT DEF OneDeletion
    <3> QED
      BY <3>2, <3>3
  <2>5. stale' \subseteq Env /\ op' \in [Env -> Op]
    BY <1>10 DEF OpEnd
  <2> QED
    BY <1>10, <2>2, <2>3, <2>4, <2>5 DEF OpEnd
<1>11. ASSUME NEW e \in Env, EndSession(e) PROVE Shape'
  BY <1>11, SMT DEF EndSession, SessionGoes, SessionRest
<1>12. ASSUME NEW e \in Env, SessionStep(e) PROVE Shape'
  BY <1>12, SMT DEF SessionStep, SessionGoes, SessionRest
<1>13. ASSUME NEW e \in Env, CleanupFails(e) PROVE Shape'
  BY <1>13, SMT DEF CleanupFails, SessionGoes, SessionRest, Set, Fails, MayFail
<1>14. CASE Tick
  BY <1>14, SMT DEF Tick
<1>15. CASE SweepStart
  <2>1. sweep' \in Sweep
    BY <1>15, <1>p, Typed DEF SweepStart, SweepGoes
  <2> QED
    BY <1>15, <2>1 DEF SweepStart, SweepRest
<1>16. ASSUME NEW e \in Env, SweepVisit(e) PROVE Shape'
  <2>1. sweep.todo \ {e} \in SUBSET Env
    BY <1>f
  <2>2. sweep' \in Sweep
    BY <1>16, <2>1, Typed DEF SweepVisit, SweepGoes
  <2>3. age' \in [Env -> 0 .. Timeout]
    BY <1>16, SMT DEF SweepVisit, Touch, Touched
  <2> QED
    BY <1>16, <2>2, <2>3 DEF SweepVisit, SweepRest
<1>17. CASE SweepLock
  <2>1. sweep' \in Sweep
    BY <1>17, <1>f, Typed DEF SweepLock, SweepGoes
  <2>2. Downing(sweep.cur) \in Status
    BY DEF Downing
  <2>3. status' \in [Env -> Status]
    BY <1>17, <2>2 DEF SweepLock, Set
  <2> QED
    BY <1>17, <2>1, <2>3 DEF SweepLock, SweepRest
<1>18. CASE SweepTimeout
  <2>1. sweep' \in Sweep
    BY <1>18, <1>f, Typed DEF SweepTimeout, SweepGoes
  <2> QED
    BY <1>18, <2>1, <1>f DEF SweepTimeout, SweepRest, Failed
<1>19. CASE SweepStopped
  <2>1. sweep' \in Sweep
    BY <1>19, <1>f, Typed DEF SweepStopped, SweepGoes
  <2>2. Downed(sweep.cur) \in Status
    BY DEF Downed
  <2>3. status' \in [Env -> Status] /\ retries' \subseteq Env
    BY <1>19, <2>2, <1>f DEF SweepStopped, Set, Failed
  <2>4. fails' \in 0 .. MaxFails
    BY <1>19, <1>m, SMT DEF SweepStopped, MayFail, Fails
  <2> QED
    BY <1>19, <2>1, <2>3, <2>4 DEF SweepStopped, SweepRest
<1>20. CASE SweepEnd
  BY <1>20, SMT DEF SweepEnd, SweepRest
<1>21. CASE StopRequest
  <2>1. stop' \in StopState
    BY <1>21, <1>a DEF StopRequest
  <2> QED
    BY <1>21, <2>1 DEF StopRequest, StopRest
<1>22. CASE StopSharing
  <2>1. stop' \in StopState
    BY <1>22, <1>a DEF StopSharing
  <2> QED
    BY <1>22, <2>1 DEF StopSharing, StopRest
<1>23. CASE StopOperations
  <2>1. stop' \in StopState
    BY <1>23, <1>a DEF StopOperations
  <2> QED
    BY <1>23, <2>1 DEF StopOperations, StopRest
<1>24. CASE StopEnvironments
  <2>1. stop' \in StopState
    BY <1>24, <1>p, Typed DEF StopEnvironments, StopGoes
  <2> QED
    BY <1>24, <2>1 DEF StopEnvironments, StopRest
<1>25. ASSUME NEW e \in Env, StopDown(e) PROVE Shape'
  <2>1. stop' \in StopState
    BY <1>25, <1>f, <1>e, Typed DEF StopDown, StopGoes
  <2>2. Downing(e) \in Status
    BY DEF Downing
  <2> QED
    BY <1>25, <2>1, <2>2 DEF StopDown, StopRest, Set
<1>26. CASE StopDowned
  <2>1. stop' \in StopState
    <3>1. stop' = [at |-> "environments", todo |-> stop.todo, cur |-> Main, error |-> stop.error]
          \/ stop' = [at |-> "environments", todo |-> stop.todo, cur |-> Main, error |-> TRUE]
      BY <1>26 DEF StopDowned, StopGoes
    <3> QED
      BY <3>1, <1>f, <1>e, Typed
  <2>2. Downed(stop.cur) \in Status
    BY DEF Downed
  <2>3. status' \in [Env -> Status] /\ fails' \in 0 .. MaxFails
    <3>1. status' \in [Env -> Status]
      BY <1>26, <2>2 DEF StopDowned, Set
    <3>2. fails' = fails \/ (fails < MaxFails /\ fails' = fails + 1)
      BY <1>26, Zenon DEF StopDowned, MayFail, Fails
    <3>3. fails' \in 0 .. MaxFails
      BY <3>2, <1>m, SMT
    <3> QED
      BY <3>1, <3>3
  <2> QED
    BY <1>26, <2>1, <2>3 DEF StopDowned, StopRest
<1>27. CASE StopEnd
  <2>1. stop' \in StopState
    BY <1>27, <1>a DEF StopEnd
  <2> QED
    BY <1>27, <2>1 DEF StopEnd, StopRest
<1>28. CASE Close
  BY <1>28, SMT DEF Close, CloseRest
<1>29. CASE CloseOperations
  BY <1>29, SMT DEF CloseOperations, CloseRest
<1>30. CASE CloseSharing
  BY <1>30, SMT DEF CloseSharing, CloseRest
<1>31. CASE CloseRelease
  BY <1>31, SMT DEF CloseRelease, CloseRest
<1>32. CASE UNCHANGED vars
  BY <1>32 DEF vars
<1> QED
  BY <1>1, <1>2, <1>3, <1>4, <1>5, <1>6, <1>7, <1>8, <1>9, <1>10, <1>11, <1>12, <1>13, <1>14,
      <1>15, <1>16, <1>17, <1>18, <1>19, <1>20, <1>21, <1>22, <1>23, <1>24, <1>25, <1>26, <1>27,
      <1>28, <1>29, <1>30, <1>31, <1>32, AnySubmit
     DEF Next, Use, Sweeping, Stopping, Closing
(* One deletion at a time stays the rule.                                   *)
LEMMA OneDeletionStep == TypeOK /\ OneDeletion /\ [Next]_vars => OneDeletion'
<1> SUFFICES ASSUME TypeOK, OneDeletion, [Next]_vars PROVE OneDeletion'
  OBVIOUS
<1>t. op \in [Env -> Op] /\ NoOp \in Op /\ NoOp.kind = "hold"
  BY DEF TypeOK, NoOp, Op
<1> USE <1>t DEF OneDeletion, useVars, endVars, idleVars
<1>1. ASSUME NEW e \in Env, Request(e) PROVE OneDeletion'
  BY <1>1 DEF Request, Touch, Touched
<1>2. ASSUME NEW e \in Env, Connect(e) PROVE OneDeletion'
  BY <1>2 DEF Connect, Touch, Touched
<1>3. ASSUME NEW e \in Env, Disconnect(e) PROVE OneDeletion'
  BY <1>3 DEF Disconnect, Touch, Touched
<1>4. ASSUME NEW e \in Env, Hold(e) PROVE OneDeletion'
  BY <1>4 DEF Hold, Touch, Touched
<1>5. ASSUME NEW e \in Env, Unhold(e) PROVE OneDeletion'
  BY <1>5 DEF Unhold
<1>6. ASSUME NEW e \in Env, OpenSession(e) PROVE OneDeletion'
  BY <1>6 DEF OpenSession, SessionGoes, SessionRest, Touch, Touched
<1>7. ASSUME NEW e \in Env, Submitted(e) PROVE OneDeletion'
  BY <1>7 DEF Submitted, Submit, Touch, Touched
<1>8. ASSUME NEW e \in Env, OpBegin(e) PROVE OneDeletion'
  <2>1. op' = [op EXCEPT ![e] = NoOp] \/ op' = [op EXCEPT ![e].at = "working"]
    BY <1>8 DEF OpBegin
  <2>2. \A d \in Env : op'[d].kind \in {op[d].kind, "hold"}
    BY <2>1 DEF Op
  <2>3. deletes' = deletes
    BY <1>8 DEF OpBegin
  <2> QED
    BY <2>2, <2>3
<1>9. ASSUME NEW e \in Env, OpLeave(e) PROVE OneDeletion'
  BY <1>9 DEF OpLeave, Touch, Touched
<1>10. ASSUME NEW e \in Env, OpEnd(e) PROVE OneDeletion'
  <2>1. op' = [op EXCEPT ![e] = NoOp]
    BY <1>10 DEF OpEnd
  <2>2. CASE deletes' = deletes
    BY <2>1, <2>2
  <2>3. CASE deletes' # deletes
    <3>1. e \in Present /\ status'[e] = "absent"
      BY <1>10, <2>3 DEF OpEnd
    <3>2. status[e] # "absent" /\ status \in [Env -> Status]
      BY <3>1 DEF Present, TypeOK
    <3>3. op[e].kind = "delete"
      BY <1>10, <3>1, <3>2 DEF OpEnd, Set, Downed
    <3> QED
      BY <2>1, <3>3
  <2> QED
    BY <2>2, <2>3
<1>11. ASSUME NEW e \in Env, EndSession(e) PROVE OneDeletion'
  BY <1>11 DEF EndSession, SessionGoes, SessionRest
<1>12. ASSUME NEW e \in Env, SessionStep(e) PROVE OneDeletion'
  BY <1>12 DEF SessionStep, SessionGoes, SessionRest
<1>13. ASSUME NEW e \in Env, CleanupFails(e) PROVE OneDeletion'
  BY <1>13 DEF CleanupFails, SessionGoes, SessionRest, Set, Fails, MayFail
<1>14. CASE Tick
  BY <1>14 DEF Tick
<1>15. CASE SweepStart
  BY <1>15 DEF SweepStart, SweepGoes, SweepRest
<1>16. ASSUME NEW e \in Env, SweepVisit(e) PROVE OneDeletion'
  BY <1>16 DEF SweepVisit, SweepGoes, SweepRest, Touch, Touched
<1>17. CASE SweepLock
  BY <1>17 DEF SweepLock, SweepGoes, SweepRest, Set
<1>18. CASE SweepTimeout
  BY <1>18 DEF SweepTimeout, SweepGoes, SweepRest, Failed
<1>19. CASE SweepStopped
  BY <1>19 DEF SweepStopped, SweepGoes, SweepRest, Failed, Set, Fails, MayFail
<1>20. CASE SweepEnd
  BY <1>20 DEF SweepEnd, SweepRest
<1>21. CASE StopRequest
  BY <1>21 DEF StopRequest, StopRest
<1>22. CASE StopSharing
  BY <1>22 DEF StopSharing, StopRest
<1>23. CASE StopOperations
  BY <1>23 DEF StopOperations, StopRest
<1>24. CASE StopEnvironments
  BY <1>24 DEF StopEnvironments, StopGoes, StopRest
<1>25. ASSUME NEW e \in Env, StopDown(e) PROVE OneDeletion'
  BY <1>25 DEF StopDown, StopGoes, StopRest, Set
<1>26. CASE StopDowned
  BY <1>26 DEF StopDowned, StopGoes, StopRest, Set, Fails, MayFail
<1>27. CASE StopEnd
  BY <1>27 DEF StopEnd, StopRest
<1>28. CASE Close
  BY <1>28 DEF Close, CloseRest
<1>29. CASE CloseOperations
  BY <1>29 DEF CloseOperations, CloseRest
<1>30. CASE CloseSharing
  BY <1>30 DEF CloseSharing, CloseRest
<1>31. CASE CloseRelease
  BY <1>31 DEF CloseRelease, CloseRest
<1>32. CASE UNCHANGED vars
  BY <1>32 DEF vars
<1> QED
  BY <1>1, <1>2, <1>3, <1>4, <1>5, <1>6, <1>7, <1>8, <1>9, <1>10, <1>11, <1>12, <1>13, <1>14,
      <1>15, <1>16, <1>17, <1>18, <1>19, <1>20, <1>21, <1>22, <1>23, <1>24, <1>25, <1>26, <1>27,
      <1>28, <1>29, <1>30, <1>31, <1>32, AnySubmit
     DEF Next, Use, Sweeping, Stopping, Closing

(* Every step keeps what each end of the hub has closed and joined.         *)
LEMMA JoinedStep == TypeOK /\ Joined /\ [Next]_vars => Joined'
<1> SUFFICES ASSUME TypeOK, Joined, [Next]_vars PROVE Joined'
  OBVIOUS
<1>t. op \in [Env -> Op] /\ session \in [Env -> Sessions] /\ stop \in StopState
  BY Halves DEF Shape
<1> USE <1>t DEF Joined, Stops, NobodyShares, Drained, Sharing, useVars, endVars, idleVars, flagVars
<1>1. ASSUME NEW e \in Env, Request(e) PROVE Joined'
  BY <1>1 DEF Request, Touch, Touched
<1>2. ASSUME NEW e \in Env, Connect(e) PROVE Joined'
  BY <1>2 DEF Connect, Touch, Touched
<1>3. ASSUME NEW e \in Env, Disconnect(e) PROVE Joined'
  BY <1>3 DEF Disconnect, Touch, Touched
<1>4. ASSUME NEW e \in Env, Hold(e) PROVE Joined'
  BY <1>4 DEF Hold, Touch, Touched
<1>5. ASSUME NEW e \in Env, Unhold(e) PROVE Joined'
  BY <1>5 DEF Unhold
<1>6. ASSUME NEW e \in Env, OpenSession(e) PROVE Joined'
  BY <1>6 DEF OpenSession, SessionGoes, SessionRest, Touch, Touched
<1>7. ASSUME NEW e \in Env, Submitted(e) PROVE Joined'
  BY <1>7 DEF Submitted, Submit, Touch, Touched
<1>8. ASSUME NEW e \in Env, OpBegin(e) PROVE Joined'
  BY <1>8 DEF OpBegin, Touch, Touched, Set
<1>9. ASSUME NEW e \in Env, OpLeave(e) PROVE Joined'
  BY <1>9 DEF OpLeave, Touch, Touched
<1>10. ASSUME NEW e \in Env, OpEnd(e) PROVE Joined'
  BY <1>10 DEF OpEnd, Set, Fails
<1>11. ASSUME NEW e \in Env, EndSession(e) PROVE Joined'
  BY <1>11 DEF EndSession, SessionGoes, SessionRest
<1>12. ASSUME NEW e \in Env, SessionStep(e) PROVE Joined'
  BY <1>12 DEF SessionStep, SessionGoes, SessionRest
<1>13. ASSUME NEW e \in Env, CleanupFails(e) PROVE Joined'
  BY <1>13 DEF CleanupFails, SessionGoes, SessionRest, Set, Fails, MayFail
<1>14. CASE Tick
  BY <1>14 DEF Tick
<1>15. CASE SweepStart
  BY <1>15 DEF SweepStart, SweepGoes, SweepRest
<1>16. ASSUME NEW e \in Env, SweepVisit(e) PROVE Joined'
  BY <1>16 DEF SweepVisit, SweepGoes, SweepRest, Touch, Touched
<1>17. CASE SweepLock
  BY <1>17 DEF SweepLock, SweepGoes, SweepRest, Set
<1>18. CASE SweepTimeout
  BY <1>18 DEF SweepTimeout, SweepGoes, SweepRest, Failed
<1>19. CASE SweepStopped
  BY <1>19 DEF SweepStopped, SweepGoes, SweepRest, Failed, Set, Fails, MayFail
<1>20. CASE SweepEnd
  BY <1>20 DEF SweepEnd, SweepRest
<1>21. CASE StopRequest
  BY <1>21 DEF StopRequest, StopRest
<1>22. CASE StopSharing
  BY <1>22 DEF StopSharing, StopRest
<1>23. CASE StopOperations
  BY <1>23 DEF StopOperations, StopRest
<1>24. CASE StopEnvironments
  BY <1>24 DEF StopEnvironments, StopGoes, StopRest
<1>25. ASSUME NEW e \in Env, StopDown(e) PROVE Joined'
  BY <1>25 DEF StopDown, StopGoes, StopRest, Set
<1>26. CASE StopDowned
  BY <1>26 DEF StopDowned, StopGoes, StopRest, Set, Fails, MayFail
<1>27. CASE StopEnd
  BY <1>27 DEF StopEnd, StopRest
<1>28. CASE Close
  BY <1>28 DEF Close, CloseRest
<1>29. CASE CloseOperations
  BY <1>29 DEF CloseOperations, CloseRest
<1>30. CASE CloseSharing
  BY <1>30 DEF CloseSharing, CloseRest
<1>31. CASE CloseRelease
  BY <1>31 DEF CloseRelease, CloseRest
<1>32. CASE UNCHANGED vars
  BY <1>32 DEF vars
<1> QED
  BY <1>1, <1>2, <1>3, <1>4, <1>5, <1>6, <1>7, <1>8, <1>9, <1>10, <1>11, <1>12, <1>13, <1>14,
      <1>15, <1>16, <1>17, <1>18, <1>19, <1>20, <1>21, <1>22, <1>23, <1>24, <1>25, <1>26, <1>27,
      <1>28, <1>29, <1>30, <1>31, <1>32, AnySubmit
     DEF Next, Use, Sweeping, Stopping, Closing

(* Every step leaves the sweep alone with the environment it stops.         *)
LEMMA SweepsAloneStep == TypeOK /\ SweepsAlone /\ [Next]_vars => SweepsAlone'
<1> SUFFICES ASSUME TypeOK, SweepsAlone, [Next]_vars PROVE SweepsAlone'
  OBVIOUS
<1>t. op \in [Env -> Op] /\ session \in [Env -> Sessions] /\ sweep \in Sweep
  BY Halves DEF Shape
<1>n. NoOp.at = "none" /\ NoSweep.at = "none"
  BY DEF NoOp, NoSweep
<1>l. \A d \in Env : ~Locked(d) => ~Worked(d) /\ ~Tunnelled(d) /\ ~(sweep.at = "stopping" /\ sweep.cur = d)
  BY DEF Locked, Worked, Tunnelled
<1> USE <1>t, <1>n DEF SweepsAlone, Worked, Tunnelled, useVars, endVars, idleVars
<1>1. ASSUME NEW e \in Env, Request(e) PROVE SweepsAlone'
  BY <1>1 DEF Request, Touch, Touched
<1>2. ASSUME NEW e \in Env, Connect(e) PROVE SweepsAlone'
  BY <1>2 DEF Connect, Touch, Touched
<1>3. ASSUME NEW e \in Env, Disconnect(e) PROVE SweepsAlone'
  BY <1>3 DEF Disconnect, Touch, Touched
<1>4. ASSUME NEW e \in Env, Hold(e) PROVE SweepsAlone'
  BY <1>4 DEF Hold, Touch, Touched
<1>5. ASSUME NEW e \in Env, Unhold(e) PROVE SweepsAlone'
  BY <1>5 DEF Unhold
<1>6. ASSUME NEW e \in Env, OpenSession(e) PROVE SweepsAlone'
  BY <1>6 DEF OpenSession, SessionGoes, SessionRest, Touch, Touched
<1>7. ASSUME NEW e \in Env, Submitted(e) PROVE SweepsAlone'
  BY <1>7 DEF Submitted, Submit, Touch, Touched
<1>8. ASSUME NEW e \in Env, OpBegin(e) PROVE SweepsAlone'
  <2>1. op' = [op EXCEPT ![e] = NoOp] \/ op' = [op EXCEPT ![e].at = "working"]
    BY <1>8 DEF OpBegin
  <2>2. op[e].ids \subseteq Env /\ \A d \in op[e].ids : ~Locked(d)
    BY <1>8 DEF OpBegin, Op
  <2>3. sweep.at = "stopping" => sweep.cur \notin op[e].ids
    BY <2>2, <1>l
  <2>4. UNCHANGED <<sweep, session>>
    BY <1>8 DEF OpBegin
  <2>5. \A d \in Env : op'[d].at = "working" =>
          (d = e /\ op'[d].ids = op[e].ids) \/ (op[d].at = "working" /\ op'[d].ids = op[d].ids)
    BY <2>1 DEF Op
  <2> QED
    BY <2>3, <2>4, <2>5
<1>9. ASSUME NEW e \in Env, OpLeave(e) PROVE SweepsAlone'
  <2>1. op' = [op EXCEPT ![e] = NoOp] /\ UNCHANGED <<sweep, session>>
    BY <1>9 DEF OpLeave
  <2> QED
    BY <2>1
<1>10. ASSUME NEW e \in Env, OpEnd(e) PROVE SweepsAlone'
  <2>1. op' = [op EXCEPT ![e] = NoOp] /\ UNCHANGED <<sweep, session>>
    BY <1>10 DEF OpEnd
  <2> QED
    BY <2>1
<1>11. ASSUME NEW e \in Env, EndSession(e) PROVE SweepsAlone'
  BY <1>11 DEF EndSession, SessionGoes, SessionRest
<1>12. ASSUME NEW e \in Env, SessionStep(e) PROVE SweepsAlone'
  <2>1. Tunnelled(e)' => Tunnelled(e) \/ ~Locked(e)
    BY <1>12 DEF SessionStep, SessionGoes
  <2>2. \A d \in Env \ {e} : session'[d] = session[d]
    BY <1>12 DEF SessionStep, SessionGoes
  <2>3. UNCHANGED <<sweep, op>>
    BY <1>12 DEF SessionStep, SessionRest
  <2>4. SUFFICES ASSUME sweep.at = "stopping" PROVE ~Tunnelled(sweep.cur)'
    BY <2>3
  <2>5. ~Tunnelled(sweep.cur)
    BY <2>4
  <2>6. sweep.cur \in Env
    BY DEF Sweep
  <2>7. CASE sweep.cur = e
    BY <2>1, <2>3, <2>4, <2>5, <2>7, <1>l
  <2>8. CASE sweep.cur # e
    BY <2>2, <2>3, <2>5, <2>6, <2>8
  <2> QED
    BY <2>7, <2>8
<1>13. ASSUME NEW e \in Env, CleanupFails(e) PROVE SweepsAlone'
  BY <1>13 DEF CleanupFails, SessionGoes, SessionRest, Set, Fails, MayFail
<1>14. CASE Tick
  BY <1>14 DEF Tick
<1>15. CASE SweepStart
  BY <1>15 DEF SweepStart, SweepGoes, SweepRest
<1>16. ASSUME NEW e \in Env, SweepVisit(e) PROVE SweepsAlone'
  BY <1>16 DEF SweepVisit, SweepGoes, SweepRest, Touch, Touched
<1>17. CASE SweepLock
  <2>1. ~Worked(sweep.cur) /\ ~Tunnelled(sweep.cur)
    BY <1>17, <1>l DEF SweepLock, Sweep
  <2>2. sweep'.at = "stopping" => sweep'.cur = sweep.cur
    BY <1>17 DEF SweepLock, SweepGoes
  <2> QED
    BY <1>17, <2>1, <2>2 DEF SweepLock, SweepRest
<1>18. CASE SweepTimeout
  BY <1>18 DEF SweepTimeout, SweepGoes, SweepRest, Failed
<1>19. CASE SweepStopped
  BY <1>19 DEF SweepStopped, SweepGoes, SweepRest, Failed, Set, Fails, MayFail
<1>20. CASE SweepEnd
  BY <1>20 DEF SweepEnd, SweepRest
<1>21. CASE StopRequest
  BY <1>21 DEF StopRequest, StopRest
<1>22. CASE StopSharing
  BY <1>22 DEF StopSharing, StopRest
<1>23. CASE StopOperations
  BY <1>23 DEF StopOperations, StopRest
<1>24. CASE StopEnvironments
  BY <1>24 DEF StopEnvironments, StopGoes, StopRest
<1>25. ASSUME NEW e \in Env, StopDown(e) PROVE SweepsAlone'
  BY <1>25 DEF StopDown, StopGoes, StopRest, Set
<1>26. CASE StopDowned
  BY <1>26 DEF StopDowned, StopGoes, StopRest, Set, Fails, MayFail
<1>27. CASE StopEnd
  BY <1>27 DEF StopEnd, StopRest
<1>28. CASE Close
  BY <1>28 DEF Close, CloseRest
<1>29. CASE CloseOperations
  BY <1>29 DEF CloseOperations, CloseRest
<1>30. CASE CloseSharing
  BY <1>30 DEF CloseSharing, CloseRest
<1>31. CASE CloseRelease
  BY <1>31 DEF CloseRelease, CloseRest
<1>32. CASE UNCHANGED vars
  BY <1>32 DEF vars
<1> QED
  BY <1>1, <1>2, <1>3, <1>4, <1>5, <1>6, <1>7, <1>8, <1>9, <1>10, <1>11, <1>12, <1>13, <1>14,
      <1>15, <1>16, <1>17, <1>18, <1>19, <1>20, <1>21, <1>22, <1>23, <1>24, <1>25, <1>26, <1>27,
      <1>28, <1>29, <1>30, <1>31, <1>32, AnySubmit
     DEF Next, Use, Sweeping, Stopping, Closing

(* Every step leaves deletions alone with their environment.               *)
LEMMA DeletesAloneStep == TypeOK /\ DeletesAlone /\ [Next]_vars => DeletesAlone'
<1> SUFFICES ASSUME TypeOK, DeletesAlone, [Next]_vars PROVE DeletesAlone'
  OBVIOUS
<1>t. op \in [Env -> Op] /\ session \in [Env -> Sessions] /\ status \in [Env -> Status]
  BY Halves DEF Shape
<1>n. NoOp.at = "none" /\ NoOp.kind = "hold"
  BY DEF NoOp
<1>d. \A e \in Env : /\ Downing(e) # "absent" /\ (status[e] = "deleting" => Downing(e) = "deleting")
                     /\ Downed(e) # "absent" /\ (status[e] = "deleting" => Downed(e) = "deleting")
  BY DEF Downing, Downed
<1> USE <1>t, <1>n, <1>d DEF DeletesAlone, Deleting, useVars, endVars, idleVars
<1>1. ASSUME NEW e \in Env, Request(e) PROVE DeletesAlone'
  BY <1>1 DEF Request, Touch, Touched
<1>2. ASSUME NEW e \in Env, Connect(e) PROVE DeletesAlone'
  BY <1>2 DEF Connect, Touch, Touched
<1>3. ASSUME NEW e \in Env, Disconnect(e) PROVE DeletesAlone'
  BY <1>3 DEF Disconnect, Touch, Touched
<1>4. ASSUME NEW e \in Env, Hold(e) PROVE DeletesAlone'
  BY <1>4 DEF Hold, Touch, Touched
<1>5. ASSUME NEW e \in Env, Unhold(e) PROVE DeletesAlone'
  BY <1>5 DEF Unhold
<1>6. ASSUME NEW e \in Env, OpenSession(e) PROVE DeletesAlone'
  BY <1>6 DEF OpenSession, SessionGoes, SessionRest, Touch, Touched
<1>7. ASSUME NEW e \in Env, Submitted(e) PROVE DeletesAlone'
  BY <1>7 DEF Submitted, Submit, Touch, Touched
<1>8. ASSUME NEW e \in Env, OpBegin(e) PROVE DeletesAlone'
  <2>1. \A d \in Env \ {e} : op'[d] = op[d] /\ status'[d] = status[d]
    BY <1>8 DEF OpBegin, Set
  <2>2. session' = session
    BY <1>8 DEF OpBegin
  <2>3. CASE op' = [op EXCEPT ![e] = NoOp] /\ status' = status
    BY <2>1, <2>2, <2>3
  <2>4. CASE ~OpRefused(e)
    <3>1. op' = [op EXCEPT ![e].at = "working"]
      BY <1>8, <2>4 DEF OpBegin
    <3>2. op'[e].kind = op[e].kind /\ op'[e].ids = op[e].ids
      BY <3>1 DEF Op
    <3>3. op[e].kind = "delete" => status'[e] = "deleting" /\ session[e] = "none"
      BY <1>8, <2>4 DEF OpBegin, OpRefused, Sharing, Set
    <3>4. op[e].kind # "delete" /\ status[e] # "absent" => status'[e] # "absent"
      BY <1>8, <2>4 DEF OpBegin, Set
    <3> QED
      BY <2>1, <2>2, <3>2, <3>3, <3>4
  <2> QED
    BY <1>8, <2>3, <2>4 DEF OpBegin
<1>9. ASSUME NEW e \in Env, OpLeave(e) PROVE DeletesAlone'
  BY <1>9 DEF OpLeave, Touch, Touched
<1>10. ASSUME NEW e \in Env, OpEnd(e) PROVE DeletesAlone'
  <2>1. op' = [op EXCEPT ![e] = NoOp] /\ session' = session
    BY <1>10 DEF OpEnd
  <2>2. \A d \in Env \ {e} : status'[d] = status[d]
    BY <1>10 DEF OpEnd, Set
  <2>3. status[e] # "absent" /\ status'[e] = "absent" => Deleting(e)
    BY <1>10 DEF OpEnd, Set
  <2> QED
    BY <2>1, <2>2, <2>3
<1>11. ASSUME NEW e \in Env, EndSession(e) PROVE DeletesAlone'
  BY <1>11 DEF EndSession, SessionGoes, SessionRest
<1>12. ASSUME NEW e \in Env, SessionStep(e) PROVE DeletesAlone'
  BY <1>12 DEF SessionStep, SessionGoes, SessionRest
<1>13. ASSUME NEW e \in Env, CleanupFails(e) PROVE DeletesAlone'
  BY <1>13 DEF CleanupFails, SessionGoes, SessionRest, Set, Fails, MayFail
<1>14. ASSUME Tick PROVE DeletesAlone'
  BY <1>14 DEF Tick
<1>15. ASSUME SweepStart PROVE DeletesAlone'
  BY <1>15 DEF SweepStart, SweepGoes, SweepRest
<1>16. ASSUME NEW e \in Env, SweepVisit(e) PROVE DeletesAlone'
  BY <1>16 DEF SweepVisit, SweepGoes, SweepRest, Touch, Touched
<1>17. ASSUME SweepLock PROVE DeletesAlone'
  BY <1>17 DEF SweepLock, SweepGoes, SweepRest, Set
<1>18. ASSUME SweepTimeout PROVE DeletesAlone'
  BY <1>18 DEF SweepTimeout, SweepGoes, SweepRest, Failed
<1>19. ASSUME SweepStopped PROVE DeletesAlone'
  BY <1>19 DEF SweepStopped, SweepGoes, SweepRest, Failed, Set, Fails, MayFail
<1>20. ASSUME SweepEnd PROVE DeletesAlone'
  BY <1>20 DEF SweepEnd, SweepRest
<1>21. ASSUME StopRequest PROVE DeletesAlone'
  BY <1>21 DEF StopRequest, StopRest
<1>22. ASSUME StopSharing PROVE DeletesAlone'
  BY <1>22 DEF StopSharing, StopRest
<1>23. ASSUME StopOperations PROVE DeletesAlone'
  BY <1>23 DEF StopOperations, StopRest
<1>24. ASSUME StopEnvironments PROVE DeletesAlone'
  BY <1>24 DEF StopEnvironments, StopGoes, StopRest
<1>25. ASSUME NEW e \in Env, StopDown(e) PROVE DeletesAlone'
  BY <1>25 DEF StopDown, StopGoes, StopRest, Set
<1>26. ASSUME StopDowned PROVE DeletesAlone'
  BY <1>26 DEF StopDowned, StopGoes, StopRest, Set, Fails, MayFail
<1>27. ASSUME StopEnd PROVE DeletesAlone'
  BY <1>27 DEF StopEnd, StopRest
<1>28. ASSUME Close PROVE DeletesAlone'
  BY <1>28 DEF Close, CloseRest
<1>29. ASSUME CloseOperations PROVE DeletesAlone'
  BY <1>29 DEF CloseOperations, CloseRest
<1>30. ASSUME CloseSharing PROVE DeletesAlone'
  BY <1>30 DEF CloseSharing, CloseRest
<1>31. ASSUME CloseRelease PROVE DeletesAlone'
  BY <1>31 DEF CloseRelease, CloseRest
<1>32. CASE UNCHANGED vars
  BY <1>32 DEF vars
<1> QED
  BY <1>1, <1>2, <1>3, <1>4, <1>5, <1>6, <1>7, <1>8, <1>9, <1>10, <1>11, <1>12, <1>13, <1>14,
      <1>15, <1>16, <1>17, <1>18, <1>19, <1>20, <1>21, <1>22, <1>23, <1>24, <1>25, <1>26, <1>27,
      <1>28, <1>29, <1>30, <1>31, <1>32, AnySubmit
     DEF Next, Use, Sweeping, Stopping, Closing

(* Every step leaves the sweep in the know.                                *)
LEMMA SweepKnowsStep == TypeOK /\ DeletesAlone /\ SweepsAlone /\ SweepKnows /\ [Next]_vars => SweepKnows'
<1> SUFFICES ASSUME TypeOK, DeletesAlone, SweepsAlone, SweepKnows, [Next]_vars PROVE SweepKnows'
  OBVIOUS
<1>t. op \in [Env -> Op] /\ status \in [Env -> Status] /\ sweep \in Sweep
  BY Halves DEF Shape
<1>n. NoSweep.at = "none"
  BY DEF NoSweep
<1>d. \A e \in Env : Downing(e) # "absent" /\ Downed(e) # "absent"
  BY DEF Downing, Downed
<1>c. sweep.cur \in Env
  BY <1>t DEF Sweep
<1> USE <1>t, <1>n, <1>d, <1>c DEF SweepKnows, Before, useVars, endVars, idleVars
<1>1. ASSUME NEW e \in Env, Request(e) PROVE SweepKnows'
  BY <1>1 DEF Request, Touch, Touched
<1>2. ASSUME NEW e \in Env, Connect(e) PROVE SweepKnows'
  BY <1>2 DEF Connect, Touch, Touched
<1>3. ASSUME NEW e \in Env, Disconnect(e) PROVE SweepKnows'
  BY <1>3 DEF Disconnect, Touch, Touched
<1>4. ASSUME NEW e \in Env, Hold(e) PROVE SweepKnows'
  BY <1>4 DEF Hold, Touch, Touched
<1>5. ASSUME NEW e \in Env, Unhold(e) PROVE SweepKnows'
  BY <1>5 DEF Unhold
<1>6. ASSUME NEW e \in Env, OpenSession(e) PROVE SweepKnows'
  BY <1>6 DEF OpenSession, SessionGoes, SessionRest, Touch, Touched
<1>7. ASSUME NEW e \in Env, Submitted(e) PROVE SweepKnows'
  BY <1>7 DEF Submitted, Submit, Touch, Touched
<1>8. ASSUME NEW e \in Env, OpBegin(e) PROVE SweepKnows'
  <2>1. \A d \in Env : status[d] # "absent" => status'[d] # "absent"
    BY <1>8 DEF OpBegin, Set
  <2> QED
    BY <1>8, <2>1 DEF OpBegin
<1>9. ASSUME NEW e \in Env, OpLeave(e) PROVE SweepKnows'
  BY <1>9 DEF OpLeave, Touch, Touched
<1>10. ASSUME NEW e \in Env, OpEnd(e) PROVE SweepKnows'
  <2>1. \A d \in Env \ {e} : status'[d] = status[d]
    BY <1>10 DEF OpEnd, Set
  <2>2. sweep' = sweep
    BY <1>10 DEF OpEnd
  <2>3. CASE status[e] # "absent" /\ status'[e] = "absent"
    <3>1. Deleting(e)
      BY <1>10, <2>3 DEF OpEnd, Set, Deleting
    <3>2. Worked(e)
      BY <3>1 DEF DeletesAlone, Deleting, Worked
    <3>3. sweep.at # "none" => stale' = stale \cup {e}
      BY <1>10, <2>3 DEF OpEnd, Present
    <3> QED
      BY <2>1, <2>2, <3>2, <3>3 DEF SweepsAlone
  <2>4. CASE ~(status[e] # "absent" /\ status'[e] = "absent")
    <3>1. stale' = stale
      BY <1>10, <2>4 DEF OpEnd, Present
    <3> QED
      BY <2>1, <2>2, <2>4, <3>1
  <2> QED
    BY <2>3, <2>4
<1>11. ASSUME NEW e \in Env, EndSession(e) PROVE SweepKnows'
  BY <1>11 DEF EndSession, SessionGoes, SessionRest
<1>12. ASSUME NEW e \in Env, SessionStep(e) PROVE SweepKnows'
  BY <1>12 DEF SessionStep, SessionGoes, SessionRest
<1>13. ASSUME NEW e \in Env, CleanupFails(e) PROVE SweepKnows'
  BY <1>13 DEF CleanupFails, SessionGoes, SessionRest, Set, Fails, MayFail
<1>14. ASSUME Tick PROVE SweepKnows'
  BY <1>14 DEF Tick
<1>15. ASSUME SweepStart PROVE SweepKnows'
  <2>1. sweep'.at = "loop" /\ sweep'.todo = Present /\ status' = status
    BY <1>15 DEF SweepStart, SweepGoes
  <2> QED
    BY <2>1 DEF Present
<1>16. ASSUME NEW e \in Env, SweepVisit(e) PROVE SweepKnows'
  BY <1>16 DEF SweepVisit, SweepGoes, SweepRest, Touch, Touched
<1>17. ASSUME SweepLock PROVE SweepKnows'
  BY <1>17 DEF SweepLock, SweepGoes, SweepRest, Set
<1>18. ASSUME SweepTimeout PROVE SweepKnows'
  BY <1>18 DEF SweepTimeout, SweepGoes, SweepRest, Failed
<1>19. ASSUME SweepStopped PROVE SweepKnows'
  BY <1>19 DEF SweepStopped, SweepGoes, SweepRest, Failed, Set, Fails, MayFail
<1>20. ASSUME SweepEnd PROVE SweepKnows'
  BY <1>20 DEF SweepEnd, SweepRest
<1>21. ASSUME StopRequest PROVE SweepKnows'
  BY <1>21 DEF StopRequest, StopRest
<1>22. ASSUME StopSharing PROVE SweepKnows'
  BY <1>22 DEF StopSharing, StopRest
<1>23. ASSUME StopOperations PROVE SweepKnows'
  BY <1>23 DEF StopOperations, StopRest
<1>24. ASSUME StopEnvironments PROVE SweepKnows'
  BY <1>24 DEF StopEnvironments, StopGoes, StopRest
<1>25. ASSUME NEW e \in Env, StopDown(e) PROVE SweepKnows'
  BY <1>25 DEF StopDown, StopGoes, StopRest, Set
<1>26. ASSUME StopDowned PROVE SweepKnows'
  BY <1>26 DEF StopDowned, StopGoes, StopRest, Set, Fails, MayFail
<1>27. ASSUME StopEnd PROVE SweepKnows'
  BY <1>27 DEF StopEnd, StopRest
<1>28. ASSUME Close PROVE SweepKnows'
  BY <1>28 DEF Close, CloseRest
<1>29. ASSUME CloseOperations PROVE SweepKnows'
  BY <1>29 DEF CloseOperations, CloseRest
<1>30. ASSUME CloseSharing PROVE SweepKnows'
  BY <1>30 DEF CloseSharing, CloseRest
<1>31. ASSUME CloseRelease PROVE SweepKnows'
  BY <1>31 DEF CloseRelease, CloseRest
<1>32. CASE UNCHANGED vars
  BY <1>32 DEF vars
<1> QED
  BY <1>1, <1>2, <1>3, <1>4, <1>5, <1>6, <1>7, <1>8, <1>9, <1>10, <1>11, <1>12, <1>13, <1>14,
      <1>15, <1>16, <1>17, <1>18, <1>19, <1>20, <1>21, <1>22, <1>23, <1>24, <1>25, <1>26, <1>27,
      <1>28, <1>29, <1>30, <1>31, <1>32, AnySubmit
     DEF Next, Use, Sweeping, Stopping, Closing

(* A step is noted if each environment it leaves unused was touched, or    *)
(* was unused and there before.                                            *)
LEMMA NotedIf ==
  ASSUME TypeOK, Noted, Noticed({}), aborted' = aborted,
         \A d \in Env : \/ age'[d] = 0
                        \/ InUse(d)'
                        \/ status'[d] = "absent"
                        \/ age'[d] = age[d] /\ status[d] # "absent" /\ ~InUse(d)
  PROVE  Noted'
<1> SUFFICES ASSUME ~aborted, NEW d \in Env, status'[d] # "absent", ~InUse(d)'
             PROVE  age'[d] <= quiet'[d]
  BY DEF Noted
<1>1. quiet'[d] = IF InUse(d) THEN 0 ELSE quiet[d]
  BY DEF Noticed
<1>2. quiet[d] \in 0 .. Timeout /\ age[d] \in 0 .. Timeout /\ Timeout \in Nat
  BY Halves, IdleAssumption DEF Shape, Heard
<1>3. CASE age'[d] = 0
  BY <1>1, <1>2, <1>3
<1>4. CASE age'[d] = age[d] /\ status[d] # "absent" /\ ~InUse(d)
  BY <1>1, <1>4 DEF Noted
<1> QED
  BY <1>3, <1>4

(* Every step keeps the last activity as late as the last use.             *)
LEMMA NotedStep == TypeOK /\ Joined /\ DeletesAlone /\ SweepKnows /\ Noted /\ [Next]_vars => Noted'
<1> SUFFICES ASSUME TypeOK, Joined, DeletesAlone, SweepKnows, Noted, [Next]_vars PROVE Noted'
  OBVIOUS
<1>t. /\ op \in [Env -> Op] /\ status \in [Env -> Status] /\ sweep \in Sweep
      /\ age \in [Env -> 0 .. Timeout] /\ quiet \in [Env -> 0 .. Timeout]
  BY Halves DEF Shape, Heard
<1>i. Timeout \in Nat
  BY IdleAssumption
<1> USE <1>t, <1>i DEF Noted, InUse, Noticed, useVars, endVars, idleVars, flagVars
<1>1. ASSUME NEW e \in Env, Request(e), Noticed({e}) PROVE Noted'
  BY <1>1 DEF Request, Touch, Touched
<1>2. ASSUME NEW e \in Env, Connect(e), Noticed({e}) PROVE Noted'
  BY <1>2 DEF Connect, Touch, Touched
<1>3. ASSUME NEW e \in Env, Disconnect(e), Noticed({e}) PROVE Noted'
  BY <1>3 DEF Disconnect, Touch, Touched
<1>4. ASSUME NEW e \in Env, Hold(e), Noticed({e}) PROVE Noted'
  BY <1>4 DEF Hold, Touch, Touched
<1>5. ASSUME NEW e \in Env, Unhold(e), Noticed({}) PROVE Noted'
  BY <1>5 DEF Unhold
<1>6. ASSUME NEW e \in Env, OpenSession(e), Noticed({e}) PROVE Noted'
  BY <1>6 DEF OpenSession, SessionGoes, SessionRest, Touch, Touched
<1>7. ASSUME NEW e \in Env, Submitted(e), Noticed({}) PROVE Noted'
  BY <1>7 DEF Submitted, Submit, Touch, Touched
<1>8. ASSUME NEW e \in Env, OpBegin(e), Noticed({}) PROVE Noted'
  <2>1. aborted' = aborted /\ connections' = connections /\ age' = Touched(e)
    BY <1>8 DEF OpBegin, Touch
  <2>2. \A d \in Env \ {e} :
          op'[d] = op[d] /\ status'[d] = status[d] /\ age'[d] = age[d]
    BY <1>8, <2>1 DEF OpBegin, Touched, Set
  <2>3. status'[e] # "absent" /\ status[e] = "absent" => InUse(e)'
    <3>1. CASE status' = status
      BY <3>1
    <3>2. CASE op' = [op EXCEPT ![e].at = "working"]
      BY <3>2 DEF Op
    <3> QED
      BY <1>8, <3>1, <3>2, Zenon DEF OpBegin
  <2>4. aborted \/ status[e] = "absent" \/ age'[e] = 0
    BY <2>1 DEF Touched
  <2>5. \A d \in Env \ {e} : InUse(d)' <=> InUse(d)
    BY <2>1, <2>2
  <2>6. CASE aborted
    BY <2>1, <2>6
  <2>7. CASE ~aborted
    BY <1>8, <2>1, <2>2, <2>3, <2>4, <2>5, <2>7, NotedIf
  <2> QED
    BY <2>6, <2>7
<1>9. ASSUME NEW e \in Env, OpLeave(e), Noticed({}) PROVE Noted'
  BY <1>9 DEF OpLeave, Touch, Touched
<1>10. ASSUME NEW e \in Env, OpEnd(e), Noticed({}) PROVE Noted'
  <2>1. /\ aborted' = aborted /\ connections' = connections
        /\ aborted \/ age' = [age EXCEPT ![e] = 0]
    BY <1>10 DEF OpEnd
  <2>2. \A d \in Env \ {e} : op'[d] = op[d] /\ status'[d] = status[d]
    BY <1>10 DEF OpEnd, Set
  <2>3. \A d \in Env \ {e} : InUse(d)' <=> InUse(d)
    BY <2>1, <2>2
  <2>4. CASE aborted
    BY <2>1, <2>4
  <2>5. CASE ~aborted
    BY <1>10, <2>1, <2>2, <2>3, <2>5, NotedIf
  <2> QED
    BY <2>4, <2>5
<1>11. ASSUME NEW e \in Env, EndSession(e), Noticed({}) PROVE Noted'
  BY <1>11 DEF EndSession, SessionGoes, SessionRest
<1>12. ASSUME NEW e \in Env, SessionStep(e), Noticed({}) PROVE Noted'
  BY <1>12 DEF SessionStep, SessionGoes, SessionRest
<1>13. ASSUME NEW e \in Env, CleanupFails(e), Noticed({}) PROVE Noted'
  <2>1. UNCHANGED <<age, op, connections, aborted>> /\ session[e] # "none"
    BY <1>13 DEF CleanupFails, SessionRest
  <2>2. \A d \in Env \ {e} : status'[d] = status[d]
    BY <1>13 DEF CleanupFails, Set
  <2>3. status[e] # "absent"
    BY <2>1 DEF DeletesAlone
  <2>4. \A d \in Env : InUse(d)' <=> InUse(d)
    BY <2>1
  <2> QED
    BY <1>13, <2>1, <2>2, <2>3, <2>4, NotedIf
<1>14. ASSUME Tick, Passed PROVE Noted'
  <2>1. UNCHANGED <<status, op, connections, aborted>>
    BY <1>14 DEF Tick
  <2>2. \A e \in Env : age'[e] = IF age[e] < Timeout THEN age[e] + 1 ELSE Timeout
    BY <1>14 DEF Tick
  <2>3. \A e \in Env : ~InUse(e) =>
          quiet'[e] = IF quiet[e] < Timeout THEN quiet[e] + 1 ELSE Timeout
    BY <1>14 DEF Passed
  <2> QED
    BY <2>1, <2>2, <2>3
<1>15. ASSUME SweepStart, Noticed({}) PROVE Noted'
  BY <1>15 DEF SweepStart, SweepGoes, SweepRest
<1>16. ASSUME NEW e \in Env, SweepVisit(e), Noticed({}) PROVE Noted'
  BY <1>16 DEF SweepVisit, SweepGoes, SweepRest, Touch, Touched
<1>17. ASSUME SweepLock, Noticed({}) PROVE Noted'
  <2>1. UNCHANGED <<age, op, connections, aborted>> /\ sweep.at = "locking" /\ sweep.cur \in Env
    BY <1>17 DEF SweepLock, SweepRest, Sweep
  <2>2. CASE status' = status
    BY <1>17, <2>1, <2>2
  <2>3. CASE StillIdle(sweep.cur) /\ Set(sweep.cur, Downing(sweep.cur))
    <3>1. status[sweep.cur] # "absent"
      BY <2>1, <2>3 DEF StillIdle, SweepKnows, Before
    <3>2. \A d \in Env \ {sweep.cur} : status'[d] = status[d]
      BY <2>3 DEF Set
    <3>3. \A d \in Env : InUse(d)' <=> InUse(d)
      BY <2>1
    <3> QED
      BY <1>17, <2>1, <3>1, <3>2, <3>3, NotedIf
  <2> QED
    BY <1>17, <2>2, <2>3 DEF SweepLock
<1>18. ASSUME SweepTimeout, Noticed({}) PROVE Noted'
  BY <1>18 DEF SweepTimeout, SweepGoes, SweepRest, Failed
<1>19. ASSUME SweepStopped, Noticed({}) PROVE Noted'
  <2>1. UNCHANGED <<age, op, connections, aborted>> /\ status[sweep.cur] # "absent"
    BY <1>19 DEF SweepStopped, SweepRest, SweepKnows
  <2>2. \A d \in Env : d # sweep.cur => status'[d] = status[d]
    BY <1>19 DEF SweepStopped, Set
  <2>3. \A d \in Env : InUse(d)' <=> InUse(d)
    BY <2>1
  <2> QED
    BY <1>19, <2>1, <2>2, <2>3, NotedIf
<1>20. ASSUME SweepEnd, Noticed({}) PROVE Noted'
  BY <1>20 DEF SweepEnd, SweepRest
<1>21. ASSUME StopRequest, Noticed({}) PROVE Noted'
  BY <1>21 DEF StopRequest, StopRest
<1>22. ASSUME StopSharing, Noticed({}) PROVE Noted'
  BY <1>22 DEF StopSharing, StopRest
<1>23. ASSUME StopOperations, Noticed({}) PROVE Noted'
  BY <1>23 DEF StopOperations, StopRest
<1>24. ASSUME StopEnvironments, Noticed({}) PROVE Noted'
  BY <1>24 DEF StopEnvironments, StopGoes, StopRest
<1>25. ASSUME NEW e \in Env, StopDown(e), Noticed({}) PROVE Noted'
  BY <1>25 DEF StopDown, StopRest, Joined
<1>26. ASSUME StopDowned, Noticed({}) PROVE Noted'
  BY <1>26 DEF StopDowned, StopRest, Joined
<1>27. ASSUME StopEnd, Noticed({}) PROVE Noted'
  BY <1>27 DEF StopEnd, StopRest
<1>28. ASSUME Close, Noticed({}) PROVE Noted'
  BY <1>28 DEF Close, CloseRest
<1>29. ASSUME CloseOperations, Noticed({}) PROVE Noted'
  BY <1>29 DEF CloseOperations, CloseRest
<1>30. ASSUME CloseSharing, Noticed({}) PROVE Noted'
  BY <1>30 DEF CloseSharing, CloseRest
<1>31. ASSUME CloseRelease, Noticed({}) PROVE Noted'
  BY <1>31 DEF CloseRelease, CloseRest
<1>32. CASE UNCHANGED vars
  BY <1>32 DEF vars
<1> QED
  BY <1>1, <1>2, <1>3, <1>4, <1>5, <1>6, <1>7, <1>8, <1>9, <1>10, <1>11, <1>12, <1>13, <1>14,
      <1>15, <1>16, <1>17, <1>18, <1>19, <1>20, <1>21, <1>22, <1>23, <1>24, <1>25, <1>26, <1>27,
      <1>28, <1>29, <1>30, <1>31, <1>32, AnySubmit
     DEF Next, Use, Sweeping, Stopping, Closing

(* Nothing but the second look of the sweep begins an idle stop.            *)
LEMMA OnlySweepLock ==
  TypeOK /\ [Next]_vars /\ sweep.at # "stopping" /\ sweep'.at = "stopping" => SweepLock
<1> SUFFICES ASSUME TypeOK, [Next]_vars, sweep.at # "stopping", sweep'.at = "stopping", ~SweepLock
             PROVE  FALSE
  OBVIOUS
<1>n. NoSweep.at = "none"
  BY DEF NoSweep
<1> USE <1>n DEF useVars, endVars, idleVars
<1>1. ASSUME NEW e \in Env, Request(e) PROVE FALSE
  BY <1>1 DEF Request, Touch, Touched
<1>2. ASSUME NEW e \in Env, Connect(e) PROVE FALSE
  BY <1>2 DEF Connect, Touch, Touched
<1>3. ASSUME NEW e \in Env, Disconnect(e) PROVE FALSE
  BY <1>3 DEF Disconnect, Touch, Touched
<1>4. ASSUME NEW e \in Env, Hold(e) PROVE FALSE
  BY <1>4 DEF Hold, Touch, Touched
<1>5. ASSUME NEW e \in Env, Unhold(e) PROVE FALSE
  BY <1>5 DEF Unhold
<1>6. ASSUME NEW e \in Env, OpenSession(e) PROVE FALSE
  BY <1>6 DEF OpenSession, SessionGoes, SessionRest, Touch, Touched
<1>7. ASSUME NEW e \in Env, Submitted(e) PROVE FALSE
  BY <1>7 DEF Submitted, Submit, Touch, Touched
<1>8. ASSUME NEW e \in Env, OpBegin(e) PROVE FALSE
  BY <1>8 DEF OpBegin, Touch, Touched, Set
<1>9. ASSUME NEW e \in Env, OpLeave(e) PROVE FALSE
  BY <1>9 DEF OpLeave, Touch, Touched
<1>10. ASSUME NEW e \in Env, OpEnd(e) PROVE FALSE
  BY <1>10 DEF OpEnd, Set, Fails
<1>11. ASSUME NEW e \in Env, EndSession(e) PROVE FALSE
  BY <1>11 DEF EndSession, SessionGoes, SessionRest
<1>12. ASSUME NEW e \in Env, SessionStep(e) PROVE FALSE
  BY <1>12 DEF SessionStep, SessionGoes, SessionRest
<1>13. ASSUME NEW e \in Env, CleanupFails(e) PROVE FALSE
  BY <1>13 DEF CleanupFails, SessionGoes, SessionRest, Set, Fails, MayFail
<1>14. CASE Tick
  BY <1>14 DEF Tick
<1>15. CASE SweepStart
  BY <1>15 DEF SweepStart, SweepGoes, SweepRest
<1>16. ASSUME NEW e \in Env, SweepVisit(e) PROVE FALSE
  BY <1>16 DEF SweepVisit, SweepGoes, SweepRest, Touch, Touched
<1>17. CASE SweepLock
  BY <1>17
<1>18. CASE SweepTimeout
  BY <1>18 DEF SweepTimeout, SweepGoes, SweepRest, Failed
<1>19. CASE SweepStopped
  BY <1>19 DEF SweepStopped, SweepGoes, SweepRest, Failed, Set, Fails, MayFail
<1>20. CASE SweepEnd
  BY <1>20 DEF SweepEnd, SweepRest
<1>21. CASE StopRequest
  BY <1>21 DEF StopRequest, StopRest
<1>22. CASE StopSharing
  BY <1>22 DEF StopSharing, StopRest
<1>23. CASE StopOperations
  BY <1>23 DEF StopOperations, StopRest
<1>24. CASE StopEnvironments
  BY <1>24 DEF StopEnvironments, StopGoes, StopRest
<1>25. ASSUME NEW e \in Env, StopDown(e) PROVE FALSE
  BY <1>25 DEF StopDown, StopGoes, StopRest, Set
<1>26. CASE StopDowned
  BY <1>26 DEF StopDowned, StopGoes, StopRest, Set, Fails, MayFail
<1>27. CASE StopEnd
  BY <1>27 DEF StopEnd, StopRest
<1>28. CASE Close
  BY <1>28 DEF Close, CloseRest
<1>29. CASE CloseOperations
  BY <1>29 DEF CloseOperations, CloseRest
<1>30. CASE CloseSharing
  BY <1>30 DEF CloseSharing, CloseRest
<1>31. CASE CloseRelease
  BY <1>31 DEF CloseRelease, CloseRest
<1>32. CASE UNCHANGED vars
  BY <1>32 DEF vars
<1> QED
  BY <1>1, <1>2, <1>3, <1>4, <1>5, <1>6, <1>7, <1>8, <1>9, <1>10, <1>11, <1>12, <1>13, <1>14,
      <1>15, <1>16, <1>17, <1>18, <1>19, <1>20, <1>21, <1>22, <1>23, <1>24, <1>25, <1>26, <1>27,
      <1>28, <1>29, <1>30, <1>31, <1>32, AnySubmit
     DEF Next, Use, Sweeping, Stopping, Closing

------------------------------------------------------------------------------
(* The hub's start: nothing closed, nothing stopped, nothing deleted.       *)
LEMMA InitIInv == Init => IInv
<1> SUFFICES ASSUME Init PROVE IInv
  OBVIOUS
<1> USE IdleAssumption DEF Init, NoOp, NoSweep, NoStop
<1>1. Flags
  BY Zenon DEF Flags
<1>2. Shape
  <2>1. sweep \in Sweep /\ stop \in StopState /\ op \in [Env -> Op]
    BY DEF Sweep, StopState, Op
  <2>2. status \in [Env -> Status] /\ age \in [Env -> 0 .. Timeout]
    BY DEF Status
  <2>3. session \in [Env -> Sessions] /\ fails \in 0 .. MaxFails /\ deletes \in 0 .. MaxDeletes
    BY DEF Sessions
  <2> QED
    BY <2>1, <2>2, <2>3 DEF Shape
<1>3. Joined /\ SweepsAlone /\ OneDeletion
  BY DEF Joined, Stops, SweepsAlone, OneDeletion
<1>4. Heard /\ Noted
  BY SMT DEF Heard, Noted, InUse
<1>5. DeletesAlone /\ SweepKnows
  BY DEF DeletesAlone, Deleting, SweepKnows, Before
<1> QED
  BY <1>1, <1>2, <1>3, <1>4, <1>5, Halves DEF IInv

(* Every step keeps the invariant.                                          *)
LEMMA NextIInv == IInv /\ [Next]_vars => IInv'
<1>1. IInv /\ [Next]_vars => Flags' /\ Shape' /\ Heard'
  BY Halves, FlagsStep, ShapeStep, HeardStep DEF IInv
<1>2. IInv /\ [Next]_vars => TypeOK'
  BY <1>1 DEF TypeOK, Flags, Shape, Heard, Sweep, StopState, Sessions
<1>3. IInv /\ [Next]_vars => DeletesAlone' /\ SweepKnows' /\ Noted'
  BY DeletesAloneStep, SweepKnowsStep, NotedStep DEF IInv
<1> QED
  BY <1>2, <1>3, JoinedStep, SweepsAloneStep, OneDeletionStep DEF IInv

(* The inductive invariant: what is closed is joined in its order, and the  *)
(* sweep is alone with what it stops.                                       *)
THEOREM Inductive == Spec => []IInv
  BY InitIInv, NextIInv, PTL DEF Spec

(* The state of the hub keeps its shape, the bounds included.               *)
THEOREM TypeCorrect == Spec => []TypeOK
<1>1. IInv => TypeOK
  BY DEF IInv
<1> QED
  BY <1>1, Inductive, PTL

(* Whoever stops an environment is alone with it (idle.ts and the stop      *)
(* request of server.ts), however many environments there are: the sweep    *)
(* has the lock; the stop request has none and needs none.                  *)
THEOREM Alone == Spec => []StopsAlone
<1>1. IInv => StopsAlone
  <2> SUFFICES ASSUME IInv, NEW e \in Env
               PROVE  /\ sweep.at = "stopping" /\ sweep.cur = e =>
                           ~Worked(e) /\ ~Tunnelled(e) /\ ~(stop.at = "stopping" /\ stop.cur = e)
                      /\ stop.at = "stopping" /\ stop.cur = e => ~Worked(e) /\ ~Tunnelled(e)
    BY Zenon DEF StopsAlone, Worked, Tunnelled
  <2>1. stop.at = "stopping" => sweep.at = "none" /\ NobodyShares /\ Drained
    BY DEF IInv, Joined, Stops
  <2>2. NobodyShares => ~Tunnelled(e)
    BY DEF NobodyShares, Sharing, Tunnelled
  <2>3. Drained => ~Worked(e)
    BY DEF Drained, Worked, NoOp
  <2>4. sweep.at = "stopping" /\ sweep.cur = e => ~Worked(e) /\ ~Tunnelled(e)
    BY DEF IInv, SweepsAlone
  <2> QED
    BY <2>1, <2>2, <2>3, <2>4
<1> QED
  BY <1>1, Inductive, PTL

(* "joins in-flight shutdown before releasing its state lock" (idle.ts:7):  *)
(* a hub that released it sweeps, shares and works on nothing.              *)
THEOREM Quiet == Spec => []ReleasedQuiet
<1>1. IInv => ReleasedQuiet
  BY DEF IInv, Joined, ReleasedQuiet, NobodyShares
<1> QED
  BY <1>1, Inductive, PTL

(* An idle stop begins only after a whole window without a use (the second  *)
(* look of run in idle.ts and the touches of begin, its release and every   *)
(* transition of an operation), whatever happened between two sweeps or     *)
(* while one waits for its lock.                                            *)
THEOREM OnlyIdle == Spec => StopsOnlyIdle
<1> DEFINE Alright ==
      \A e \in Env :
        ~aborted /\ sweep'.at = "stopping" /\ sweep.at # "stopping" /\ sweep.cur = e
          => quiet[e] = Timeout
<1>1. IInv /\ [Next]_vars => Alright
  <2> SUFFICES ASSUME IInv, [Next]_vars, ~aborted,
                      sweep'.at = "stopping", sweep.at # "stopping"
               PROVE  quiet[sweep.cur] = Timeout
    OBVIOUS
  <2>1. SweepLock
    BY OnlySweepLock DEF IInv
  <2>2. StillIdle(sweep.cur) /\ sweep.at = "locking"
    BY <2>1 DEF SweepLock, SweepGoes
  <2>3. /\ sweep.cur \in Env /\ Timeout \in Nat
        /\ age \in [Env -> 0 .. Timeout] /\ quiet \in [Env -> 0 .. Timeout]
    BY Halves, IdleAssumption DEF IInv, Shape, Heard, Sweep
  <2>4. age[sweep.cur] >= Timeout /\ ~InUse(sweep.cur) /\ sweep.cur \notin stale
    BY <2>2, <2>3 DEF StillIdle, Expired, Protected, Busy, InUse
  <2>5. status[sweep.cur] # "absent"
    BY <2>2, <2>3, <2>4 DEF IInv, SweepKnows, Before
  <2>6. age[sweep.cur] <= quiet[sweep.cur]
    BY <2>3, <2>4, <2>5 DEF IInv, Noted
  <2> QED
    BY <2>3, <2>4, <2>6
<1>2. IInv /\ [Next]_vars => [Alright]_vars
  BY <1>1
<1> QED
  BY <1>2, Inductive, PTL DEF Spec, StopsOnlyIdle
------------------------------------------------------------------------------
(***************************************************************************)
(* SocketServes and NothingLeft of HubLife, for any number of hubs,        *)
(* launches, tasks and crashes.                                            *)
(*                                                                         *)
(* Both rest on the home's lock: whoever starts, serves or has not yet     *)
(* given it up while closing is the one hub that has it, so that only that *)
(* hub touches the socket and the journal.                                 *)
(***************************************************************************)

Holds(h) == pc[h] \in Starting \cup {"ready"} \/ (pc[h] = "closing" /\ cleaned[h] < 3)

(* A hub that is past the lock, and has not let it go, has it.             *)
OwnersLocked == \A h \in Hub : Holds(h) => lock = h

(* Cleaning up begins with close.                                          *)
Uncleaned == \A h \in Hub : pc[h] \notin {"closing", "gone"} => cleaned[h] = 0

(* From listening on, hub.sock leads to the hub.                           *)
Leads == \A h \in Hub : pc[h] \in {"public", "ready"} => path = h

(* What runs under the program it was spawned with is in the journal,       *)
(* unless its hub died as it spawned it.                                   *)
Recorded(t) == who[t] = "task" /\ task[t] # "lost"
Journaled == \A t \in Task : Recorded(t) => t \in journal

(* Nothing that runs has been passed over by the hub that reaps.           *)
StillToReap == \A h \in Hub : pc[h] = "reap" => \A t \in Task : Recorded(t) => t \in todo

HubIInv == HubTypeOK /\ OwnersLocked /\ Uncleaned /\ Leads /\ Journaled /\ StillToReap /\ NothingLeft
------------------------------------------------------------------------------
(* The sequence of cleanups, position by position (server.ts).             *)
LEMMA CleanupOrder ==
  Len(Cleanups) = 3 /\ Cleanups[1] = "tasks" /\ Cleanups[2] = "socket" /\ Cleanups[3] = "lock"
BY DEF Cleanups

(* Before any hub is launched the invariant holds.                         *)
LEMMA HubInitIInv == HubInit => HubIInv
BY HubLifeAssumption, CleanupOrder
   DEF HubInit, HubIInv, HubTypeOK, OwnersLocked, Holds, Uncleaned, Leads, Journaled, Recorded,
       StillToReap,
       NothingLeft, Starting, Working, Under, Leader, Whos

(* Every step keeps the state well formed.                                 *)
LEMMA TypeStep == HubTypeOK /\ [HubNext]_hubVars => HubTypeOK'
<1> SUFFICES ASSUME HubTypeOK, [HubNext]_hubVars PROVE HubTypeOK'
  OBVIOUS
<1> USE HubLifeAssumption, CleanupOrder
    DEF HubTypeOK, hubs, launches, tasks, To, Starting, Under, Leader, Whos, Termed, Working, Alive, Own
<1>1. ASSUME NEW h \in Hub, Boot(h) \/ Reaped(h) \/ Recovered(h) \/ Listen(h) \/ Open(h) \/ Ended(h)
      PROVE  HubTypeOK'
  BY <1>1 DEF Boot, Reaped, Recovered, Listen, Open, Ended
<1>2. ASSUME NEW h \in Hub, Clean(h)
      PROVE  HubTypeOK'
  BY <1>2 DEF Clean
<1>3. ASSUME NEW h \in Hub, NEW t \in Task, ReapFirst(h, t) \/ ReapAgain(h, t)
      PROVE  HubTypeOK'
  BY <1>3 DEF ReapFirst, ReapAgain
<1>4. ASSUME NEW h \in Hub, StartFails(h) \/ Stop(h)
      PROVE  HubTypeOK'
  BY <1>4 DEF StartFails, Stop
<1>5. ASSUME NEW h \in Hub, Crash(h)
      PROVE  HubTypeOK'
  BY <1>5 DEF Crash, Die
<1>6. ASSUME NEW h \in Hub, NEW t \in Task, Spawn(h, t)
      PROVE  HubTypeOK'
  BY <1>6 DEF Spawn
<1>7. ASSUME NEW t \in Task, Abort(t) \/ ForceKill(t) \/ Replaces(t) \/ Exits(t) \/ Finish(t) \/ Reuse(t)
      PROVE  HubTypeOK'
  BY <1>7 DEF Abort, ForceKill, Replaces, Exits, Finish, Reuse
<1>8. ASSUME NEW c \in Client, Launch(c) \/ Poll(c) \/ GiveUp(c)
      PROVE  HubTypeOK'
  BY <1>8 DEF Launch, Poll, GiveUp, Kill, Die
<1>9. CASE UNCHANGED hubVars
  BY <1>9 DEF hubVars
<1> HIDE DEF HubTypeOK
<1> QED BY <1>1, <1>2, <1>3, <1>4, <1>5, <1>6, <1>7, <1>8, <1>9 DEF HubNext, HubStep
------------------------------------------------------------------------------
(* Only one hub is past the lock and has not let it go.                    *)
LEMMA OneHolder ==
  ASSUME OwnersLocked, NEW g \in Hub, NEW h \in Hub, Holds(g), Holds(h)
  PROVE  g = h
BY DEF OwnersLocked

(* The lock: Boot takes it only when it is free, and a hub loses it by     *)
(* dying or by the last of its cleanups.                                   *)
LEMMA LockedStep == HubTypeOK /\ OwnersLocked /\ Uncleaned /\ [HubNext]_hubVars => OwnersLocked' /\ Uncleaned'
<1> SUFFICES ASSUME HubTypeOK, OwnersLocked, Uncleaned, [HubNext]_hubVars PROVE OwnersLocked' /\ Uncleaned'
  OBVIOUS
<1> USE DEF HubTypeOK, OwnersLocked, Uncleaned, Holds, Starting, hubs, To
<1>1. ASSUME NEW h \in Hub, Boot(h)
      PROVE  OwnersLocked' /\ Uncleaned'
  BY <1>1, HubLifeAssumption DEF Boot
<1>2. ASSUME NEW h \in Hub, Reaped(h) \/ Recovered(h) \/ Listen(h) \/ Open(h)
      PROVE  OwnersLocked' /\ Uncleaned'
  BY <1>2 DEF Reaped, Recovered, Listen, Open
<1>3. ASSUME NEW h \in Hub, StartFails(h) \/ Stop(h)
      PROVE  OwnersLocked' /\ Uncleaned'
  BY <1>3 DEF StartFails, Stop
<1>4. ASSUME NEW h \in Hub, Clean(h)
      PROVE  OwnersLocked' /\ Uncleaned'
  <2>1. cleaned' = [cleaned EXCEPT ![h] = @ + 1] /\ cleaned[h] \in {0, 1, 2} /\ pc[h] = "closing"
    BY <1>4, CleanupOrder DEF Clean
  <2>2. lock' = IF cleaned[h] = 2 THEN 0 ELSE lock
    BY <1>4, <2>1, CleanupOrder DEF Clean
  <2>3. \A g \in Hub \ {h} : Holds(g) => FALSE
    BY <2>1, OneHolder
  <2> QED BY <1>4, <2>1, <2>2, <2>3 DEF Clean
<1>5. ASSUME NEW h \in Hub, Ended(h)
      PROVE  OwnersLocked' /\ Uncleaned'
  BY <1>5, CleanupOrder DEF Ended
<1>6. ASSUME NEW h \in Hub, Crash(h)
      PROVE  OwnersLocked' /\ Uncleaned'
  BY <1>6, HubLifeAssumption DEF Crash, Die
<1>7. ASSUME NEW c \in Client, Launch(c) \/ GiveUp(c)
      PROVE  OwnersLocked' /\ Uncleaned'
  BY <1>7, HubLifeAssumption DEF Launch, GiveUp, Kill, Die
<1>8. CASE UNCHANGED <<pc, cleaned, lock>>
  BY <1>8
<1> HIDE DEF OwnersLocked, Uncleaned, HubTypeOK, hubs
<1> QED
  BY <1>1, <1>2, <1>3, <1>4, <1>5, <1>6, <1>7, <1>8
     DEF HubNext, HubStep, hubVars, hubs, ReapFirst, ReapAgain, Spawn, Abort, ForceKill, Replaces,
         Exits, Finish,
         Reuse, Poll

(* The socket: only the hub with the lock makes it or takes it away, and   *)
(* it takes it away after it has stopped serving.                          *)
LEMMA LeadsStep == HubTypeOK /\ OwnersLocked /\ Uncleaned /\ Leads /\ [HubNext]_hubVars => Leads'
<1> SUFFICES ASSUME HubTypeOK, OwnersLocked, Uncleaned, Leads, [HubNext]_hubVars PROVE Leads'
  OBVIOUS
<1> USE DEF HubTypeOK, Leads, hubs, To
<1>1. ASSUME NEW h \in Hub, Listen(h)
      PROVE  Leads'
  <2>1. \A g \in Hub \ {h} : pc[g] \notin {"public", "ready"}
    BY <1>1, OneHolder DEF Listen, Holds, Starting
  <2> QED BY <1>1, <2>1 DEF Listen
<1>2. ASSUME NEW h \in Hub, Clean(h)
      PROVE  Leads'
  <2>1. cleaned[h] < 3 /\ pc[h] = "closing" /\ pc' = pc
    BY <1>2, CleanupOrder DEF Clean
  <2>2. \A g \in Hub : pc[g] \notin {"public", "ready"}
    BY <2>1, OneHolder DEF Holds, Starting
  <2> QED BY <2>1, <2>2
<1>3. ASSUME NEW h \in Hub, Open(h)
      PROVE  Leads'
  BY <1>3 DEF Open
<1>4. ASSUME NEW h \in Hub,
             \/ Boot(h) \/ Reaped(h) \/ Recovered(h) \/ Ended(h) \/ StartFails(h) \/ Stop(h)
             \/ Crash(h)
      PROVE  Leads'
  BY <1>4 DEF Boot, Reaped, Recovered, Ended, StartFails, Stop, Crash, Die
<1>5. ASSUME NEW c \in Client, Launch(c) \/ GiveUp(c)
      PROVE  Leads'
  BY <1>5 DEF Launch, GiveUp, Kill, Die
<1>6. CASE UNCHANGED <<pc, path>>
  BY <1>6
<1> HIDE DEF Leads, HubTypeOK, hubs
<1> QED
  BY <1>1, <1>2, <1>3, <1>4, <1>5, <1>6
     DEF HubNext, HubStep, hubVars, hubs, ReapFirst, ReapAgain, Spawn, Abort, ForceKill, Replaces,
         Exits, Finish,
         Reuse, Poll

(* The journal: a process is recorded as it is spawned, and its file goes  *)
(* only once it has ended, by its own hub or by one that reaps.            *)
LEMMA JournaledStep == HubTypeOK /\ Journaled /\ [HubNext]_hubVars => Journaled'
<1> SUFFICES ASSUME HubTypeOK, Journaled, [HubNext]_hubVars PROVE Journaled'
  OBVIOUS
<1> USE DEF HubTypeOK, Journaled, Recorded, hubs, launches, tasks
<1>1. ASSUME NEW h \in Hub, NEW t \in Task, ReapFirst(h, t) \/ ReapAgain(h, t)
      PROVE  Journaled'
  BY <1>1 DEF ReapFirst, ReapAgain
<1>2. ASSUME NEW h \in Hub, NEW t \in Task, Spawn(h, t)
      PROVE  Journaled'
  BY <1>2 DEF Spawn
<1>3. ASSUME NEW h \in Hub, Crash(h)
      PROVE  Journaled'
  BY <1>3 DEF Crash
<1>4. ASSUME NEW t \in Task, ForceKill(t) \/ Replaces(t) \/ Exits(t) \/ Reuse(t)
      PROVE  Journaled'
  BY <1>4 DEF ForceKill, Replaces, Exits, Reuse
<1>9. ASSUME NEW t \in Task, Finish(t)
      PROVE  Journaled'
  <2>1. who[t] # "task" /\ who'[t] # "task" /\ \A u \in Task \ {t} : who'[u] = who[u] /\ task'[u] = task[u]
    BY <1>9 DEF Finish, Leader
  <2> QED BY <1>9, <2>1 DEF Finish
<1>5. ASSUME NEW S \in SUBSET Task, task' = Termed(S), UNCHANGED <<who, journal>>
      PROVE  Journaled'
  BY <1>5 DEF Termed
<1>6. CASE UNCHANGED <<task, who, journal>>
  BY <1>6
<1>7. \A h \in Hub : Own(h) \in SUBSET Task
  BY DEF Own
<1>8. \A t \in Task : {t} \in SUBSET Task
  OBVIOUS
<1> HIDE DEF Journaled, HubTypeOK
<1> QED
  BY <1>1, <1>2, <1>3, <1>4, <1>5, <1>6, <1>7, <1>8, <1>9
     DEF HubNext, HubStep, hubVars, Boot, Reaped, Recovered, Listen, Open, Clean, Ended,
         StartFails, Stop,
         Abort, Launch, Poll, GiveUp, Kill, Own

(* Reaping: Boot is to reap the whole journal, nothing is passed over, and *)
(* nobody spawns meanwhile.                                                *)
LEMMA StillToReapStep ==
  HubTypeOK /\ OwnersLocked /\ Journaled /\ StillToReap /\ [HubNext]_hubVars => StillToReap'
<1> SUFFICES ASSUME HubTypeOK, OwnersLocked, Journaled, StillToReap, [HubNext]_hubVars,
                    NEW r \in Hub, pc'[r] = "reap", NEW u \in Task, Recorded(u)'
             PROVE  u \in todo'
  BY DEF StillToReap
<1> USE DEF HubTypeOK, Recorded, hubs, launches, tasks, To
<1>1. ASSUME NEW h \in Hub, Boot(h)
      PROVE  u \in todo'
  <2>1. CASE h = r
    BY <1>1, <2>1 DEF Boot, Journaled
  <2>2. CASE h # r
    <3>1. pc[r] = "reap" /\ lock = r
      BY <1>1, <2>2 DEF Boot, OwnersLocked, Holds, Starting
    <3> QED BY <1>1, <2>2, <3>1, HubLifeAssumption DEF Boot, StillToReap
  <2> QED BY <2>1, <2>2
<1>2. ASSUME NEW h \in Hub, NEW t \in Task, ReapFirst(h, t) \/ ReapAgain(h, t)
      PROVE  u \in todo'
  BY <1>2 DEF ReapFirst, ReapAgain, StillToReap
<1>3. ASSUME NEW h \in Hub, NEW t \in Task, Spawn(h, t)
      PROVE  u \in todo'
  <2>1. pc[r] = "reap" /\ h # r
    BY <1>3 DEF Spawn, Working
  <2> QED BY <1>3, <2>1, OneHolder DEF Spawn, Holds, Starting, Working
<1>4. ASSUME NEW h \in Hub, Crash(h)
      PROVE  u \in todo'
  BY <1>4 DEF Crash, Die, StillToReap
<1>5. ASSUME NEW h \in Hub, Reaped(h) \/ Recovered(h) \/ Listen(h) \/ Open(h) \/ Ended(h)
      PROVE  u \in todo'
  BY <1>5 DEF Reaped, Recovered, Listen, Open, Ended, StillToReap
<1>6. ASSUME NEW h \in Hub, StartFails(h) \/ Stop(h)
      PROVE  u \in todo'
  BY <1>6 DEF StartFails, Stop, Termed, StillToReap
<1>7. ASSUME NEW t \in Task, Abort(t) \/ ForceKill(t) \/ Replaces(t) \/ Exits(t) \/ Finish(t) \/ Reuse(t)
      PROVE  u \in todo'
  BY <1>7 DEF Abort, ForceKill, Replaces, Exits, Finish, Reuse, Termed, Under, StillToReap
<1>8. ASSUME NEW c \in Client, Launch(c) \/ GiveUp(c)
      PROVE  u \in todo'
  BY <1>8 DEF Launch, GiveUp, Kill, Die, Termed, StillToReap
<1>9. CASE UNCHANGED <<pc, task, who, todo>>
  BY <1>9 DEF StillToReap
<1> HIDE DEF HubTypeOK, Recorded
<1> QED
  BY <1>1, <1>2, <1>3, <1>4, <1>5, <1>6, <1>7, <1>8, <1>9 DEF HubNext, HubStep, hubVars, Clean, Poll

(* Nothing is left when reaping ends, and from then on only the hub that   *)
(* reaped spawns.                                                          *)
LEMMA NothingLeftStep ==
  HubTypeOK /\ OwnersLocked /\ StillToReap /\ NothingLeft /\ [HubNext]_hubVars => NothingLeft'
<1> SUFFICES ASSUME HubTypeOK, OwnersLocked, StillToReap, NothingLeft, [HubNext]_hubVars,
                    NEW w \in Hub, pc'[w] \in Working, NEW u \in Task, Recorded(u)'
             PROVE  owner'[u] = w
  BY DEF NothingLeft, Recorded
<1> USE DEF HubTypeOK, Recorded, Working, hubs, launches, tasks, To
<1>1. ASSUME NEW h \in Hub, Reaped(h)
      PROVE  owner'[u] = w
  BY <1>1 DEF Reaped, StillToReap, NothingLeft
<1>2. ASSUME NEW h \in Hub, NEW t \in Task, Spawn(h, t)
      PROVE  owner'[u] = w
  <2>1. h = w
    BY <1>2, OneHolder DEF Spawn, Holds, Starting
  <2> QED BY <1>2, <2>1 DEF Spawn, NothingLeft
<1>3. ASSUME NEW h \in Hub, Crash(h)
      PROVE  owner'[u] = w
  BY <1>3 DEF Crash, Die, NothingLeft
<1>4. ASSUME NEW h \in Hub, Boot(h) \/ Recovered(h) \/ Listen(h) \/ Open(h) \/ Clean(h) \/ Ended(h)
      PROVE  owner'[u] = w
  BY <1>4 DEF Boot, Recovered, Listen, Open, Clean, Ended, NothingLeft
<1>5. ASSUME NEW h \in Hub, StartFails(h) \/ Stop(h)
      PROVE  owner'[u] = w
  BY <1>5 DEF StartFails, Stop, Termed, NothingLeft
<1>6. ASSUME NEW h \in Hub, NEW t \in Task, ReapFirst(h, t) \/ ReapAgain(h, t)
      PROVE  owner'[u] = w
  BY <1>6 DEF ReapFirst, ReapAgain, NothingLeft
<1>7. ASSUME NEW t \in Task, Abort(t) \/ ForceKill(t) \/ Replaces(t) \/ Exits(t) \/ Finish(t) \/ Reuse(t)
      PROVE  owner'[u] = w
  BY <1>7 DEF Abort, ForceKill, Replaces, Exits, Finish, Reuse, Termed, Under, NothingLeft
<1>8. ASSUME NEW c \in Client, Launch(c) \/ Poll(c) \/ GiveUp(c)
      PROVE  owner'[u] = w
  BY <1>8 DEF Launch, Poll, GiveUp, Kill, Die, Termed, NothingLeft
<1>9. CASE UNCHANGED <<pc, task, who, owner>>
  BY <1>9 DEF NothingLeft
<1> HIDE DEF HubTypeOK, Recorded
<1> QED
  BY <1>1, <1>2, <1>3, <1>4, <1>5, <1>6, <1>7, <1>8, <1>9 DEF HubNext, HubStep, hubVars
------------------------------------------------------------------------------
(* The invariant: each lemma above needs only the conjuncts it names.      *)
THEOREM HubInductive == HubSpec => []HubIInv
<1>1. HubIInv /\ [HubNext]_hubVars => HubIInv'
  BY TypeStep, LockedStep, LeadsStep, JournaledStep, StillToReapStep, NothingLeftStep DEF HubIInv
<1> QED BY <1>1, HubInitIInv, PTL DEF HubSpec

(* The state always has the shape the code gives it.                       *)
THEOREM HubTypeCorrect == HubSpec => []HubTypeOK
<1>1. HubIInv => HubTypeOK
  BY DEF HubIInv
<1> QED BY <1>1, HubInductive, PTL

(* There is one hub at most that starts, serves or cleans up on a home     *)
(* (server.ts, the lock taken before anything is touched).                 *)
THEOREM OneHubAtWork == HubSpec => [](\A g, h \in Hub : Holds(g) /\ Holds(h) => g = h)
<1>1. HubIInv => \A g, h \in Hub : Holds(g) /\ Holds(h) => g = h
  BY OneHolder DEF HubIInv
<1> QED BY <1>1, HubInductive, PTL

(* A hub that is ready is the one the home's socket leads to, whatever     *)
(* other hubs start, fail, close or crash meanwhile (server.ts).           *)
THEOREM SocketAlwaysServes == HubSpec => []SocketServes
<1>1. HubIInv => SocketServes
  BY DEF HubIInv, Leads, SocketServes
<1> QED BY <1>1, HubInductive, PTL

(* From recovery on nothing an earlier hub recorded runs as it was         *)
(* recorded, however often hubs crashed, while reaping too; what is no     *)
(* longer recognised by its start and name is left out                     *)
(* (process-journal.ts).                                                   *)
THEOREM NothingIsLeft == HubSpec => []NothingLeft
<1>1. HubIInv => NothingLeft
  BY DEF HubIInv
<1> QED BY <1>1, HubInductive, PTL
==============================================================================
