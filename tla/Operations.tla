------------------------------ MODULE Operations ------------------------------
(***************************************************************************)
(* The Operations class of packages/operations/src/operations.ts: the hub  *)
(* owns every deploy, down, prune and verification as an operation with a  *)
(* record on disk, serialised per environment by EnvironmentLocks and      *)
(* limited by a Semaphore of slots.                                        *)
(*                                                                         *)
(* One step is the code between two awaits.  save() writes the record file *)
(* and the map together, so `record` is both; everything else is memory    *)
(* and is lost when the hub exits.  Log lines are left out, except that    *)
(* writing one may fail inside the operation.  An operation's work is      *)
(* whatever the caller passed: it ends, and returns or throws.             *)
(***************************************************************************)
EXTENDS Naturals, FiniteSets, Semaphore

CONSTANTS
  Env,          \* environment ids, which are also the lock ids
  Main,         \* the clone source, locked by the first deploy of a branch
  Cloning,      \* BOUND: branches that may still have to clone
  Concurrency,  \* slots
  MaxQueue,     \* maxQueue
  Retention,    \* retention
  MaxOps        \* BOUND on the operations ever submitted

ASSUME OperationsAssumption ==
  /\ Env \subseteq Nat
  /\ Main \in Env /\ Cloning \subseteq Env
  /\ {Concurrency, MaxQueue, Retention, MaxOps} \subseteq Nat
  /\ Concurrency > 0

(* Ids in the order of createdAt, which submit makes strictly increasing.  *)
OpId == 1 .. MaxOps

VARIABLES
  up,             \* a hub process exists
  accepting,      \* accepting
  created,        \* operations submitted so far
  record,         \* record[o]: the operation's record, on disk and in memory
  active,         \* the keys of active
  byEnvironment,  \* byEnvironment[e]: the operations it names, none or one
  reservations,   \* reservations[o]: environments kept busy
  lockIds,        \* lockIds[o]: the ids its call of locks.use is given
  step,           \* step[o]: where the operation's async function is
  thrown,         \* operations whose try block has thrown
  slots,          \* the semaphore of slots
  aborting,       \* operations the loop of shutdown has still to abort
  sem, phase, todo, held, aborted   \* the locks; aborted is the controller's

Locks == INSTANCE EnvironmentLocks WITH Client <- OpId, Lock <- Env

lockVars == <<sem, phase, todo, held, aborted>>
indexVars == <<active, byEnvironment, reservations, lockIds>>
hubVars == <<up, accepting, created, aborting>>
vars == <<hubVars, record, indexVars, step, thrown, slots, lockVars>>

Status == {"queued", "running", "succeeded", "failed", "cancelled", "interrupted"}
Unfinished == {"queued", "running"}
NoRecord == [status |-> "none", env |-> Main]
Records == [status : Status, env : Env] \cup {NoRecord}

Steps == {"none", "submitted", "locking", "entering", "slotWaiting", "slotted",
          "working", "unlocking", "finishing"}

(* The memory of a hub that has just started.                              *)
FreshMemory ==
  [active |-> {}, byEnvironment |-> [e \in Env |-> {}],
   reservations |-> [o \in OpId |-> {}], lockIds |-> [o \in OpId |-> {}],
   step |-> [o \in OpId |-> "none"], slots |-> New(Concurrency)]

Init ==
  /\ up = TRUE
  /\ accepting = TRUE
  /\ created = 0
  /\ aborting = {}
  /\ record = [o \in OpId |-> NoRecord]
  /\ active = FreshMemory.active
  /\ byEnvironment = FreshMemory.byEnvironment
  /\ reservations = FreshMemory.reservations
  /\ lockIds = FreshMemory.lockIds
  /\ step = FreshMemory.step
  /\ slots = FreshMemory.slots
  /\ thrown = {}
  /\ Locks!Init

Terminal(r) == r.status \in Status \ Unfinished
WithStatus(o, s) == [record EXCEPT ![o].status = s]

(* trim: of the completed records rs holds, the newest Retention stay.     *)
Completed(rs) == {o \in OpId : Terminal(rs[o])}
Expired(rs) ==
  {o \in Completed(rs) : Cardinality({p \in Completed(rs) : p > o}) >= Retention}
Trim(rs) == [o \in OpId |-> IF o \in Expired(rs) THEN NoRecord ELSE rs[o]]

(* What a restart makes of a record.                                       *)
Interrupt(r) ==
  IF r.status \in Unfinished THEN [r EXCEPT !.status = "interrupted"] ELSE r

(* current(environmentId), as a set of no or one operation.                *)
Current(e) == byEnvironment[e]

(* What the reservation of an operation on e with these lock ids names.    *)
ReservedTarget(e, ids) == {e}            \* mutant of Reserved: not the clone source
Reserved(e, ids) == {e} \cup ids

(* busy(environmentId)                                                     *)
Busy(e) == \E o \in OpId : e \in reservations[o]

(* lockIds as the callers compute them: the environment, and the source of *)
(* a deploy that has still to clone (hub/src/application.ts:170-177).      *)
LockChoices(e) == {{e}, IF e \in Cloning THEN {e, Main} ELSE {e}}
------------------------------------------------------------------------------
(* submit, when it is accepted.  A second deploy gets the active operation *)
(* back and any other refusal throws, both without a change.               *)
Submit(e, ids) ==
  LET o == created + 1 IN
  /\ up /\ accepting
  /\ Current(e) = {}
  /\ Cardinality(active) < MaxQueue
  /\ o \in OpId
  /\ created' = o
  /\ record' = [record EXCEPT ![o] = [status |-> "queued", env |-> e]]
  /\ byEnvironment' = [byEnvironment EXCEPT ![e] = {o}]
  /\ reservations' = [reservations EXCEPT ![o] = Reserved(e, ids)]
  /\ lockIds' = [lockIds EXCEPT ![o] = ids]
  /\ active' = active \cup {o}
  /\ step' = [step EXCEPT ![o] = "submitted"]
  /\ UNCHANGED <<up, accepting, aborting, thrown, slots, lockVars>>

(* The microtask logs "queued" and calls locks.use; the log may throw.     *)
Begin(o) ==
  /\ step[o] = "submitted"
  /\ \/ /\ Locks!Use(o, lockIds[o])
        /\ step' = [step EXCEPT ![o] = "locking"]
        /\ UNCHANGED thrown
     \/ /\ step' = [step EXCEPT ![o] = "finishing"]
        /\ thrown' = thrown \cup {o}
        /\ UNCHANGED lockVars
  /\ UNCHANGED <<hubVars, record, indexVars, slots>>

(* Inside locks.use: it goes on, throws on an aborted signal, or has every *)
(* lock and calls slots.use.                                               *)
TakeLocks(o) ==
  /\ step[o] = "locking"
  /\ \/ /\ \E l \in Env : Locks!Grant(o, l) \/ Locks!Queue(o, l)
        /\ UNCHANGED <<step, thrown>>
     \/ /\ Locks!Throw(o) \/ Locks!Leave(o)
        /\ step' = [step EXCEPT ![o] = "finishing"]
        /\ thrown' = thrown \cup {o}
     \/ /\ Locks!Enter(o)
        /\ step' = [step EXCEPT ![o] = "entering"]
        /\ UNCHANGED thrown
  /\ UNCHANGED <<hubVars, record, indexVars, slots>>

(* slots.acquire(signal), called as the work of locks.use.                 *)
TakeSlot(o) ==
  /\ step[o] = "entering"
  /\ \/ /\ aborted[o]
        /\ step' = [step EXCEPT ![o] = "unlocking"]
        /\ thrown' = thrown \cup {o}
        /\ UNCHANGED slots
     \/ /\ ~aborted[o] /\ CanTake(slots)
        /\ slots' = Take(slots)
        /\ step' = [step EXCEPT ![o] = "slotted"]
        /\ UNCHANGED thrown
     \/ /\ ~aborted[o] /\ ~CanTake(slots)
        /\ slots' = Enqueue(slots, o)
        /\ step' = [step EXCEPT ![o] = "slotWaiting"]
        /\ UNCHANGED thrown
  /\ UNCHANGED <<hubVars, record, indexVars, lockVars>>

(* The slot goes back and the first operation waiting for one gets it; o   *)
(* itself is left with its locks.                                          *)
ReleaseSlotToNobody(o) ==                \* mutant of ReleaseSlot
  /\ slots' = Release(slots)
  /\ step' = [step EXCEPT ![o] = "unlocking"]
ReleaseSlot(o) ==
  /\ slots' = Release(slots)
  /\ step' = [p \in OpId |-> IF p = o THEN "unlocking"
                             ELSE IF IsHead(slots, p) THEN "slotted"
                             ELSE step[p]]

(* With the slot: the record is saved as running, then the work is called; *)
(* the log line between the two may throw.                                 *)
Start(o) ==
  /\ step[o] = "slotted"
  /\ record' = WithStatus(o, "running")
  /\ \/ /\ step' = [step EXCEPT ![o] = "working"]
        /\ UNCHANGED <<slots, thrown>>
     \/ /\ ReleaseSlot(o)
        /\ thrown' = thrown \cup {o}
  /\ UNCHANGED <<hubVars, indexVars, lockVars>>

(* The work settles.  Work that returns on an aborted signal throws too.   *)
WorkEndsUnchecked(o) ==                  \* mutant of WorkEnds: no throwIfAborted
  /\ step[o] = "working"
  /\ thrown' \in {thrown, thrown \cup {o}}
  /\ ReleaseSlot(o)
  /\ UNCHANGED <<hubVars, record, indexVars, lockVars>>
WorkEnds(o) ==
  /\ step[o] = "working"
  /\ \/ thrown' = thrown \cup {o}
     \/ ~aborted[o] /\ UNCHANGED thrown
  /\ ReleaseSlot(o)
  /\ UNCHANGED <<hubVars, record, indexVars, lockVars>>

(* The finally block of locks.use.                                         *)
Unlock(o) ==
  /\ step[o] = "unlocking"
  /\ Locks!Finish(o)
  /\ step' = [step EXCEPT ![o] = "finishing"]
  /\ UNCHANGED <<hubVars, record, indexVars, slots, thrown>>

(* The status finish() leaves.  The log line after finish("succeeded") may *)
(* throw; the handler then finishes the operation again.                   *)
Outcome(o) ==
  LET failure == IF aborted[o] THEN "cancelled" ELSE "failed"
  IN IF o \in thrown THEN {failure} ELSE {"succeeded", failure}

(* finish, the finally block and its trim, without an await between them;  *)
(* nothing refers to the function's state afterwards.                      *)
Finish(o) ==
  /\ step[o] = "finishing"
  /\ \E s \in Outcome(o) : record' = Trim(WithStatus(o, s))
  /\ active' = active \ {o}
  /\ reservations' = [reservations EXCEPT ![o] = {}]
  /\ byEnvironment' = [byEnvironment EXCEPT ![record[o].env] = {}]
  /\ lockIds' = [lockIds EXCEPT ![o] = {}]
  /\ step' = [step EXCEPT ![o] = "none"]
  /\ thrown' = thrown \ {o}
  /\ aborted' = [aborted EXCEPT ![o] = FALSE]
  /\ UNCHANGED <<hubVars, slots, sem, phase, todo, held>>
------------------------------------------------------------------------------
(* controller.abort: whoever waits for a lock or a slot leaves the queue.  *)
AbortSignal(o) ==
  /\ Locks!Abort(o)
  /\ IF step[o] = "slotWaiting"
       THEN /\ slots' = Withdraw(slots, o)
            /\ step' = [step EXCEPT ![o] = "unlocking"]
            /\ thrown' = thrown \cup {o}
       ELSE UNCHANGED <<slots, step, thrown>>

(* cancel(id) of an active operation.                                      *)
Cancel(o) ==
  /\ o \in active
  /\ AbortSignal(o)
  /\ UNCHANGED <<hubVars, record, indexVars>>

(* shutdown: no more submissions, and every active operation is aborted,   *)
(* oldest first, in one loop without an await, which AbortNext runs before *)
(* anything else.                                                          *)
Shutdown ==
  /\ up /\ accepting
  /\ accepting' = FALSE
  /\ aborting' = {o \in active : ~aborted[o]}
  /\ UNCHANGED <<up, created, record, indexVars, step, thrown, slots, lockVars>>

AbortNext(o) ==
  /\ o \in aborting /\ \A p \in aborting : o <= p
  /\ aborting' = aborting \ {o}
  /\ AbortSignal(o)
  /\ UNCHANGED <<up, accepting, created, record, indexVars>>

(* The process exits, at the end of a shutdown or by a crash between any   *)
(* two steps: only the records remain.                                     *)
Exit ==
  /\ up
  /\ up' = FALSE
  /\ accepting' = FALSE
  /\ aborting' = {}
  /\ active' = FreshMemory.active
  /\ byEnvironment' = FreshMemory.byEnvironment
  /\ reservations' = FreshMemory.reservations
  /\ lockIds' = FreshMemory.lockIds
  /\ step' = FreshMemory.step
  /\ slots' = FreshMemory.slots
  /\ thrown' = {}
  /\ Locks!Renew
  /\ UNCHANGED <<created, record>>

(* The constructor of the next hub: what was unfinished is interrupted.    *)
Restart ==
  /\ ~up
  /\ up' = TRUE
  /\ accepting' = TRUE
  /\ record' = Trim([o \in OpId |-> Interrupt(record[o])])
  /\ UNCHANGED <<created, aborting, indexVars, step, thrown, slots, lockVars>>
------------------------------------------------------------------------------
Continue(o) ==
  \/ Begin(o) \/ TakeLocks(o) \/ TakeSlot(o) \/ Start(o)
  \/ WorkEnds(o) \/ Unlock(o) \/ Finish(o)

Next ==
  \/ \E o \in OpId : AbortNext(o)
  \/ Exit
  \/ /\ aborting = {}
     /\ \/ \E e \in Env : \E ids \in LockChoices(e) : Submit(e, ids)
        \/ \E o \in OpId : Continue(o) \/ Cancel(o)
        \/ Shutdown
        \/ Restart

Spec == Init /\ [][Next]_vars

(* The event loop runs the loop of shutdown and every continuation, and    *)
(* work ends.  Nobody has to submit, cancel, stop or restart.              *)
FairSpec ==
  /\ Spec
  /\ \A o \in OpId : WF_vars(AbortNext(o)) /\ WF_vars(aborting = {} /\ Continue(o))
------------------------------------------------------------------------------
(* The state has the shape the code gives it.                              *)
TypeOK ==
  /\ up \in BOOLEAN /\ accepting \in BOOLEAN
  /\ created \in 0 .. MaxOps
  /\ record \in [OpId -> Records]
  /\ active \subseteq OpId /\ aborting \subseteq active /\ thrown \subseteq active
  /\ byEnvironment \in [Env -> SUBSET OpId]
  /\ reservations \in [OpId -> SUBSET Env]
  /\ lockIds \in [OpId -> SUBSET Env]
  /\ step \in [OpId -> Steps]
  /\ slots \in [available : 0 .. Concurrency, waiting : Seq(OpId)]
  /\ Locks!TypeOK

(* Work runs alone on every environment it locks, its clone source         *)
(* included, and never without having been promised them (lockIds).        *)
WorkExclusive ==
  \A o \in OpId : step[o] \in {"slotted", "working"} =>
    /\ held[o] = lockIds[o]
    /\ \A p \in OpId : step[p] \in {"slotted", "working"} /\ lockIds[o] \cap lockIds[p] # {}
                         => o = p

(* What idle shutdown relies on: an environment that is not busy is in no  *)
(* operation's hands, not even as a clone source or while it only waits.   *)
BusyCoversHands ==
  \A e \in Env : ~Busy(e) => \A o \in OpId : e \notin held[o] \cup todo[o] \cup lockIds[o]

(* An operation cancelled before its work ended never reports success.     *)
CancelWins ==
  \A o \in OpId :
    [](aborted[o] /\ step[o] \notin {"unlocking", "finishing"}
         => [](record[o].status # "succeeded"))

(* Every accepted operation comes to an end, so shutdown does: no slot and *)
(* no lock leaks, whatever is cancelled while it waits (ids are not used   *)
(* again, so each is inactive in the end).                                 *)
OperationsEnd == \A o \in OpId : []<>(o \notin active)
==============================================================================
