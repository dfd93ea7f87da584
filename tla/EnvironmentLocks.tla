--------------------------- MODULE EnvironmentLocks ---------------------------
(***************************************************************************)
(* EnvironmentLocks.use of packages/execution/src/locks.ts: a caller takes *)
(* the one-permit semaphore of every environment it names, in sorted       *)
(* order, runs its work, and releases them all.                            *)
(*                                                                         *)
(* The hub is one JavaScript event loop, so code between two awaits is one *)
(* step here.  The awaits of `use` are the acquire of each lock and the    *)
(* work itself; its finally block releases every lock in one step.  A call *)
(* may be aborted through its signal at any moment.                        *)
(***************************************************************************)
EXTENDS Naturals, FiniteSets, Semaphore

CONSTANTS
  Client,   \* the calls of `use`, one at a time each
  Lock      \* the environment ids; their string order is the order of Nat

ASSUME LockAssumption == Lock \subseteq Nat

VARIABLES
  sem,      \* sem[l]: the semaphore of lock l
  phase,    \* phase[c]: where call c is
  todo,     \* todo[c]: ids still to acquire, the one waited for included
  held,     \* held[c]: ids whose release function c has
  aborted   \* aborted[c]: the caller's signal is aborted
vars == <<sem, phase, todo, held, aborted>>

Phase == {"idle", "acquiring", "waiting", "rejected", "working"}

(* A new EnvironmentLocks that nobody has called.                          *)
Fresh ==
  [sem |-> [l \in Lock |-> New(1)],
   phase |-> [c \in Client |-> "idle"],
   todo |-> [c \in Client |-> {}],
   held |-> [c \in Client |-> {}],
   aborted |-> [c \in Client |-> FALSE]]

Init ==
  /\ sem = Fresh.sem
  /\ phase = Fresh.phase
  /\ todo = Fresh.todo
  /\ held = Fresh.held
  /\ aborted = Fresh.aborted

(* The process that owned the locks is gone and the next one makes new     *)
(* ones.  Not a step of a call: for the modules that model the process.    *)
Renew ==
  /\ sem' = Fresh.sem
  /\ phase' = Fresh.phase
  /\ todo' = Fresh.todo
  /\ held' = Fresh.held
  /\ aborted' = Fresh.aborted

(* `[...new Set(ids)].sort()`: the next id is the least one not yet held.  *)
IsAnyId(l, ids) == l \in ids              \* mutant of IsNextId: not sorted
IsNextId(l, ids) == l \in ids /\ \A k \in ids : l <= k

(* The finally block.  Every lock held goes to the first call waiting for  *)
(* it, whose acquire returns, or becomes free.                             *)
ReleaseAll(c) ==
  LET passed(d) == {l \in held[c] : IsHead(sem[l], d)} IN
  /\ sem' = [l \in Lock |-> IF l \in held[c] THEN Release(sem[l]) ELSE sem[l]]
  /\ phase' = [d \in Client |-> IF d = c THEN "idle"
                                ELSE IF passed(d) # {} THEN "acquiring"
                                ELSE phase[d]]
  /\ held' = [d \in Client |-> IF d = c THEN {} ELSE held[d] \cup passed(d)]
  /\ todo' = [d \in Client |-> IF d = c THEN {} ELSE todo[d] \ passed(d)]
  /\ UNCHANGED aborted
------------------------------------------------------------------------------
(* The caller makes a signal for its next call.                            *)
NewSignal(c) ==
  /\ phase[c] = "idle"
  /\ aborted[c]
  /\ aborted' = [aborted EXCEPT ![c] = FALSE]
  /\ UNCHANGED <<sem, phase, todo, held>>

(* A caller calls use(ids, signal, work).                                  *)
Use(c, ids) ==
  /\ phase[c] = "idle"
  /\ phase' = [phase EXCEPT ![c] = "acquiring"]
  /\ todo' = [todo EXCEPT ![c] = ids]
  /\ UNCHANGED <<sem, held, aborted>>

(* lock.acquire(signal) with a free permit: it is taken at once.           *)
Grant(c, l) ==
  /\ phase[c] = "acquiring"
  /\ ~aborted[c]
  /\ IsNextId(l, todo[c])
  /\ CanTake(sem[l])
  /\ sem' = [sem EXCEPT ![l] = Take(@)]
  /\ held' = [held EXCEPT ![c] = @ \cup {l}]
  /\ todo' = [todo EXCEPT ![c] = @ \ {l}]
  /\ UNCHANGED <<phase, aborted>>

(* lock.acquire(signal) with no free permit: the call joins the queue.     *)
Queue(c, l) ==
  /\ phase[c] = "acquiring"
  /\ ~aborted[c]
  /\ IsNextId(l, todo[c])
  /\ ~CanTake(sem[l])
  /\ sem' = [sem EXCEPT ![l] = Enqueue(@, c)]
  /\ phase' = [phase EXCEPT ![c] = "waiting"]
  /\ UNCHANGED <<todo, held, aborted>>

(* signal.throwIfAborted at the head of acquire, then the finally block.   *)
Throw(c) ==
  /\ phase[c] = "acquiring"
  /\ aborted[c]
  /\ todo[c] # {}
  /\ ReleaseAll(c)

(* Every lock is held: work() is called, whatever the signal says.         *)
EnterUnawaited(c) ==                     \* mutant of Enter: after the first lock
  /\ phase[c] = "acquiring"
  /\ held[c] # {}
  /\ phase' = [phase EXCEPT ![c] = "working"]
  /\ UNCHANGED <<sem, todo, held, aborted>>
Enter(c) ==
  /\ phase[c] = "acquiring"
  /\ todo[c] = {}
  /\ phase' = [phase EXCEPT ![c] = "working"]
  /\ UNCHANGED <<sem, todo, held, aborted>>

(* The work settles, returned or thrown.                                   *)
Finish(c) ==
  /\ phase[c] = "working"
  /\ ReleaseAll(c)

(* The signal fires, before the call or during it.  A waiting call leaves  *)
(* the queue and its acquire is rejected; any other only finds out later.  *)
Abort(c) ==
  /\ ~aborted[c]
  /\ aborted' = [aborted EXCEPT ![c] = TRUE]
  /\ IF phase[c] = "waiting"
       THEN /\ sem' = [l \in Lock |-> IF IsNextId(l, todo[c])
                                      THEN Withdraw(sem[l], c) ELSE sem[l]]
            /\ phase' = [phase EXCEPT ![c] = "rejected"]
       ELSE UNCHANGED <<sem, phase>>
  /\ UNCHANGED <<todo, held>>

(* The rejected await runs the finally block.                              *)
Leave(c) ==
  /\ phase[c] = "rejected"
  /\ ReleaseAll(c)
------------------------------------------------------------------------------
Step(c) ==
  \/ \E l \in Lock : Grant(c, l) \/ Queue(c, l)
  \/ Throw(c)
  \/ Enter(c)
  \/ Finish(c)
  \/ Leave(c)

Next ==
  \E c \in Client : \/ \E ids \in (SUBSET Lock) \ {{}} : Use(c, ids)
                    \/ NewSignal(c)
                    \/ Abort(c)
                    \/ Step(c)

Spec == Init /\ [][Next]_vars

(* The event loop runs every continuation, and work ends; nobody has to    *)
(* call use or abort.                                                      *)
FairSpec == Spec /\ \A c \in Client : WF_vars(Step(c))
------------------------------------------------------------------------------
(* The state has the shape the code gives it; a lock has one permit.       *)
TypeOK ==
  /\ sem \in [Lock -> [available : {0, 1}, waiting : Seq(Client)]]
  /\ phase \in [Client -> Phase]
  /\ todo \in [Client -> SUBSET Lock]
  /\ held \in [Client -> SUBSET Lock]
  /\ aborted \in [Client -> BOOLEAN]

(* The permit of each lock is either free or with exactly one call: none   *)
(* is lost when a waiter is aborted as the holder releases, and none is    *)
(* duplicated by the direct hand-off (locks.ts:35-46).                     *)
OnePermit ==
  \A l \in Lock :
    /\ \A c, d \in Client : l \in held[c] \cap held[d] => c = d
    /\ sem[l].available = 0 <=> \E c \in Client : l \in held[c]

(* The queue of a lock holds exactly the calls that wait for it, each      *)
(* once; nobody waits for a free lock (locks.ts:20-33).                    *)
QueueAccurate ==
  \A l \in Lock :
    /\ IsInjective(sem[l].waiting)
    /\ \A c \in Client : c \in ToSet(sem[l].waiting)
                           <=> phase[c] = "waiting" /\ IsNextId(l, todo[c])
    /\ sem[l].waiting # <<>> => sem[l].available = 0

(* Acquisition follows the order of the ids: whoever waits holds only      *)
(* smaller ids, so no cycle of waiting calls can form (locks.ts:61).       *)
AscendingOrder ==
  \A c \in Client : \A h \in held[c], l \in todo[c] : h < l

(* What a call has left to acquire and what it holds agree with where it   *)
(* is: with the three above, this is preserved by every step.              *)
PhaseAgrees ==
  \A c \in Client : /\ phase[c] = "idle" => held[c] = {} /\ todo[c] = {}
                    /\ phase[c] = "working" => todo[c] = {}
                    /\ phase[c] = "waiting" => ~aborted[c]
IInv == TypeOK /\ OnePermit /\ QueueAccurate /\ AscendingOrder /\ PhaseAgrees

(* A call that comes later never overtakes: a lock somebody waits for goes *)
(* to the call that has waited longest (locks.ts:40-44).                   *)
NoBarging ==
  [][\A l \in Lock, c \in Client :
       l \in held'[c] \ held[c] /\ sem[l].waiting # <<>> => c = Head(sem[l].waiting)]_vars

(* Every call gets its turn or ends: no call waits for ever, whatever the  *)
(* others ask for and whichever of them are aborted.                       *)
Served == \A c \in Client : phase[c] = "acquiring" ~> phase[c] \in {"working", "idle"}

(* The calls implement the abstract lock service.                          *)
Stage(c) == CASE phase[c] = "idle" -> "out"
              [] phase[c] = "working" -> "in"
              [] OTHER -> "pending"
Service == INSTANCE LockService
             WITH request <- [c \in Client |-> todo[c] \cup held[c]],
                  stage <- [c \in Client |-> Stage(c)]
ImplementsService == Service!Spec
==============================================================================
