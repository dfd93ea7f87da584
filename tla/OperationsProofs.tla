-------------------------- MODULE OperationsProofs --------------------------
(***************************************************************************)
(* The safety of Operations for any environments, any number of operations *)
(* and any limits.                                                         *)
(*                                                                         *)
(* Every step of an operation is a step of its call of the locks, or none, *)
(* so what is proved of EnvironmentLocks holds here: asked is what a call  *)
(* has named, stages is whether it is outside, pending or at work.  The    *)
(* steps of the operations agree with the stages of their calls.           *)
(***************************************************************************)
EXTENDS Operations, SequenceTheorems, FiniteSetTheorems, TLAPS

EL == INSTANCE EnvironmentLocksProofs WITH Client <- OpId, Lock <- Env

(* The queue of slots changes as the queue of a lock does.                 *)
LEMMA AppendQueue ==
  ASSUME NEW C, NEW q \in Seq(C), NEW c \in C, IsInjective(q), c \notin ToSet(q)
  PROVE  /\ Append(q, c) \in Seq(C)
         /\ IsInjective(Append(q, c))
         /\ ToSet(Append(q, c)) = ToSet(q) \cup {c}
         /\ Append(q, c) # <<>>
  BY OperationsAssumption, EL!AppendQueue DEF IsInjective, EL!IsInjective, ToSet, EL!ToSet

(* And the first waiter leaves it.                                         *)
LEMMA TailQueue ==
  ASSUME NEW C, NEW q \in Seq(C), q # <<>>, IsInjective(q)
  PROVE  /\ Head(q) \in C
         /\ Head(q) \in ToSet(q)
         /\ Tail(q) \in Seq(C)
         /\ IsInjective(Tail(q))
         /\ ToSet(Tail(q)) = ToSet(q) \ {Head(q)}
  BY OperationsAssumption, EL!TailQueue DEF IsInjective, EL!IsInjective, ToSet, EL!ToSet

(* And one that gives up is spliced out.                                   *)
LEMMA RemoveQueue ==
  ASSUME NEW C, NEW q \in Seq(C), NEW c, IsInjective(q)
  PROVE  /\ RemoveFirst(q, c) \in Seq(C)
         /\ IsInjective(RemoveFirst(q, c))
         /\ ToSet(RemoveFirst(q, c)) = ToSet(q) \ {c}
         /\ c \notin ToSet(q) => RemoveFirst(q, c) = q
<1>1. EL!RemoveFirst(q, c) = RemoveFirst(q, c)
  BY DEF RemoveFirst, EL!RemoveFirst, RemoveAt, EL!RemoveAt, SelectInSeq, EL!SelectInSeq, Min, EL!Min
<1>2. \A f : (EL!IsInjective(f) <=> IsInjective(f)) /\ EL!ToSet(f) = ToSet(f)
  BY DEF IsInjective, EL!IsInjective, ToSet, EL!ToSet
<1>3. /\ EL!RemoveFirst(q, c) \in Seq(C)
      /\ EL!IsInjective(EL!RemoveFirst(q, c))
      /\ EL!ToSet(EL!RemoveFirst(q, c)) = EL!ToSet(q) \ {c}
      /\ c \notin EL!ToSet(q) => EL!RemoveFirst(q, c) = q
  BY <1>2, OperationsAssumption, EL!RemoveQueue
<1> QED BY <1>1, <1>2, <1>3

(* What each operator makes of the two fields of a semaphore.              *)
LEMMA ReleaseFields ==
  ASSUME NEW C, NEW s \in SemaphoreOf(C)
  PROVE  /\ Release(s) \in SemaphoreOf(C)
         /\ s.waiting = <<>> => /\ Release(s).available = s.available + 1
                               /\ Release(s).waiting = <<>>
         /\ s.waiting # <<>> => /\ Release(s).available = s.available
                               /\ Release(s).waiting = Tail(s.waiting)
  BY OperationsAssumption, EL!ReleaseFields DEF Release, EL!Release, SemaphoreOf, EL!SemaphoreOf

(* A permit taken leaves the queue alone and lowers available by one.      *)
LEMMA TakeFields ==
  ASSUME NEW C, NEW s \in SemaphoreOf(C), CanTake(s)
  PROVE  /\ Take(s) \in SemaphoreOf(C)
         /\ Take(s).available = s.available - 1
         /\ Take(s).waiting = s.waiting
  BY OperationsAssumption, EL!TakeFields DEF Take, EL!Take, SemaphoreOf, EL!SemaphoreOf, CanTake, EL!CanTake

(* A waiter joins the queue at its end; the permits stay.                  *)
LEMMA EnqueueFields ==
  ASSUME NEW C, NEW s \in SemaphoreOf(C), NEW c \in C
  PROVE  /\ Enqueue(s, c) \in SemaphoreOf(C)
         /\ Enqueue(s, c).available = s.available
         /\ Enqueue(s, c).waiting = Append(s.waiting, c)
  BY OperationsAssumption, EL!EnqueueFields DEF Enqueue, EL!Enqueue, SemaphoreOf, EL!SemaphoreOf

(* A waiter that gives up leaves the queue; the order of the others and the*)
(* permits stay.                                                           *)
LEMMA WithdrawFields ==
  ASSUME NEW C, NEW s \in SemaphoreOf(C), NEW c, IsInjective(s.waiting)
  PROVE  /\ Withdraw(s, c) \in SemaphoreOf(C)
         /\ Withdraw(s, c).available = s.available
         /\ Withdraw(s, c).waiting = RemoveFirst(s.waiting, c)
<1>1. RemoveFirst(s.waiting, c) \in Seq(C)
  BY RemoveQueue DEF SemaphoreOf
<1> QED BY <1>1 DEF Withdraw, SemaphoreOf
------------------------------------------------------------------------------

Outside == {"none", "submitted", "finishing"}
Inside == {"entering", "slotWaiting", "slotted", "working", "unlocking"}
WithSlot == {"slotted", "working"}

(* Where an operation is and where its call of the locks is.               *)
Stages ==
  \A o \in OpId : /\ step[o] \in Outside <=> EL!stages[o] = "out"
                  /\ step[o] \in Inside <=> EL!stages[o] = "in"

(* Its call has asked for what the operation was given.                    *)
Asked ==
  \A o \in OpId : /\ EL!asked[o] \subseteq lockIds[o]
                  /\ step[o] \notin Outside => EL!asked[o] = lockIds[o]
                  /\ lockIds[o] \subseteq reservations[o]
                  /\ step[o] = "submitted" => lockIds[o] # {}

(* The registry: who is active, and what of it a record may say.           *)
Registered ==
  /\ active = {o \in OpId : step[o] # "none"}
  /\ ~up => active = {}
  /\ thrown \subseteq active /\ aborting \subseteq active
  /\ \A o \in OpId : /\ o > created => step[o] = "none"
                     /\ aborted[o] => o \in active
                     /\ o \in active => record[o].status \in Unfinished

(* The slots: who waits for one, and how many there are.                   *)
SlotQueue ==
  /\ slots \in SemaphoreOf(OpId)
  /\ IsInjective(slots.waiting)
  /\ \A o \in OpId : o \in ToSet(slots.waiting) <=> step[o] = "slotWaiting"
  /\ slots.waiting # <<>> => slots.available = 0
Slotted == {o \in OpId : step[o] \in WithSlot}
SlotsConserved == slots.available + Cardinality(Slotted) = Concurrency

Types ==
  /\ up \in BOOLEAN /\ accepting \in BOOLEAN
  /\ created \in 0 .. MaxOps
  /\ record \in [OpId -> Records]
  /\ active \subseteq OpId
  /\ byEnvironment \in [Env -> SUBSET OpId]
  /\ reservations \in [OpId -> SUBSET Env]
  /\ lockIds \in [OpId -> SUBSET Env]
  /\ step \in [OpId -> Steps]

IInv == Types /\ EL!IInv /\ Stages /\ Asked /\ Registered /\ SlotQueue /\ SlotsConserved
------------------------------------------------------------------------------
(* A step of the call of one operation.                                    *)
LockStep(o) ==
  \/ \E ids \in (SUBSET Env) \ {{}} : EL!Use(o, ids)
  \/ EL!NewSignal(o) \/ EL!Abort(o) \/ EL!Step(o)

(* The locks as this system's operations use them are those of the proofs. *)
LEMMA SameLocks ==
  ASSUME NEW o \in OpId
  PROVE  /\ \A ids : Locks!Use(o, ids) <=> EL!Use(o, ids)
         /\ \A l : Locks!Grant(o, l) <=> EL!Grant(o, l)
         /\ \A l : Locks!Queue(o, l) <=> EL!Queue(o, l)
         /\ Locks!Throw(o) <=> EL!Throw(o)
         /\ Locks!Leave(o) <=> EL!Leave(o)
         /\ Locks!Enter(o) <=> EL!Enter(o)
         /\ Locks!Finish(o) <=> EL!Finish(o)
         /\ Locks!Abort(o) <=> EL!Abort(o)
<1>1. \A ids : Locks!Use(o, ids) <=> EL!Use(o, ids)
  BY DEF Locks!Use, EL!Use
<1>2. \A l, ids : Locks!IsNextId(l, ids) <=> EL!IsNextId(l, ids)
  BY DEF Locks!IsNextId, EL!IsNextId
<1>3. \A s : Locks!CanTake(s) <=> EL!CanTake(s)
  BY DEF Locks!CanTake, EL!CanTake
<1>4. \A l : Locks!Grant(o, l) <=> EL!Grant(o, l)
  BY <1>2, <1>3 DEF Locks!Grant, EL!Grant, Locks!Take, EL!Take
<1>5. \A l : Locks!Queue(o, l) <=> EL!Queue(o, l)
  BY <1>2, <1>3 DEF Locks!Queue, EL!Queue, Locks!Enqueue, EL!Enqueue
<1>6. Locks!ReleaseAll(o) <=> EL!ReleaseAll(o)
  BY DEF Locks!ReleaseAll, EL!ReleaseAll, Locks!IsHead, EL!IsHead, Locks!Release, EL!Release
<1>7. \A s : Locks!Withdraw(s, o) = EL!Withdraw(s, o)
  BY DEF Locks!Withdraw, EL!Withdraw, Locks!RemoveFirst, EL!RemoveFirst, Locks!RemoveAt, EL!RemoveAt,
         Locks!SelectInSeq, EL!SelectInSeq, Locks!Min, EL!Min
<1>8. Locks!Abort(o) <=> EL!Abort(o)
  BY <1>2, <1>7 DEF Locks!Abort, EL!Abort
<1>9. Locks!Enter(o) <=> EL!Enter(o)
  BY DEF Locks!Enter, EL!Enter
<1> QED
  BY <1>1, <1>4, <1>5, <1>6, <1>8, <1>9
     DEF Locks!Throw, EL!Throw, Locks!Leave, EL!Leave, Locks!Finish, EL!Finish

(* The locks of a hub that has just started.                               *)
LEMMA FreshLocks == Locks!Renew => EL!IInv'
<1>1. EL!Init => EL!IInv
  BY EL!InitIInv, OperationsAssumption
<1>2. EL!Init' => EL!IInv'
  BY <1>1, PTL
<1>3. Locks!Renew => EL!Init'
  BY DEF Locks!Renew, Locks!Fresh, Locks!New, EL!Init, EL!Fresh, EL!New
<1> QED BY <1>2, <1>3

(* A continuation of the operation's promise is a step of its call of the  *)
(* locks, or leaves the locks alone.                                       *)
LEMMA Continuation ==
  ASSUME Types, EL!IInv, Stages, Asked, NEW o \in OpId, Continue(o)
  PROVE  LockStep(o) \/ UNCHANGED lockVars
<1> USE DEF LockStep, EL!Step
<1>1. CASE Begin(o)
  <2>1. lockIds[o] \in SUBSET Env /\ (step[o] = "submitted" => lockIds[o] # {})
    BY DEF Types, Asked
  <2> QED BY <1>1, <2>1, SameLocks DEF Begin
<1>2. CASE TakeLocks(o)
  BY <1>2, SameLocks DEF TakeLocks
<1>3. CASE Unlock(o)
  BY <1>3, SameLocks DEF Unlock
<1>4. CASE Finish(o)
  <2>1. phase[o] = "idle"
    BY <1>4 DEF Finish, Stages, Outside, EL!stages, EL!Stage
  <2>2. aborted \in [OpId -> BOOLEAN]
    BY DEF EL!IInv, EL!TypeOK
  <2> QED BY <1>4, <2>1, <2>2 DEF Finish, EL!NewSignal, lockVars
<1>5. CASE TakeSlot(o) \/ Start(o) \/ WorkEnds(o)
  BY <1>5 DEF TakeSlot, Start, WorkEnds
<1> QED BY <1>1, <1>2, <1>3, <1>4, <1>5 DEF Continue

(* The locks' invariant, through the exit of the hub too.                  *)
LEMMA LocksStep ==
  ASSUME Types, EL!IInv, Stages, Asked, [Next]_vars
  PROVE  EL!IInv'
<1>1. ASSUME NEW o \in OpId, LockStep(o) \/ UNCHANGED lockVars
      PROVE  EL!IInv'
  <2>1. [EL!Next]_(EL!vars)
    BY <1>1 DEF LockStep, EL!Next, EL!vars, lockVars
  <2> QED BY <2>1, EL!NextIInv, OperationsAssumption
<1>2. CASE UNCHANGED lockVars
  <2>1. [EL!Next]_(EL!vars)
    BY <1>2 DEF EL!vars, lockVars
  <2> QED BY <2>1, EL!NextIInv, OperationsAssumption
<1>3. CASE Exit
  BY <1>3, FreshLocks DEF Exit
<1>4. ASSUME NEW o \in OpId, AbortSignal(o)
      PROVE  EL!IInv'
  BY <1>1, <1>4, SameLocks DEF AbortSignal, LockStep
<1> QED
  BY <1>1, <1>2, <1>3, <1>4, Continuation
     DEF Next, vars, Submit, Shutdown, Restart, Cancel, AbortNext
------------------------------------------------------------------------------
(* What a step of a call changes of what others see of it.                 *)
LEMMA LocksAlone == UNCHANGED lockVars => UNCHANGED <<EL!asked, EL!stages>>
BY DEF lockVars, EL!asked, EL!stages, EL!Stage

(* What a call asks for, and the stage it is in, as the locks' own module  *)
(* types them.                                                             *)
LEMMA CallTyping ==
  ASSUME EL!IInv
  PROVE  /\ EL!asked \in [OpId -> SUBSET Env]
         /\ EL!stages \in [OpId -> {"out", "pending", "in"}]
BY EL!ServiceTyping, OperationsAssumption DEF EL!IInv

(* A call that begins is pending, for the environments it asked for.       *)
LEMMA CallUse ==
  ASSUME EL!IInv, NEW o \in OpId, NEW ids \in SUBSET Env, Locks!Use(o, ids)
  PROVE  /\ EL!asked' = [EL!asked EXCEPT ![o] = ids]
         /\ EL!stages' = [EL!stages EXCEPT ![o] = "pending"]
BY SameLocks, EL!UseService, OperationsAssumption

(* A call that throws, leaves or finishes is out, and asks for nothing.    *)
LEMMA CallEnds ==
  ASSUME EL!IInv, NEW o \in OpId, Locks!Throw(o) \/ Locks!Leave(o) \/ Locks!Finish(o)
  PROVE  /\ EL!asked' = [EL!asked EXCEPT ![o] = {}]
         /\ EL!stages' = [EL!stages EXCEPT ![o] = "out"]
<1>1. EL!ReleaseAll(o) /\ phase[o] \in {"acquiring", "rejected", "working"}
  BY SameLocks DEF EL!Throw, EL!Leave, EL!Finish
<1> QED BY <1>1, EL!ReleaseAllService, OperationsAssumption

(* A call that enters goes from pending to in, with what it asked for.     *)
LEMMA CallEnters ==
  ASSUME EL!IInv, NEW o \in OpId, Locks!Enter(o)
  PROVE  EL!asked' = EL!asked /\ EL!stages' = [EL!stages EXCEPT ![o] = "in"]
BY SameLocks, EL!EnterService, OperationsAssumption

(* A grant, a wait, an abort or a fresh signal changes neither what a call *)
(* asks for nor its stage.                                                 *)
LEMMA CallSilent ==
  ASSUME EL!IInv, NEW o \in OpId,
         \/ EL!NewSignal(o) \/ Locks!Abort(o)
         \/ \E l \in Env : Locks!Grant(o, l) \/ Locks!Queue(o, l)
  PROVE  UNCHANGED <<EL!asked, EL!stages>>
BY SameLocks, EL!SilentService, OperationsAssumption

(* The end of an operation gives its caller's signal back, unless there    *)
(* was none to give.                                                       *)
LEMMA FinishSilent ==
  ASSUME EL!IInv, Stages, NEW o \in OpId, Finish(o)
  PROVE  UNCHANGED <<EL!asked, EL!stages>>
<1>1. phase[o] = "idle"
  BY DEF Finish, Stages, Outside, EL!stages, EL!Stage
<1>2. aborted \in [OpId -> BOOLEAN]
  BY DEF EL!IInv, EL!TypeOK
<1>3. EL!NewSignal(o) \/ UNCHANGED lockVars
  BY <1>1, <1>2 DEF Finish, EL!NewSignal, lockVars
<1> QED BY <1>3, CallSilent, LocksAlone

(* A slot given back goes to an operation that waits for one.              *)
LEMMA SlotGoesToWaiter ==
  ASSUME SlotQueue, NEW p \in OpId, IsHead(slots, p)
  PROVE  step[p] = "slotWaiting" /\ slots.waiting # <<>> /\ p = Head(slots.waiting)
<1>1. slots.waiting \in Seq(OpId) /\ IsInjective(slots.waiting) /\ slots.waiting # <<>>
  BY DEF SlotQueue, SemaphoreOf, IsHead
<1> QED BY <1>1, TailQueue DEF IsHead, SlotQueue

(* Every step keeps an operation's step and the stage of its call together.*)
LEMMA StagesStep ==
  Types /\ EL!IInv /\ Stages /\ Registered /\ SlotQueue /\ [Next]_vars => Stages'
<1> SUFFICES ASSUME Types, EL!IInv, Stages, Registered, SlotQueue, [Next]_vars PROVE Stages'
  OBVIOUS
<1>0. step \in [OpId -> Steps] /\ EL!stages \in [OpId -> {"out", "pending", "in"}]
  BY CallTyping DEF Types
<1> USE DEF Stages, Outside, Inside
<1>1. ASSUME NEW o \in OpId, Begin(o)
      PROVE  Stages'
  <2>1. lockIds[o] \in SUBSET Env
    BY DEF Types
  <2> QED BY <1>0, <1>1, <2>1, CallUse, LocksAlone DEF Begin
<1>2. ASSUME NEW o \in OpId, TakeLocks(o)
      PROVE  Stages'
  BY <1>0, <1>2, CallSilent, CallEnds, CallEnters DEF TakeLocks
<1>3. ASSUME NEW o \in OpId, TakeSlot(o)
      PROVE  Stages'
  BY <1>0, <1>3, LocksAlone DEF TakeSlot
<1>4. ASSUME NEW o \in OpId, step[o] \in {"slotted", "working"}, ReleaseSlot(o), UNCHANGED lockVars
      PROVE  Stages'
  <2>1. \A p \in OpId \ {o} : step'[p] = step[p] \/ (step[p] = "slotWaiting" /\ step'[p] = "slotted")
    BY <1>4, SlotGoesToWaiter DEF ReleaseSlot
  <2>2. step'[o] = "unlocking"
    BY <1>4 DEF ReleaseSlot
  <2> QED BY <1>0, <1>4, <2>1, <2>2, LocksAlone
<1>5. ASSUME NEW o \in OpId, Start(o) \/ WorkEnds(o)
      PROVE  Stages'
  BY <1>0, <1>4, <1>5, LocksAlone DEF Start, WorkEnds
<1>6. ASSUME NEW o \in OpId, Unlock(o)
      PROVE  Stages'
  BY <1>0, <1>6, CallEnds DEF Unlock
<1>7. ASSUME NEW o \in OpId, Finish(o)
      PROVE  Stages'
  BY <1>0, <1>7, FinishSilent DEF Finish
<1>8. ASSUME NEW o \in OpId, AbortSignal(o)
      PROVE  Stages'
  BY <1>0, <1>8, CallSilent DEF AbortSignal
<1>9. ASSUME NEW e \in Env, NEW ids, Submit(e, ids)
      PROVE  Stages'
  <2>1. created + 1 > created /\ created + 1 \in OpId
    BY <1>9 DEF Submit, Types
  <2>2. step[created + 1] = "none"
    BY <2>1 DEF Registered
  <2> QED BY <1>0, <1>9, <2>1, <2>2, LocksAlone DEF Submit
<1>10. CASE Exit
  BY <1>10 DEF Exit, FreshMemory, Locks!Renew, Locks!Fresh, EL!stages, EL!Stage
<1>11. CASE UNCHANGED <<step, lockVars>>
  BY <1>11, LocksAlone
<1> HIDE DEF Stages
<1> QED
  BY <1>1, <1>2, <1>3, <1>5, <1>6, <1>7, <1>8, <1>9, <1>10, <1>11
     DEF Next, Continue, vars, Cancel, AbortNext, Shutdown, Restart

(* Every step keeps the call asking for what its operation was given.      *)
LEMMA AskedStep ==
  Types /\ EL!IInv /\ Stages /\ Asked /\ Registered /\ SlotQueue /\ [Next]_vars => Asked'
<1> SUFFICES ASSUME Types, EL!IInv, Stages, Asked, Registered, SlotQueue, [Next]_vars PROVE Asked'
  OBVIOUS
<1>0. /\ step \in [OpId -> Steps] /\ lockIds \in [OpId -> SUBSET Env]
      /\ reservations \in [OpId -> SUBSET Env]
      /\ EL!asked \in [OpId -> SUBSET Env]
  BY CallTyping DEF Types
<1> USE DEF Asked, Outside, indexVars
<1>1. ASSUME NEW o \in OpId, Begin(o)
      PROVE  Asked'
  <2>1. lockIds[o] \in SUBSET Env
    BY <1>0
  <2> QED BY <1>0, <1>1, <2>1, CallUse, LocksAlone DEF Begin
<1>2. ASSUME NEW o \in OpId, TakeLocks(o)
      PROVE  Asked'
  BY <1>0, <1>2, CallSilent, CallEnds, CallEnters DEF TakeLocks
<1>3. ASSUME NEW o \in OpId, TakeSlot(o)
      PROVE  Asked'
  BY <1>0, <1>3, LocksAlone DEF TakeSlot
<1>4. ASSUME NEW o \in OpId, Start(o) \/ WorkEnds(o)
      PROVE  Asked'
  <2>1. \A p \in OpId \ {o} : step'[p] = step[p] \/ (step[p] = "slotWaiting" /\ step'[p] = "slotted")
    BY <1>0, <1>4, SlotGoesToWaiter DEF Start, WorkEnds, ReleaseSlot
  <2>2. step'[o] \in {"unlocking", "working"} /\ step[o] \in {"slotted", "working"}
    BY <1>0, <1>4 DEF Start, WorkEnds, ReleaseSlot
  <2> QED BY <1>0, <1>4, <2>1, <2>2, LocksAlone DEF Start, WorkEnds
<1>5. ASSUME NEW o \in OpId, Unlock(o)
      PROVE  Asked'
  BY <1>0, <1>5, CallEnds DEF Unlock
<1>6. ASSUME NEW o \in OpId, Finish(o)
      PROVE  Asked'
  <2>1. EL!asked[o] = {}
    <3>1. phase[o] = "idle"
      BY <1>6 DEF Finish, Stages, EL!stages, EL!Stage
    <3> QED BY <3>1 DEF EL!IInv, EL!PhaseAgrees, EL!asked
  <2> QED BY <1>0, <1>6, <2>1, FinishSilent DEF Finish
<1>7. ASSUME NEW o \in OpId, AbortSignal(o), UNCHANGED indexVars
      PROVE  Asked'
  BY <1>0, <1>7, CallSilent DEF AbortSignal
<1>8. ASSUME NEW e \in Env, NEW ids \in LockChoices(e), Submit(e, ids)
      PROVE  Asked'
  <2>1. created + 1 > created /\ created + 1 \in OpId
    BY <1>8 DEF Submit, Types
  <2>2. step[created + 1] = "none"
    BY <2>1 DEF Registered
  <2>3. ids # {} /\ ids \subseteq Env
    BY OperationsAssumption DEF LockChoices
  <2>4. EL!asked[created + 1] = {}
    <3>1. phase[created + 1] = "idle"
      BY <2>1, <2>2 DEF Stages, EL!stages, EL!Stage
    <3> QED BY <2>1, <3>1 DEF EL!IInv, EL!PhaseAgrees, EL!asked
  <2> QED BY <1>0, <1>8, <2>1, <2>3, <2>4, LocksAlone DEF Submit, Reserved
<1>9. CASE Exit
  BY <1>9 DEF Exit, FreshMemory, Locks!Renew, Locks!Fresh, EL!asked
<1>10. CASE UNCHANGED <<step, indexVars, lockVars>>
  BY <1>10, LocksAlone
<1> HIDE DEF Asked, indexVars
<1> QED
  BY <1>1, <1>2, <1>3, <1>4, <1>5, <1>6, <1>7, <1>8, <1>9, <1>10
     DEF Next, Continue, vars, Cancel, AbortNext, Shutdown, Restart, indexVars
------------------------------------------------------------------------------
(* Records that are trimmed or interrupted are still records.              *)
LEMMA RecordTyping ==
  ASSUME NEW rs \in [OpId -> Records]
  PROVE  /\ Trim(rs) \in [OpId -> Records]
         /\ \A o \in OpId : rs[o].status \in Unfinished => Trim(rs)[o] = rs[o]
         /\ \A o \in OpId : Trim(rs)[o] = rs[o] \/ Trim(rs)[o].status = "none"
         /\ [o \in OpId |-> Interrupt(rs[o])] \in [OpId -> Records]
BY DEF Trim, Expired, Completed, Terminal, Records, NoRecord, Interrupt, Status, Unfinished

(* A status written into one record leaves the other records alone.        *)
LEMMA StatusTyping ==
  ASSUME record \in [OpId -> Records], NEW o \in OpId, NEW st \in Status
  PROVE  /\ WithStatus(o, st) \in [OpId -> Records]
         /\ WithStatus(o, st)[o].status = st
         /\ \A p \in OpId \ {o} : WithStatus(o, st)[p] = record[p]
<1>1. record[o] \in [status : Status \cup {"none"}, env : Env]
  BY OperationsAssumption DEF Records, NoRecord
<1>2. [record[o] EXCEPT !.status = st] \in [status : Status, env : Env]
  BY <1>1
<1> QED BY <1>2 DEF WithStatus, Records

(* Every step keeps the state well formed.                                 *)
LEMMA TypesStep == Types /\ SlotQueue /\ [Next]_vars => Types'
<1> SUFFICES ASSUME Types, SlotQueue, [Next]_vars PROVE Types'
  OBVIOUS
<1> USE DEF Types, hubVars, indexVars
<1>1. ASSUME NEW o \in OpId, Begin(o) \/ TakeLocks(o) \/ TakeSlot(o) \/ Unlock(o)
      PROVE  Types'
  BY <1>1 DEF Begin, TakeLocks, TakeSlot, Unlock, Steps
<1>2. ASSUME NEW o \in OpId, ReleaseSlot(o)
      PROVE  step' \in [OpId -> Steps]
  BY <1>2 DEF ReleaseSlot, Steps
<1>3. ASSUME NEW o \in OpId, Start(o)
      PROVE  Types'
  <2>1. "running" \in Status
    BY DEF Status
  <2> QED BY <1>2, <1>3, <2>1, StatusTyping DEF Start, Steps
<1>4. ASSUME NEW o \in OpId, WorkEnds(o)
      PROVE  Types'
  BY <1>2, <1>4 DEF WorkEnds
<1>5. ASSUME NEW o \in OpId, Finish(o)
      PROVE  Types'
  <2>1. Outcome(o) \subseteq Status
    BY DEF Outcome, Status
  <2>2. record' \in [OpId -> Records]
    BY <1>5, <2>1, StatusTyping, RecordTyping DEF Finish
  <2> QED BY <1>5, <2>2 DEF Finish, Steps
<1>6. ASSUME NEW o \in OpId, AbortSignal(o), UNCHANGED <<up, accepting, created, record, indexVars>>
      PROVE  Types'
  BY <1>6 DEF AbortSignal, Steps
<1>7. ASSUME NEW e \in Env, NEW ids \in LockChoices(e), Submit(e, ids)
      PROVE  Types'
  <2>1. ids \subseteq Env
    BY OperationsAssumption DEF LockChoices
  <2> QED BY <1>7, <2>1 DEF Submit, Reserved, Steps, Records, Status, OpId
<1>8. CASE Exit
  BY <1>8 DEF Exit, FreshMemory, Steps
<1>9. CASE Restart
  BY <1>9, RecordTyping DEF Restart
<1>10. CASE Shutdown
  BY <1>10 DEF Shutdown
<1>11. CASE UNCHANGED vars
  BY <1>11 DEF vars
<1> HIDE DEF Types, hubVars, indexVars
<1> QED
  BY <1>1, <1>3, <1>4, <1>5, <1>6, <1>7, <1>8, <1>9, <1>10, <1>11
     DEF Next, Continue, Cancel, AbortNext, hubVars

(* Inside locks.use nobody's signal changes.                               *)
LEMMA SignalsAlone ==
  ASSUME NEW o \in OpId, Begin(o) \/ TakeLocks(o) \/ TakeSlot(o) \/ Start(o) \/ WorkEnds(o) \/ Unlock(o)
  PROVE  aborted' = aborted
BY DEF Begin, TakeLocks, TakeSlot, Start, WorkEnds, Unlock, lockVars, Locks!Use, Locks!Grant,
       Locks!Queue, Locks!Throw, Locks!Leave, Locks!Enter, Locks!Finish, Locks!ReleaseAll

(* Within its function an operation stays active; of the others only one   *)
(* that waits for a slot may be moved on.                                  *)
LEMMA StepsWithin ==
  ASSUME Types, SlotQueue, NEW o \in OpId,
         \/ Begin(o) \/ TakeLocks(o) \/ TakeSlot(o) \/ Start(o) \/ WorkEnds(o) \/ Unlock(o)
         \/ AbortSignal(o)
  PROVE  /\ step' \in [OpId -> Steps]
         /\ \A p \in OpId : p # o => step'[p] = step[p] \/ (step[p] = "slotWaiting" /\ step'[p] = "slotted")
         /\ step[o] # "none" => step'[o] # "none"
         /\ thrown \subseteq thrown' /\ thrown' \subseteq thrown \cup {o}
<1> USE DEF Types, Steps
<1>1. ASSUME ReleaseSlot(o)
      PROVE  /\ step' \in [OpId -> Steps] /\ step'[o] = "unlocking"
             /\ \A p \in OpId : p # o =>
                  step'[p] = step[p] \/ (step[p] = "slotWaiting" /\ step'[p] = "slotted")
  BY <1>1, SlotGoesToWaiter DEF ReleaseSlot
<1>2. CASE Begin(o) \/ TakeLocks(o) \/ TakeSlot(o) \/ Unlock(o)
  BY <1>2 DEF Begin, TakeLocks, TakeSlot, Unlock
<1>3. CASE Start(o) \/ WorkEnds(o)
  BY <1>1, <1>3 DEF Start, WorkEnds
<1>4. CASE AbortSignal(o)
  BY <1>4 DEF AbortSignal
<1> QED BY <1>2, <1>3, <1>4

(* Every step keeps the registry of active operations, their steps and     *)
(* their unfinished records together.                                      *)
LEMMA RegisteredStep ==
  Types /\ SlotQueue /\ Registered /\ EL!IInv /\ [Next]_vars => Registered'
<1> SUFFICES ASSUME Types, SlotQueue, Registered, EL!IInv, [Next]_vars PROVE Registered'
  OBVIOUS
<1>0. step \in [OpId -> Steps] /\ record \in [OpId -> Records] /\ aborted \in [OpId -> BOOLEAN]
  BY DEF Types, EL!IInv, EL!TypeOK
<1> USE DEF Registered, hubVars, indexVars
<1>1. ASSUME NEW o \in OpId, Begin(o) \/ TakeLocks(o) \/ TakeSlot(o) \/ Unlock(o)
      PROVE  Registered'
  <2>1. step[o] # "none"
    BY <1>1 DEF Begin, TakeLocks, TakeSlot, Unlock
  <2>2. UNCHANGED <<hubVars, record, indexVars>>
    BY <1>1 DEF Begin, TakeLocks, TakeSlot, Unlock
  <2> QED BY <1>0, <1>1, <2>1, <2>2, StepsWithin, SignalsAlone
<1>2. ASSUME NEW o \in OpId, Start(o) \/ WorkEnds(o)
      PROVE  Registered'
  <2>1. step[o] # "none" /\ UNCHANGED <<hubVars, indexVars>>
    BY <1>2 DEF Start, WorkEnds
  <2>2. \A p \in OpId : record'[p] = record[p] \/ (p = o /\ record'[p].status = "running")
    BY <1>0, <1>2, StatusTyping DEF Start, WorkEnds, Status
  <2> QED BY <1>0, <1>2, <2>1, <2>2, StepsWithin, SignalsAlone DEF Unfinished
<1>3. ASSUME NEW o \in OpId, Finish(o), aborting = {}
      PROVE  Registered'
  <2>1. \A p \in OpId \ {o} : record[p].status \in Unfinished => record'[p] = record[p]
    <3>1. PICK st \in Outcome(o) : record' = Trim(WithStatus(o, st))
      BY <1>3 DEF Finish
    <3>2. st \in Status
      BY DEF Outcome, Status
    <3> QED BY <1>0, <3>1, <3>2, StatusTyping, RecordTyping
  <2>2. step' = [step EXCEPT ![o] = "none"] /\ active' = active \ {o} /\ thrown' = thrown \ {o}
    BY <1>3 DEF Finish
  <2> QED BY <1>0, <1>3, <2>1, <2>2 DEF Finish
<1>4. ASSUME NEW o \in active, AbortSignal(o), aborting' \subseteq aborting,
             UNCHANGED <<up, accepting, created, record, indexVars>>
      PROVE  Registered'
  <2>1. o \in OpId /\ aborted' = [aborted EXCEPT ![o] = TRUE]
    BY <1>4 DEF Types, AbortSignal, Locks!Abort
  <2> QED BY <1>0, <1>4, <2>1, StepsWithin
<1>5. ASSUME NEW e \in Env, NEW ids \in LockChoices(e), Submit(e, ids)
      PROVE  Registered'
  <2>1. created + 1 \in OpId /\ created' = created + 1 /\ created \in Nat
    BY <1>5 DEF Submit, Types
  <2>2. step' = [step EXCEPT ![created'] = "submitted"] /\ active' = active \cup {created'}
    BY <1>5, <2>1 DEF Submit
  <2>3. record' = [record EXCEPT ![created'] = [status |-> "queued", env |-> e]]
    BY <1>5, <2>1 DEF Submit
  <2>4. \A o \in OpId : o > created' => o > created /\ o # created'
    BY <2>1 DEF OpId
  <2> QED BY <1>0, <1>5, <2>1, <2>2, <2>3, <2>4 DEF Submit, Unfinished, lockVars
<1>6. CASE Exit
  BY <1>6 DEF Exit, FreshMemory, Locks!Renew, Locks!Fresh
<1>7. CASE Shutdown
  BY <1>7 DEF Shutdown, lockVars
<1>8. CASE Restart
  <2>1. active = {} /\ active' = {} /\ step' = step
    BY <1>8 DEF Restart
  <2> QED BY <1>8, <2>1 DEF Restart, lockVars
<1>9. CASE UNCHANGED vars
  BY <1>9 DEF vars, lockVars
<1>10. ASSUME NEW o \in OpId, Cancel(o)
       PROVE  Registered'
  BY <1>4, <1>10 DEF Cancel
<1>11. ASSUME NEW o \in OpId, AbortNext(o)
       PROVE  Registered'
  BY <1>4, <1>11 DEF AbortNext
<1> HIDE DEF Registered, hubVars, indexVars
<1> QED
  BY <1>1, <1>2, <1>3, <1>5, <1>6, <1>7, <1>8, <1>9, <1>10, <1>11 DEF Next, Continue
------------------------------------------------------------------------------
(* Who waits for a slot is in its queue, once, and only while none is free.*)
LEMMA SlotQueueStep == Types /\ SlotQueue /\ Registered /\ [Next]_vars => SlotQueue'
<1> SUFFICES ASSUME Types, SlotQueue, Registered, [Next]_vars PROVE SlotQueue'
  OBVIOUS
<1>0. step \in [OpId -> Steps] /\ slots \in SemaphoreOf(OpId)
      /\ slots.waiting \in Seq(OpId) /\ slots.available \in Nat
  BY DEF Types, SlotQueue, SemaphoreOf
<1> USE DEF SlotQueue
<1>1. ASSUME NEW o \in OpId, step[o] # "slotWaiting", ReleaseSlot(o)
      PROVE  SlotQueue'
  <2>1. /\ slots' = Release(slots)
        /\ step' = [p \in OpId |-> IF p = o THEN "unlocking"
                                   ELSE IF IsHead(slots, p) THEN "slotted" ELSE step[p]]
    BY <1>1 DEF ReleaseSlot
  <2>2. CASE slots.waiting = <<>>
    <3>1. slots' \in SemaphoreOf(OpId) /\ slots'.waiting = <<>>
      BY <1>0, <2>1, <2>2, ReleaseFields
    <3>2. \A p \in OpId : step'[p] = IF p = o THEN "unlocking" ELSE step[p]
      BY <2>1, <2>2 DEF IsHead
    <3> QED BY <1>0, <1>1, <2>2, <3>1, <3>2
  <2>3. CASE slots.waiting # <<>>
    <3>1. /\ slots' \in SemaphoreOf(OpId) /\ slots'.waiting = Tail(slots.waiting)
          /\ slots'.available = 0
      BY <1>0, <2>1, <2>3, ReleaseFields
    <3>2. /\ IsInjective(slots'.waiting)
          /\ ToSet(slots'.waiting) = ToSet(slots.waiting) \ {Head(slots.waiting)}
      BY <1>0, <2>3, <3>1, TailQueue
    <3>3. \A p \in OpId : step'[p] = IF p = o THEN "unlocking"
                                    ELSE IF p = Head(slots.waiting) THEN "slotted" ELSE step[p]
      BY <2>1, <2>3 DEF IsHead
    <3> QED BY <1>0, <1>1, <3>1, <3>2, <3>3
  <2> QED BY <2>2, <2>3
<1>2. ASSUME NEW o \in OpId, TakeSlot(o)
      PROVE  SlotQueue'
  <2>1. CASE slots' = slots /\ step' = [step EXCEPT ![o] = "unlocking"]
    BY <1>0, <1>2, <2>1 DEF TakeSlot
  <2>2. CASE CanTake(slots) /\ slots' = Take(slots) /\ step' = [step EXCEPT ![o] = "slotted"]
    <3>1. slots' \in SemaphoreOf(OpId) /\ slots'.waiting = slots.waiting /\ slots.waiting = <<>>
      BY <1>0, <2>2, TakeFields DEF CanTake
    <3> QED BY <1>0, <1>2, <2>2, <3>1 DEF TakeSlot
  <2>3. CASE ~CanTake(slots) /\ slots' = Enqueue(slots, o) /\ step' = [step EXCEPT ![o] = "slotWaiting"]
    <3>0. slots.available = 0
      BY <1>0, <2>3 DEF CanTake
    <3>1. /\ slots' \in SemaphoreOf(OpId) /\ slots'.waiting = Append(slots.waiting, o)
          /\ slots'.available = 0
      BY <1>0, <2>3, <3>0, EnqueueFields
    <3>2. o \notin ToSet(slots.waiting)
      BY <1>2 DEF TakeSlot
    <3>3. IsInjective(slots'.waiting) /\ ToSet(slots'.waiting) = ToSet(slots.waiting) \cup {o}
      BY <1>0, <3>1, <3>2, AppendQueue
    <3> QED BY <1>0, <2>3, <3>1, <3>3
  <2> QED BY <1>2, <2>1, <2>2, <2>3 DEF TakeSlot
<1>3. ASSUME NEW o \in OpId, AbortSignal(o)
      PROVE  SlotQueue'
  <2>1. CASE step[o] = "slotWaiting"
    <3>1. slots' = Withdraw(slots, o) /\ step' = [step EXCEPT ![o] = "unlocking"]
      BY <1>3, <2>1 DEF AbortSignal
    <3>2. /\ slots' \in SemaphoreOf(OpId) /\ slots'.waiting = RemoveFirst(slots.waiting, o)
          /\ slots'.available = slots.available
      BY <1>0, <3>1, WithdrawFields
    <3>3. IsInjective(slots'.waiting) /\ ToSet(slots'.waiting) = ToSet(slots.waiting) \ {o}
      BY <1>0, <3>2, RemoveQueue
    <3>4. slots'.waiting # <<>> => slots'.available = 0
      <4>1. o \in ToSet(slots.waiting)
        BY <2>1
      <4>2. slots.waiting # <<>>
        <5> SUFFICES ASSUME slots.waiting = <<>> PROVE FALSE
          OBVIOUS
        <5>1. ToSet(<<>>) = {}
          BY EmptySeq DEF ToSet
        <5> QED BY <4>1, <5>1
      <4> QED BY <3>2, <4>2
    <3> QED BY <1>0, <3>1, <3>2, <3>3, <3>4
  <2>2. CASE step[o] # "slotWaiting"
    BY <1>0, <1>3, <2>2 DEF AbortSignal
  <2> QED BY <2>1, <2>2
<1>4. ASSUME NEW o \in OpId, Start(o) \/ WorkEnds(o)
      PROVE  SlotQueue'
  BY <1>0, <1>1, <1>4 DEF Start, WorkEnds
<1>5. ASSUME NEW o \in OpId, Begin(o) \/ TakeLocks(o) \/ Unlock(o) \/ Finish(o)
      PROVE  SlotQueue'
  BY <1>0, <1>5 DEF Begin, TakeLocks, Unlock, Finish
<1>6. ASSUME NEW e \in Env, NEW ids, Submit(e, ids)
      PROVE  SlotQueue'
  <2>1. step[created + 1] = "none"
    BY <1>6 DEF Submit, Types, Registered, OpId
  <2> QED BY <1>0, <1>6, <2>1 DEF Submit
<1>7. CASE Exit
  <2>1. slots' = [available |-> Concurrency, waiting |-> <<>>] /\ step' = [o \in OpId |-> "none"]
    BY <1>7 DEF Exit, FreshMemory, New
  <2>2. <<>> \in Seq(OpId) /\ ToSet(<<>>) = {} /\ IsInjective(<<>>)
    BY EmptySeq DEF ToSet, IsInjective
  <2> QED BY <2>1, <2>2, OperationsAssumption DEF SemaphoreOf
<1>8. CASE UNCHANGED <<step, slots>>
  BY <1>8
<1> HIDE DEF SlotQueue
<1> QED
  BY <1>2, <1>3, <1>4, <1>5, <1>6, <1>7, <1>8
     DEF Next, Continue, vars, Cancel, AbortNext, Shutdown, Restart

(* The operations with a slot are finitely many, and counted.              *)
LEMMA SlottedFinite == IsFiniteSet(Slotted)
<1>1. Slotted \subseteq OpId /\ IsFiniteSet(OpId)
  BY FS_Interval, OperationsAssumption DEF Slotted, OpId
<1> QED BY <1>1, FS_Subset

(* A slot is taken, handed over or given back, and none is made or lost.   *)
LEMMA SlotsConservedStep ==
  Types /\ SlotQueue /\ SlotsConserved /\ Registered /\ [Next]_vars => SlotsConserved'
<1> SUFFICES ASSUME Types, SlotQueue, SlotsConserved, Registered, [Next]_vars
             PROVE  SlotsConserved'
  OBVIOUS
<1>0. /\ step \in [OpId -> Steps] /\ slots \in SemaphoreOf(OpId)
      /\ slots.waiting \in Seq(OpId) /\ slots.available \in Nat
      /\ slots.available + Cardinality(Slotted) = Concurrency
      /\ Cardinality(Slotted) \in Nat /\ IsFiniteSet(Slotted)
  BY SlottedFinite, FS_CardinalityType DEF Types, SlotQueue, SemaphoreOf, SlotsConserved
<1>1. ASSUME NEW o \in OpId, step[o] \in WithSlot, ReleaseSlot(o)
      PROVE  SlotsConserved'
  <2>0. /\ IsFiniteSet(Slotted \ {o})
        /\ Cardinality(Slotted \ {o}) = Cardinality(Slotted) - 1
    BY <1>0, <1>1, FS_RemoveElement DEF Slotted
  <2>1. /\ slots' = Release(slots)
        /\ step' = [p \in OpId |-> IF p = o THEN "unlocking"
                                   ELSE IF IsHead(slots, p) THEN "slotted" ELSE step[p]]
    BY <1>1 DEF ReleaseSlot
  <2>2. CASE slots.waiting = <<>>
    <3>1. slots'.available = slots.available + 1
      BY <1>0, <2>1, <2>2, ReleaseFields
    <3>2. Slotted' = Slotted \ {o}
      BY <2>1, <2>2 DEF IsHead, Slotted, WithSlot
    <3> QED BY <1>0, <2>0, <3>1, <3>2 DEF SlotsConserved
  <2>3. CASE slots.waiting # <<>>
    <3> DEFINE h == Head(slots.waiting)
    <3>1. slots'.available = slots.available
      BY <1>0, <2>1, <2>3, ReleaseFields
    <3>2. h \in OpId /\ step[h] = "slotWaiting"
      BY <1>0, <2>3, TailQueue DEF SlotQueue
    <3>3. h # o /\ h \notin Slotted \ {o}
      BY <1>1, <3>2 DEF Slotted, WithSlot
    <3>4. Slotted' = (Slotted \ {o}) \cup {h}
      BY <2>1, <2>3, <3>2, <3>3 DEF IsHead, Slotted, WithSlot
    <3>5. Cardinality((Slotted \ {o}) \cup {h}) = Cardinality(Slotted \ {o}) + 1
      BY <2>0, <3>3, FS_AddElement
    <3> QED BY <1>0, <2>0, <3>1, <3>4, <3>5 DEF SlotsConserved
  <2> QED BY <2>2, <2>3
<1>2. ASSUME slots'.available = slots.available, Slotted' = Slotted
      PROVE  SlotsConserved'
  BY <1>0, <1>2 DEF SlotsConserved
<1>3. ASSUME NEW o \in OpId, TakeSlot(o)
      PROVE  SlotsConserved'
  <2>1. CASE CanTake(slots) /\ slots' = Take(slots) /\ step' = [step EXCEPT ![o] = "slotted"]
    <3>1. slots'.available = slots.available - 1
      BY <1>0, <2>1, TakeFields
    <3>2. o \notin Slotted /\ Slotted' = Slotted \cup {o}
      BY <1>0, <1>3, <2>1 DEF TakeSlot, Slotted, WithSlot
    <3>3. Cardinality(Slotted') = Cardinality(Slotted) + 1
      BY <1>0, <3>2, FS_AddElement
    <3>4. slots'.available + Cardinality(Slotted') = Concurrency
      BY <1>0, <3>1, <3>3
    <3> QED BY <3>4 DEF SlotsConserved
  <2>2. CASE \/ slots' = slots /\ step' = [step EXCEPT ![o] = "unlocking"]
             \/ slots' = Enqueue(slots, o) /\ step' = [step EXCEPT ![o] = "slotWaiting"]
    <3>1. slots'.available = slots.available
      BY <1>0, <2>2, EnqueueFields
    <3>2. Slotted' = Slotted
      BY <1>0, <1>3, <2>2 DEF TakeSlot, Slotted, WithSlot
    <3> QED BY <1>2, <3>1, <3>2
  <2> QED BY <1>3, <2>1, <2>2 DEF TakeSlot
<1>4. ASSUME NEW o \in OpId, AbortSignal(o)
      PROVE  SlotsConserved'
  <2>1. slots'.available = slots.available
    BY <1>0, <1>4, WithdrawFields DEF AbortSignal, SlotQueue
  <2>2. Slotted' = Slotted
    BY <1>0, <1>4 DEF AbortSignal, Slotted, WithSlot
  <2> QED BY <1>2, <2>1, <2>2
<1>5. ASSUME NEW o \in OpId, Start(o) \/ WorkEnds(o)
      PROVE  SlotsConserved'
  <2>1. CASE slots' = slots /\ step[o] = "slotted" /\ step' = [step EXCEPT ![o] = "working"]
    <3>1. Slotted' = Slotted
      BY <1>0, <2>1 DEF Slotted, WithSlot
    <3> QED BY <1>2, <2>1, <3>1
  <2>2. CASE step[o] \in WithSlot /\ ReleaseSlot(o)
    BY <1>1, <2>2
  <2> QED BY <1>5, <2>1, <2>2 DEF Start, WorkEnds, WithSlot
<1>6. ASSUME NEW o \in OpId, Begin(o) \/ TakeLocks(o) \/ Unlock(o) \/ Finish(o)
      PROVE  SlotsConserved'
  <2>1. Slotted' = Slotted
    BY <1>0, <1>6 DEF Begin, TakeLocks, Unlock, Finish, Slotted, WithSlot
  <2> QED BY <1>2, <1>6, <2>1 DEF Begin, TakeLocks, Unlock, Finish
<1>7. ASSUME NEW e \in Env, NEW ids, Submit(e, ids)
      PROVE  SlotsConserved'
  <2>1. step[created + 1] = "none"
    BY <1>7 DEF Submit, Types, Registered, OpId
  <2>2. Slotted' = Slotted
    BY <1>0, <1>7, <2>1 DEF Submit, Slotted, WithSlot
  <2> QED BY <1>2, <1>7, <2>2 DEF Submit
<1>8. CASE Exit
  <2>1. slots'.available = Concurrency /\ Slotted' = {}
    BY <1>8 DEF Exit, FreshMemory, New, Slotted, WithSlot
  <2> QED BY <2>1, FS_EmptySet, OperationsAssumption DEF SlotsConserved
<1>9. CASE UNCHANGED <<step, slots>>
  BY <1>2, <1>9 DEF Slotted
<1> QED
  BY <1>3, <1>4, <1>5, <1>6, <1>7, <1>8, <1>9
     DEF Next, Continue, vars, Cancel, AbortNext, Shutdown, Restart
------------------------------------------------------------------------------
(* A hub that has just started, over whatever records it finds, satisfies  *)
(* the invariant.                                                          *)
LEMMA InitIInv == Init => IInv
<1> SUFFICES ASSUME Init PROVE IInv
  OBVIOUS
<1>1. EL!IInv
  <2>1. EL!Init
    BY DEF Init, Locks!Init, Locks!Fresh, Locks!New, EL!Init, EL!Fresh, EL!New
  <2> QED BY <2>1, EL!InitIInv, OperationsAssumption
<1>2. Types
  BY OperationsAssumption DEF Init, FreshMemory, Types, Records, Steps
<1>3. Stages /\ Asked
  BY DEF Init, FreshMemory, Locks!Init, Locks!Fresh, Stages, Asked, Outside, Inside,
         EL!stages, EL!Stage, EL!asked
<1>4. Registered
  BY DEF Init, FreshMemory, Locks!Init, Locks!Fresh, Registered
<1>5. SlotQueue
  <2>1. <<>> \in Seq(OpId) /\ ToSet(<<>>) = {} /\ IsInjective(<<>>)
    BY EmptySeq DEF ToSet, IsInjective
  <2> QED BY <2>1, OperationsAssumption DEF Init, FreshMemory, New, SlotQueue, SemaphoreOf
<1>6. SlotsConserved
  <2>1. Slotted = {} /\ slots.available = Concurrency
    BY DEF Init, FreshMemory, New, Slotted, WithSlot
  <2> QED BY <2>1, FS_EmptySet, OperationsAssumption DEF SlotsConserved
<1> QED BY <1>1, <1>2, <1>3, <1>4, <1>5, <1>6 DEF IInv

(* Every step keeps the invariant.                                         *)
LEMMA NextIInv == IInv /\ [Next]_vars => IInv'
BY LocksStep, StagesStep, AskedStep, RegisteredStep, TypesStep, SlotQueueStep, SlotsConservedStep
   DEF IInv

(* What the hub holds of its operations agrees, in every reachable state:  *)
(* the registry, the records, the slots and the calls of the locks.        *)
THEOREM Inductive == Spec => []IInv
<1>1. Init => IInv
  BY InitIInv
<1>2. IInv /\ [Next]_vars => IInv'
  BY NextIInv
<1> QED BY <1>1, <1>2, PTL DEF Spec

(* The state has the shape the code gives it, the abstract call of every   *)
(* lock included, and there are never more than Concurrency slots.         *)
THEOREM TypeCorrect == Spec => []TypeOK
<1>1. IInv => TypeOK
  <2> SUFFICES ASSUME IInv PROVE TypeOK
    OBVIOUS
  <2>1. Locks!TypeOK
    BY DEF IInv, EL!IInv, EL!TypeOK, Locks!TypeOK, EL!Phase, Locks!Phase
  <2>2. slots \in [available : 0 .. Concurrency, waiting : Seq(OpId)]
    <3>1. slots.available + Cardinality(Slotted) = Concurrency
      BY DEF IInv, SlotsConserved
    <3>2. Cardinality(Slotted) \in Nat
      BY SlottedFinite, FS_CardinalityType
    <3>3. slots \in [available : Nat, waiting : Seq(OpId)]
      BY DEF IInv, SlotQueue, SemaphoreOf
    <3> QED BY <3>1, <3>2, <3>3, OperationsAssumption
  <2> QED BY <2>1, <2>2 DEF IInv, Types, Registered, TypeOK
<1> QED BY <1>1, Inductive, PTL

(* No two operations at work share an environment, the clone source of     *)
(* either included (operations.ts:214-223).                                *)
THEOREM WorksAlone == Spec => []WorkExclusive
<1>1. IInv => WorkExclusive
  <2> SUFFICES ASSUME IInv PROVE WorkExclusive
    OBVIOUS
  <2>1. ASSUME NEW o \in OpId, step[o] \in WithSlot
        PROVE  held[o] = lockIds[o]
    <3>1. phase[o] = "working"
      BY <2>1 DEF IInv, Stages, Inside, WithSlot, EL!stages, EL!Stage
    <3>2. todo[o] = {}
      BY <3>1 DEF IInv, EL!IInv, EL!PhaseAgrees
    <3>3. EL!asked[o] = lockIds[o]
      BY <2>1 DEF IInv, Asked, Outside, WithSlot
    <3>4. EL!asked[o] = todo[o] \cup held[o]
      BY DEF EL!asked
    <3> QED BY <3>2, <3>3, <3>4
  <2>2. \A l \in Env : \A o, p \in OpId : l \in held[o] \cap held[p] => o = p
    BY DEF IInv, EL!IInv, EL!OnePermit
  <2>3. \A o \in OpId : lockIds[o] \subseteq Env
    BY DEF IInv, Types
  <2> QED BY <2>1, <2>2, <2>3 DEF WorkExclusive, WithSlot
<1> QED BY <1>1, Inductive, PTL

(* An environment that is not busy is in no operation's hands: idle        *)
(* shutdown may stop it (operations.ts:96-98).                             *)
THEOREM BusyIsHonest == Spec => []BusyCoversHands
<1>1. IInv => BusyCoversHands
  <2> SUFFICES ASSUME IInv, NEW e \in Env, NEW o \in OpId,
                      e \in held[o] \cup todo[o] \cup lockIds[o]
               PROVE  Busy(e)
    BY DEF BusyCoversHands
  <2>1. EL!asked[o] = todo[o] \cup held[o]
    BY DEF EL!asked
  <2>2. EL!asked[o] \subseteq lockIds[o] /\ lockIds[o] \subseteq reservations[o]
    BY DEF IInv, Asked
  <2> QED BY <2>1, <2>2 DEF Busy
<1> QED BY <1>1, Inductive, PTL

(* At most Concurrency operations have a slot at a time.                   *)
THEOREM SlotsLimit == Spec => [](Cardinality(Slotted) <= Concurrency)
<1>1. IInv => Cardinality(Slotted) <= Concurrency
  <2> SUFFICES ASSUME IInv PROVE Cardinality(Slotted) <= Concurrency
    OBVIOUS
  <2>1. slots.available \in Nat /\ slots.available + Cardinality(Slotted) = Concurrency
    BY DEF IInv, SlotQueue, SemaphoreOf, SlotsConserved
  <2>2. Cardinality(Slotted) \in Nat
    BY SlottedFinite, FS_CardinalityType
  <2> QED BY <2>1, <2>2, OperationsAssumption
<1> QED BY <1>1, Inductive, PTL
------------------------------------------------------------------------------
(* An operation that can no longer report success: it is gone with another *)
(* status, or its signal is aborted and its function throws on the way out.*)
Doomed(o) ==
  /\ o <= created
  /\ record[o].status # "succeeded"
  /\ o \in active => /\ aborted[o]
                     /\ step[o] \in {"unlocking", "finishing"} => o \in thrown

(* Once doomed an operation stays so, through its own steps, the steps of  *)
(* others, an exit of the hub and the restart that interrupts it.          *)
LEMMA DoomedStays ==
  ASSUME NEW o \in OpId
  PROVE  IInv /\ Doomed(o) /\ [Next]_vars => Doomed(o)'
<1> SUFFICES ASSUME IInv, Doomed(o), [Next]_vars PROVE Doomed(o)'
  OBVIOUS
<1>0. /\ Types /\ SlotQueue /\ Registered
      /\ step \in [OpId -> Steps] /\ record \in [OpId -> Records]
      /\ aborted \in [OpId -> BOOLEAN] /\ created \in Nat
  BY DEF IInv, Types, EL!IInv, EL!TypeOK
<1> USE DEF Doomed, hubVars, indexVars
<1>1. ASSUME NEW p \in OpId, Begin(p) \/ TakeLocks(p) \/ TakeSlot(p) \/ Start(p) \/ WorkEnds(p) \/ Unlock(p)
      PROVE  Doomed(o)'
  <2>1. aborted' = aborted /\ UNCHANGED <<hubVars, indexVars>>
    BY <1>1, SignalsAlone DEF Begin, TakeLocks, TakeSlot, Start, WorkEnds, Unlock
  <2>2. record'[o].status # "succeeded"
    BY <1>0, <1>1, StatusTyping DEF Begin, TakeLocks, TakeSlot, Start, WorkEnds, Unlock, Status
  <2>3. CASE p # o
    BY <1>0, <1>1, <2>1, <2>2, <2>3, StepsWithin
  <2>4. CASE p = o
    <3>1. ReleaseSlot(o) => step'[o] = "unlocking"
      BY DEF ReleaseSlot
    <3>2. step[o] # "none"
      BY <1>1, <2>4 DEF Begin, TakeLocks, TakeSlot, Start, WorkEnds, Unlock
    <3>3. o \in active
      BY <1>0, <3>2 DEF Registered
    <3>4. step'[o] \in {"unlocking", "finishing"} => o \in thrown'
      BY <1>0, <1>1, <2>4, <3>1, <3>3
         DEF Begin, TakeLocks, TakeSlot, Start, WorkEnds, Unlock
    <3> QED BY <2>1, <2>2, <3>4
  <2> QED BY <2>3, <2>4
<1>2. ASSUME NEW p \in OpId, Finish(p)
      PROVE  Doomed(o)'
  <2>1. PICK st \in Outcome(p) : record' = Trim(WithStatus(p, st))
    BY <1>2 DEF Finish
  <2>2. st \in Status
    BY DEF Outcome, Status
  <2>3. /\ WithStatus(p, st) \in [OpId -> Records]
        /\ WithStatus(p, st)[p].status = st
        /\ p # o => WithStatus(p, st)[o] = record[o]
    BY <1>0, <2>2, StatusTyping
  <2>4. record'[o] = WithStatus(p, st)[o] \/ record'[o].status = "none"
    BY <2>1, <2>3, RecordTyping
  <2>5. CASE p # o
    BY <1>0, <1>2, <2>3, <2>4, <2>5 DEF Finish
  <2>6. CASE p = o
    <3>1. o \in active
      BY <1>0, <1>2, <2>6 DEF Registered, Finish
    <3>2. st # "succeeded"
      BY <1>2, <2>6, <3>1 DEF Outcome, Finish
    <3> QED BY <1>2, <2>3, <2>4, <2>6, <3>2 DEF Finish
  <2> QED BY <2>5, <2>6
<1>3. ASSUME NEW p \in OpId, AbortSignal(p), UNCHANGED <<up, accepting, created, record, indexVars>>
      PROVE  Doomed(o)'
  <2>1. aborted' = [aborted EXCEPT ![p] = TRUE]
    BY <1>3 DEF AbortSignal, Locks!Abort
  <2> QED BY <1>0, <1>3, <2>1 DEF AbortSignal
<1>4. ASSUME NEW e \in Env, NEW ids \in LockChoices(e), Submit(e, ids)
      PROVE  Doomed(o)'
  <2>1. created' = created + 1 /\ o # created'
    BY <1>0, <1>4 DEF Submit, OpId
  <2>2. record'[o] = record[o] /\ step'[o] = step[o] /\ (o \in active' <=> o \in active)
    BY <1>0, <1>4, <2>1 DEF Submit
  <2> QED BY <1>0, <1>4, <2>1, <2>2 DEF Submit, lockVars, OpId
<1>5. CASE Exit
  BY <1>5 DEF Exit, FreshMemory
<1>6. CASE Restart
  <2>1. active' = {}
    BY <1>0, <1>6 DEF Restart, Registered
  <2>2. [p \in OpId |-> Interrupt(record[p])] \in [OpId -> Records]
    BY <1>0, RecordTyping
  <2>3. Interrupt(record[o]).status # "succeeded"
    BY <1>0 DEF Interrupt, Records, NoRecord
  <2>4. record'[o].status # "succeeded"
    BY <1>6, <2>2, <2>3, RecordTyping DEF Restart
  <2> QED BY <1>6, <2>1, <2>4 DEF Restart
<1>7. CASE Shutdown
  BY <1>7 DEF Shutdown, lockVars
<1>8. CASE UNCHANGED vars
  BY <1>8 DEF vars, lockVars
<1>9. ASSUME NEW p \in OpId, Cancel(p) \/ AbortNext(p)
      PROVE  Doomed(o)'
  BY <1>3, <1>9 DEF Cancel, AbortNext
<1> HIDE DEF Doomed, hubVars, indexVars
<1> QED
  BY <1>1, <1>2, <1>4, <1>5, <1>6, <1>7, <1>8, <1>9 DEF Next, Continue

(* An operation cancelled before its work ended never reports success, not *)
(* even after the hub exits and restarts (operations.ts:242-254, 69-95).   *)
THEOREM CancelIsFinal == Spec => CancelWins
<1> SUFFICES ASSUME NEW o \in OpId
             PROVE  Spec => [](aborted[o] /\ step[o] \notin {"unlocking", "finishing"}
                                 => [](record[o].status # "succeeded"))
  BY DEF CancelWins
<1>1. IInv /\ aborted[o] /\ step[o] \notin {"unlocking", "finishing"} => Doomed(o)
  <2> SUFFICES ASSUME IInv, aborted[o], step[o] \notin {"unlocking", "finishing"} PROVE Doomed(o)
    OBVIOUS
  <2>1. o \in active /\ step[o] # "none" /\ record[o].status \in Unfinished
    BY DEF IInv, Registered
  <2>2. o <= created
    BY <2>1 DEF IInv, Registered, Types, OpId
  <2> QED BY <2>1, <2>2 DEF Doomed, Unfinished
<1>2. IInv /\ Doomed(o) /\ [Next]_vars => Doomed(o)'
  BY DoomedStays
<1>3. Doomed(o) => record[o].status # "succeeded"
  BY DEF Doomed
<1> QED BY <1>1, <1>2, <1>3, Inductive, PTL DEF Spec
=============================================================================
