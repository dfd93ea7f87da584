--------------------------- MODULE ServiceProofs ----------------------------
(***************************************************************************)
(* The services of an environment: the safety of PgliteServer for any      *)
(* clients and any number of launches, and of Deployment for any services, *)
(* dependencies, manifests and addresses.                                  *)
(*                                                                         *)
(* In PgliteServer the data lock passes from hand to hand: a launch that   *)
(* is being created, its worker, a copier.  Holds says whose it is at      *)
(* every await of a call, Handover when a predecessor is out of the way.   *)
(* The session is clean or its client's: Clean says at which step of a     *)
(* reset it is which.                                                      *)
(*                                                                         *)
(* In Deployment a service is touched only before what depends on it has   *)
(* been started, and after what it depends on is done (Waves); so the      *)
(* addresses a process was given stay right (Started).  What is kept       *)
(* depends only on what is kept (Retaining), and what its record says of   *)
(* it is true (Fits, TrueRecords).                                         *)
(***************************************************************************)
EXTENDS Deployment, PgliteServer, SequenceTheorems, TLAPS

Messages == {"started", "stopped", "error", "resetting", "reset"}
Launching == {"starting", "launched", "closing"}

Flags == known \in BOOLEAN /\ backend \in BOOLEAN /\ occupied \in BOOLEAN /\ resetTimer \in BOOLEAN
Shape ==
  /\ call \in Kinds \cup {"none", "thrown"}
  /\ at \in {"none", "stopping", "locking", "recovering", "starting", "launched", "closing",
             "copying", "returning"}
  /\ gen \in 0 .. MaxLaunches /\ current \in 0 .. gen /\ lock \in 0 .. Copier
  /\ open \subseteq alive /\ alive \cup running \cup failed \subseteq 1 .. gen
  /\ ended \in [Launch -> {"no", "asking", "ending", "throwing", "done", "failed"}]
  /\ term \in [Launch -> {"none", "pending", "done", "late", "spoilt"}]
  /\ worker \in {"none", "opening", "listening", "up", "halting", "halted", "broken"}
  /\ {session, served} \subseteq Client \cup {Nobody}
  /\ reset \in {"none", "wire", "discard", "last", "failed"}
  /\ resetTimer => gen > 0

(* Each waiter is one of the clients, waits once, and may be late.         *)
Queues ==
  /\ waiters \in Seq(Client) /\ chan \in Seq(Messages)
  /\ \A i, j \in 1 .. Len(waiters) : waiters[i] = waiters[j] => i = j
  /\ late \subseteq {waiters[i] : i \in 1 .. Len(waiters)}

(* Who has the data lock.                                                  *)
Holds ==
  /\ \A g \in alive : lock = g
  /\ at = "copying" => lock = Copier
  /\ at = "recovering" => lock = gen + 1 /\ gen < MaxLaunches
  /\ lock > gen => at \in {"recovering", "copying"}
  /\ at \in Launching => lock \in {0, gen} /\ gen > 0
  /\ lock \in 1 .. gen => lock = current \/ at \in Launching \/ term[lock] = "late"

(* A launch that was stopped has let the lock go.                          *)
Released ==
  \A g \in Launch : /\ g > gen => term[g] = "none" /\ ended[g] = "no"
                    /\ term[g] \in {"done", "spoilt"} => lock # g
                    /\ ended[g] = "done" => term[g] = "done"

(* What the service had running is stopped before the next is launched or  *)
(* the service is forgotten.                                               *)
Passed == current = 0 \/ ended[current] = "done"
Handover ==
  /\ at # "none" => call # "none"
  /\ at = "stopping" => current # 0
  /\ at = "locking" /\ call # "clone" => Passed
  /\ at = "returning" /\ call = "remove" => Passed
  /\ at \in Launching \cup {"locking", "recovering", "copying"} => call # "remove"

(* Nothing is left of a worker that is gone; the session of one that lives *)
(* is that of the client it serves, and clean before it serves another.    *)
Clean ==
  /\ ~Live => /\ worker = "none" /\ served = Nobody /\ session = Nobody /\ reset = "none"
              /\ ~backend /\ ~occupied /\ waiters = <<>> /\ late = {} /\ chan = <<>>
  /\ ~occupied => session = Nobody /\ served = Nobody /\ ~backend
  /\ backend => served # Nobody
  /\ served # Nobody => session \in {Nobody, served}
  /\ reset # "none" => served = Nobody /\ ~backend
  /\ reset \in {"wire", "discard", "last"} => occupied
  /\ reset = "failed" => worker = "broken"
  /\ reset = "last" => session = Nobody

IInv == Flags /\ Shape /\ Queues /\ Holds /\ Released /\ Handover /\ Clean
------------------------------------------------------------------------------
(* When a reset ends, the first that waits and is not late is served; when *)
(* there is none, nobody waits any more.                                   *)
LEMMA Admission ==
  ASSUME Queues, ResetDone
  PROVE  /\ waiters' \in Seq(Client)
         /\ \A i, j \in 1 .. Len(waiters') : waiters'[i] = waiters'[j] => i = j
         /\ \/ served' \in Client /\ backend' /\ occupied' /\ worker = "up"
            \/ UNCHANGED <<served, backend>> /\ ~occupied'
<1>0. Len(waiters) \in Nat /\ \A i \in 1 .. Len(waiters) : waiters[i] \in Client
  BY LenProperties, ElementOfSeq DEF Queues
<1>1. CASE worker # "up"
  BY <1>1 DEF Queues, ResetDone
<1>2. CASE worker = "up" /\ \E i \in 1 .. Len(waiters) : Admissible(i)
  <2> DEFINE n == CHOOSE i \in 1 .. Len(waiters) : Admissible(i)
  <2>1. n \in 1 .. Len(waiters)
    BY <1>2
  <2>2. /\ served' = waiters[n] /\ backend' = TRUE /\ occupied' = TRUE
        /\ waiters' = SubSeq(waiters, n + 1, Len(waiters))
    BY <1>2 DEF ResetDone
  <2> HIDE DEF n
  <2>3. /\ waiters' \in Seq(Client)
        /\ Len(waiters') = IF n + 1 <= Len(waiters) THEN Len(waiters) - (n + 1) + 1 ELSE 0
        /\ \A i \in 1 .. Len(waiters) - (n + 1) + 1 : waiters'[i] = waiters[(n + 1) + i - 1]
    BY <1>0, <2>1, <2>2, SubSeqProperties DEF Queues
  <2>4. \A i \in 1 .. Len(waiters') : /\ n + i \in 1 .. Len(waiters)
                                     /\ waiters'[i] = waiters[n + i]
    <3> SUFFICES ASSUME NEW i \in 1 .. Len(waiters')
                 PROVE  n + i \in 1 .. Len(waiters) /\ waiters'[i] = waiters[n + i]
      OBVIOUS
    <3>1. n + 1 <= Len(waiters) /\ Len(waiters') = Len(waiters) - (n + 1) + 1
      BY <1>0, <2>1, <2>3
    <3>2. i \in 1 .. Len(waiters) - (n + 1) + 1 /\ (n + 1) + i - 1 = n + i
      BY <1>0, <2>1, <3>1
    <3> QED BY <1>0, <2>1, <2>3, <3>1, <3>2
  <2>5. \A i, j \in 1 .. Len(waiters') : waiters'[i] = waiters'[j] => n + i = n + j
    BY <2>4 DEF Queues
  <2>6. Len(waiters') \in Nat
    BY <2>3, LenProperties
  <2>7. \A i, j \in 1 .. Len(waiters') : n + i = n + j => i = j
    BY <1>0, <2>1, <2>6
  <2> QED BY <1>0, <1>2, <2>1, <2>2, <2>3, <2>5, <2>7
<1>3. CASE worker = "up" /\ ~ \E i \in 1 .. Len(waiters) : Admissible(i)
  <2>1. waiters' = <<>> /\ occupied' = FALSE /\ UNCHANGED <<served, backend>>
    BY <1>3, Zenon DEF ResetDone
  <2> QED BY <2>1
<1> QED BY <1>1, <1>2, <1>3

(* A waiter that withdraws leaves the others as they were.                 *)
LEMMA Withdrawal ==
  ASSUME Queues, NEW c \in Client, Gone(c)
  PROVE  /\ waiters' \in Seq(Client)
         /\ \A i, j \in 1 .. Len(waiters') : waiters'[i] = waiters'[j] => i = j
         /\ late' \subseteq {waiters'[i] : i \in 1 .. Len(waiters')}
<1>0. Len(waiters) \in Nat /\ \A i \in 1 .. Len(waiters) : waiters[i] \in Client
  BY LenProperties, ElementOfSeq DEF Queues
<1>1. PICK k \in 1 .. Len(waiters) : waiters[k] = c /\ waiters' = RemoveAt(waiters, k)
  BY DEF Gone
<1> DEFINE a == SubSeq(waiters, 1, k - 1)
           b == SubSeq(waiters, k + 1, Len(waiters))
<1>2. /\ a \in Seq(Client) /\ Len(a) = k - 1
      /\ \A i \in 1 .. k - 1 : a[i] = waiters[i]
  <2>1. /\ a \in Seq(Client)
        /\ Len(a) = IF 1 <= k - 1 THEN (k - 1) - 1 + 1 ELSE 0
        /\ \A i \in 1 .. (k - 1) - 1 + 1 : a[i] = waiters[1 + i - 1]
    BY <1>0, SubSeqProperties DEF Queues
  <2> QED BY <1>0, <2>1
<1>3. /\ b \in Seq(Client) /\ Len(b) = Len(waiters) - k
      /\ \A i \in 1 .. Len(waiters) - k : b[i] = waiters[k + i]
  <2>1. /\ b \in Seq(Client)
        /\ Len(b) = IF k + 1 <= Len(waiters) THEN Len(waiters) - (k + 1) + 1 ELSE 0
        /\ \A i \in 1 .. Len(waiters) - (k + 1) + 1 : b[i] = waiters[(k + 1) + i - 1]
    BY <1>0, SubSeqProperties DEF Queues
  <2> HIDE DEF b
  <2>2. Len(b) = Len(waiters) - k
    BY <1>0, <2>1
  <2>3. ASSUME NEW i \in 1 .. Len(waiters) - k PROVE b[i] = waiters[k + i]
    <3>1. i \in 1 .. Len(waiters) - (k + 1) + 1 /\ (k + 1) + i - 1 = k + i
      BY <1>0
    <3> QED BY <2>1, <3>1
  <2> QED BY <2>1, <2>2, <2>3
<1>4. waiters' = a \o b
  BY <1>1 DEF RemoveAt
<1> HIDE DEF a, b
<1>5. /\ waiters' \in Seq(Client) /\ Len(waiters') = Len(waiters) - 1
      /\ \A i \in 1 .. Len(waiters) - 1 :
           waiters'[i] = IF i < k THEN waiters[i] ELSE waiters[i + 1]
  <2>1. /\ waiters' \in Seq(Client) /\ Len(waiters') = Len(a) + Len(b)
        /\ \A i \in 1 .. Len(a) + Len(b) :
             waiters'[i] = IF i <= Len(a) THEN a[i] ELSE b[i - Len(a)]
    BY <1>2, <1>3, <1>4, ConcatProperties
  <2>2. Len(a) + Len(b) = Len(waiters) - 1
    BY <1>0, <1>2, <1>3
  <2>3. ASSUME NEW i \in 1 .. Len(waiters) - 1
        PROVE  waiters'[i] = IF i < k THEN waiters[i] ELSE waiters[i + 1]
    <3>1. CASE i < k
      BY <1>0, <1>2, <2>1, <2>2, <3>1
    <3>2. CASE ~(i < k)
      <4>1. i - (k - 1) \in 1 .. Len(waiters) - k /\ k + (i - (k - 1)) = i + 1 /\ ~(i <= k - 1)
        BY <1>0, <3>2
      <4> QED BY <1>2, <1>3, <2>1, <2>2, <3>2, <4>1
    <3> QED BY <3>1, <3>2
  <2> QED BY <2>1, <2>2, <2>3
<1>6. \A i, j \in 1 .. Len(waiters') : waiters'[i] = waiters'[j] => i = j
  <2> SUFFICES ASSUME NEW i \in 1 .. Len(waiters'), NEW j \in 1 .. Len(waiters'),
                      waiters'[i] = waiters'[j]
               PROVE  i = j
    OBVIOUS
  <2>1. (IF i < k THEN i ELSE i + 1) = (IF j < k THEN j ELSE j + 1)
    BY <1>0, <1>5 DEF Queues
  <2> QED BY <1>0, <1>5, <2>1
<1>7. ASSUME NEW x \in late'
      PROVE  \E i \in 1 .. Len(waiters') : x = waiters'[i]
  <2>1. x \in late /\ x # c
    BY <1>7 DEF Gone
  <2>2. PICK i \in 1 .. Len(waiters) : waiters[i] = x
    BY <2>1 DEF Queues
  <2>3. CASE i < k
    BY <1>0, <1>5, <2>2, <2>3
  <2>4. CASE i > k
    <3>1. i - 1 \in 1 .. Len(waiters) - 1 /\ ~(i - 1 < k) /\ (i - 1) + 1 = i
      BY <1>0, <2>4
    <3>2. waiters'[i - 1] = waiters[i]
      BY <1>5, <3>1
    <3> QED BY <1>0, <1>5, <2>2, <3>1, <3>2
  <2> QED BY <1>0, <1>1, <2>1, <2>2, <2>3, <2>4
<1> QED BY <1>5, <1>6, <1>7

(* What a message may change at the parent, whichever it is.               *)
LEMMA Received ==
  ASSUME Shape, Queues, Receive
  PROVE  /\ gen \in Launch /\ gen \in alive /\ chan' \in Seq(Messages)
         /\ UNCHANGED <<call, known, current, gen, lock, alive, open, worker, socketVars>>
         /\ at' = at \/ (at = "starting" /\ at' = "launched")
         /\ ended' \in [Launch -> {"no", "asking", "ending", "throwing", "done", "failed"}]
         /\ \A g \in Launch :
              ended'[g] = ended[g] \/ (g = gen /\ ended[g] = "asking" /\ ended'[g] = "ending")
         /\ term' \in [Launch -> {"none", "pending", "done", "late", "spoilt"}]
         /\ \A g \in Launch :
              term'[g] = term[g] \/ (g = gen /\ term[g] = "none" /\ term'[g] = "pending")
         /\ running' \subseteq running \cup {gen} /\ failed' \subseteq failed \cup {gen}
<1>0. /\ gen \in Launch /\ gen \in alive /\ Head(chan) \in Messages
      /\ chan' \in Seq(Messages)
      /\ UNCHANGED <<call, known, current, gen, lock, alive, open, worker, socketVars>>
      /\ ended \in [Launch -> {"no", "asking", "ending", "throwing", "done", "failed"}]
      /\ term \in [Launch -> {"none", "pending", "done", "late", "spoilt"}]
  BY ServerAssumption, HeadTailProperties DEF Receive, Live, Shape, Queues, Launch
<1>1. CASE Head(chan) = "started"
  BY <1>0, <1>1 DEF Receive
<1>2. CASE Head(chan) = "stopped"
  BY <1>0, <1>2 DEF Receive
<1>3. CASE Head(chan) = "error"
  BY <1>0, <1>3 DEF Receive, Fatal, Terminate
<1>4. CASE Head(chan) = "resetting"
  BY <1>0, <1>4 DEF Receive
<1>5. CASE Head(chan) = "reset"
  BY <1>0, <1>5 DEF Receive
<1> QED BY <1>0, <1>1, <1>2, <1>3, <1>4, <1>5 DEF Messages

(* A stop() that goes on asks for termination, or has settled.             *)
LEMMA StopGoesOn ==
  ASSUME Shape, NEW g \in Launch, StopStep(g)
  PROVE  /\ UNCHANGED <<runtimeVars, gen, lock, running, failed, alive, open, worker, socketVars,
              chan>>
         /\ ended[g] \in {"ending", "throwing"}
         /\ \/ /\ term[g] = "none" /\ ended' = ended
               /\ term' = [h \in Launch |-> IF h = g THEN "pending" ELSE term[h]]
            \/ /\ term[g] \in {"done", "late", "spoilt"} /\ term' = term
               /\ ended' \in [Launch -> {"no", "asking", "ending", "throwing", "done", "failed"}]
               /\ \A h \in Launch \ {g} : ended'[h] = ended[h]
               /\ ended'[g] \in {"done", "failed"} /\ (ended'[g] = "done" => term[g] = "done")
<1>1. CASE term[g] = "none"
  BY <1>1 DEF StopStep, End, Threw, Terminate, Shape
<1>2. CASE term[g] # "none"
  BY <1>2 DEF StopStep, End, Threw, Shape
<1> QED BY <1>1, <1>2

(* A flag is set or not.                                                   *)
LEMMA FlagsStep == Flags /\ Queues /\ [Next]_vars => Flags'
<1> SUFFICES ASSUME Flags, Queues, [Next]_vars PROVE Flags'
  OBVIOUS
<1> USE DEF Flags
<1>1. ASSUME NEW kind \in Kinds, Call(kind) PROVE Flags'
  BY <1>1, Zenon DEF Call, NeedsStop, StopHandle, runtimeVars, handleVars, socketVars, Quiet
<1>2. CASE HandleStopped
  BY <1>2, Zenon DEF HandleStopped, runtimeVars, handleVars, socketVars, Quiet
<1>3. CASE Return
  BY <1>3, Zenon DEF Return, runtimeVars, handleVars, socketVars, Quiet
<1>4. CASE TakeLock
  BY <1>4, Zenon DEF TakeLock, Lock, runtimeVars, handleVars, socketVars, Quiet
<1>5. CASE CopyEnds
  BY <1>5, Zenon DEF CopyEnds, runtimeVars, handleVars, socketVars, Quiet
<1>6. CASE Spawn
  BY <1>6, Zenon DEF Spawn, runtimeVars, handleVars, socketVars, Quiet
<1>7. CASE StartFailed
  BY <1>7, Zenon DEF StartFailed, Terminate, runtimeVars, handleVars, socketVars, Quiet
<1>8. CASE Closed
  BY <1>8, Zenon DEF Closed, runtimeVars, handleVars, socketVars, Quiet
<1>9. CASE Launched
  BY <1>9, Zenon DEF Launched, StopHandle, runtimeVars, handleVars, socketVars, Quiet
<1>10. CASE StartTimeout
  BY <1>10, Zenon DEF StartTimeout, Terminate, runtimeVars, handleVars, socketVars, Quiet
<1>11. CASE StopTimeout
  BY <1>11, Zenon DEF StopTimeout, runtimeVars, handleVars, socketVars, Quiet
<1>12. CASE Receive
  <2>0. Head(chan) \in Messages
    BY <1>12 DEF Queues, Receive, Messages
  <2>1. CASE Head(chan) = "started"
    BY <1>12, <2>1, Zenon DEF Receive, runtimeVars, handleVars, socketVars, Quiet
  <2>2. CASE Head(chan) = "stopped"
    BY <1>12, <2>2, Zenon DEF Receive, runtimeVars, handleVars, socketVars, Quiet
  <2>3. CASE Head(chan) = "error"
    BY <1>12, <2>3, Zenon DEF Receive, Fatal, Terminate, runtimeVars, handleVars, socketVars, Quiet
  <2>4. CASE Head(chan) = "resetting"
    BY <1>12, <2>4, Zenon DEF Receive, runtimeVars, handleVars, socketVars, Quiet
  <2>5. CASE Head(chan) = "reset"
    BY <1>12, <2>5, Zenon DEF Receive, runtimeVars, handleVars, socketVars, Quiet
  <2> QED BY <2>0, <2>1, <2>2, <2>3, <2>4, <2>5 DEF Messages
<1>13. CASE ResetTimeout
  BY <1>13, Zenon DEF ResetTimeout, Fatal, Terminate, runtimeVars, handleVars, socketVars, Quiet
<1>14. CASE Crash
  BY <1>14, Zenon DEF Crash, Fatal, Terminate, runtimeVars, handleVars, socketVars, Quiet
<1>15. CASE Halt
  BY <1>15, Zenon DEF Halt, runtimeVars, handleVars, socketVars, Quiet
<1>16. CASE Halted
  BY <1>16, Zenon DEF Halted, runtimeVars, handleVars, socketVars, Quiet
<1>17. CASE WorkerOpen
  BY <1>17, Zenon DEF WorkerOpen, runtimeVars, handleVars, socketVars, Quiet
<1>18. CASE Listen
  BY <1>18, Zenon DEF Listen, runtimeVars, handleVars, socketVars, Quiet
<1>19. CASE Breaks
  BY <1>19, Zenon DEF Breaks, runtimeVars, handleVars, socketVars, Quiet
<1>20. ASSUME NEW g \in Launch, StopStep(g) PROVE Flags'
  BY <1>20, Zenon DEF StopStep, End, Threw, Terminate, runtimeVars, handleVars, socketVars, Quiet
<1>21. ASSUME NEW g \in Launch, Exit(g) PROVE Flags'
  BY <1>21, Zenon DEF Exit, runtimeVars, handleVars, socketVars, Quiet
<1>22. ASSUME NEW g \in Launch, Unlock(g) PROVE Flags'
  BY <1>22, Zenon DEF Unlock, runtimeVars, handleVars, socketVars, Quiet
<1>23. ASSUME NEW g \in Launch, GraceOver(g) PROVE Flags'
  BY <1>23, Zenon DEF GraceOver, runtimeVars, handleVars, socketVars, Quiet
<1>24. ASSUME NEW c \in Client, Connect(c) PROVE Flags'
  BY <1>24, Zenon DEF Connect, In, runtimeVars, handleVars, socketVars, Quiet
<1>25. ASSUME NEW c \in Client, Withdraw(c) PROVE Flags'
  BY <1>25, Zenon DEF Withdraw, Gone, runtimeVars, handleVars, socketVars, Quiet
<1>26. ASSUME NEW c \in Client, Overdue(c) PROVE Flags'
  BY <1>26, Zenon DEF Overdue, In, runtimeVars, handleVars, socketVars, Quiet
<1>27. CASE Use
  BY <1>27, Zenon DEF Use, runtimeVars, handleVars, socketVars, Quiet
<1>28. CASE Leave
  BY <1>28, Zenon DEF Leave, Told, runtimeVars, handleVars, socketVars, Quiet
<1>29. CASE BackendClosed
  BY <1>29, Zenon DEF BackendClosed, Told, runtimeVars, handleVars, socketVars, Quiet
<1>30. CASE ResetStep
  BY <1>30, Zenon DEF ResetStep, runtimeVars, handleVars, socketVars, Quiet
<1>31. CASE ResetDone
  BY <1>31, Zenon DEF ResetDone, Admissible, runtimeVars, handleVars, socketVars, Quiet
<1>32. CASE ResetFails
  BY <1>32, Zenon DEF ResetFails, runtimeVars, handleVars, socketVars, Quiet
<1>33. CASE UNCHANGED vars
  BY <1>33, Zenon DEF vars, runtimeVars, handleVars, socketVars, Quiet
<1> QED
  BY <1>1, <1>2, <1>3, <1>4, <1>5, <1>6, <1>7, <1>8, <1>9, <1>10, <1>11, <1>12, <1>13, <1>14,
      <1>15, <1>16, <1>17, <1>18, <1>19, <1>20, <1>21, <1>22, <1>23, <1>24, <1>25, <1>26, <1>27,
        <1>28, <1>29, <1>30, <1>31, <1>32, <1>33
     DEF Next, Runtime

(* What a call waits for, the launches and their workers.                  *)
LEMMA ShapeStep == Shape /\ Queues /\ Holds /\ [Next]_vars => Shape'
<1> SUFFICES ASSUME Shape, Queues, Holds, [Next]_vars PROVE Shape'
  OBVIOUS
<1> USE ServerAssumption DEF Shape, Kinds, Launch, Copier
<1>1. ASSUME NEW kind \in Kinds, Call(kind) PROVE Shape'
  BY <1>1 DEF Call, NeedsStop, StopHandle, runtimeVars, handleVars, socketVars, Quiet, Live
<1>2. CASE HandleStopped
  BY <1>2 DEF HandleStopped, runtimeVars, handleVars, socketVars, Quiet, Live
<1>3. CASE Return
  BY <1>3 DEF Return, runtimeVars, handleVars, socketVars, Quiet, Live
<1>4. CASE TakeLock
  BY <1>4 DEF TakeLock, Lock, runtimeVars, handleVars, socketVars, Quiet, Live
<1>5. CASE CopyEnds
  BY <1>5 DEF CopyEnds, runtimeVars, handleVars, socketVars, Quiet, Live
<1>6. CASE Spawn
  BY <1>6 DEF Spawn, Holds, runtimeVars, handleVars, socketVars, Quiet, Live
<1>7. CASE StartFailed
  BY <1>7 DEF StartFailed, Terminate, runtimeVars, handleVars, socketVars, Quiet, Live
<1>8. CASE Closed
  BY <1>8 DEF Closed, runtimeVars, handleVars, socketVars, Quiet, Live
<1>9. CASE Launched
  BY <1>9 DEF Launched, StopHandle, runtimeVars, handleVars, socketVars, Quiet, Live
<1>10. CASE StartTimeout
  BY <1>10 DEF StartTimeout, Terminate, runtimeVars, handleVars, socketVars, Quiet, Live
<1>11. CASE StopTimeout
  BY <1>11 DEF StopTimeout, runtimeVars, handleVars, socketVars, Quiet, Live
<1>12. CASE Receive
  <2>1. gen' > 0
    BY <1>12, Received
  <2> QED BY <1>12, <2>1, Received DEF socketVars
<1>13. CASE ResetTimeout
  BY <1>13 DEF ResetTimeout, Fatal, Terminate, runtimeVars, handleVars, socketVars, Quiet, Live
<1>14. CASE Crash
  <2>1. CASE Fatal /\ ended' = [ended EXCEPT ![gen] = IF @ = "asking" THEN "ending" ELSE @]
    BY <1>14, <2>1 DEF Crash, Fatal, Terminate, runtimeVars, handleVars, socketVars, Quiet, Live
  <2>2. CASE /\ running' = running \ {gen} /\ UNCHANGED <<failed, term, resetTimer>>
             /\ ended' = [ended EXCEPT ![gen] = IF @ = "asking" THEN "throwing" ELSE @]
    BY <1>14, <2>2 DEF Crash, runtimeVars, handleVars, socketVars, Quiet, Live
  <2> QED BY <1>14, <2>1, <2>2 DEF Crash
<1>15. CASE Halt
  BY <1>15 DEF Halt, runtimeVars, handleVars, socketVars, Quiet, Live
<1>16. CASE Halted
  BY <1>16 DEF Halted, runtimeVars, handleVars, socketVars, Quiet, Live
<1>17. CASE WorkerOpen
  BY <1>17 DEF WorkerOpen, runtimeVars, handleVars, socketVars, Quiet, Live
<1>18. CASE Listen
  BY <1>18 DEF Listen, runtimeVars, handleVars, socketVars, Quiet, Live
<1>19. CASE Breaks
  BY <1>19 DEF Breaks, runtimeVars, handleVars, socketVars, Quiet, Live
<1>20. ASSUME NEW g \in Launch, StopStep(g) PROVE Shape'
  BY <1>20 DEF StopStep, End, Threw, Terminate, runtimeVars, handleVars, socketVars, Quiet, Live
<1>21. ASSUME NEW g \in Launch, Exit(g) PROVE Shape'
  BY <1>21 DEF Exit, runtimeVars, handleVars, socketVars, Quiet, Live
<1>22. ASSUME NEW g \in Launch, Unlock(g) PROVE Shape'
  BY <1>22 DEF Unlock, runtimeVars, handleVars, socketVars, Quiet, Live
<1>23. ASSUME NEW g \in Launch, GraceOver(g) PROVE Shape'
  BY <1>23 DEF GraceOver, runtimeVars, handleVars, socketVars, Quiet, Live
<1>24. ASSUME NEW c \in Client, Connect(c) PROVE Shape'
  BY <1>24 DEF Connect, In, runtimeVars, handleVars, socketVars, Quiet, Live
<1>25. ASSUME NEW c \in Client, Withdraw(c) PROVE Shape'
  BY <1>25 DEF Withdraw, Gone, runtimeVars, handleVars, socketVars, Quiet, Live
<1>26. ASSUME NEW c \in Client, Overdue(c) PROVE Shape'
  BY <1>26 DEF Overdue, In, runtimeVars, handleVars, socketVars, Quiet, Live
<1>27. CASE Use
  BY <1>27 DEF Use, runtimeVars, handleVars, socketVars, Quiet, Live
<1>28. CASE Leave
  BY <1>28 DEF Leave, Told, runtimeVars, handleVars, socketVars, Quiet, Live
<1>29. CASE BackendClosed
  BY <1>29 DEF BackendClosed, Told, runtimeVars, handleVars, socketVars, Quiet, Live
<1>30. CASE ResetStep
  BY <1>30 DEF ResetStep, runtimeVars, handleVars, socketVars, Quiet, Live
<1>31. CASE ResetDone
  BY <1>31, Admission DEF ResetDone, runtimeVars, handleVars, socketVars, Quiet, Live
<1>32. CASE ResetFails
  BY <1>32 DEF ResetFails, runtimeVars, handleVars, socketVars, Quiet, Live
<1>33. CASE UNCHANGED vars
  BY <1>33 DEF vars, runtimeVars, handleVars, socketVars, Quiet, Live
<1> QED
  BY <1>1, <1>2, <1>3, <1>4, <1>5, <1>6, <1>7, <1>8, <1>9, <1>10, <1>11, <1>12, <1>13, <1>14,
      <1>15, <1>16, <1>17, <1>18, <1>19, <1>20, <1>21, <1>22, <1>23, <1>24, <1>25, <1>26, <1>27,
        <1>28, <1>29, <1>30, <1>31, <1>32, <1>33
     DEF Next, Runtime

(* The clients that wait and the messages under way.                       *)
LEMMA QueuesStep == Clean /\ Queues /\ [Next]_vars => Queues'
<1> SUFFICES ASSUME Clean, Queues, [Next]_vars PROVE Queues'
  OBVIOUS
<1> USE DEF Queues
<1>1. ASSUME NEW kind \in Kinds, Call(kind) PROVE Queues'
  BY <1>1 DEF Call, NeedsStop, StopHandle, runtimeVars, handleVars, socketVars, Quiet, Messages
<1>2. CASE HandleStopped
  BY <1>2 DEF HandleStopped, runtimeVars, handleVars, socketVars, Quiet, Messages
<1>3. CASE Return
  BY <1>3 DEF Return, runtimeVars, handleVars, socketVars, Quiet, Messages
<1>4. CASE TakeLock
  BY <1>4 DEF TakeLock, Lock, runtimeVars, handleVars, socketVars, Quiet, Messages
<1>5. CASE CopyEnds
  BY <1>5 DEF CopyEnds, runtimeVars, handleVars, socketVars, Quiet, Messages
<1>6. CASE Spawn
  BY <1>6 DEF Spawn, runtimeVars, handleVars, socketVars, Quiet, Messages
<1>7. CASE StartFailed
  BY <1>7 DEF StartFailed, Terminate, runtimeVars, handleVars, socketVars, Quiet, Messages
<1>8. CASE Closed
  BY <1>8 DEF Closed, runtimeVars, handleVars, socketVars, Quiet, Messages
<1>9. CASE Launched
  BY <1>9 DEF Launched, StopHandle, runtimeVars, handleVars, socketVars, Quiet, Messages
<1>10. CASE StartTimeout
  BY <1>10 DEF StartTimeout, Terminate, runtimeVars, handleVars, socketVars, Quiet, Messages
<1>11. CASE StopTimeout
  BY <1>11 DEF StopTimeout, runtimeVars, handleVars, socketVars, Quiet, Messages
<1>12. CASE Receive
  BY <1>12, HeadTailProperties DEF Receive, runtimeVars, handleVars, socketVars, Quiet, Messages
<1>13. CASE ResetTimeout
  BY <1>13 DEF ResetTimeout, Fatal, Terminate, runtimeVars, handleVars, socketVars, Quiet, Messages
<1>14. CASE Crash
  BY <1>14 DEF Crash, Fatal, Terminate, runtimeVars, handleVars, socketVars, Quiet, Messages
<1>15. CASE Halt
  BY <1>15 DEF Halt, runtimeVars, handleVars, socketVars, Quiet, Messages
<1>16. CASE Halted
  BY <1>16 DEF Halted, runtimeVars, handleVars, socketVars, Quiet, Messages
<1>17. CASE WorkerOpen
  BY <1>17 DEF WorkerOpen, runtimeVars, handleVars, socketVars, Quiet, Messages
<1>18. CASE Listen
  BY <1>18 DEF Listen, runtimeVars, handleVars, socketVars, Quiet, Messages
<1>19. CASE Breaks
  BY <1>19 DEF Breaks, runtimeVars, handleVars, socketVars, Quiet, Messages
<1>20. ASSUME NEW g \in Launch, StopStep(g) PROVE Queues'
  BY <1>20 DEF StopStep, End, Threw, Terminate, runtimeVars, handleVars, socketVars, Quiet, Messages
<1>21. ASSUME NEW g \in Launch, Exit(g) PROVE Queues'
  <2>1. CASE g = gen
    <3>1. waiters' = <<>> /\ late' = {} /\ chan' = <<>>
      BY <1>21, <2>1, Zenon DEF Exit
    <3> QED BY <3>1
  <2>2. CASE g # gen
    BY <1>21, <2>2 DEF Exit, socketVars
  <2> QED BY <2>1, <2>2
<1>22. ASSUME NEW g \in Launch, Unlock(g) PROVE Queues'
  BY <1>22 DEF Unlock, runtimeVars, handleVars, socketVars, Quiet, Messages
<1>23. ASSUME NEW g \in Launch, GraceOver(g) PROVE Queues'
  BY <1>23 DEF GraceOver, runtimeVars, handleVars, socketVars, Quiet, Messages
<1>24. ASSUME NEW c \in Client, Connect(c) PROVE Queues'
  <2>1. CASE occupied
    <3>1. waiters' = Append(waiters, c) /\ UNCHANGED <<late, chan>>
      BY <1>24, <2>1, Zenon DEF Connect
    <3>2. /\ waiters' \in Seq(Client) /\ Len(waiters') = Len(waiters) + 1
          /\ \A i \in 1 .. Len(waiters) : waiters'[i] = waiters[i]
          /\ waiters'[Len(waiters) + 1] = c /\ Len(waiters) \in Nat
      BY <3>1, AppendProperties, LenProperties
    <3>3. \A i \in 1 .. Len(waiters) : waiters[i] # c
      BY <1>24 DEF Connect, In
    <3>4. \A i, j \in 1 .. Len(waiters') : waiters'[i] = waiters'[j] => i = j
      BY <3>2, <3>3
    <3>5. \A x \in late' : \E i \in 1 .. Len(waiters') : x = waiters'[i]
      BY <3>1, <3>2
    <3> QED BY <3>1, <3>2, <3>4, <3>5
  <2>2. CASE ~occupied
    BY <1>24, <2>2 DEF Connect
  <2> QED BY <2>1, <2>2
<1>25. ASSUME NEW c \in Client, Withdraw(c) PROVE Queues'
  BY <1>25, Withdrawal DEF Withdraw, runtimeVars, handleVars, socketVars, Quiet, Messages
<1>26. ASSUME NEW c \in Client, Overdue(c) PROVE Queues'
  BY <1>26 DEF Overdue, In, runtimeVars, handleVars, socketVars, Quiet, Messages
<1>27. CASE Use
  BY <1>27 DEF Use, runtimeVars, handleVars, socketVars, Quiet, Messages
<1>28. CASE Leave
  BY <1>28 DEF Leave, Told, runtimeVars, handleVars, socketVars, Quiet, Messages
<1>29. CASE BackendClosed
  BY <1>29 DEF BackendClosed, Told, runtimeVars, handleVars, socketVars, Quiet, Messages
<1>30. CASE ResetStep
  BY <1>30 DEF ResetStep, runtimeVars, handleVars, socketVars, Quiet, Messages
<1>31. CASE ResetDone
  <2>1. /\ chan' = Append(chan, "reset")
        /\ late' = late \cap {waiters'[i] : i \in 1 .. Len(waiters')}
    BY <1>31 DEF ResetDone
  <2> QED BY <2>1, <1>31, Admission, AppendProperties DEF Messages
<1>32. CASE ResetFails
  BY <1>32 DEF ResetFails, runtimeVars, handleVars, socketVars, Quiet, Messages
<1>33. CASE UNCHANGED vars
  BY <1>33 DEF vars, runtimeVars, handleVars, socketVars, Quiet, Messages
<1> QED
  BY <1>1, <1>2, <1>3, <1>4, <1>5, <1>6, <1>7, <1>8, <1>9, <1>10, <1>11, <1>12, <1>13, <1>14,
      <1>15, <1>16, <1>17, <1>18, <1>19, <1>20, <1>21, <1>22, <1>23, <1>24, <1>25, <1>26, <1>27,
        <1>28, <1>29, <1>30, <1>31, <1>32, <1>33
     DEF Next, Runtime

(* Whose the lock is.                                                      *)
LEMMA HoldsStep == Shape /\ Queues /\ Holds /\ Released /\ Handover /\ [Next]_vars => Holds'
<1> SUFFICES ASSUME Shape, Queues, Holds, Released, Handover, [Next]_vars PROVE Holds'
  OBVIOUS
<1> USE ServerAssumption DEF Shape, Holds, Released, Handover, Launch, Copier, Launching, Passed
<1>1. ASSUME NEW kind \in Kinds, Call(kind) PROVE Holds'
  BY <1>1 DEF Call, NeedsStop, StopHandle, runtimeVars, handleVars, socketVars, Quiet, Live
<1>2. CASE HandleStopped
  BY <1>2 DEF HandleStopped, runtimeVars, handleVars, socketVars, Quiet, Live
<1>3. CASE Return
  BY <1>3 DEF Return, runtimeVars, handleVars, socketVars, Quiet, Live
<1>4. CASE TakeLock
  BY <1>4 DEF TakeLock, Lock, runtimeVars, handleVars, socketVars, Quiet, Live
<1>5. CASE CopyEnds
  BY <1>5 DEF CopyEnds, runtimeVars, handleVars, socketVars, Quiet, Live
<1>6. CASE Spawn
  BY <1>6 DEF Spawn, runtimeVars, handleVars, socketVars, Quiet, Live
<1>7. CASE StartFailed
  BY <1>7 DEF StartFailed, Terminate, runtimeVars, handleVars, socketVars, Quiet, Live
<1>8. CASE Closed
  BY <1>8 DEF Closed, Threw, runtimeVars, handleVars, socketVars, Quiet, Live
<1>9. CASE Launched
  BY <1>9 DEF Launched, StopHandle, runtimeVars, handleVars, socketVars, Quiet, Live
<1>10. CASE StartTimeout
  BY <1>10 DEF StartTimeout, Terminate, runtimeVars, handleVars, socketVars, Quiet, Live
<1>11. CASE StopTimeout
  BY <1>11 DEF StopTimeout, runtimeVars, handleVars, socketVars, Quiet, Live
<1>12. CASE Receive
  BY <1>12, Received DEF socketVars
<1>13. CASE ResetTimeout
  BY <1>13 DEF ResetTimeout, Fatal, Terminate, runtimeVars, handleVars, socketVars, Quiet, Live
<1>14. CASE Crash
  <2>1. CASE Fatal /\ ended' = [ended EXCEPT ![gen] = IF @ = "asking" THEN "ending" ELSE @]
    BY <1>14, <2>1 DEF Crash, Fatal, Terminate, runtimeVars, handleVars, socketVars, Quiet, Live
  <2>2. CASE /\ running' = running \ {gen} /\ UNCHANGED <<failed, term, resetTimer>>
             /\ ended' = [ended EXCEPT ![gen] = IF @ = "asking" THEN "throwing" ELSE @]
    BY <1>14, <2>2 DEF Crash, runtimeVars, handleVars, socketVars, Quiet, Live
  <2> QED BY <1>14, <2>1, <2>2 DEF Crash
<1>15. CASE Halt
  BY <1>15 DEF Halt, runtimeVars, handleVars, socketVars, Quiet, Live
<1>16. CASE Halted
  BY <1>16 DEF Halted, runtimeVars, handleVars, socketVars, Quiet, Live
<1>17. CASE WorkerOpen
  BY <1>17 DEF WorkerOpen, runtimeVars, handleVars, socketVars, Quiet, Live
<1>18. CASE Listen
  BY <1>18 DEF Listen, runtimeVars, handleVars, socketVars, Quiet, Live
<1>19. CASE Breaks
  BY <1>19 DEF Breaks, runtimeVars, handleVars, socketVars, Quiet, Live
<1>20. ASSUME NEW g \in Launch, StopStep(g) PROVE Holds'
  BY <1>20, StopGoesOn DEF runtimeVars, handleVars, socketVars, Quiet, Live
<1>21. ASSUME NEW g \in Launch, Exit(g) PROVE Holds'
  BY <1>21 DEF Exit, runtimeVars, handleVars, socketVars, Quiet, Live
<1>22. ASSUME NEW g \in Launch, Unlock(g) PROVE Holds'
  BY <1>22 DEF Unlock, runtimeVars, handleVars, socketVars, Quiet, Live
<1>23. ASSUME NEW g \in Launch, GraceOver(g) PROVE Holds'
  BY <1>23 DEF GraceOver, runtimeVars, handleVars, socketVars, Quiet, Live
<1>24. ASSUME NEW c \in Client, Connect(c) PROVE Holds'
  BY <1>24 DEF Connect, In, runtimeVars, handleVars, socketVars, Quiet, Live
<1>25. ASSUME NEW c \in Client, Withdraw(c) PROVE Holds'
  BY <1>25 DEF Withdraw, Gone, runtimeVars, handleVars, socketVars, Quiet, Live
<1>26. ASSUME NEW c \in Client, Overdue(c) PROVE Holds'
  BY <1>26 DEF Overdue, In, runtimeVars, handleVars, socketVars, Quiet, Live
<1>27. CASE Use
  BY <1>27 DEF Use, runtimeVars, handleVars, socketVars, Quiet, Live
<1>28. CASE Leave
  BY <1>28 DEF Leave, Told, runtimeVars, handleVars, socketVars, Quiet, Live
<1>29. CASE BackendClosed
  BY <1>29 DEF BackendClosed, Told, runtimeVars, handleVars, socketVars, Quiet, Live
<1>30. CASE ResetStep
  BY <1>30 DEF ResetStep, runtimeVars, handleVars, socketVars, Quiet, Live
<1>31. CASE ResetDone
  BY <1>31 DEF ResetDone, Admissible, runtimeVars, handleVars, socketVars, Quiet, Live
<1>32. CASE ResetFails
  BY <1>32 DEF ResetFails, runtimeVars, handleVars, socketVars, Quiet, Live
<1>33. CASE UNCHANGED vars
  BY <1>33 DEF vars, runtimeVars, handleVars, socketVars, Quiet, Live
<1> QED
  BY <1>1, <1>2, <1>3, <1>4, <1>5, <1>6, <1>7, <1>8, <1>9, <1>10, <1>11, <1>12, <1>13, <1>14,
      <1>15, <1>16, <1>17, <1>18, <1>19, <1>20, <1>21, <1>22, <1>23, <1>24, <1>25, <1>26, <1>27,
        <1>28, <1>29, <1>30, <1>31, <1>32, <1>33
     DEF Next, Runtime

(* What has let go of it.                                                  *)
LEMMA ReleasedStep == Shape /\ Queues /\ Holds /\ Released /\ [Next]_vars => Released'
<1> SUFFICES ASSUME Shape, Queues, Holds, Released, [Next]_vars PROVE Released'
  OBVIOUS
<1> USE ServerAssumption DEF Shape, Holds, Released, Launch, Copier, Launching
<1>1. ASSUME NEW kind \in Kinds, Call(kind) PROVE Released'
  BY <1>1 DEF Call, NeedsStop, StopHandle, runtimeVars, handleVars, socketVars, Quiet, Live
<1>2. CASE HandleStopped
  BY <1>2 DEF HandleStopped, runtimeVars, handleVars, socketVars, Quiet, Live
<1>3. CASE Return
  BY <1>3 DEF Return, runtimeVars, handleVars, socketVars, Quiet, Live
<1>4. CASE TakeLock
  BY <1>4 DEF TakeLock, Lock, runtimeVars, handleVars, socketVars, Quiet, Live
<1>5. CASE CopyEnds
  BY <1>5 DEF CopyEnds, runtimeVars, handleVars, socketVars, Quiet, Live
<1>6. CASE Spawn
  BY <1>6 DEF Spawn, runtimeVars, handleVars, socketVars, Quiet, Live
<1>7. CASE StartFailed
  BY <1>7 DEF StartFailed, Terminate, runtimeVars, handleVars, socketVars, Quiet, Live
<1>8. CASE Closed
  BY <1>8 DEF Closed, runtimeVars, handleVars, socketVars, Quiet, Live
<1>9. CASE Launched
  BY <1>9 DEF Launched, StopHandle, runtimeVars, handleVars, socketVars, Quiet, Live
<1>10. CASE StartTimeout
  BY <1>10 DEF StartTimeout, Terminate, runtimeVars, handleVars, socketVars, Quiet, Live
<1>11. CASE StopTimeout
  BY <1>11 DEF StopTimeout, runtimeVars, handleVars, socketVars, Quiet, Live
<1>12. CASE Receive
  BY <1>12, Received DEF socketVars
<1>13. CASE ResetTimeout
  BY <1>13 DEF ResetTimeout, Fatal, Terminate, runtimeVars, handleVars, socketVars, Quiet, Live
<1>14. CASE Crash
  <2>1. CASE Fatal /\ ended' = [ended EXCEPT ![gen] = IF @ = "asking" THEN "ending" ELSE @]
    BY <1>14, <2>1 DEF Crash, Fatal, Terminate, runtimeVars, handleVars, socketVars, Quiet, Live
  <2>2. CASE /\ running' = running \ {gen} /\ UNCHANGED <<failed, term, resetTimer>>
             /\ ended' = [ended EXCEPT ![gen] = IF @ = "asking" THEN "throwing" ELSE @]
    BY <1>14, <2>2 DEF Crash, runtimeVars, handleVars, socketVars, Quiet, Live
  <2> QED BY <1>14, <2>1, <2>2 DEF Crash
<1>15. CASE Halt
  BY <1>15 DEF Halt, runtimeVars, handleVars, socketVars, Quiet, Live
<1>16. CASE Halted
  BY <1>16 DEF Halted, runtimeVars, handleVars, socketVars, Quiet, Live
<1>17. CASE WorkerOpen
  BY <1>17 DEF WorkerOpen, runtimeVars, handleVars, socketVars, Quiet, Live
<1>18. CASE Listen
  BY <1>18 DEF Listen, runtimeVars, handleVars, socketVars, Quiet, Live
<1>19. CASE Breaks
  BY <1>19 DEF Breaks, runtimeVars, handleVars, socketVars, Quiet, Live
<1>20. ASSUME NEW g \in Launch, StopStep(g) PROVE Released'
  BY <1>20, StopGoesOn DEF runtimeVars, handleVars, socketVars, Quiet, Live
<1>21. ASSUME NEW g \in Launch, Exit(g) PROVE Released'
  BY <1>21 DEF Exit, runtimeVars, handleVars, socketVars, Quiet, Live
<1>22. ASSUME NEW g \in Launch, Unlock(g) PROVE Released'
  BY <1>22 DEF Unlock, runtimeVars, handleVars, socketVars, Quiet, Live
<1>23. ASSUME NEW g \in Launch, GraceOver(g) PROVE Released'
  BY <1>23 DEF GraceOver, runtimeVars, handleVars, socketVars, Quiet, Live
<1>24. ASSUME NEW c \in Client, Connect(c) PROVE Released'
  BY <1>24 DEF Connect, In, runtimeVars, handleVars, socketVars, Quiet, Live
<1>25. ASSUME NEW c \in Client, Withdraw(c) PROVE Released'
  BY <1>25 DEF Withdraw, Gone, runtimeVars, handleVars, socketVars, Quiet, Live
<1>26. ASSUME NEW c \in Client, Overdue(c) PROVE Released'
  BY <1>26 DEF Overdue, In, runtimeVars, handleVars, socketVars, Quiet, Live
<1>27. CASE Use
  BY <1>27 DEF Use, runtimeVars, handleVars, socketVars, Quiet, Live
<1>28. CASE Leave
  BY <1>28 DEF Leave, Told, runtimeVars, handleVars, socketVars, Quiet, Live
<1>29. CASE BackendClosed
  BY <1>29 DEF BackendClosed, Told, runtimeVars, handleVars, socketVars, Quiet, Live
<1>30. CASE ResetStep
  BY <1>30 DEF ResetStep, runtimeVars, handleVars, socketVars, Quiet, Live
<1>31. CASE ResetDone
  BY <1>31 DEF ResetDone, Admissible, runtimeVars, handleVars, socketVars, Quiet, Live
<1>32. CASE ResetFails
  BY <1>32 DEF ResetFails, runtimeVars, handleVars, socketVars, Quiet, Live
<1>33. CASE UNCHANGED vars
  BY <1>33 DEF vars, runtimeVars, handleVars, socketVars, Quiet, Live
<1> QED
  BY <1>1, <1>2, <1>3, <1>4, <1>5, <1>6, <1>7, <1>8, <1>9, <1>10, <1>11, <1>12, <1>13, <1>14,
      <1>15, <1>16, <1>17, <1>18, <1>19, <1>20, <1>21, <1>22, <1>23, <1>24, <1>25, <1>26, <1>27,
        <1>28, <1>29, <1>30, <1>31, <1>32, <1>33
     DEF Next, Runtime

(* When a predecessor is out of the way.                                   *)
LEMMA HandoverStep == Shape /\ Queues /\ Holds /\ Handover /\ Released /\ [Next]_vars => Handover'
<1> SUFFICES ASSUME Shape, Queues, Holds, Handover, Released, [Next]_vars PROVE Handover'
  OBVIOUS
<1> USE ServerAssumption DEF Shape, Holds, Handover, Released, Launch, Copier, Launching, Passed
<1>1. ASSUME NEW kind \in Kinds, Call(kind) PROVE Handover'
  <2>1. /\ call = "none" /\ at = "none" /\ call' = kind /\ UNCHANGED current
        /\ at' = IF kind = "clone" THEN "locking" ELSE IF current # 0 THEN "stopping"
                 ELSE IF kind \in {"stop", "remove"} THEN "returning" ELSE "locking"
    BY <1>1 DEF Call, NeedsStop
  <2> QED BY <2>1 DEF Kinds
<1>2. CASE HandleStopped
  BY <1>2 DEF HandleStopped, runtimeVars, handleVars, socketVars, Quiet, Live
<1>3. CASE Return
  BY <1>3 DEF Return, runtimeVars, handleVars, socketVars, Quiet, Live
<1>4. CASE TakeLock
  BY <1>4 DEF TakeLock, Lock, runtimeVars, handleVars, socketVars, Quiet, Live
<1>5. CASE CopyEnds
  BY <1>5 DEF CopyEnds, runtimeVars, handleVars, socketVars, Quiet, Live
<1>6. CASE Spawn
  BY <1>6 DEF Spawn, runtimeVars, handleVars, socketVars, Quiet, Live
<1>7. CASE StartFailed
  BY <1>7 DEF StartFailed, Terminate, runtimeVars, handleVars, socketVars, Quiet, Live
<1>8. CASE Closed
  BY <1>8 DEF Closed, runtimeVars, handleVars, socketVars, Quiet, Live
<1>9. CASE Launched
  BY <1>9 DEF Launched, StopHandle, runtimeVars, handleVars, socketVars, Quiet, Live
<1>10. CASE StartTimeout
  BY <1>10 DEF StartTimeout, Terminate, runtimeVars, handleVars, socketVars, Quiet, Live
<1>11. CASE StopTimeout
  BY <1>11 DEF StopTimeout, runtimeVars, handleVars, socketVars, Quiet, Live
<1>12. CASE Receive
  BY <1>12, Received DEF socketVars
<1>13. CASE ResetTimeout
  BY <1>13 DEF ResetTimeout, Fatal, Terminate, runtimeVars, handleVars, socketVars, Quiet, Live
<1>14. CASE Crash
  <2>1. CASE Fatal /\ ended' = [ended EXCEPT ![gen] = IF @ = "asking" THEN "ending" ELSE @]
    BY <1>14, <2>1 DEF Crash, Fatal, Terminate, runtimeVars, handleVars, socketVars, Quiet, Live
  <2>2. CASE /\ running' = running \ {gen} /\ UNCHANGED <<failed, term, resetTimer>>
             /\ ended' = [ended EXCEPT ![gen] = IF @ = "asking" THEN "throwing" ELSE @]
    BY <1>14, <2>2 DEF Crash, runtimeVars, handleVars, socketVars, Quiet, Live
  <2> QED BY <1>14, <2>1, <2>2 DEF Crash
<1>15. CASE Halt
  BY <1>15 DEF Halt, runtimeVars, handleVars, socketVars, Quiet, Live
<1>16. CASE Halted
  BY <1>16 DEF Halted, runtimeVars, handleVars, socketVars, Quiet, Live
<1>17. CASE WorkerOpen
  BY <1>17 DEF WorkerOpen, runtimeVars, handleVars, socketVars, Quiet, Live
<1>18. CASE Listen
  BY <1>18 DEF Listen, runtimeVars, handleVars, socketVars, Quiet, Live
<1>19. CASE Breaks
  BY <1>19 DEF Breaks, runtimeVars, handleVars, socketVars, Quiet, Live
<1>20. ASSUME NEW g \in Launch, StopStep(g) PROVE Handover'
  BY <1>20, StopGoesOn DEF runtimeVars, handleVars, socketVars, Quiet, Live
<1>21. ASSUME NEW g \in Launch, Exit(g) PROVE Handover'
  BY <1>21 DEF Exit, runtimeVars, handleVars, socketVars, Quiet, Live
<1>22. ASSUME NEW g \in Launch, Unlock(g) PROVE Handover'
  BY <1>22 DEF Unlock, runtimeVars, handleVars, socketVars, Quiet, Live
<1>23. ASSUME NEW g \in Launch, GraceOver(g) PROVE Handover'
  BY <1>23 DEF GraceOver, runtimeVars, handleVars, socketVars, Quiet, Live
<1>24. ASSUME NEW c \in Client, Connect(c) PROVE Handover'
  BY <1>24 DEF Connect, In, runtimeVars, handleVars, socketVars, Quiet, Live
<1>25. ASSUME NEW c \in Client, Withdraw(c) PROVE Handover'
  BY <1>25 DEF Withdraw, Gone, runtimeVars, handleVars, socketVars, Quiet, Live
<1>26. ASSUME NEW c \in Client, Overdue(c) PROVE Handover'
  BY <1>26 DEF Overdue, In, runtimeVars, handleVars, socketVars, Quiet, Live
<1>27. CASE Use
  BY <1>27 DEF Use, runtimeVars, handleVars, socketVars, Quiet, Live
<1>28. CASE Leave
  BY <1>28 DEF Leave, Told, runtimeVars, handleVars, socketVars, Quiet, Live
<1>29. CASE BackendClosed
  BY <1>29 DEF BackendClosed, Told, runtimeVars, handleVars, socketVars, Quiet, Live
<1>30. CASE ResetStep
  BY <1>30 DEF ResetStep, runtimeVars, handleVars, socketVars, Quiet, Live
<1>31. CASE ResetDone
  BY <1>31 DEF ResetDone, Admissible, runtimeVars, handleVars, socketVars, Quiet, Live
<1>32. CASE ResetFails
  BY <1>32 DEF ResetFails, runtimeVars, handleVars, socketVars, Quiet, Live
<1>33. CASE UNCHANGED vars
  BY <1>33 DEF vars, runtimeVars, handleVars, socketVars, Quiet, Live
<1> QED
  BY <1>1, <1>2, <1>3, <1>4, <1>5, <1>6, <1>7, <1>8, <1>9, <1>10, <1>11, <1>12, <1>13, <1>14,
      <1>15, <1>16, <1>17, <1>18, <1>19, <1>20, <1>21, <1>22, <1>23, <1>24, <1>25, <1>26, <1>27,
        <1>28, <1>29, <1>30, <1>31, <1>32, <1>33
     DEF Next, Runtime

(* Whose the session is.                                                   *)
LEMMA CleanStep == Flags /\ Shape /\ Queues /\ Holds /\ Clean /\ [Next]_vars => Clean'
<1> SUFFICES ASSUME Flags, Shape, Queues, Holds, Clean, [Next]_vars PROVE Clean'
  OBVIOUS
<1> USE ServerAssumption DEF Shape, Holds, Clean, Launch, Copier, Launching
<1>1. ASSUME NEW kind \in Kinds, Call(kind) PROVE Clean'
  BY <1>1 DEF Call, NeedsStop, StopHandle, runtimeVars, handleVars, socketVars, Quiet, Live
<1>2. CASE HandleStopped
  BY <1>2 DEF HandleStopped, runtimeVars, handleVars, socketVars, Quiet, Live
<1>3. CASE Return
  BY <1>3 DEF Return, runtimeVars, handleVars, socketVars, Quiet, Live
<1>4. CASE TakeLock
  BY <1>4 DEF TakeLock, Lock, runtimeVars, handleVars, socketVars, Quiet, Live
<1>5. CASE CopyEnds
  BY <1>5 DEF CopyEnds, runtimeVars, handleVars, socketVars, Quiet, Live
<1>6. CASE Spawn
  BY <1>6 DEF Spawn, runtimeVars, handleVars, socketVars, Quiet, Live
<1>7. CASE StartFailed
  BY <1>7 DEF StartFailed, Terminate, runtimeVars, handleVars, socketVars, Quiet, Live
<1>8. CASE Closed
  BY <1>8 DEF Closed, runtimeVars, handleVars, socketVars, Quiet, Live
<1>9. CASE Launched
  BY <1>9 DEF Launched, StopHandle, runtimeVars, handleVars, socketVars, Quiet, Live
<1>10. CASE StartTimeout
  BY <1>10 DEF StartTimeout, Terminate, runtimeVars, handleVars, socketVars, Quiet, Live
<1>11. CASE StopTimeout
  BY <1>11 DEF StopTimeout, runtimeVars, handleVars, socketVars, Quiet, Live
<1>12. CASE Receive
  <2>0. Head(chan) \in Messages
    BY <1>12 DEF Queues, Receive, Messages
  <2>1. CASE Head(chan) = "started"
    BY <1>12, <2>1 DEF Receive, runtimeVars, handleVars, socketVars, Quiet, Live
  <2>2. CASE Head(chan) = "stopped"
    BY <1>12, <2>2 DEF Receive, runtimeVars, handleVars, socketVars, Quiet, Live
  <2>3. CASE Head(chan) = "error"
    BY <1>12, <2>3 DEF Receive, Fatal, Terminate, runtimeVars, handleVars, socketVars, Quiet, Live
  <2>4. CASE Head(chan) = "resetting"
    BY <1>12, <2>4 DEF Receive, runtimeVars, handleVars, socketVars, Quiet, Live
  <2>5. CASE Head(chan) = "reset"
    BY <1>12, <2>5 DEF Receive, runtimeVars, handleVars, socketVars, Quiet, Live
  <2> QED BY <2>0, <2>1, <2>2, <2>3, <2>4, <2>5 DEF Messages
<1>13. CASE ResetTimeout
  BY <1>13 DEF ResetTimeout, Fatal, Terminate, runtimeVars, handleVars, socketVars, Quiet, Live
<1>14. CASE Crash
  <2>1. CASE Fatal /\ ended' = [ended EXCEPT ![gen] = IF @ = "asking" THEN "ending" ELSE @]
    BY <1>14, <2>1 DEF Crash, Fatal, Terminate, runtimeVars, handleVars, socketVars, Quiet, Live
  <2>2. CASE /\ running' = running \ {gen} /\ UNCHANGED <<failed, term, resetTimer>>
             /\ ended' = [ended EXCEPT ![gen] = IF @ = "asking" THEN "throwing" ELSE @]
    BY <1>14, <2>2 DEF Crash, runtimeVars, handleVars, socketVars, Quiet, Live
  <2> QED BY <1>14, <2>1, <2>2 DEF Crash
<1>15. CASE Halt
  BY <1>15 DEF Halt, runtimeVars, handleVars, socketVars, Quiet, Live
<1>16. CASE Halted
  BY <1>16 DEF Halted, runtimeVars, handleVars, socketVars, Quiet, Live
<1>17. CASE WorkerOpen
  BY <1>17 DEF WorkerOpen, runtimeVars, handleVars, socketVars, Quiet, Live
<1>18. CASE Listen
  BY <1>18 DEF Listen, runtimeVars, handleVars, socketVars, Quiet, Live
<1>19. CASE Breaks
  BY <1>19 DEF Breaks, runtimeVars, handleVars, socketVars, Quiet, Live
<1>20. ASSUME NEW g \in Launch, StopStep(g) PROVE Clean'
  BY <1>20, StopGoesOn DEF runtimeVars, handleVars, socketVars, Quiet, Live
<1>21. ASSUME NEW g \in Launch, Exit(g) PROVE Clean'
  BY <1>21 DEF Exit, runtimeVars, handleVars, socketVars, Quiet, Live
<1>22. ASSUME NEW g \in Launch, Unlock(g) PROVE Clean'
  BY <1>22 DEF Unlock, runtimeVars, handleVars, socketVars, Quiet, Live
<1>23. ASSUME NEW g \in Launch, GraceOver(g) PROVE Clean'
  BY <1>23 DEF GraceOver, runtimeVars, handleVars, socketVars, Quiet, Live
<1>24. ASSUME NEW c \in Client, Connect(c) PROVE Clean'
  BY <1>24 DEF Connect, In, runtimeVars, handleVars, socketVars, Quiet, Live
<1>25. ASSUME NEW c \in Client, Withdraw(c) PROVE Clean'
  BY <1>25 DEF Withdraw, Gone, runtimeVars, handleVars, socketVars, Quiet, Live
<1>26. ASSUME NEW c \in Client, Overdue(c) PROVE Clean'
  BY <1>26 DEF Overdue, In, runtimeVars, handleVars, socketVars, Quiet, Live
<1>27. CASE Use
  BY <1>27 DEF Use, runtimeVars, handleVars, socketVars, Quiet, Live
<1>28. CASE Leave
  BY <1>28 DEF Leave, Told, runtimeVars, handleVars, socketVars, Quiet, Live
<1>29. CASE BackendClosed
  BY <1>29 DEF BackendClosed, Told, runtimeVars, handleVars, socketVars, Quiet, Live
<1>30. CASE ResetStep
  BY <1>30 DEF ResetStep, runtimeVars, handleVars, socketVars, Quiet, Live
<1>31. CASE ResetDone
  <2>1. /\ Live /\ reset = "last" /\ reset' = "none"
        /\ UNCHANGED <<session, worker, gen, alive>>
    BY <1>31 DEF ResetDone, Quiet, handleVars
  <2>2. served = Nobody /\ session = Nobody /\ ~backend
    BY <2>1
  <2>3. CASE served' \in Client /\ backend' /\ occupied'
    BY <2>1, <2>2, <2>3 DEF Live
  <2>4. CASE UNCHANGED <<served, backend>> /\ ~occupied'
    BY <2>1, <2>2, <2>4 DEF Live
  <2> QED BY <1>31, Admission, <2>3, <2>4
<1>32. CASE ResetFails
  BY <1>32 DEF ResetFails, runtimeVars, handleVars, socketVars, Quiet, Live
<1>33. CASE UNCHANGED vars
  BY <1>33 DEF vars, runtimeVars, handleVars, socketVars, Quiet, Live
<1> QED
  BY <1>1, <1>2, <1>3, <1>4, <1>5, <1>6, <1>7, <1>8, <1>9, <1>10, <1>11, <1>12, <1>13, <1>14,
      <1>15, <1>16, <1>17, <1>18, <1>19, <1>20, <1>21, <1>22, <1>23, <1>24, <1>25, <1>26, <1>27,
        <1>28, <1>29, <1>30, <1>31, <1>32, <1>33
     DEF Next, Runtime
------------------------------------------------------------------------------
(* The invariant holds at first and is kept by every step.                 *)
LEMMA InitIInv == Init => IInv
<1> SUFFICES ASSUME Init PROVE IInv
  OBVIOUS
<1> USE ServerAssumption DEF Init, Launch, Copier
<1>1. Flags
  BY Zenon DEF Flags
<1>2. Shape
  BY DEF Shape, Kinds
<1>3. Queues
  BY DEF Queues
<1>4. Holds /\ Released /\ Handover
  BY DEF Holds, Released, Handover, Launching
<1>5. Clean
  BY DEF Clean, Live
<1> QED BY <1>1, <1>2, <1>3, <1>4, <1>5 DEF IInv

(* Every step keeps it.                                                    *)
LEMMA NextIInv == IInv /\ [Next]_vars => IInv'
  BY FlagsStep, ShapeStep, QueuesStep, HoldsStep, ReleasedStep, HandoverStep, CleanStep DEF IInv

(* So it holds of every state of the service.                              *)
THEOREM Inductive == Spec => []IInv
  BY InitIInv, NextIInv, PTL DEF Spec

(* The state has the shape the code gives it, the queues included.         *)
THEOREM TypeCorrect == Spec => []TypeOK
<1>1. IInv => TypeOK
  <2> SUFFICES ASSUME IInv PROVE TypeOK
    OBVIOUS
  <2>1. /\ \A i \in 1 .. Len(waiters) : waiters[i] \in Client
        /\ \A i \in 1 .. Len(chan) : chan[i] \in Messages
    BY ElementOfSeq DEF IInv, Queues
  <2>2. known \in BOOLEAN /\ backend \in BOOLEAN /\ occupied \in BOOLEAN /\ resetTimer \in BOOLEAN
    BY Zenon DEF IInv, Flags
  <2>3. Shape /\ late \subseteq {waiters[i] : i \in 1 .. Len(waiters)}
    BY DEF IInv, Queues
  <2> QED BY <2>1, <2>2, <2>3 DEF TypeOK, Shape, Messages
<1> QED BY <1>1, Inductive, PTL

(* One worker at most has the data open, under the lock, and none while    *)
(* the data is copied (pglite-server.ts: the lock is let go when the       *)
(* worker has ended, however long that takes).                             *)
THEOREM DataExclusive == Spec => []OneWriter
<1>1. IInv => OneWriter
  <2> SUFFICES ASSUME IInv PROVE OneWriter
    OBVIOUS
  <2>1. /\ open \subseteq alive /\ alive \subseteq 1 .. gen /\ gen \in 0 .. MaxLaunches
        /\ \A g \in alive : lock = g
        /\ at = "copying" => lock = Copier
    BY DEF IInv, Shape, Holds
  <2>2. \A g \in alive : g # Copier
    BY <2>1, ServerAssumption DEF Copier
  <2> QED BY <2>1, <2>2 DEF OneWriter
<1> QED BY <1>1, Inductive, PTL

(* A restart never fails for a lock its predecessor is about to give back: *)
(* stop() has waited for that, unless the worker did not end in time.      *)
THEOREM RestartFree == Spec => []RestartFindsLock
<1>1. IInv => RestartFindsLock
  <2> SUFFICES ASSUME IInv, at = "locking", call # "clone", \A g \in Launch : term[g] # "late"
               PROVE  lock = 0
    BY DEF RestartFindsLock
  <2>1. /\ gen \in 0 .. MaxLaunches /\ lock \in 0 .. Copier /\ current \in 0 .. gen
        /\ ~(lock > gen) /\ (lock \in 1 .. gen => lock = current \/ term[lock] = "late")
    BY DEF IInv, Shape, Holds, Launching
  <2>2. current = 0 \/ ended[current] = "done"
    BY DEF IInv, Handover, Passed
  <2>3. SUFFICES ASSUME lock # 0 PROVE FALSE
    OBVIOUS
  <2>4. lock \in 1 .. gen /\ lock \in Launch
    BY <2>1, <2>3, ServerAssumption DEF Copier, Launch
  <2>5. lock = current
    BY <2>1, <2>4
  <2>6. term[lock] = "done"
    BY <2>2, <2>3, <2>4, <2>5 DEF IInv, Released
  <2> QED BY <2>4, <2>6 DEF IInv, Released
<1> QED BY <1>1, Inductive, PTL

(* Every step of the service is a step of the lease, or none: what a       *)
(* client sends reaches the backend when the session is clean or its own.  *)
LEMMA StepLease == IInv /\ [Next]_vars => [Lease!Next]_session
<1> SUFFICES ASSUME IInv, [Next]_vars PROVE [Lease!Next]_session
  OBVIOUS
<1>1. CASE Use
  <2>1. session' = served /\ served # Nobody /\ session \in {Nobody, served} /\ served \in Client
    BY <1>1 DEF Use, IInv, Clean, Shape
  <2> QED BY <2>1 DEF Lease!Next, Lease!Touch
<1>2. CASE session' = session \/ session' = Nobody
  BY <1>2 DEF Lease!Next, Lease!Clean
<1>3. Use \/ session' = session \/ session' = Nobody
  <2>1. ASSUME NEW kind \in Kinds, Call(kind) PROVE Use \/ session' = session \/ session' = Nobody
    BY <2>1 DEF Call, NeedsStop, StopHandle, runtimeVars, handleVars, socketVars, Quiet
  <2>2. CASE HandleStopped
    BY <2>2 DEF HandleStopped, runtimeVars, handleVars, socketVars, Quiet
  <2>3. CASE Return
    BY <2>3 DEF Return, runtimeVars, handleVars, socketVars, Quiet
  <2>4. CASE TakeLock
    BY <2>4 DEF TakeLock, Lock, runtimeVars, handleVars, socketVars, Quiet
  <2>5. CASE CopyEnds
    BY <2>5 DEF CopyEnds, runtimeVars, handleVars, socketVars, Quiet
  <2>6. CASE Spawn
    BY <2>6 DEF Spawn, runtimeVars, handleVars, socketVars, Quiet
  <2>7. CASE StartFailed
    BY <2>7 DEF StartFailed, Terminate, runtimeVars, handleVars, socketVars, Quiet
  <2>8. CASE Closed
    BY <2>8 DEF Closed, runtimeVars, handleVars, socketVars, Quiet
  <2>9. CASE Launched
    BY <2>9 DEF Launched, StopHandle, runtimeVars, handleVars, socketVars, Quiet
  <2>10. CASE StartTimeout
    BY <2>10 DEF StartTimeout, Terminate, runtimeVars, handleVars, socketVars, Quiet
  <2>11. CASE StopTimeout
    BY <2>11 DEF StopTimeout, runtimeVars, handleVars, socketVars, Quiet
  <2>12. CASE Receive
    BY <2>12 DEF Receive, Fatal, Terminate, runtimeVars, handleVars, socketVars, Quiet
  <2>13. CASE ResetTimeout
    BY <2>13 DEF ResetTimeout, Fatal, Terminate, runtimeVars, handleVars, socketVars, Quiet
  <2>14. CASE Crash
    BY <2>14, Zenon DEF Crash
  <2>15. CASE Halt
    BY <2>15 DEF Halt, runtimeVars, handleVars, socketVars, Quiet
  <2>16. CASE Halted
    BY <2>16 DEF Halted, runtimeVars, handleVars, socketVars, Quiet
  <2>17. CASE WorkerOpen
    BY <2>17 DEF WorkerOpen, runtimeVars, handleVars, socketVars, Quiet
  <2>18. CASE Listen
    BY <2>18 DEF Listen, runtimeVars, handleVars, socketVars, Quiet
  <2>19. CASE Breaks
    BY <2>19 DEF Breaks, runtimeVars, handleVars, socketVars, Quiet
  <2>20. ASSUME NEW g \in Launch, StopStep(g) PROVE Use \/ session' = session \/ session' = Nobody
    BY <2>20 DEF StopStep, End, Terminate, runtimeVars, handleVars, socketVars, Quiet
  <2>21. ASSUME NEW g \in Launch, Exit(g) PROVE Use \/ session' = session \/ session' = Nobody
    BY <2>21 DEF Exit, runtimeVars, handleVars, socketVars, Quiet
  <2>22. ASSUME NEW g \in Launch, Unlock(g) PROVE Use \/ session' = session \/ session' = Nobody
    BY <2>22 DEF Unlock, runtimeVars, handleVars, socketVars, Quiet
  <2>23. ASSUME NEW g \in Launch, GraceOver(g) PROVE Use \/ session' = session \/ session' = Nobody
    BY <2>23 DEF GraceOver, runtimeVars, handleVars, socketVars, Quiet
  <2>24. ASSUME NEW c \in Client, Connect(c) PROVE Use \/ session' = session \/ session' = Nobody
    BY <2>24 DEF Connect, In, runtimeVars, handleVars, socketVars, Quiet
  <2>25. ASSUME NEW c \in Client, Withdraw(c) PROVE Use \/ session' = session \/ session' = Nobody
    BY <2>25 DEF Withdraw, Gone, runtimeVars, handleVars, socketVars, Quiet
  <2>26. ASSUME NEW c \in Client, Overdue(c) PROVE Use \/ session' = session \/ session' = Nobody
    BY <2>26 DEF Overdue, In, runtimeVars, handleVars, socketVars, Quiet
  <2>27. CASE Use
    BY <2>27 DEF Use, runtimeVars, handleVars, socketVars, Quiet
  <2>28. CASE Leave
    BY <2>28 DEF Leave, Told, runtimeVars, handleVars, socketVars, Quiet
  <2>29. CASE BackendClosed
    BY <2>29 DEF BackendClosed, Told, runtimeVars, handleVars, socketVars, Quiet
  <2>30. CASE ResetStep
    BY <2>30 DEF ResetStep, runtimeVars, handleVars, socketVars, Quiet
  <2>31. CASE ResetDone
    BY <2>31 DEF ResetDone, Admissible, runtimeVars, handleVars, socketVars, Quiet
  <2>32. CASE ResetFails
    BY <2>32 DEF ResetFails, runtimeVars, handleVars, socketVars, Quiet
  <2>33. CASE UNCHANGED vars
    BY <2>33 DEF vars, runtimeVars, handleVars, socketVars, Quiet
  <2> QED
    BY <2>1, <2>2, <2>3, <2>4, <2>5, <2>6, <2>7, <2>8, <2>9, <2>10, <2>11, <2>12, <2>13, <2>14,
        <2>15, <2>16, <2>17, <2>18, <2>19, <2>20, <2>21, <2>22, <2>23, <2>24, <2>25, <2>26, <2>27,
          <2>28, <2>29, <2>30, <2>31, <2>32, <2>33
       DEF Next, Runtime
<1> QED BY <1>1, <1>2, <1>3

(* What a session leaves behind is never seen by another client            *)
(* (pglite-worker.ts: rolled back and discarded before the next admit).    *)
THEOREM SessionsApart == Spec => ImplementsLease
<1>1. Init => Lease!Init
  BY DEF Init, Lease!Init
<1> QED BY <1>1, StepLease, Inductive, PTL DEF Spec, ImplementsLease, Lease!Spec
------------------------------------------------------------------------------
(* The records and processes of Deployment.                                *)
IsRec(r) == r = [ver |-> r.ver, host |-> r.host, port |-> r.port, print |-> r.print, job |-> r.job]
IsProc(p) == p = [ver |-> p.ver, address |-> p.address, peers |-> p.peers]
JobStates == {"none", "running", "succeeded", "failed", "interrupted"}
Addresses == Address \cup {0}

(* What runs is recorded, and a record that names nothing is empty.        *)
Recording ==
  /\ rec = [s \in Service |-> rec[s]] /\ proc = [s \in Service |-> proc[s]]
  /\ \A s \in Service :
       /\ IsRec(rec[s]) /\ rec[s].host \in Addresses /\ rec[s].port \in Addresses
       /\ rec[s].job \in JobStates
       /\ rec[s].ver = "absent" => rec[s] = NoRec
       /\ IsProc(proc[s]) /\ proc[s].address \in Addresses
       /\ proc[s] # NoProc => rec[s].ver # "absent" /\ (s \notin Job => proc[s].address # 0)

Changing == {"remove", "infra", "apps"}
Phases == {"infra", "apps"}
Control ==
  /\ status \in {"none", "pending", "deploying", "running", "failed"}
  /\ before \in {"none", "pending", "deploying", "running", "failed"}
  /\ pc \in {"none", "deployed", "build", "inspect", "recover", "down"} \cup Changing
  /\ pc \in {"build", "inspect"} => status = before
  /\ pc \in Changing => status = "deploying"
  /\ wanted \in [Service -> Version \cup {"absent"}]
  /\ retained \subseteq Names
  /\ pc = "recover" => todo \subseteq Recorded \ Job

(* Where the tasks are.                                                    *)
Active == {"prepare", "run", "wait", "job", "ends", "clean"}
TaskPlaces == {"none", "build", "built", "inspect", "kept", "changed", "remove", "removed",
            "waiting", "blocked", "failed", "done"} \cup Active
Task ==
  /\ task \in [Service -> TaskPlaces] /\ conf = [s \in Service |-> conf[s]]
  /\ \A s \in Service :
       /\ task[s] = "build" => pc = "build"
       /\ task[s] = "inspect" => pc = "inspect"
       /\ task[s] = "remove" => pc = "remove"
       /\ task[s] \in Active => pc \in Phases
       /\ pc = "inspect" /\ task[s] # "none" => s \in Names
Waves ==
  pc \in Phases =>
    /\ \A s \in Service :
         /\ task[s] \in {"none", "waiting", "blocked", "failed", "done"} \cup Active
         /\ task[s] = "none" <=> s \notin Names
         /\ s \in Job => task[s] \notin {"run", "wait"}
         /\ s \notin Job => task[s] \notin {"job", "ends", "clean"}
         /\ s \in retained => task[s] \notin Active \ {"wait"}
         /\ pc = "infra" /\ s \notin Infra => task[s] \in {"none", "waiting"}
         /\ pc = "apps" /\ s \in Infra => task[s] \in {"none", "done", "blocked", "failed"}
         /\ task[s] \notin {"none", "waiting", "blocked"} =>
              \A d \in DependsOn[s] : task[d] = "done"
    /\ Among("blocked") => Among("failed")

(* What is removed does not run.                                           *)
Removing ==
  pc = "remove" =>
    \A s \in Service :
      /\ s \in Recorded \ retained => task[s] \in {"remove", "removed", "failed"}
      /\ task[s] = "removed" => proc[s] = NoProc

(* A service that is kept.                                                 *)
AsBefore(s) ==
  IF s \in Job THEN rec[s].job = "succeeded"
  ELSE rec[s].host # 0 /\ (proc[s] # NoProc => proc[s].address = Reach(rec[s], s))
Inspected ==
  pc = "inspect" =>
    \A s \in Service : task[s] = "kept" => AsBefore(s) /\ rec[s].print.peers = Peers(Candidate, s)
Retaining ==
  pc \in Changing =>
    /\ \A s \in retained :
         /\ AsBefore(s) /\ DependsOn[s] \subseteq retained
         /\ rec[s].print.peers = Peers(rec, s)
    /\ ~mutated => Names \cup Recorded \subseteq retained

(* While services start.                                                   *)
Placed(s) == IF s \in Job THEN rec[s].job = "succeeded" ELSE rec[s].host # 0
Started ==
  pc \in Phases =>
    \A s \in Service :
      /\ proc[s] # NoProc =>
           /\ s \in retained \/ task[s] \in {"wait", "ends", "clean", "failed", "done"}
           /\ proc[s].peers = Peers(rec, s)
      /\ s \in Names => rec[s].ver # "absent"
      /\ rec[s].ver # "absent" => s \in Names
      /\ task[s] \in {"run", "job"} => conf[s] = Peers(rec, s)
      /\ task[s] = "run" /\ s \in OnHost => rec[s].port # 0
      /\ task[s] = "done" => Placed(s) /\ (proc[s] # NoProc => rec[s].print.peers = Peers(rec, s))

(* A record that fits the addresses now is of what runs; and all are while *)
(* the environment runs, or is being recovered.                            *)
Fits ==
  \A s \in Service : proc[s] # NoProc /\ rec[s].print.peers = Peers(rec, s) =>
    proc[s].peers = Peers(rec, s)
TrueRecords ==
  status = "running" \/ pc = "recover" =>
    \A s \in Service : proc[s] # NoProc => rec[s].print.peers = proc[s].peers

DeploymentIInv ==
  /\ Recording /\ Control /\ Task /\ Waves /\ Removing /\ Inspected /\ Retaining /\ Started
  /\ Fits /\ TrueRecords /\ PeersCurrent
------------------------------------------------------------------------------
(* What is set in a record is in it, and nothing else changes.             *)
LEMMA VerSet ==
  ASSUME NEW r, IsRec(r), NEW x
  PROVE  /\ IsRec(SetVer(r, x)) /\ SetVer(r, x).ver = x /\ SetVer(r, x).host = r.host
         /\ SetVer(r, x).port = r.port /\ SetVer(r, x).print = r.print /\ SetVer(r, x).job = r.job
BY DEF IsRec, SetVer

(* The host of a record.                                                   *)
LEMMA HostSet ==
  ASSUME NEW r, IsRec(r), NEW x
  PROVE  /\ IsRec(SetHost(r, x)) /\ SetHost(r, x).host = x /\ SetHost(r, x).ver = r.ver
         /\ SetHost(r, x).port = r.port /\ SetHost(r, x).print = r.print
         /\ SetHost(r, x).job = r.job
         /\ r.host = x => SetHost(r, x) = r
BY DEF IsRec, SetHost

(* The port of a record.                                                   *)
LEMMA PortSet ==
  ASSUME NEW r, IsRec(r), NEW x
  PROVE  /\ IsRec(SetPort(r, x)) /\ SetPort(r, x).port = x /\ SetPort(r, x).ver = r.ver
         /\ SetPort(r, x).host = r.host /\ SetPort(r, x).print = r.print
         /\ SetPort(r, x).job = r.job
BY DEF IsRec, SetPort

(* The fingerprint of a record.                                            *)
LEMMA PrintSet ==
  ASSUME NEW r, IsRec(r), NEW x
  PROVE  /\ IsRec(SetPrint(r, x)) /\ SetPrint(r, x).print = x /\ SetPrint(r, x).ver = r.ver
         /\ SetPrint(r, x).host = r.host /\ SetPrint(r, x).port = r.port
         /\ SetPrint(r, x).job = r.job
BY DEF IsRec, SetPrint

(* The state of the job of a record.                                       *)
LEMMA JobSet ==
  ASSUME NEW r, IsRec(r), NEW x
  PROVE  /\ IsRec(SetJob(r, x)) /\ SetJob(r, x).job = x /\ SetJob(r, x).ver = r.ver
         /\ SetJob(r, x).host = r.host /\ SetJob(r, x).port = r.port /\ SetJob(r, x).print = r.print
BY DEF IsRec, SetJob

(* Nothing recorded, nothing running.                                      *)
LEMMA Nothings ==
  /\ IsRec(NoRec) /\ NoRec.ver = "absent" /\ NoRec.host = 0 /\ NoRec.port = 0 /\ NoRec.job = "none"
  /\ IsProc(NoProc) /\ NoProc.address = 0
BY DEF IsRec, IsProc, NoRec, NoProc

(* A process has the address and the peers it was started with.            *)
LEMMA ProcessOf ==
  ASSUME NEW s, NEW a, NEW p
  PROVE  IsProc(Process(s, a, p)) /\ Process(s, a, p).address = a /\ Process(s, a, p).peers = p
BY DEF IsProc, Process

(* The addresses a service is given are those of what it depends on, which *)
(* is never itself.                                                        *)
LEMMA PrintOf ==
  ASSUME NEW r, NEW s PROVE Fingerprint(r, s).peers = Peers(r, s)
BY DEF Fingerprint

(* They are the same while what it depends on is where it was.             *)
LEMMA SamePeers ==
  ASSUME NEW s \in Service, NEW r, NEW q,
         \A d \in DependsOn[s] \ Job : Reach(r[d], d) = Reach(q[d], d)
  PROVE  Peers(r, s) = Peers(q, s)
BY DEF Peers

(* An address comes of the host and the port of the record alone.          *)
LEMMA SameReach ==
  ASSUME NEW s, NEW r, NEW q, r.port = q.port, r.host = q.host
  PROVE  Reach(r, s) = Reach(q, s)
BY DEF Reach

(* A service does not depend on itself, and what it depends on depends on  *)
(* no more than it does.                                                   *)
LEMMA Dependencies ==
  ASSUME NEW s \in Service
  PROVE  /\ DependsOn[s] \subseteq Service /\ DependsOn[s] \subseteq Upstream[s]
         /\ s \notin DependsOn[s]
         /\ \A d \in DependsOn[s] : Upstream[d] \subseteq Upstream[s]
<1>1. DependsOn[s] \subseteq Service
  BY DeploymentAssumption
<1>2. ASSUME NEW t \in Service
      PROVE  Upstream[t] =
               {u \in Service : \A S \in SUBSET Service : DependsOn[t] \subseteq S /\
                 Transitive(S) => u \in S}
  BY DEF Upstream
<1>3. DependsOn[s] \subseteq Upstream[s]
  BY <1>1, <1>2
<1>4. ASSUME NEW d \in DependsOn[s], NEW u \in Upstream[d] PROVE u \in Upstream[s]
  <2>1. u \in Service /\ \A S \in SUBSET Service : DependsOn[d] \subseteq S /\ Transitive(S) =>
          u \in S
    BY <1>1, <1>2, <1>4
  <2>2. ASSUME NEW S \in SUBSET Service, DependsOn[s] \subseteq S, Transitive(S) PROVE u \in S
    BY <2>1, <2>2, <1>4 DEF Transitive
  <2> QED BY <1>2, <2>1, <2>2
<1> QED BY <1>1, <1>3, <1>4, Acyclic

(* A step of one service.                                                  *)
Frame == UNCHANGED <<status, pc, wanted, before, mutated, retained, todo>>
Alone(s) ==
  /\ Frame
  /\ rec' = [t \in Service |-> rec'[t]] /\ proc' = [t \in Service |-> proc'[t]]
  /\ task' = [t \in Service |-> task'[t]] /\ conf' = [t \in Service |-> conf'[t]]
  /\ \A t \in Service \ {s} : /\ rec'[t] = rec[t] /\ proc'[t] = proc[t]
                              /\ task'[t] = task[t] /\ conf'[t] = conf[t]

(* One entry of a function replaced.                                       *)
LEMMA Updates ==
  ASSUME NEW f, f = [t \in Service |-> f[t]], NEW g, NEW s \in Service, NEW x, g =
           [f EXCEPT ![s] = x]
  PROVE  g = [t \in Service |-> g[t]] /\ g[s] = x /\ \A t \in Service \ {s} : g[t] = f[t]
OBVIOUS

Functions ==
  /\ rec = [t \in Service |-> rec[t]] /\ proc = [t \in Service |-> proc[t]]
  /\ task = [t \in Service |-> task[t]] /\ conf = [t \in Service |-> conf[t]]

(* A task goes to its next place; the others stay.                         *)
LEMMA Moved ==
  ASSUME Functions, NEW s \in Service, NEW x, To(s, x)
  PROVE  /\ task' = [t \in Service |-> task'[t]] /\ task'[s] = x
         /\ \A t \in Service \ {s} : task'[t] = task[t]
BY Updates DEF To, Functions

(* What Begin does to the task of s.                                       *)
LEMMA BeginEffect ==
  ASSUME Functions, NEW s \in Service, Begin(s)
  PROVE  /\ Alone(s) /\ UNCHANGED <<rec, proc, conf>>
         /\ pc \in Phases /\ task[s] = "waiting" /\ s \in Group
         /\ \A d \in DependsOn[s] : Settled(d)
         /\ \/ task'[s] = "blocked" /\ \E d \in DependsOn[s] : task[d] \in {"failed", "blocked"}
            \/ /\ \A d \in DependsOn[s] : task[d] = "done"
               /\ \/ task'[s] = "failed"
                  \/ task'[s] = "prepare" /\ s \notin retained
                  \/ task'[s] = (IF s \in Job THEN "done" ELSE "wait") /\ s \in retained
<1>1. /\ pc \in Phases /\ task[s] = "waiting" /\ s \in Group /\ \A d \in DependsOn[s] : Settled(d)
      /\ Frame /\ UNCHANGED <<rec, proc, conf>>
  BY DEF Begin, Frame, recovery, told, Phases
<1>2. To(s, IF \E d \in DependsOn[s] : task[d] \in {"failed", "blocked"} THEN "blocked"
            ELSE IF aborted THEN "failed"
            ELSE IF s \notin retained THEN "prepare"
            ELSE IF s \in Job THEN "done" ELSE "wait")
  BY DEF Begin
<1>3. task'[s] = IF \E d \in DependsOn[s] : task[d] \in {"failed", "blocked"} THEN "blocked"
            ELSE IF aborted THEN "failed"
            ELSE IF s \notin retained THEN "prepare"
            ELSE IF s \in Job THEN "done" ELSE "wait"
  BY <1>2, Updates DEF To, Functions
<1>4. task' = [t \in Service |-> task'[t]] /\ \A t \in Service \ {s} : task'[t] = task[t]
  BY <1>2, Updates DEF To, Functions
<1>5. \A d \in DependsOn[s] : task[d] \in {"done", "failed", "blocked"}
  BY <1>1 DEF Settled
<1> QED BY <1>1, <1>3, <1>4, <1>5 DEF Alone, Functions

(* What Prepare does to the record of s.                                   *)
LEMMA PrepareEffect ==
  ASSUME Functions, Recording, NEW s \in Service, Prepare(s)
  PROVE  /\ Alone(s) /\ UNCHANGED proc /\ task[s] = "prepare"
         /\ IsRec(rec'[s]) /\ rec'[s].ver = rec[s].ver /\ rec'[s].host = rec[s].host
         /\ rec'[s].print = rec[s].print /\ rec'[s].job = rec[s].job /\ rec'[s].port \in Addresses
         /\ \/ task'[s] = "failed"
            \/ /\ task'[s] = IF s \in Job THEN "job" ELSE "run"
               /\ conf'[s] = Peers(rec, s) /\ (s \in OnHost => rec'[s].port # 0)
<1>1. Frame /\ UNCHANGED proc /\ task[s] = "prepare"
  BY DEF Prepare, Frame, recovery, told
<1>2. ASSUME NEW p \in Ports(s) PROVE p \in Addresses /\ (s \in OnHost => p # 0)
  BY <1>2, DeploymentAssumption DEF Ports, Recording, Addresses
<1>3. ASSUME NEW x, To(s, x)
      PROVE  /\ task' = [t \in Service |-> task'[t]] /\ task'[s] = x
             /\ \A t \in Service \ {s} : task'[t] = task[t]
  BY <1>3, Moved
<1>4. ASSUME NEW p \in Ports(s), rec' = [rec EXCEPT ![s] = SetPort(@, p)]
      PROVE  /\ rec' = [t \in Service |-> rec'[t]] /\ rec'[s] = SetPort(rec[s], p)
             /\ \A t \in Service \ {s} : rec'[t] = rec[t]
  BY <1>4, Updates DEF Functions
<1>5. ASSUME conf' = [conf EXCEPT ![s] = Peers(rec, s)]
      PROVE  /\ conf' = [t \in Service |-> conf'[t]] /\ conf'[s] = Peers(rec, s)
             /\ \A t \in Service \ {s} : conf'[t] = conf[t]
  BY <1>5, Updates DEF Functions
<1>6. CASE To(s, "failed") /\ UNCHANGED <<rec, conf>>
  BY <1>1, <1>3, <1>6 DEF Alone, Functions, Recording
<1>7. ASSUME NEW p \in Ports(s), rec' = [rec EXCEPT ![s] = SetPort(@, p)],
             conf' = [conf EXCEPT ![s] = Peers(rec, s)],
             To(s, IF s \in Job THEN "job" ELSE "run") \/ To(s, "failed")
      PROVE  /\ Alone(s) /\ rec'[s] = SetPort(rec[s], p) /\ conf'[s] = Peers(rec, s)
             /\ task'[s] \in {"failed", IF s \in Job THEN "job" ELSE "run"}
  BY <1>1, <1>3, <1>4, <1>5, <1>7 DEF Alone, Functions
<1>8. ASSUME NEW p \in Ports(s) PROVE
        /\ IsRec(SetPort(rec[s], p)) /\ SetPort(rec[s], p).port = p
        /\ SetPort(rec[s], p).ver = rec[s].ver
        /\ SetPort(rec[s], p).host = rec[s].host /\ SetPort(rec[s], p).print = rec[s].print
        /\ SetPort(rec[s], p).job = rec[s].job
  BY PortSet DEF Recording
<1> QED BY <1>1, <1>2, <1>6, <1>7, <1>8 DEF Prepare

(* What a step of a service in a wave does to it.                          *)
StepOf(s) ==
  /\ Alone(s) /\ pc \in Phases /\ s \in Names /\ (pc = "infra" => s \in Infra)
  /\ task[s] \in {"waiting"} \cup Active /\ task'[s] \in {"blocked", "failed", "done"} \cup Active
  /\ task'[s] = "blocked" => \E d \in DependsOn[s] : task[d] \in {"failed", "blocked"}
  /\ task'[s] # "blocked" => \A d \in DependsOn[s] : task[d] = "done"
  /\ task[s] = "waiting" => proc'[s] = proc[s]
  /\ s \in Job => task'[s] \notin {"run", "wait"}
  /\ s \notin Job => task'[s] \notin {"job", "ends", "clean"}
  /\ s \in retained => task'[s] \notin Active \ {"wait"}
RecordOf(s) ==
  /\ IsRec(rec'[s]) /\ rec'[s].ver = rec[s].ver
  /\ rec'[s].host \in Addresses /\ rec'[s].port \in Addresses /\ rec'[s].job \in JobStates
  /\ IsProc(proc'[s]) /\ proc'[s].address \in Addresses
  /\ proc'[s] # NoProc /\ s \notin Job => proc'[s].address # 0
  /\ s \in retained =>
       /\ AsBefore(s)' /\ rec'[s].print = rec[s].print
       /\ s \notin Job => Reach(rec'[s], s) = Reach(rec[s], s)
StartOf(s) ==
  /\ proc'[s] # NoProc =>
       /\ s \in retained \/ task'[s] \in {"wait", "ends", "clean", "failed", "done"}
       /\ proc'[s].peers = Peers(rec, s)
  /\ task'[s] \in {"run", "job"} => conf'[s] = Peers(rec, s)
  /\ task'[s] = "run" /\ s \in OnHost => rec'[s].port # 0
  /\ task'[s] = "done" => Placed(s)' /\ (proc'[s] # NoProc => rec'[s].print.peers = Peers(rec, s))

(* What is known of a service whose step of a wave comes.                  *)
LEMMA Before ==
  ASSUME DeploymentIInv, NEW s \in Service, task[s] \in Active
  PROVE  /\ Functions /\ pc \in Phases /\ s \in Names /\ (pc = "infra" => s \in Infra)
         /\ \A d \in DependsOn[s] : task[d] = "done"
         /\ task[s] # "wait" => s \notin retained
         /\ task[s] \in {"run", "wait"} => s \notin Job
         /\ task[s] \in {"job", "ends", "clean"} => s \in Job
         /\ task[s] \in {"prepare", "run", "job"} => proc[s] = NoProc
         /\ IsRec(rec[s]) /\ rec[s].host \in Addresses /\ rec[s].port \in Addresses
         /\ rec[s].job \in JobStates
         /\ IsProc(proc[s]) /\ proc[s].address \in Addresses
         /\ proc[s] # NoProc /\ s \notin Job => proc[s].address # 0
         /\ proc[s] # NoProc => proc[s].peers = Peers(rec, s)
         /\ s \in retained => AsBefore(s) /\ rec[s].print.peers = Peers(rec, s)
<1>1. pc \in Phases
  BY DEF DeploymentIInv, Task
<1>2. Functions /\ task[s] \in TaskPlaces
  BY DEF DeploymentIInv, Task, Recording, Functions
<1>3. /\ task[s] = "none" <=> s \notin Names
      /\ s \in Job => task[s] \notin {"run", "wait"}
      /\ s \notin Job => task[s] \notin {"job", "ends", "clean"}
      /\ s \in retained => task[s] \notin Active \ {"wait"}
      /\ pc = "infra" /\ s \notin Infra => task[s] \in {"none", "waiting"}
      /\ task[s] \notin {"none", "waiting", "blocked"} => \A d \in DependsOn[s] : task[d] = "done"
  BY <1>1 DEF DeploymentIInv, Waves
<1>4. /\ IsRec(rec[s]) /\ rec[s].host \in Addresses /\ rec[s].port \in Addresses
      /\ rec[s].job \in JobStates
      /\ IsProc(proc[s]) /\ proc[s].address \in Addresses
      /\ proc[s] # NoProc => (s \notin Job => proc[s].address # 0)
  BY DEF DeploymentIInv, Recording
<1>5. s \in retained => AsBefore(s) /\ rec[s].print.peers = Peers(rec, s)
  BY <1>1 DEF DeploymentIInv, Retaining, Changing, Phases
<1>6. proc[s] # NoProc =>
           /\ s \in retained \/ task[s] \in {"wait", "ends", "clean", "failed", "done"}
           /\ proc[s].peers = Peers(rec, s)
  BY <1>1 DEF DeploymentIInv, Started
<1>7. task[s] \in {"prepare", "run", "wait", "job", "ends", "clean"}
  BY DEF Active
<1>8. task[s] \notin {"none", "waiting", "blocked"}
  BY <1>7
<1>9. task[s] # "wait" => s \notin retained
  BY <1>3, <1>7 DEF Active
<1>10. task[s] \in {"prepare", "run", "job"} => proc[s] = NoProc
  BY <1>6, <1>9
<1> QED BY <1>1, <1>2, <1>3, <1>4, <1>5, <1>6, <1>8, <1>9, <1>10

(* Begin is such a step.                                                   *)
LEMMA BeginOf ==
  ASSUME DeploymentIInv, NEW s \in Service, Begin(s)
  PROVE  StepOf(s) /\ RecordOf(s) /\ StartOf(s)
<1>1. Functions
  BY DEF DeploymentIInv, Recording, Task, Functions
<1>2. /\ Alone(s) /\ UNCHANGED <<rec, proc, conf, retained>>
      /\ pc \in Phases /\ task[s] = "waiting" /\ s \in Names /\ (pc = "infra" => s \in Infra)
      /\ \A d \in DependsOn[s] : Settled(d)
      /\ \/ task'[s] = "blocked" /\ \E d \in DependsOn[s] : task[d] \in {"failed", "blocked"}
         \/ /\ \A d \in DependsOn[s] : task[d] = "done"
            /\ \/ task'[s] = "failed"
               \/ task'[s] = "prepare" /\ s \notin retained
               \/ task'[s] = (IF s \in Job THEN "done" ELSE "wait") /\ s \in retained
  BY <1>1, BeginEffect DEF Group, Alone, Frame
<1>3. task'[s] \in {"blocked", "failed", "prepare", "done", "wait"}
  BY <1>2
<1>4. s \in retained => AsBefore(s) /\ rec[s].print.peers = Peers(rec, s)
  BY <1>2 DEF DeploymentIInv, Retaining, Changing, Phases
<1>5. proc[s] # NoProc => s \in retained /\ proc[s].peers = Peers(rec, s)
  BY <1>2 DEF DeploymentIInv, Started
<1>6. StepOf(s)
  BY <1>2, <1>3 DEF StepOf, Active
<1>7. RecordOf(s)
  <2>1. /\ IsRec(rec[s]) /\ rec[s].host \in Addresses /\ rec[s].port \in Addresses
        /\ rec[s].job \in JobStates
        /\ IsProc(proc[s]) /\ proc[s].address \in Addresses
        /\ proc[s] # NoProc => (s \notin Job => proc[s].address # 0)
    BY DEF DeploymentIInv, Recording
  <2>2. AsBefore(s) => AsBefore(s)'
    BY <1>2 DEF AsBefore
  <2> QED BY <1>2, <1>4, <2>1, <2>2 DEF RecordOf
<1>8. StartOf(s)
  <2>1. task'[s] = "done" => s \in retained /\ s \in Job
    BY <1>2
  <2>2. AsBefore(s) /\ s \in Job => Placed(s)'
    BY <1>2 DEF AsBefore, Placed
  <2> QED BY <1>2, <1>3, <1>4, <1>5, <2>1, <2>2 DEF StartOf
<1> QED BY <1>6, <1>7, <1>8

(* Prepare is such a step.                                                 *)
LEMMA PrepareOf ==
  ASSUME DeploymentIInv, NEW s \in Service, Prepare(s)
  PROVE  StepOf(s) /\ RecordOf(s) /\ StartOf(s)
<1>0. task[s] = "prepare"
  BY DEF Prepare
<1>1. task[s] \in Active
  BY <1>0 DEF Active
<1>2. /\ Functions /\ Recording
  BY <1>1, Before DEF DeploymentIInv
<1>3. /\ Alone(s) /\ UNCHANGED <<proc, retained>> /\ task[s] = "prepare"
      /\ IsRec(rec'[s]) /\ rec'[s].ver = rec[s].ver /\ rec'[s].host = rec[s].host
      /\ rec'[s].print = rec[s].print /\ rec'[s].job = rec[s].job /\ rec'[s].port \in Addresses
      /\ \/ task'[s] = "failed"
         \/ /\ task'[s] = IF s \in Job THEN "job" ELSE "run"
            /\ conf'[s] = Peers(rec, s) /\ (s \in OnHost => rec'[s].port # 0)
  BY <1>2, PrepareEffect DEF Alone, Frame
<1>4. /\ pc \in Phases /\ s \in Names /\ (pc = "infra" => s \in Infra) /\ s \notin retained
      /\ proc[s] = NoProc
      /\ \A d \in DependsOn[s] : task[d] = "done"
      /\ rec[s].host \in Addresses /\ rec[s].job \in JobStates
      /\ IsProc(proc[s]) /\ proc[s].address \in Addresses
  BY <1>0, <1>1, Before
<1>5. StepOf(s)
  BY <1>1, <1>3, <1>4 DEF StepOf, Active
<1>6. RecordOf(s)
  BY <1>3, <1>4 DEF RecordOf
<1>7. StartOf(s)
  BY <1>3, <1>4 DEF StartOf
<1> QED BY <1>5, <1>6, <1>7

(* Run is such a step.                                                     *)
LEMMA RunOf ==
  ASSUME DeploymentIInv, NEW s \in Service, Run(s)
  PROVE  StepOf(s) /\ RecordOf(s) /\ StartOf(s)
<1>0. task[s] = "run"
  BY DEF Run
<1>1. task[s] \in Active
  BY <1>0 DEF Active
<1>2. /\ Functions /\ pc \in Phases /\ s \in Names /\ (pc = "infra" => s \in Infra)
      /\ s \notin retained /\ proc[s] = NoProc /\ s \notin Job
      /\ \A d \in DependsOn[s] : task[d] = "done"
      /\ IsRec(rec[s]) /\ rec[s].host \in Addresses /\ rec[s].port \in Addresses
      /\ rec[s].job \in JobStates
      /\ IsProc(proc[s]) /\ proc[s].address \in Addresses
  BY <1>0, <1>1, Before
<1>3. conf[s] = Peers(rec, s) /\ (s \in OnHost => rec[s].port # 0)
  BY <1>0, <1>2 DEF DeploymentIInv, Started
<1>4. Frame /\ UNCHANGED <<rec, conf, retained>>
  BY DEF Run, Frame, recovery, told
<1>5. ASSUME NEW x, To(s, x)
      PROVE  /\ task' = [t \in Service |-> task'[t]] /\ task'[s] = x
             /\ \A t \in Service \ {s} : task'[t] = task[t]
  BY <1>2, <1>5, Moved
<1>6. ASSUME NEW a, proc' = [proc EXCEPT ![s] = Process(s, a, conf[s])]
      PROVE  /\ proc' = [t \in Service |-> proc'[t]] /\ proc'[s] = Process(s, a, conf[s])
             /\ \A t \in Service \ {s} : proc'[t] = proc[t]
  BY <1>2, <1>6, Updates DEF Functions
<1>7. ASSUME NEW a \in Places(s) PROVE a \in Addresses /\ a # 0
  BY <1>2, <1>3, <1>7, DeploymentAssumption DEF Places, Addresses
<1>8. \/ /\ \E a \in Addresses \ {0} :
              /\ proc'[s] = Process(s, a, conf[s])
              /\ proc' = [t \in Service |-> proc'[t]] /\ \A t \in Service \ {s} : proc'[t] = proc[t]
         /\ To(s, "wait") \/ To(s, "failed")
      \/ To(s, "failed") /\ UNCHANGED proc
  BY <1>6, <1>7 DEF Run
<1>9. task'[s] \in {"wait", "failed"}
  BY <1>5, <1>8
<1>10. Alone(s)
  BY <1>2, <1>4, <1>5, <1>8 DEF Alone, Functions
<1>11. \/ /\ IsProc(proc'[s]) /\ proc'[s].address \in Addresses \ {0} /\ proc'[s].peers = conf[s]
       \/ proc'[s] = proc[s] /\ task'[s] = "failed"
  BY <1>5, <1>8, ProcessOf
<1>12. StepOf(s)
  BY <1>0, <1>2, <1>9, <1>10 DEF StepOf, Active
<1>13. RecordOf(s)
  BY <1>2, <1>4, <1>11 DEF RecordOf
<1>14. StartOf(s)
  BY <1>2, <1>3, <1>9, <1>11 DEF StartOf
<1> QED BY <1>12, <1>13, <1>14

(* Wait is such a step.                                                    *)
LEMMA WaitOf ==
  ASSUME DeploymentIInv, NEW s \in Service, Wait(s)
  PROVE  StepOf(s) /\ RecordOf(s) /\ StartOf(s)
<1>0. task[s] = "wait"
  BY DEF Wait
<1>1. task[s] \in Active
  BY <1>0 DEF Active
<1>2. /\ Functions /\ pc \in Phases /\ s \in Names /\ (pc = "infra" => s \in Infra) /\ s \notin Job
      /\ \A d \in DependsOn[s] : task[d] = "done"
      /\ IsRec(rec[s]) /\ rec[s].host \in Addresses /\ rec[s].port \in Addresses
      /\ rec[s].job \in JobStates
      /\ IsProc(proc[s]) /\ proc[s].address \in Addresses
      /\ proc[s] # NoProc => proc[s].address # 0
      /\ proc[s] # NoProc => proc[s].peers = Peers(rec, s)
      /\ s \in retained => AsBefore(s) /\ rec[s].print.peers = Peers(rec, s)
  BY <1>0, <1>1, Before
<1>3. Frame /\ UNCHANGED <<proc, conf, retained>>
  BY DEF Wait, Frame, recovery, told
<1>4. ASSUME NEW x, To(s, x)
      PROVE  /\ task' = [t \in Service |-> task'[t]] /\ task'[s] = x
             /\ \A t \in Service \ {s} : task'[t] = task[t]
  BY <1>2, <1>4, Moved
<1> DEFINE r == [rec EXCEPT ![s] = SetHost(@, proc[s].address)]
           q == [r EXCEPT ![s] = SetPrint(@, Fingerprint(r, s))]
<1>5. /\ r = [t \in Service |-> r[t]] /\ r[s] = SetHost(rec[s], proc[s].address)
      /\ \A t \in Service \ {s} : r[t] = rec[t]
  <2> DEFINE f == SetHost(rec[s], proc[s].address)
  <2>1. r = [rec EXCEPT ![s] = f]
    OBVIOUS
  <2> QED BY <1>2, <2>1, Updates DEF Functions
<1>6. /\ q = [t \in Service |-> q[t]] /\ q[s] = SetPrint(r[s], Fingerprint(r, s))
      /\ \A t \in Service \ {s} : q[t] = rec[t]
  <2> DEFINE f == SetPrint(r[s], Fingerprint(r, s))
  <2>1. q = [r EXCEPT ![s] = f]
    OBVIOUS
  <2> HIDE DEF r, q
  <2> QED BY <1>5, <2>1, Updates
<1>7. \/ /\ proc[s] # NoProc
         /\ \/ To(s, "failed") /\ rec' = r
            \/ To(s, "done") /\ rec' = IF s \in retained THEN r ELSE q
      \/ To(s, "failed") /\ UNCHANGED rec
  BY DEF Wait
<1> HIDE DEF r, q
<1>8. Peers(r, s) = Peers(rec, s)
  <2>1. \A d \in DependsOn[s] \ Job : Reach(r[d], d) = Reach(rec[d], d)
    BY <1>5, Dependencies
  <2> QED BY <2>1, SamePeers
<1>9. /\ IsRec(r[s]) /\ r[s].host = proc[s].address /\ r[s].ver = rec[s].ver
      /\ r[s].port = rec[s].port
      /\ r[s].print = rec[s].print /\ r[s].job = rec[s].job
  BY <1>2, <1>5, HostSet
<1>10. /\ IsRec(q[s]) /\ q[s].host = proc[s].address /\ q[s].ver = rec[s].ver
       /\ q[s].port = rec[s].port
       /\ q[s].print = Fingerprint(r, s) /\ q[s].job = rec[s].job
  BY <1>6, <1>9, PrintSet
<1>11. q[s].print.peers = Peers(rec, s)
  BY <1>8, <1>10, PrintOf
<1>12. /\ task'[s] \in {"failed", "done"} /\ task' = [t \in Service |-> task'[t]]
       /\ \A t \in Service \ {s} : task'[t] = task[t]
  BY <1>4, <1>7
<1>13. Alone(s)
  BY <1>2, <1>3, <1>5, <1>6, <1>7, <1>12 DEF Alone, Functions
<1>14. StepOf(s)
  BY <1>0, <1>2, <1>12, <1>13 DEF StepOf, Active
<1>15. s \in retained /\ proc[s] # NoProc => Reach(r[s], s) = Reach(rec[s], s)
  BY <1>2, <1>9 DEF AsBefore, Reach
<1>16. proc[s] # NoProc => proc[s].address # 0 /\ proc[s].address \in Addresses
  BY <1>2
<1>17. \/ proc[s] # NoProc /\ rec'[s] = r[s] /\ (s \notin retained => task'[s] = "failed")
       \/ proc[s] # NoProc /\ s \notin retained /\ rec'[s] = q[s]
       \/ rec'[s] = rec[s] /\ task'[s] = "failed"
  BY <1>4, <1>7
<1>18. /\ IsRec(rec'[s]) /\ rec'[s].ver = rec[s].ver
       /\ rec'[s].host \in Addresses /\ rec'[s].port \in Addresses /\ rec'[s].job \in JobStates
       /\ s \in retained => rec'[s].print = rec[s].print /\ Reach(rec'[s], s) = Reach(rec[s], s)
       /\ s \in retained => rec'[s].host = rec[s].host \/ rec'[s].host # 0
       /\ task'[s] = "done" => rec'[s].host # 0 /\ rec'[s].print.peers = Peers(rec, s)
  BY <1>2, <1>9, <1>10, <1>11, <1>12, <1>15, <1>16, <1>17
<1>19. s \in retained => AsBefore(s)'
  BY <1>2, <1>3, <1>18 DEF AsBefore
<1>20. RecordOf(s)
  BY <1>2, <1>3, <1>18, <1>19 DEF RecordOf
<1>21. StartOf(s)
  BY <1>2, <1>3, <1>12, <1>18 DEF StartOf, Placed
<1> QED BY <1>14, <1>20, <1>21

(* RunJob is such a step.                                                  *)
LEMMA RunJobOf ==
  ASSUME DeploymentIInv, NEW s \in Service, RunJob(s)
  PROVE  StepOf(s) /\ RecordOf(s) /\ StartOf(s)
<1>0. task[s] = "job"
  BY DEF RunJob
<1>1. task[s] \in Active
  BY <1>0 DEF Active
<1>2. /\ Functions /\ pc \in Phases /\ s \in Names /\ (pc = "infra" => s \in Infra)
      /\ s \notin retained /\ proc[s] = NoProc /\ s \in Job
      /\ \A d \in DependsOn[s] : task[d] = "done"
      /\ IsRec(rec[s]) /\ rec[s].host \in Addresses /\ rec[s].port \in Addresses
      /\ rec[s].job \in JobStates
  BY <1>0, <1>1, Before
<1>3. conf[s] = Peers(rec, s)
  BY <1>0, <1>2 DEF DeploymentIInv, Started
<1>4. Frame /\ UNCHANGED <<conf, retained>> /\ To(s, "ends")
  BY DEF RunJob, Frame, recovery, told
<1>5. /\ task' = [t \in Service |-> task'[t]] /\ task'[s] = "ends"
      /\ \A t \in Service \ {s} : task'[t] = task[t]
  BY <1>2, <1>4, Moved
<1>6. /\ proc' = [t \in Service |-> proc'[t]] /\ proc'[s] = Process(s, 0, conf[s])
      /\ \A t \in Service \ {s} : proc'[t] = proc[t]
  <2>1. proc' = [proc EXCEPT ![s] = Process(s, 0, conf[s])]
    BY DEF RunJob
  <2> QED BY <1>2, <2>1, Updates DEF Functions
<1>7. /\ rec' = [t \in Service |-> rec'[t]] /\ rec'[s] = SetJob(rec[s], "running")
      /\ \A t \in Service \ {s} : rec'[t] = rec[t]
  <2> DEFINE f == SetJob(rec[s], "running")
  <2>1. rec' = [rec EXCEPT ![s] = f]
    BY DEF RunJob
  <2> QED BY <1>2, <2>1, Updates DEF Functions
<1>8. Alone(s)
  BY <1>2, <1>4, <1>5, <1>6, <1>7 DEF Alone, Functions
<1>9. StepOf(s)
  BY <1>0, <1>2, <1>5, <1>8 DEF StepOf, Active
<1>10. RecordOf(s)
  <2>1. /\ IsRec(rec'[s]) /\ rec'[s].ver = rec[s].ver /\ rec'[s].host = rec[s].host
        /\ rec'[s].port = rec[s].port /\ rec'[s].job = "running"
    BY <1>2, <1>7, JobSet
  <2>2. IsProc(proc'[s]) /\ proc'[s].address = 0
    BY <1>6, ProcessOf
  <2> QED BY <1>2, <2>1, <2>2 DEF RecordOf, JobStates, Addresses
<1>11. StartOf(s)
  <2>1. proc'[s].peers = Peers(rec, s)
    BY <1>3, <1>6, ProcessOf
  <2> QED BY <1>5, <2>1 DEF StartOf
<1> QED BY <1>9, <1>10, <1>11

(* JobEnds is such a step.                                                 *)
LEMMA JobEndsOf ==
  ASSUME DeploymentIInv, NEW s \in Service, JobEnds(s)
  PROVE  StepOf(s) /\ RecordOf(s) /\ StartOf(s)
<1>0. task[s] = "ends"
  BY DEF JobEnds
<1>1. task[s] \in Active
  BY <1>0 DEF Active
<1>2. /\ Functions /\ pc \in Phases /\ s \in Names /\ (pc = "infra" => s \in Infra)
      /\ s \notin retained /\ s \in Job
      /\ \A d \in DependsOn[s] : task[d] = "done"
      /\ IsRec(rec[s]) /\ rec[s].host \in Addresses /\ rec[s].port \in Addresses
      /\ rec[s].job \in JobStates
      /\ IsProc(proc[s]) /\ proc[s].address \in Addresses
      /\ proc[s] # NoProc => proc[s].peers = Peers(rec, s)
  BY <1>0, <1>1, Before
<1>3. Frame /\ UNCHANGED <<proc, conf, retained>> /\ To(s, "clean")
  BY DEF JobEnds, Frame, recovery, told
<1>4. /\ task' = [t \in Service |-> task'[t]] /\ task'[s] = "clean"
      /\ \A t \in Service \ {s} : task'[t] = task[t]
  BY <1>2, <1>3, Moved
<1>5. \E end \in JobStates :
        /\ rec' = [t \in Service |-> rec'[t]] /\ rec'[s] = SetJob(rec[s], end)
        /\ \A t \in Service \ {s} : rec'[t] = rec[t]
  <2>1. PICK end \in {"succeeded", IF aborted THEN "interrupted" ELSE "failed"} :
          rec' = [rec EXCEPT ![s] = SetJob(@, end)]
    BY DEF JobEnds
  <2> DEFINE f == SetJob(rec[s], end)
  <2>2. rec' = [rec EXCEPT ![s] = f]
    BY <2>1
  <2>3. end \in JobStates
    BY DEF JobStates
  <2> QED BY <1>2, <2>2, <2>3, Updates DEF Functions
<1>6. Alone(s)
  BY <1>2, <1>3, <1>4, <1>5 DEF Alone, Functions
<1>7. StepOf(s)
  BY <1>0, <1>2, <1>4, <1>6 DEF StepOf, Active
<1>8. RecordOf(s)
  <2>1. /\ IsRec(rec'[s]) /\ rec'[s].ver = rec[s].ver /\ rec'[s].host = rec[s].host
        /\ rec'[s].port = rec[s].port /\ rec'[s].job \in JobStates
    BY <1>2, <1>5, JobSet
  <2> QED BY <1>2, <1>3, <2>1 DEF RecordOf
<1>9. StartOf(s)
  BY <1>2, <1>3, <1>4 DEF StartOf
<1> QED BY <1>7, <1>8, <1>9

(* JobCleaned is such a step.                                              *)
LEMMA JobCleanedOf ==
  ASSUME DeploymentIInv, NEW s \in Service, JobCleaned(s)
  PROVE  StepOf(s) /\ RecordOf(s) /\ StartOf(s)
<1>0. task[s] = "clean"
  BY DEF JobCleaned
<1>1. task[s] \in Active
  BY <1>0 DEF Active
<1>2. /\ Functions /\ pc \in Phases /\ s \in Names /\ (pc = "infra" => s \in Infra)
      /\ s \notin retained /\ s \in Job
      /\ \A d \in DependsOn[s] : task[d] = "done"
      /\ IsRec(rec[s]) /\ rec[s].host \in Addresses /\ rec[s].port \in Addresses
      /\ rec[s].job \in JobStates
      /\ IsProc(proc[s]) /\ proc[s].address \in Addresses
      /\ proc[s] # NoProc => proc[s].peers = Peers(rec, s)
  BY <1>0, <1>1, Before
<1>3. Frame /\ UNCHANGED <<conf, retained>>
  BY DEF JobCleaned, Frame, recovery, told
<1>4. ASSUME NEW x, To(s, x)
      PROVE  /\ task' = [t \in Service |-> task'[t]] /\ task'[s] = x
             /\ \A t \in Service \ {s} : task'[t] = task[t]
  BY <1>2, <1>4, Moved
<1>5. ASSUME proc' = [proc EXCEPT ![s] = NoProc]
      PROVE  /\ proc' = [t \in Service |-> proc'[t]] /\ proc'[s] = NoProc
             /\ \A t \in Service \ {s} : proc'[t] = proc[t]
  BY <1>2, <1>5, Updates DEF Functions
<1>6. ASSUME rec' = [rec EXCEPT ![s] = SetPrint(@, Fingerprint(rec, s))]
      PROVE  /\ rec' = [t \in Service |-> rec'[t]]
             /\ rec'[s] = SetPrint(rec[s], Fingerprint(rec, s))
             /\ \A t \in Service \ {s} : rec'[t] = rec[t]
  <2> DEFINE f == SetPrint(rec[s], Fingerprint(rec, s))
  <2>1. rec' = [rec EXCEPT ![s] = f]
    BY <1>6
  <2> QED BY <1>2, <2>1, Updates DEF Functions
<1>7. /\ rec' = [t \in Service |-> rec'[t]] /\ \A t \in Service \ {s} : rec'[t] = rec[t]
      /\ proc' = [t \in Service |-> proc'[t]] /\ \A t \in Service \ {s} : proc'[t] = proc[t]
      /\ proc'[s] \in {proc[s], NoProc}
      /\ \/ /\ To(s, "done") /\ rec[s].job = "succeeded" /\ proc'[s] = NoProc
            /\ rec'[s] = SetPrint(rec[s], Fingerprint(rec, s))
         \/ To(s, "failed") /\ rec'[s] = rec[s]
  BY <1>2, <1>5, <1>6 DEF JobCleaned, Functions
<1>8. /\ task'[s] \in {"done", "failed"} /\ task' = [t \in Service |-> task'[t]]
      /\ \A t \in Service \ {s} : task'[t] = task[t]
  BY <1>4, <1>7
<1>9. Alone(s)
  BY <1>2, <1>3, <1>7, <1>8 DEF Alone, Functions
<1>10. StepOf(s)
  BY <1>0, <1>2, <1>8, <1>9 DEF StepOf, Active
<1>11. /\ IsRec(rec'[s]) /\ rec'[s].ver = rec[s].ver /\ rec'[s].host = rec[s].host
       /\ rec'[s].port = rec[s].port /\ rec'[s].job = rec[s].job
  BY <1>2, <1>7, PrintSet
<1>12. RecordOf(s)
  BY <1>2, <1>7, <1>11, Nothings DEF RecordOf, Addresses
<1>13. task'[s] = "done" => rec[s].job = "succeeded" /\ proc'[s] = NoProc
  BY <1>4, <1>7
<1>14. StartOf(s)
  BY <1>2, <1>7, <1>8, <1>11, <1>13 DEF StartOf, Placed
<1> QED BY <1>10, <1>12, <1>14

(* The addresses a service was given, or kept with, stay right while       *)
(* another service starts: the ones it depends on are all done, or kept.   *)
LEMMA PeersKept ==
  ASSUME DeploymentIInv, NEW s \in Service, StepOf(s), RecordOf(s), NEW t \in Service,
         t = s \/ t \in retained \/ task[t] \notin {"none", "waiting", "blocked"}
  PROVE  Peers(rec', t) = Peers(rec, t)
<1>1. pc \in Phases /\ task[s] # "done" /\ \A d \in Service \ {s} : rec'[d] = rec[d]
  BY DEF StepOf, Alone, Active
<1>2. task[t] \notin {"none", "waiting", "blocked"} => s \notin DependsOn[t]
  BY <1>1 DEF DeploymentIInv, Waves
<1>3. t \in retained => DependsOn[t] \subseteq retained
  BY <1>1 DEF DeploymentIInv, Retaining, Changing, Phases
<1>4. s \in retained /\ s \notin Job => Reach(rec'[s], s) = Reach(rec[s], s)
  BY DEF RecordOf
<1>5. DependsOn[t] \subseteq Service /\ t \notin DependsOn[t]
  BY Dependencies
<1>6. ASSUME NEW d \in DependsOn[t] \ Job PROVE Reach(rec'[d], d) = Reach(rec[d], d)
  <2>1. CASE d # s
    BY <1>1, <1>5, <2>1
  <2>2. CASE d = s
    BY <1>2, <1>3, <1>4, <1>5, <2>2
  <2> QED BY <2>1, <2>2
<1> QED BY <1>6, SamePeers

(* Such a step keeps every record and process well formed, and what runs   *)
(* recorded.                                                               *)
LEMMA WaveRecording ==
  ASSUME DeploymentIInv, NEW s \in Service, StepOf(s), RecordOf(s), StartOf(s)
  PROVE  Recording'
<1>1. /\ rec' = [t \in Service |-> rec'[t]] /\ proc' = [t \in Service |-> proc'[t]]
      /\ \A t \in Service \ {s} : rec'[t] = rec[t] /\ proc'[t] = proc[t]
  BY DEF StepOf, Alone
<1>2. ASSUME NEW t \in Service
      PROVE
       /\ IsRec(rec[t]) /\ rec[t].host \in Addresses /\ rec[t].port \in Addresses
       /\ rec[t].job \in JobStates
       /\ rec[t].ver = "absent" => rec[t] = NoRec
       /\ IsProc(proc[t]) /\ proc[t].address \in Addresses
       /\ proc[t] # NoProc => rec[t].ver # "absent" /\ (t \notin Job => proc[t].address # 0)
  BY DEF DeploymentIInv, Recording
<1>3. rec[s].ver # "absent"
  BY DEF StepOf, DeploymentIInv, Started
<1>4. ASSUME NEW t \in Service
      PROVE
       /\ IsRec(rec'[t]) /\ rec'[t].host \in Addresses /\ rec'[t].port \in Addresses
       /\ rec'[t].job \in JobStates
       /\ rec'[t].ver = "absent" => rec'[t] = NoRec
       /\ IsProc(proc'[t]) /\ proc'[t].address \in Addresses
       /\ proc'[t] # NoProc => rec'[t].ver # "absent" /\ (t \notin Job => proc'[t].address # 0)
  <2>1. CASE t # s
    BY <1>1, <1>2, <2>1
  <2>2. CASE t = s
    BY <1>3, <2>2 DEF RecordOf
  <2> QED BY <2>1, <2>2
<1> QED BY <1>1, <1>4 DEF Recording

(* It leaves the deployment and the places of the other tasks alone.       *)
LEMMA WaveControl ==
  ASSUME DeploymentIInv, NEW s \in Service, StepOf(s), RecordOf(s), StartOf(s)
  PROVE  Control' /\ Task'
<1>1. /\ UNCHANGED <<status, pc, wanted, before, mutated, retained, todo>> /\ pc \in Phases
      /\ task' = [t \in Service |-> task'[t]] /\ conf' = [t \in Service |-> conf'[t]]
      /\ task'[s] \in {"blocked", "failed", "done"} \cup Active
      /\ \A t \in Service \ {s} : task'[t] = task[t]
  BY DEF StepOf, Alone, Frame
<1>2. Control'
  BY <1>1 DEF DeploymentIInv, Control, Names, Phases
<1>3. ASSUME NEW t \in Service
      PROVE  /\ task'[t] \in TaskPlaces
             /\ task'[t] = "build" => pc' = "build"
             /\ task'[t] = "inspect" => pc' = "inspect"
             /\ task'[t] = "remove" => pc' = "remove"
             /\ task'[t] \in Active => pc' \in Phases
             /\ pc' = "inspect" /\ task'[t] # "none" => t \in Names'
  <2>1. /\ task[t] \in TaskPlaces
        /\ task[t] = "build" => pc = "build"
        /\ task[t] = "inspect" => pc = "inspect"
        /\ task[t] = "remove" => pc = "remove"
    BY DEF DeploymentIInv, Task
  <2>2. CASE t # s
    BY <1>1, <2>1, <2>2 DEF Phases
  <2>3. CASE t = s
    BY <1>1, <2>3 DEF Phases, TaskPlaces, Active
  <2> QED BY <2>2, <2>3
<1>4. task' \in [Service -> TaskPlaces]
  BY <1>1, <1>3
<1>5. Task'
  BY <1>1, <1>3, <1>4 DEF Task
<1> QED BY <1>2, <1>5

(* It keeps the order of the waves: nothing begins before what it depends  *)
(* on is done.                                                             *)
LEMMA WaveWaves ==
  ASSUME DeploymentIInv, NEW s \in Service, StepOf(s), RecordOf(s), StartOf(s)
  PROVE  Waves'
<1>1. /\ pc' = pc /\ wanted' = wanted /\ retained' = retained /\ pc \in Phases
      /\ \A t \in Service \ {s} : task'[t] = task[t]
      /\ s \in Names /\ (pc = "infra" => s \in Infra) /\ task[s] \in {"waiting"} \cup Active
      /\ task'[s] \in {"blocked", "failed", "done"} \cup Active
      /\ task'[s] = "blocked" => \E d \in DependsOn[s] : task[d] \in {"failed", "blocked"}
      /\ task'[s] # "blocked" => \A d \in DependsOn[s] : task[d] = "done"
  BY DEF StepOf, Alone, Frame
<1>2. /\ s \in Job => task'[s] \notin {"run", "wait"}
      /\ s \notin Job => task'[s] \notin {"job", "ends", "clean"}
      /\ s \in retained => task'[s] \notin Active \ {"wait"}
  BY DEF StepOf
<1>3. Names' = Names
  BY <1>1 DEF Names
<1>4. ASSUME NEW t \in Service
      PROVE  /\ task[t] \in {"none", "waiting", "blocked", "failed", "done"} \cup Active
             /\ task[t] = "none" <=> t \notin Names
             /\ t \in Job => task[t] \notin {"run", "wait"}
             /\ t \notin Job => task[t] \notin {"job", "ends", "clean"}
             /\ t \in retained => task[t] \notin Active \ {"wait"}
             /\ pc = "infra" /\ t \notin Infra => task[t] \in {"none", "waiting"}
             /\ pc = "apps" /\ t \in Infra => task[t] \in {"none", "done", "blocked", "failed"}
             /\ task[t] \notin {"none", "waiting", "blocked"} =>
                  \A d \in DependsOn[t] : task[d] = "done"
  BY <1>1 DEF DeploymentIInv, Waves
<1>5. DependsOn[s] \subseteq Service \ {s} /\ task[s] # "done"
  BY <1>1, Dependencies DEF Active
<1>6. pc = "apps" => s \notin Infra
  BY <1>1, <1>4 DEF Active
<1>7. ASSUME NEW t \in Service
      PROVE  /\ task'[t] \in {"none", "waiting", "blocked", "failed", "done"} \cup Active
             /\ task'[t] = "none" <=> t \notin Names'
             /\ t \in Job => task'[t] \notin {"run", "wait"}
             /\ t \notin Job => task'[t] \notin {"job", "ends", "clean"}
             /\ t \in retained' => task'[t] \notin Active \ {"wait"}
             /\ pc' = "infra" /\ t \notin Infra => task'[t] \in {"none", "waiting"}
             /\ pc' = "apps" /\ t \in Infra => task'[t] \in {"none", "done", "blocked", "failed"}
             /\ task'[t] \notin {"none", "waiting", "blocked"} =>
                  \A d \in DependsOn[t] : task'[d] = "done"
  <2>1. CASE t = s
    <3>1. task'[s] # "none"
      BY <1>1 DEF Active
    <3>2. task'[s] # "blocked" => \A d \in DependsOn[s] : task'[d] = "done"
      BY <1>1, <1>5
    <3> QED BY <1>1, <1>2, <1>3, <1>6, <2>1, <3>1, <3>2
  <2>2. CASE t # s
    <3>1. task'[t] = task[t] /\ DependsOn[t] \subseteq Service
      BY <1>1, <2>2, Dependencies
    <3>2. task[t] \notin {"none", "waiting", "blocked"} => \A d \in DependsOn[t] : task'[d] = "done"
      BY <1>1, <1>4, <1>5, <3>1
    <3> QED BY <1>1, <1>3, <1>4, <3>1, <3>2
  <2> QED BY <2>1, <2>2
<1>8. (\E t \in Service : task'[t] = "blocked") => \E t \in Service : task'[t] = "failed"
  <2>1. (\E t \in Service : task[t] = "blocked") => \E t \in Service : task[t] = "failed"
    BY <1>1 DEF DeploymentIInv, Waves, Among
  <2>2. \A t \in Service : task[t] = "failed" => t # s /\ task'[t] = "failed"
    BY <1>1 DEF Active
  <2>3. \A t \in Service : task'[t] = "blocked" => task[t] = "blocked" \/ t = s
    BY <1>1
  <2>4. task'[s] = "blocked" => \E t \in Service : task[t] \in {"failed", "blocked"}
    BY <1>1, <1>5
  <2> QED BY <2>1, <2>2, <2>3, <2>4
<1> QED BY <1>7, <1>8 DEF Waves, Among

(* It leaves the services that are kept as they were.                      *)
LEMMA WaveRetaining ==
  ASSUME DeploymentIInv, NEW s \in Service, StepOf(s), RecordOf(s), StartOf(s)
  PROVE  Removing' /\ Inspected' /\ Retaining'
<1>1. /\ pc' = pc /\ wanted' = wanted /\ retained' = retained /\ mutated' = mutated /\ pc \in Phases
      /\ \A t \in Service \ {s} : rec'[t] = rec[t] /\ proc'[t] = proc[t]
      /\ s \in Names
  BY DEF StepOf, Alone, Frame
<1>2. /\ \A t \in retained :
           /\ AsBefore(t) /\ DependsOn[t] \subseteq retained
           /\ rec[t].print.peers = Peers(rec, t)
      /\ ~mutated => Names \cup Recorded \subseteq retained
  BY <1>1 DEF DeploymentIInv, Retaining, Changing, Phases
<1>3. retained \subseteq Service
  BY DEF DeploymentIInv, Control, Names
<1>4. ASSUME NEW t \in retained
      PROVE  AsBefore(t)' /\ rec'[t].print.peers = Peers(rec', t)
  <2>1. Peers(rec', t) = Peers(rec, t)
    BY <1>3, PeersKept
  <2>2. CASE t = s
    BY <1>2, <2>1, <2>2 DEF RecordOf
  <2>3. CASE t # s
    <3>1. rec'[t] = rec[t] /\ proc'[t] = proc[t]
      BY <1>1, <1>3, <2>3
    <3> QED BY <1>2, <2>1, <3>1 DEF AsBefore
  <2> QED BY <2>2, <2>3
<1>5. ~mutated' => Names' \cup Recorded' \subseteq retained'
  <2>1. s \in Recorded
    <3>1. rec[s].ver # "absent"
      BY <1>1 DEF DeploymentIInv, Started
    <3> QED BY <3>1, Nothings DEF Recorded
  <2>2. Recorded' \subseteq Recorded
    BY <1>1, <2>1 DEF Recorded
  <2>3. Names' = Names
    BY <1>1 DEF Names
  <2> QED BY <1>1, <1>2, <2>2, <2>3
<1>6. Retaining'
  BY <1>1, <1>2, <1>4, <1>5 DEF Retaining
<1> QED BY <1>1, <1>6 DEF Removing, Inspected, Phases

(* It keeps everything that was started as it must be.                     *)
LEMMA WaveStarted ==
  ASSUME DeploymentIInv, NEW s \in Service, StepOf(s), RecordOf(s), StartOf(s)
  PROVE  Started'
<1>1. /\ pc' = pc /\ wanted' = wanted /\ retained' = retained /\ pc \in Phases
      /\ \A t \in Service \ {s} : /\ rec'[t] = rec[t] /\ proc'[t] = proc[t]
                                  /\ task'[t] = task[t] /\ conf'[t] = conf[t]
  BY DEF StepOf, Alone, Frame
<1>2. Names' = Names
  BY <1>1 DEF Names
<1>3. ASSUME NEW t \in Service
      PROVE
       /\ proc[t] # NoProc =>
           /\ t \in retained \/ task[t] \in {"wait", "ends", "clean", "failed", "done"}
           /\ proc[t].peers = Peers(rec, t)
       /\ t \in Names => rec[t].ver # "absent"
       /\ rec[t].ver # "absent" => t \in Names
       /\ task[t] \in {"run", "job"} => conf[t] = Peers(rec, t)
       /\ task[t] = "run" /\ t \in OnHost => rec[t].port # 0
       /\ task[t] = "done" => Placed(t) /\ (proc[t] # NoProc => rec[t].print.peers = Peers(rec, t))
  BY <1>1 DEF DeploymentIInv, Started
<1>4. ASSUME NEW t \in Service
      PROVE
       /\ proc'[t] # NoProc =>
           /\ t \in retained' \/ task'[t] \in {"wait", "ends", "clean", "failed", "done"}
           /\ proc'[t].peers = Peers(rec', t)
       /\ t \in Names' => rec'[t].ver # "absent"
       /\ rec'[t].ver # "absent" => t \in Names'
       /\ task'[t] \in {"run", "job"} => conf'[t] = Peers(rec', t)
       /\ task'[t] = "run" /\ t \in OnHost => rec'[t].port # 0
       /\ task'[t] = "done" => Placed(t)' /\ (proc'[t] # NoProc =>
            rec'[t].print.peers = Peers(rec', t))
  <2>1. CASE t = s
    <3>1. Peers(rec', s) = Peers(rec, s)
      BY PeersKept
    <3>2. rec'[s].ver = rec[s].ver
      BY DEF RecordOf
    <3> QED BY <1>1, <1>2, <1>3, <2>1, <3>1, <3>2 DEF StartOf
  <2>2. CASE t # s
    <3>1. rec'[t] = rec[t] /\ proc'[t] = proc[t] /\ task'[t] = task[t] /\ conf'[t] = conf[t]
      BY <1>1, <2>2
    <3>2. CASE t \in retained \/
                 task[t] \in {"run", "job", "wait", "ends", "clean", "failed", "done"}
      <4>1. Peers(rec', t) = Peers(rec, t)
        BY <3>2, PeersKept
      <4>2. Placed(t)' <=> Placed(t)
        BY <3>1 DEF Placed
      <4> QED BY <1>1, <1>2, <1>3, <3>1, <4>1, <4>2
    <3>3. CASE /\ t \notin retained
               /\ task[t] \notin {"run", "job", "wait", "ends", "clean", "failed", "done"}
      BY <1>1, <1>2, <1>3, <3>1, <3>3
    <3> QED BY <3>2, <3>3
  <2> QED BY <2>1, <2>2
<1> QED BY <1>4 DEF Started

(* While services start, the records and the processes agree as they must. *)
LEMMA WaveEnds ==
  ASSUME pc' \in Phases, Control', Started'
  PROVE  Fits' /\ TrueRecords' /\ PeersCurrent'
BY DEF Control, Started, Fits, TrueRecords, PeersCurrent, Changing, Phases

(* So every step of a wave preserves the invariant.                        *)
LEMMA WaveStep ==
  ASSUME DeploymentIInv, NEW s \in Service, StepOf(s), RecordOf(s), StartOf(s)
  PROVE  DeploymentIInv'
<1>1. pc' \in Phases
  BY DEF StepOf, Alone, Frame
<1>2. Recording' /\ Control' /\ Task' /\ Waves' /\ Removing' /\ Inspected' /\ Retaining' /\ Started'
  BY WaveRecording, WaveControl, WaveWaves, WaveRetaining, WaveStarted
<1>3. Fits' /\ TrueRecords' /\ PeersCurrent'
  BY <1>1, <1>2, WaveEnds
<1> QED BY <1>2, <1>3 DEF DeploymentIInv

(* And so does every action of a service that starts.                      *)
LEMMA StartingStep ==
  ASSUME DeploymentIInv, NEW s \in Service, Starting(s)
  PROVE  DeploymentIInv'
BY BeginOf, PrepareOf, RunOf, WaitOf, RunJobOf, JobEndsOf, JobCleanedOf, WaveStep DEF Starting

(* When processes only end.                                                *)
LEMMA Lessening ==
  ASSUME DeploymentIInv, rec' = rec, proc' = [t \in Service |-> proc'[t]],
         \A t \in Service : proc'[t] \in {proc[t], NoProc}
  PROVE  /\ Recording' /\ Fits' /\ \A t \in Service : AsBefore(t) => AsBefore(t)'
         /\ (status' = "running" \/ pc' = "recover" => status = "running" \/ pc = "recover") =>
              TrueRecords'
<1>1. Recording'
  BY Nothings DEF DeploymentIInv, Recording, Addresses
<1>2. Fits'
  BY DEF DeploymentIInv, Fits
<1>3. ASSUME NEW t \in Service, AsBefore(t) PROVE AsBefore(t)'
  BY <1>3 DEF AsBefore
<1>4. ASSUME status' = "running" \/ pc' = "recover" => status = "running" \/
               pc = "recover" PROVE TrueRecords'
  BY <1>4 DEF DeploymentIInv, TrueRecords
<1> QED BY <1>1, <1>2, <1>3, <1>4

(* When neither a record nor a process changes.                            *)
LEMMA Standing ==
  ASSUME DeploymentIInv, rec' = rec, proc' = proc
  PROVE  /\ Recording' /\ Fits' /\ \A t \in Service : AsBefore(t) => AsBefore(t)'
         /\ (status' = "running" \/ pc' = "recover" => status = "running" \/ pc = "recover") =>
              TrueRecords'
<1>1. proc' = [t \in Service |-> proc'[t]]
  BY DEF DeploymentIInv, Recording
<1> QED BY <1>1, Lessening

(* Outside the steps of a deployment that change services.                 *)
LEMMA Elsewhere ==
  ASSUME pc' \notin Changing
  PROVE  Waves' /\ Removing' /\ Retaining' /\ Started'
BY DEF Waves, Removing, Retaining, Started, Changing, Phases

(* When every task is over and stays where it is.                          *)
LEMMA Ended ==
  ASSUME Task, task' = task, conf' = conf, pc' # "inspect",
         \A t \in Service : task[t] \notin {"build", "inspect", "remove"} \cup Active
  PROVE  Task'
BY DEF Task

(* No task is under way when no deployment is.                             *)
LEMMA IdleTasks ==
  ASSUME DeploymentIInv, pc \in {"none", "deployed", "recover", "down"}, NEW t \in Service
  PROVE  task[t] \notin {"build", "inspect", "remove"} \cup Active
BY DEF DeploymentIInv, Task, Phases

(* A deployment that fails has changed nothing, or has failed.             *)
LEMMA FailTruth ==
  ASSUME DeploymentIInv, pc \in Changing, rec' = rec, proc' = proc, Fail
  PROVE  TrueRecords' /\ pc' = "none" /\ status' \in {before, "failed"}
<1>1. pc' = "none" /\ status' = IF mutated THEN "failed" ELSE before
  BY DEF Fail, Broke
<1>2. ASSUME status' = "running", NEW t \in Service, proc[t] # NoProc
      PROVE  rec[t].print.peers = proc[t].peers
  <2>1. ~mutated
    BY <1>1, <1>2
  <2>2. /\ Names \cup Recorded \subseteq retained
        /\ \A s \in retained : rec[s].print.peers = Peers(rec, s)
    BY <2>1 DEF DeploymentIInv, Retaining
  <2>3. t \in Recorded
    BY <1>2, Nothings DEF DeploymentIInv, Recording, Recorded
  <2> QED BY <1>2, <2>2, <2>3 DEF DeploymentIInv, Fits
<1>3. TrueRecords'
  BY <1>1, <1>2 DEF TrueRecords
<1> QED BY <1>1, <1>3

(* A deployment begins.                                                    *)
LEMMA DeployStep ==
  ASSUME DeploymentIInv, NEW m \in Manifests, NEW again \in BOOLEAN, Deploy(m, again)
  PROVE  DeploymentIInv'
<1>1. /\ pc \in {"none", "deployed"} /\ pc' = "build" /\ wanted' = m /\ before' = status'
      /\ retained' = {}
      /\ status' = (IF status = "none" THEN "pending" ELSE status)
      /\ rec' = rec /\ proc' = proc /\ conf' = conf
      /\ task' = All({s \in Service : m[s] # "absent"}, "build")
  BY DEF Deploy, Resting
<1>2. Recording' /\ Fits' /\ TrueRecords'
  BY <1>1, Standing
<1>3. Control'
  <2>1. m \in [Service -> Version \cup {"absent"}]
    BY DeploymentAssumption
  <2> QED BY <1>1, <2>1 DEF DeploymentIInv, Control, Changing, Phases
<1>4. Task'
  BY <1>1 DEF DeploymentIInv, Task, All, TaskPlaces, Active, Phases
<1>5. Waves' /\ Removing' /\ Retaining' /\ Started'
  BY <1>1, Elsewhere DEF Changing, Phases
<1> QED BY <1>1, <1>2, <1>3, <1>4, <1>5 DEF DeploymentIInv, Inspected, PeersCurrent

(* A service is built, or not.                                             *)
LEMMA BuiltStep ==
  ASSUME DeploymentIInv, NEW s \in Service, Built(s)
  PROVE  DeploymentIInv'
<1>1. /\ task[s] = "build" /\ (To(s, "built") \/ To(s, "failed"))
      /\ UNCHANGED <<status, rec, proc, pc, wanted, before, mutated, retained, conf, todo>>
  BY DEF Built, recovery, told
<1>2. pc = "build"
  BY <1>1 DEF DeploymentIInv, Task
<1>3. Recording' /\ Fits' /\ TrueRecords'
  BY <1>1, Standing
<1>4. Control'
  BY <1>1, <1>2 DEF DeploymentIInv, Control, Recorded, Names
<1>5. Task'
  BY <1>1, <1>2 DEF DeploymentIInv, Task, To, TaskPlaces, Active
<1>6. Waves' /\ Removing' /\ Retaining' /\ Started'
  BY <1>1, <1>2, Elsewhere DEF Changing, Phases
<1> QED BY <1>1, <1>2, <1>3, <1>4, <1>5, <1>6 DEF DeploymentIInv, Inspected, PeersCurrent

(* All are built, or the deployment fails.                                 *)
LEMMA BuildsDoneStep ==
  ASSUME DeploymentIInv, BuildsDone
  PROVE  DeploymentIInv'
<1>1. /\ pc = "build" /\ ~Among("build")
      /\ UNCHANGED <<rec, proc, wanted, before, mutated, retained, conf, todo>>
      /\ \/ Fail /\ task' = task
         \/ pc' = "inspect" /\ task' = All(Names, "inspect") /\ status' = status
  BY DEF BuildsDone, recovery, told
<1>2. status = before
  BY <1>1 DEF DeploymentIInv, Control
<1>3. /\ \/ pc' = "none" /\ task' = task
         \/ pc' = "inspect" /\ task' = All(Names, "inspect") /\ status' = status
      /\ status' \in {status, "failed"}
  BY <1>1, <1>2 DEF Fail, Broke
<1>4. Recording' /\ Fits' /\ TrueRecords'
  BY <1>1, <1>3, Standing
<1>5. Control'
  BY <1>1, <1>2, <1>3 DEF DeploymentIInv, Control, Recorded, Names, Changing, Phases
<1>6. Task'
  <2>1. ASSUME pc' = "none", task' = task PROVE Task'
    <3>1. \A t \in Service : task[t] \notin {"build", "inspect", "remove"} \cup Active
      BY <1>1 DEF DeploymentIInv, Task, Among, Phases
    <3> QED BY <1>1, <2>1, <3>1, Ended DEF DeploymentIInv
  <2>2. ASSUME pc' = "inspect", task' = All(Names, "inspect") PROVE Task'
    BY <1>1, <2>2 DEF DeploymentIInv, Task, All, TaskPlaces, Active, Phases, Names
  <2> QED BY <1>3, <2>1, <2>2
<1>7. Inspected' /\ PeersCurrent'
  BY <1>3 DEF Inspected, PeersCurrent, All
<1>8. Waves' /\ Removing' /\ Retaining' /\ Started'
  BY <1>3, Elsewhere DEF Changing, Phases
<1> QED BY <1>4, <1>5, <1>6, <1>7, <1>8 DEF DeploymentIInv

(* A service is found unchanged only with the addresses it was recorded    *)
(* with.                                                                   *)
LEMMA InspectStep ==
  ASSUME DeploymentIInv, NEW s \in Service, Inspect(s)
  PROVE  DeploymentIInv'
<1>1. /\ task[s] = "inspect"
      /\ UNCHANGED <<status, rec, proc, pc, wanted, before, mutated, retained, conf, todo>>
  BY DEF Inspect, recovery, told
<1>2. \/ /\ To(s, "kept") /\ Unchanged(s)
         /\ IF s \in Job THEN rec[s].job = "succeeded"
            ELSE proc[s] # NoProc /\ proc[s].address = Reach(rec[s], s)
      \/ To(s, "changed") \/ To(s, "failed")
  BY DEF Inspect
<1>3. pc = "inspect" /\ s \in Names
  BY <1>1 DEF DeploymentIInv, Task
<1>4. Recording' /\ Fits' /\ TrueRecords'
  BY <1>1, Standing
<1>5. Control'
  BY <1>1, <1>3 DEF DeploymentIInv, Control, Recorded, Names
<1>6. Functions
  BY DEF DeploymentIInv, Recording, Task, Functions
<1>7. /\ task' = [t \in Service |-> task'[t]] /\ task'[s] \in {"kept", "changed", "failed"}
      /\ \A t \in Service \ {s} : task'[t] = task[t]
  BY <1>2, <1>6, Moved
<1>8. Task'
  BY <1>1, <1>3, <1>7 DEF DeploymentIInv, Task, TaskPlaces, Active, Names
<1>9. task'[s] = "kept" => AsBefore(s) /\ rec[s].print.peers = Peers(Candidate, s)
  <2>1. ASSUME task'[s] = "kept"
        PROVE  /\ Unchanged(s)
               /\ IF s \in Job THEN rec[s].job = "succeeded"
                  ELSE proc[s] # NoProc /\ proc[s].address = Reach(rec[s], s)
    BY <1>2, <1>6, <2>1, Moved
  <2>2. ASSUME Unchanged(s) PROVE /\ (s \notin Job => rec[s].host # 0)
                                  /\ rec[s].print.peers = Peers(Candidate, s)
    BY <2>2, PrintOf DEF Unchanged
  <2> QED BY <2>1, <2>2 DEF AsBefore
<1>10. Inspected'
  <2>1. Candidate' = Candidate /\ \A t \in Service : AsBefore(t) => AsBefore(t)'
    BY <1>1, Standing DEF Candidate, Names
  <2> QED BY <1>1, <1>3, <1>7, <1>9, <2>1 DEF DeploymentIInv, Inspected
<1>11. Waves' /\ Removing' /\ Retaining' /\ Started'
  BY <1>1, <1>3, Elsewhere DEF Changing, Phases
<1> QED BY <1>1, <1>3, <1>4, <1>5, <1>8, <1>10, <1>11 DEF DeploymentIInv, PeersCurrent

(* What is kept depends only on what is kept.                              *)
LEMMA ChooseStep ==
  ASSUME DeploymentIInv, Choose
  PROVE  DeploymentIInv'
<1>1. /\ pc = "inspect" /\ ~Among("inspect")
      /\ UNCHANGED <<rec, proc, wanted, before, conf, todo>>
      /\ \/ Fail /\ UNCHANGED <<task, mutated, retained>>
         \/ /\ retained' = Keeps /\ mutated' = (Names \cup Recorded # Keeps)
            /\ status' = "deploying" /\ pc' = "remove" /\ task' = All(Recorded \ Keeps, "remove")
  BY DEF Choose, recovery, told
<1>2. status = before
  BY <1>1 DEF DeploymentIInv, Control
<1>3. Recording' /\ Fits' /\ (status' \in {status, "failed"} /\ pc' # "recover" => TrueRecords')
      /\ \A t \in Service : AsBefore(t) => AsBefore(t)'
  BY <1>1, Standing
<1>4. /\ Names' = Names /\ Recorded' = Recorded /\ Names \subseteq Service
      /\ Recorded \subseteq Service /\ Keeps \subseteq Names
  BY <1>1 DEF Names, Recorded, Keeps
<1>5. CASE Fail /\ UNCHANGED <<task, mutated, retained>>
  <2>1. pc' = "none" /\ status' \in {status, "failed"}
    BY <1>2, <1>5 DEF Fail, Broke
  <2>2. Control'
    BY <1>1, <1>4, <1>5, <2>1 DEF DeploymentIInv, Control, Changing, Phases
  <2>3. Task'
    <3>1. \A t \in Service : task[t] \notin {"build", "inspect", "remove"} \cup Active
      BY <1>1 DEF DeploymentIInv, Task, Among, Phases
    <3> QED BY <1>1, <1>5, <2>1, <3>1, Ended DEF DeploymentIInv
  <2>4. Waves' /\ Removing' /\ Retaining' /\ Started'
    BY <2>1, Elsewhere DEF Changing, Phases
  <2> QED BY <1>3, <2>1, <2>2, <2>3, <2>4 DEF DeploymentIInv, Inspected, PeersCurrent
<1>6. CASE /\ retained' = Keeps /\ mutated' = (Names \cup Recorded # Keeps)
           /\ status' = "deploying" /\ pc' = "remove" /\ task' = All(Recorded \ Keeps, "remove")
  <2>1. Control'
    BY <1>1, <1>4, <1>6 DEF DeploymentIInv, Control, Changing, Phases
  <2>2. Task'
    BY <1>1, <1>6 DEF DeploymentIInv, Task, All, TaskPlaces, Active, Phases
  <2>3. Removing'
    BY <1>4, <1>6 DEF Removing, All
  <2>4. ASSUME NEW s \in Keeps
        PROVE  AsBefore(s)' /\ DependsOn[s] \subseteq Keeps /\ rec'[s].print.peers = Peers(rec', s)
    <3>1. s \in Names /\ \A d \in Upstream[s] \cup {s} : task[d] = "kept"
      BY DEF Keeps
    <3>2. s \in Service /\ AsBefore(s) /\ rec[s].print.peers = Peers(Candidate, s)
      BY <1>1, <1>4, <3>1 DEF DeploymentIInv, Inspected
    <3>3. DependsOn[s] \subseteq Keeps
      <4> SUFFICES ASSUME NEW d \in DependsOn[s] PROVE d \in Keeps
        OBVIOUS
      <4>1. d \in Service /\ d \in Upstream[s] /\ Upstream[d] \subseteq Upstream[s]
        BY <3>2, Dependencies
      <4>2. task[d] = "kept"
        BY <3>1, <4>1
      <4>3. d \in Names
        BY <1>1, <4>1, <4>2 DEF DeploymentIInv, Task
      <4> QED BY <3>1, <4>1, <4>2, <4>3 DEF Keeps
    <3>4. Peers(Candidate, s) = Peers(rec, s)
      <4>1. ASSUME NEW d \in DependsOn[s] \ Job PROVE Reach(Candidate[d], d) = Reach(rec[d], d)
        <5>1. d \in Names /\ d \in Service
          BY <1>4, <3>3
        <5>2. Candidate[d] = SetVer(rec[d], wanted[d])
          BY <5>1 DEF Candidate
        <5>3. /\ SetVer(rec[d], wanted[d]).host = rec[d].host
              /\ SetVer(rec[d], wanted[d]).port = rec[d].port
          BY <5>1, VerSet DEF DeploymentIInv, Recording
        <5> QED BY <5>2, <5>3, SameReach
      <4> QED BY <3>2, <4>1, SamePeers
    <3> QED BY <1>1, <1>3, <3>2, <3>3, <3>4
  <2>5. ~mutated' => Names' \cup Recorded' \subseteq Keeps
    BY <1>4, <1>6
  <2>6. Retaining'
    BY <1>6, <2>4, <2>5 DEF Retaining
  <2>7. Waves' /\ Started' /\ Inspected' /\ TrueRecords' /\ PeersCurrent'
    BY <1>6 DEF Waves, Started, Inspected, TrueRecords, PeersCurrent, Phases
  <2> QED BY <1>3, <2>1, <2>2, <2>3, <2>6, <2>7 DEF DeploymentIInv
<1> QED BY <1>1, <1>5, <1>6

(* A service is removed, or not.                                           *)
LEMMA RemoveStep ==
  ASSUME DeploymentIInv, NEW s \in Service, RemoveService(s)
  PROVE  DeploymentIInv'
<1>1. /\ task[s] = "remove"
      /\ UNCHANGED <<status, rec, pc, wanted, before, mutated, retained, conf, todo>>
      /\ \/ To(s, "removed") /\ proc' = [proc EXCEPT ![s] = NoProc]
         \/ To(s, "failed") /\ (UNCHANGED proc \/ proc' = [proc EXCEPT ![s] = NoProc])
  BY DEF RemoveService, recovery, told
<1>2. pc = "remove"
  BY <1>1 DEF DeploymentIInv, Task
<1>3. Functions
  BY DEF DeploymentIInv, Recording, Task, Functions
<1>4. /\ proc' = [t \in Service |-> proc'[t]] /\ \A t \in Service : proc'[t] \in {proc[t], NoProc}
      /\ \/ To(s, "removed") /\ proc'[s] = NoProc
         \/ To(s, "failed")
  BY <1>1, <1>3, Updates DEF Functions
<1>5. /\ task' = [t \in Service |-> task'[t]] /\ task'[s] \in {"removed", "failed"}
      /\ task'[s] = "removed" => proc'[s] = NoProc
      /\ \A t \in Service \ {s} : task'[t] = task[t]
  BY <1>3, <1>4, Moved
<1>6. Recording' /\ Fits' /\ TrueRecords' /\ \A t \in Service : AsBefore(t) => AsBefore(t)'
  BY <1>1, <1>4, Lessening
<1>7. Control'
  BY <1>1, <1>2 DEF DeploymentIInv, Control, Recorded, Names
<1>8. Task'
  BY <1>1, <1>2, <1>5 DEF DeploymentIInv, Task, TaskPlaces, Active
<1>9. Removing'
  BY <1>1, <1>2, <1>4, <1>5 DEF DeploymentIInv, Removing, Recorded
<1>10. Retaining'
  <2>1. /\ \A t \in retained :
           /\ AsBefore(t) /\ DependsOn[t] \subseteq retained
           /\ rec[t].print.peers = Peers(rec, t)
        /\ ~mutated => Names \cup Recorded \subseteq retained
    BY <1>2 DEF DeploymentIInv, Retaining, Changing
  <2>2. retained \subseteq Service /\ Recorded' = Recorded /\ Names' = Names
    BY <1>1 DEF DeploymentIInv, Control, Names, Recorded
  <2> QED BY <1>1, <1>6, <2>1, <2>2 DEF Retaining
<1>11. Waves' /\ Started' /\ Inspected' /\ PeersCurrent'
  BY <1>1, <1>2 DEF Waves, Started, Inspected, PeersCurrent, Phases
<1> QED BY <1>6, <1>7, <1>8, <1>9, <1>10, <1>11 DEF DeploymentIInv

(* Whatever is not kept has been removed before its record changes.        *)
LEMMA RemovedStep ==
  ASSUME DeploymentIInv, Removed
  PROVE  DeploymentIInv'
<1>1. /\ pc = "remove" /\ ~Among("remove")
      /\ UNCHANGED <<proc, wanted, before, mutated, retained, conf, todo>>
      /\ \/ Among("failed") /\ Fail /\ UNCHANGED <<rec, task>>
         \/ /\ ~Among("failed") /\ rec' = [s \in Service |-> Replaced(s)]
            /\ \/ pc' = "infra" /\ task' = All(Names, "waiting") /\ status' = status
               \/ Fail /\ task' = task
  BY DEF Removed, recovery, told
<1>2. Names' = Names /\ Names \subseteq Service /\ retained \subseteq Names
  BY <1>1 DEF Names, DeploymentIInv, Control
<1>3. /\ \A s \in retained :
           /\ AsBefore(s) /\ DependsOn[s] \subseteq retained
           /\ rec[s].print.peers = Peers(rec, s)
      /\ ~mutated => Names \cup Recorded \subseteq retained
  BY <1>1 DEF DeploymentIInv, Retaining, Changing
<1>4. ASSUME Fail PROVE /\ pc' = "none" /\ status' \in {before, "failed"}
                        /\ (status' = "running" => ~mutated)
  BY <1>4 DEF Fail, Broke
<1>5. \A t \in Service : task[t] \notin {"build", "inspect", "remove"} \cup Active
  BY <1>1 DEF DeploymentIInv, Task, Among, Phases
<1>6. CASE Among("failed") /\ Fail /\ UNCHANGED <<rec, task>>
  <2>1. TrueRecords'
    BY <1>1, <1>6, FailTruth DEF Changing
  <2>2. Recording' /\ Fits'
    BY <1>1, <1>6, Standing
  <2>3. Control'
    BY <1>1, <1>2, <1>4, <1>6 DEF DeploymentIInv, Control, Changing, Phases
  <2>4. Task'
    BY <1>1, <1>4, <1>5, <1>6, Ended DEF DeploymentIInv
  <2>5. Waves' /\ Removing' /\ Retaining' /\ Started'
    BY <1>4, <1>6, Elsewhere DEF Changing, Phases
  <2> QED BY <1>4, <1>6, <2>1, <2>2, <2>3, <2>4, <2>5 DEF DeploymentIInv, Inspected, PeersCurrent
<1>7. CASE /\ ~Among("failed") /\ rec' = [s \in Service |-> Replaced(s)]
           /\ \/ pc' = "infra" /\ task' = All(Names, "waiting") /\ status' = status
              \/ Fail /\ task' = task
  <2>1. ASSUME NEW s \in Service
        PROVE  /\ s \notin Names => rec'[s] = NoRec
               /\ s \in retained => rec'[s] = rec[s]
               /\ s \in Names /\ s \notin retained =>
                    /\ IsRec(rec'[s]) /\ rec'[s].ver # "absent" /\ rec'[s].host = 0
                    /\ rec'[s].port \in Addresses /\ rec'[s].job \in JobStates
    <3>1. rec'[s] = Replaced(s)
      BY <1>7
    <3>2. CASE s \in Names /\ s \notin retained
      <4>1. rec'[s] = SetHost(SetVer(rec[s], wanted[s]), 0) /\ wanted[s] # "absent"
        BY <3>1, <3>2 DEF Replaced, Names
      <4>2. IsRec(rec[s]) /\ rec[s].port \in Addresses /\ rec[s].job \in JobStates
        BY DEF DeploymentIInv, Recording
      <4> DEFINE r == SetVer(rec[s], wanted[s])
      <4>3. IsRec(r) /\ r.ver = wanted[s] /\ r.port = rec[s].port /\ r.job = rec[s].job
        BY <4>2, VerSet
      <4> HIDE DEF r
      <4>4. /\ IsRec(SetHost(r, 0)) /\ SetHost(r, 0).ver = wanted[s] /\ SetHost(r, 0).host = 0
            /\ SetHost(r, 0).port = rec[s].port /\ SetHost(r, 0).job = rec[s].job
        BY <4>3, HostSet
      <4>5. rec'[s] = SetHost(r, 0)
        BY <4>1 DEF r
      <4> QED BY <3>2, <4>1, <4>2, <4>4, <4>5
    <3>3. CASE s \notin Names \/ s \in retained
      BY <1>2, <3>1, <3>3 DEF Replaced
    <3> QED BY <3>2, <3>3
  <2>2. ASSUME NEW s \in Service, proc[s] # NoProc PROVE s \in retained
    <3>1. s \in Recorded
      BY <2>2, Nothings DEF DeploymentIInv, Recording, Recorded
    <3>2. s \in Recorded \ retained => task[s] = "removed" /\ (task[s] = "removed" =>
            proc[s] = NoProc)
      BY <1>1, <1>7 DEF DeploymentIInv, Removing, Among
    <3> QED BY <2>2, <3>1, <3>2
  <2>3. ASSUME NEW s \in retained
        PROVE  /\ s \in Service /\ rec'[s] = rec[s] /\ rec[s].ver # "absent"
               /\ AsBefore(s)' /\ Peers(rec', s) = Peers(rec, s)
    <3>1. s \in Service /\ rec'[s] = rec[s]
      BY <1>2, <2>1
    <3>2. Peers(rec', s) = Peers(rec, s)
      <4>1. \A d \in DependsOn[s] \ Job : Reach(rec'[d], d) = Reach(rec[d], d)
        BY <1>2, <1>3, <2>1
      <4> QED BY <3>1, <4>1, SamePeers
    <3>3. AsBefore(s)'
      BY <1>1, <1>3, <3>1 DEF AsBefore
    <3>4. rec[s].ver # "absent"
      BY <1>3, <3>1, Nothings DEF AsBefore, DeploymentIInv, Recording
    <3> QED BY <3>1, <3>2, <3>3, <3>4
  <2>4. ASSUME NEW s \in Service
        PROVE  /\ IsRec(rec'[s]) /\ rec'[s].host \in Addresses /\ rec'[s].port \in Addresses
               /\ rec'[s].job \in JobStates
               /\ rec'[s].ver = "absent" => rec'[s] = NoRec
               /\ IsProc(proc'[s]) /\ proc'[s].address \in Addresses
               /\ proc'[s] # NoProc => rec'[s].ver # "absent" /\ (s \notin Job =>
                    proc'[s].address # 0)
    <3>1. /\ IsRec(rec[s]) /\ rec[s].host \in Addresses /\ rec[s].port \in Addresses
          /\ rec[s].job \in JobStates
          /\ IsProc(proc[s]) /\ proc[s].address \in Addresses
          /\ proc[s] # NoProc => (s \notin Job => proc[s].address # 0)
      BY DEF DeploymentIInv, Recording
    <3>2. proc'[s] = proc[s]
      BY <1>1
    <3>3. 0 \in Addresses /\ "none" \in JobStates
      BY DEF Addresses, JobStates
    <3>4. proc[s] # NoProc => rec'[s].ver # "absent"
      BY <2>2, <2>3
    <3>5. /\ IsRec(rec'[s]) /\ rec'[s].host \in Addresses /\ rec'[s].port \in Addresses
          /\ rec'[s].job \in JobStates
          /\ rec'[s].ver = "absent" => rec'[s] = NoRec
      <4>1. CASE s \notin Names
        BY <2>1, <3>3, <4>1, Nothings
      <4>2. CASE s \in retained
        BY <2>3, <3>1, <4>2
      <4>3. CASE s \in Names /\ s \notin retained
        BY <2>1, <3>3, <4>3
      <4> QED BY <4>1, <4>2, <4>3
    <3> QED BY <3>1, <3>2, <3>4, <3>5
  <2>5. Recording'
    BY <1>1, <1>7, <2>4 DEF Recording, DeploymentIInv
  <2>6. Fits'
    BY <1>1, <2>2, <2>3 DEF DeploymentIInv, Fits
  <2>7. ASSUME NEW s \in Service, proc'[s] # NoProc
        PROVE  /\ s \in retained /\ proc'[s].peers = Peers(rec', s)
               /\ rec'[s].print.peers = Peers(rec', s)
    <3>1. s \in retained /\ proc[s] = proc'[s]
      BY <1>1, <2>2, <2>7
    <3>2. rec'[s] = rec[s] /\ Peers(rec', s) = Peers(rec, s) /\ rec[s].print.peers = Peers(rec, s)
      BY <1>3, <2>3, <3>1
    <3>3. proc[s].peers = Peers(rec, s)
      BY <2>7, <3>1, <3>2 DEF DeploymentIInv, Fits
    <3> QED BY <3>1, <3>2, <3>3
  <2>8. CASE pc' = "infra" /\ task' = All(Names, "waiting") /\ status' = status
    <3>1. Control'
      BY <1>1, <1>2, <2>8 DEF DeploymentIInv, Control, Changing, Phases
    <3>2. Task'
      BY <1>1, <2>8 DEF DeploymentIInv, Task, All, TaskPlaces, Active, Phases
    <3>3. Waves'
      BY <1>2, <2>8 DEF Waves, All, Among, Active
    <3>4. ~mutated => Names' \cup Recorded' \subseteq retained
      <4>1. Recorded' \subseteq Names
        BY <2>1 DEF Recorded
      <4> QED BY <1>2, <1>3, <4>1
    <3>5. Retaining'
      BY <1>1, <1>3, <2>3, <3>4 DEF Retaining
    <3>6. Started'
      <4>1. ASSUME NEW s \in Service PROVE task'[s] \in {"none", "waiting"}
        BY <2>8 DEF All
      <4>2. ASSUME NEW s \in Service
            PROVE  /\ s \in Names => rec'[s].ver # "absent"
                   /\ rec'[s].ver # "absent" => s \in Names
        <5>1. s \in retained => rec'[s].ver # "absent"
          BY <2>3
        <5> QED BY <2>1, <5>1, Nothings
      <4> QED BY <1>1, <1>2, <2>7, <4>1, <4>2 DEF Started
    <3>7. TrueRecords' /\ PeersCurrent'
      BY <2>8, <3>1, <3>6, WaveEnds DEF Phases
    <3>8. Removing' /\ Inspected'
      BY <2>8 DEF Removing, Inspected
    <3> QED BY <2>5, <2>6, <3>1, <3>2, <3>3, <3>5, <3>6, <3>7, <3>8 DEF DeploymentIInv
  <2>9. CASE Fail /\ task' = task
    <3>1. pc' = "none" /\ status' \in {before, "failed"}
      BY <1>4, <2>9
    <3>2. Control'
      BY <1>1, <1>2, <3>1 DEF DeploymentIInv, Control, Changing, Phases
    <3>3. Task'
      BY <1>1, <1>5, <2>9, <3>1, Ended DEF DeploymentIInv
    <3>4. Waves' /\ Removing' /\ Retaining' /\ Started'
      BY <3>1, Elsewhere DEF Changing, Phases
    <3>5. TrueRecords'
      BY <2>7 DEF TrueRecords
    <3> QED BY <2>5, <2>6, <3>1, <3>2, <3>3, <3>4, <3>5 DEF DeploymentIInv, Inspected, PeersCurrent
  <2> QED BY <1>7, <2>8, <2>9
<1> QED BY <1>1, <1>6, <1>7

(* The infrastructure has started, or the deployment fails.                *)
LEMMA InfraDoneStep ==
  ASSUME DeploymentIInv, InfraDone
  PROVE  DeploymentIInv'
<1>1. /\ pc = "infra" /\ \A s \in Names \cap Infra : Settled(s)
      /\ UNCHANGED <<rec, proc, wanted, before, mutated, retained, task, conf, todo>>
      /\ Fail \/ (pc' = "apps" /\ status' = status)
  BY DEF InfraDone, recovery, told, Group
<1>2. Names' = Names /\ Names \subseteq Service /\ retained \subseteq Names /\ Recorded' = Recorded
  BY <1>1 DEF Names, DeploymentIInv, Control, Recorded
<1>3. Recording' /\ Fits' /\ \A t \in Service : AsBefore(t) => AsBefore(t)'
  BY <1>1, Standing
<1>4. CASE Fail
  <2>1. TrueRecords' /\ pc' = "none" /\ status' \in {before, "failed"}
    BY <1>1, <1>4, FailTruth DEF Changing, Phases
  <2>2. Control'
    BY <1>1, <1>2, <2>1 DEF DeploymentIInv, Control, Changing, Phases
  <2>3. \A t \in Service : task[t] \notin {"build", "inspect", "remove"} \cup Active
    BY <1>1 DEF DeploymentIInv, Task, Waves, Settled, Active, Phases
  <2>4. Task'
    BY <1>1, <2>1, <2>3, Ended DEF DeploymentIInv
  <2>5. Waves' /\ Removing' /\ Retaining' /\ Started'
    BY <2>1, Elsewhere DEF Changing, Phases
  <2> QED BY <1>3, <2>1, <2>2, <2>4, <2>5 DEF DeploymentIInv, Inspected, PeersCurrent
<1>5. CASE pc' = "apps" /\ status' = status
  <2>1. Control'
    BY <1>1, <1>2, <1>5 DEF DeploymentIInv, Control, Changing, Phases
  <2>2. Task'
    BY <1>1, <1>2, <1>5 DEF DeploymentIInv, Task, Phases
  <2>3. Waves'
    BY <1>1, <1>2, <1>5 DEF DeploymentIInv, Waves, Among, Settled, Phases
  <2>4. Retaining'
    <3>1. /\ \A t \in retained :
             /\ AsBefore(t) /\ DependsOn[t] \subseteq retained
             /\ rec[t].print.peers = Peers(rec, t)
          /\ ~mutated => Names \cup Recorded \subseteq retained
      BY <1>1 DEF DeploymentIInv, Retaining, Changing, Phases
    <3> QED BY <1>1, <1>2, <1>3, <3>1 DEF Retaining
  <2>5. Started'
    <3>1. \A s \in Service : Placed(s)' <=> Placed(s)
      BY <1>1 DEF Placed
    <3> QED BY <1>1, <1>2, <1>5, <3>1 DEF DeploymentIInv, Started, Phases
  <2>6. TrueRecords' /\ PeersCurrent' /\ Removing' /\ Inspected'
    BY <1>5, <2>1, <2>5, WaveEnds DEF Phases, Removing, Inspected
  <2> QED BY <1>3, <2>1, <2>2, <2>3, <2>4, <2>5, <2>6 DEF DeploymentIInv
<1> QED BY <1>1, <1>4, <1>5

(* A deployment ends well only with every service done.                    *)
LEMMA AppsDoneStep ==
  ASSUME DeploymentIInv, AppsDone
  PROVE  DeploymentIInv'
<1>1. /\ pc = "apps" /\ \A s \in Names \ Infra : Settled(s)
      /\ UNCHANGED <<rec, proc, wanted, before, mutated, retained, task, conf, todo>>
      /\ Fail \/ (~Among("failed") /\ pc' = "deployed" /\ status' = "running")
  BY DEF AppsDone, recovery, told, Group
<1>2. Names' = Names /\ Names \subseteq Service /\ retained \subseteq Names /\ Recorded' = Recorded
  BY <1>1 DEF Names, DeploymentIInv, Control, Recorded
<1>3. Recording' /\ Fits'
  BY <1>1, Standing
<1>4. /\ \A t \in Service : task[t] \in {"none", "done", "blocked", "failed"}
      /\ \A t \in Names : task[t] # "none"
      /\ Among("blocked") => Among("failed")
  BY <1>1, <1>2 DEF DeploymentIInv, Waves, Settled, Active, Phases
<1>5. /\ TrueRecords' /\ PeersCurrent' /\ pc' \in {"none", "deployed"}
      /\ status' \in {before, "failed", "running"}
  <2>1. CASE Fail
    BY <1>1, <2>1, FailTruth DEF Changing, Phases, PeersCurrent
  <2>2. CASE ~Among("failed") /\ pc' = "deployed" /\ status' = "running"
    <3>1. ASSUME NEW s \in Service, proc[s] # NoProc
          PROVE  proc[s].peers = Peers(rec, s) /\ rec[s].print.peers = Peers(rec, s)
      <4>1. s \in Names
        BY <1>1, <3>1 DEF DeploymentIInv, Recording, Started, Phases
      <4>2. task[s] = "done"
        BY <1>2, <1>4, <2>2, <4>1 DEF Among
      <4> QED BY <1>1, <3>1, <4>2 DEF DeploymentIInv, Started, Phases
    <3>2. TrueRecords'
      BY <1>1, <3>1 DEF TrueRecords
    <3>3. PeersCurrent'
      <4>1. ASSUME NEW s \in Service, proc[s] # NoProc PROVE Configured(s)'
        BY <1>1, <3>1, <4>1 DEF Configured, Peers
      <4> QED BY <1>1, <4>1 DEF PeersCurrent
    <3> QED BY <2>2, <3>2, <3>3
  <2> QED BY <1>1, <2>1, <2>2
<1>6. Control'
  BY <1>1, <1>2, <1>5 DEF DeploymentIInv, Control, Changing, Phases
<1>7. Task'
  <2>1. \A t \in Service : task[t] \notin {"build", "inspect", "remove"} \cup Active
    BY <1>4 DEF Active
  <2> QED BY <1>1, <1>5, <2>1, Ended DEF DeploymentIInv
<1>8. Waves' /\ Removing' /\ Retaining' /\ Started'
  BY <1>5, Elsewhere DEF Changing, Phases
<1> QED BY <1>3, <1>5, <1>6, <1>7, <1>8 DEF DeploymentIInv, Inspected

(* A recovery takes the hosts anew; what the records say of an environment *)
(* that ran was true.                                                      *)
LEMMA RecoverStep ==
  ASSUME DeploymentIInv, Recover
  PROVE  DeploymentIInv'
<1>1. pc = "down" /\ UNCHANGED <<wanted, before, mutated, retained, task, conf>>
  BY DEF Recover, told
<1>2. \E was \in {status, "failed"} :
        /\ \A s \in Service :
             /\ proc'[s] \in {proc[s], NoProc} /\ (s \notin Interrupted => proc'[s] = proc[s])
             /\ \E r \in {rec[s], SetJob(rec[s], "interrupted")} :
                  /\ r # rec[s] => s \in Interrupted
                  /\ rec'[s] = SetHost(r, IF was = "running" /\ s \notin Job
                                          THEN proc[s].address ELSE rec[s].host)
        /\ proc' = [s \in Service |-> proc'[s]] /\ rec' = [s \in Service |-> rec'[s]]
        /\ status' \in {"running", "failed", was} /\ (status' = "running" => was = "running")
        /\ pc' = IF was = "running" THEN "recover" ELSE "none"
        /\ todo' = IF was = "running" THEN Recorded \ Job ELSE {}
  <2>1. PICK left \in SUBSET Interrupted :
         LET gone == Interrupted \ left
             was == IF left = {} THEN status ELSE "failed"
             host(s) == IF was = "running" /\ s \notin Job THEN proc[s].address ELSE rec[s].host
             ok == /\ \A s \in Recorded \cap Job : s \notin Interrupted /\ rec[s].job = "succeeded"
                   /\ \A s \in (Recorded \ Job) \ OnHost : proc[s] # NoProc
         IN /\ proc' = [s \in Service |-> IF s \in gone THEN NoProc ELSE proc[s]]
            /\ rec' = [s \in Service |->
                         SetHost(IF s \in gone THEN SetJob(rec[s], "interrupted") ELSE rec[s],
                           host(s))]
            /\ status' = IF was = "running" THEN (IF ok THEN "running" ELSE "failed")
                         ELSE IF was = "deploying" THEN "failed" ELSE was
            /\ pc' = IF was = "running" THEN "recover" ELSE "none"
            /\ todo' = IF was = "running" THEN Recorded \ Job ELSE {}
    BY DEF Recover
  <2> DEFINE was == IF left = {} THEN status ELSE "failed"
  <2>2. was \in {status, "failed"}
    OBVIOUS
  <2>3. ASSUME NEW s \in Service
        PROVE  /\ proc'[s] \in {proc[s], NoProc} /\ (s \notin Interrupted => proc'[s] = proc[s])
               /\ \E r \in {rec[s], SetJob(rec[s], "interrupted")} :
                  /\ r # rec[s] => s \in Interrupted
                  /\ rec'[s] = SetHost(r, IF was = "running" /\ s \notin Job
                                          THEN proc[s].address ELSE rec[s].host)
    BY <2>1
  <2>4. /\ proc' = [s \in Service |-> proc'[s]] /\ rec' = [s \in Service |-> rec'[s]]
        /\ status' \in {"running", "failed", was} /\ (status' = "running" => was = "running")
        /\ pc' = IF was = "running" THEN "recover" ELSE "none"
        /\ todo' = IF was = "running" THEN Recorded \ Job ELSE {}
    BY <2>1
  <2> HIDE DEF was
  <2> QED BY <2>2, <2>3, <2>4
<1>3. PICK was \in {status, "failed"} :
        /\ \A s \in Service :
             /\ proc'[s] \in {proc[s], NoProc} /\ (s \notin Interrupted => proc'[s] = proc[s])
             /\ \E r \in {rec[s], SetJob(rec[s], "interrupted")} :
                  /\ r # rec[s] => s \in Interrupted
                  /\ rec'[s] = SetHost(r, IF was = "running" /\ s \notin Job
                                          THEN proc[s].address ELSE rec[s].host)
        /\ proc' = [s \in Service |-> proc'[s]] /\ rec' = [s \in Service |-> rec'[s]]
        /\ status' \in {"running", "failed", was} /\ (status' = "running" => was = "running")
        /\ pc' = IF was = "running" THEN "recover" ELSE "none"
        /\ todo' = IF was = "running" THEN Recorded \ Job ELSE {}
  BY <1>2
<1>4. ASSUME NEW s \in Service
      PROVE  /\ IsRec(rec[s]) /\ rec[s].host \in Addresses /\ rec[s].port \in Addresses
             /\ rec[s].job \in JobStates
             /\ rec[s].ver = "absent" => rec[s] = NoRec
             /\ IsProc(proc[s]) /\ proc[s].address \in Addresses
             /\ proc[s] # NoProc => rec[s].ver # "absent" /\ (s \notin Job => proc[s].address # 0)
  BY DEF DeploymentIInv, Recording
<1>5. ASSUME NEW s \in Service
      PROVE  /\ IsRec(rec'[s]) /\ rec'[s].ver = rec[s].ver /\ rec'[s].port = rec[s].port
             /\ rec'[s].print = rec[s].print /\ rec'[s].job \in JobStates
             /\ rec'[s].host = IF was = "running" /\ s \notin Job THEN proc[s].address ELSE rec[s].host
             /\ rec'[s].ver = "absent" => rec'[s] = NoRec
  <2> DEFINE host == IF was = "running" /\ s \notin Job THEN proc[s].address ELSE rec[s].host
  <2>1. PICK r \in {rec[s], SetJob(rec[s], "interrupted")} :
          /\ r # rec[s] => s \in Interrupted
          /\ rec'[s] = SetHost(r, host)
    BY <1>3
  <2>2. /\ IsRec(r) /\ r.ver = rec[s].ver /\ r.host = rec[s].host /\ r.port = rec[s].port
        /\ r.print = rec[s].print /\ r.job \in JobStates
    BY <1>4, <2>1, JobSet DEF JobStates
  <2>3. /\ IsRec(rec'[s]) /\ rec'[s].host = host /\ rec'[s].ver = r.ver
        /\ rec'[s].port = r.port /\ rec'[s].print = r.print /\ rec'[s].job = r.job
        /\ r.host = host => rec'[s] = r
    <3> HIDE DEF host
    <3> QED BY <2>1, <2>2, HostSet
  <2>4. ASSUME rec[s].ver = "absent" PROVE rec'[s] = NoRec
    <3>1. rec[s] = NoRec /\ proc[s] = NoProc
      BY <1>4, <2>4
    <3>2. rec[s].job = "none" /\ rec[s].host = 0 /\ proc[s].address = 0
      BY <3>1, Nothings
    <3>3. r = rec[s]
      BY <2>1, <3>2 DEF Interrupted
    <3> QED BY <2>3, <3>1, <3>2, <3>3
  <2> QED BY <2>2, <2>3, <2>4
<1>6. Recording'
  <2>1. ASSUME NEW s \in Service
        PROVE  /\ IsRec(rec'[s]) /\ rec'[s].host \in Addresses /\ rec'[s].port \in Addresses
               /\ rec'[s].job \in JobStates
               /\ rec'[s].ver = "absent" => rec'[s] = NoRec
               /\ IsProc(proc'[s]) /\ proc'[s].address \in Addresses
               /\ proc'[s] # NoProc => rec'[s].ver # "absent" /\ (s \notin Job =>
                    proc'[s].address # 0)
    <3>1. proc'[s] \in {proc[s], NoProc}
      BY <1>3
    <3>2. 0 \in Addresses
      BY DEF Addresses
    <3> QED BY <1>4, <1>5, <3>1, <3>2, Nothings
  <2> QED BY <1>3, <2>1 DEF Recording
<1>7. ASSUME was = "running", NEW s \in Service, proc'[s] # NoProc
      PROVE  rec'[s].print.peers = proc'[s].peers
  <2>1. status = "running" /\ proc'[s] = proc[s]
    BY <1>3, <1>7
  <2> QED BY <1>5, <1>7, <2>1 DEF DeploymentIInv, TrueRecords
<1>8. TrueRecords'
  BY <1>3, <1>7 DEF TrueRecords
<1>9. Fits'
  <2>1. CASE was = "running"
    BY <1>7, <2>1 DEF Fits
  <2>2. CASE was # "running"
    <3>1. ASSUME NEW s \in Service PROVE Peers(rec', s) = Peers(rec, s)
      <4>1. ASSUME NEW d \in DependsOn[s] \ Job PROVE Reach(rec'[d], d) = Reach(rec[d], d)
        <5>1. d \in Service
          BY Dependencies
        <5> QED BY <1>5, <2>2, <5>1, SameReach
      <4> QED BY <4>1, SamePeers
    <3>2. ASSUME NEW s \in Service, proc'[s] # NoProc, rec'[s].print.peers = Peers(rec', s)
          PROVE  proc'[s].peers = Peers(rec', s)
      <4>1. proc'[s] = proc[s]
        BY <1>3, <3>2
      <4> QED BY <1>5, <3>1, <3>2, <4>1 DEF DeploymentIInv, Fits
    <3> QED BY <3>2 DEF Fits
  <2> QED BY <2>1, <2>2
<1>10. Control'
  <2>1. Recorded \subseteq Recorded' /\ Names' = Names
    BY <1>1, <1>4, <1>5, Nothings DEF Recorded, Names
  <2>2. pc' \in {"recover", "none"} /\ (pc' = "recover" => todo' \subseteq Recorded' \ Job)
    BY <1>3, <2>1
  <2> QED BY <1>1, <1>3, <2>1, <2>2 DEF DeploymentIInv, Control, Changing, Phases
<1>11. pc' \in {"recover", "none"}
  BY <1>3
<1>12. Task'
  BY <1>1, <1>11, IdleTasks, Ended DEF DeploymentIInv
<1>13. Waves' /\ Removing' /\ Retaining' /\ Started'
  BY <1>11, Elsewhere DEF Changing, Phases
<1> QED BY <1>6, <1>8, <1>9, <1>10, <1>11, <1>12, <1>13 DEF DeploymentIInv, Inspected, PeersCurrent

(* One that could not inspect a service forgets where they are.            *)
LEMMA RecoverBlindStep ==
  ASSUME DeploymentIInv, RecoverBlind
  PROVE  DeploymentIInv'
<1>1. /\ pc = "down" /\ status = "running" /\ status' = "failed" /\ pc' = "none"
      /\ rec' = [s \in Service |-> SetHost(rec[s], 0)]
      /\ UNCHANGED <<proc, wanted, before, mutated, retained, task, conf>>
  BY DEF RecoverBlind, Broke, told
<1>2. ASSUME NEW s \in Service
      PROVE  /\ IsRec(rec[s]) /\ rec[s].host \in Addresses /\ rec[s].port \in Addresses
             /\ rec[s].job \in JobStates
             /\ rec[s].ver = "absent" => rec[s] = NoRec
             /\ IsProc(proc[s]) /\ proc[s].address \in Addresses
             /\ proc[s] # NoProc => rec[s].ver # "absent" /\ (s \notin Job => proc[s].address # 0)
  BY DEF DeploymentIInv, Recording
<1>3. ASSUME NEW s \in Service
      PROVE  /\ IsRec(rec'[s]) /\ rec'[s].ver = rec[s].ver /\ rec'[s].port = rec[s].port
             /\ rec'[s].print = rec[s].print /\ rec'[s].job = rec[s].job /\ rec'[s].host = 0
             /\ rec'[s].ver = "absent" => rec'[s] = NoRec
  <2>1. rec'[s] = SetHost(rec[s], 0)
    BY <1>1
  <2> QED BY <1>2, <2>1, HostSet, Nothings
<1>4. Recording'
  BY <1>1, <1>2, <1>3 DEF Recording, DeploymentIInv, Addresses
<1>5. Fits'
  BY <1>1, <1>3 DEF DeploymentIInv, TrueRecords, Fits
<1>6. Control'
  BY <1>1 DEF DeploymentIInv, Control, Names, Changing, Phases
<1>7. Task'
  BY <1>1, IdleTasks, Ended DEF DeploymentIInv
<1>8. Waves' /\ Removing' /\ Retaining' /\ Started'
  BY <1>1, Elsewhere DEF Changing, Phases
<1> QED BY <1>1, <1>4, <1>5, <1>6, <1>7, <1>8 DEF DeploymentIInv, Inspected, PeersCurrent,
    TrueRecords

(* A service that is started again is given the addresses of now.          *)
LEMMA RestartStep ==
  ASSUME DeploymentIInv, NEW s \in Service, Restart(s)
  PROVE  DeploymentIInv'
<1>1. pc = "recover" /\ s \in todo /\ UNCHANGED <<wanted, before, mutated, retained, task, conf>>
  BY DEF Restart, told
<1>2. s \notin Job /\ rec[s].ver # "absent"
  BY <1>1 DEF DeploymentIInv, Control, Recorded, Recording
<1>3. Functions
  BY DEF DeploymentIInv, Recording, Task, Functions
<1>4. ASSUME NEW t \in Service
      PROVE  /\ IsRec(rec[t]) /\ rec[t].host \in Addresses /\ rec[t].port \in Addresses
             /\ rec[t].job \in JobStates
             /\ rec[t].ver = "absent" => rec[t] = NoRec
             /\ IsProc(proc[t]) /\ proc[t].address \in Addresses
             /\ proc[t] # NoProc => rec[t].ver # "absent" /\ (t \notin Job => proc[t].address # 0)
             /\ proc[t] # NoProc => rec[t].print.peers = proc[t].peers
  BY <1>1 DEF DeploymentIInv, Recording, TrueRecords
<1>5. ASSUME NEW p \in Ports(s) PROVE p \in Addresses /\ (s \in OnHost => p # 0)
  BY <1>4, <1>5, DeploymentAssumption DEF Ports, Addresses
<1> DEFINE Placings(p) == IF s \in OnHost THEN {p} ELSE Address \ Bound(s)
           f(p, a) == SetHost(SetPort(rec[s], p), a)
           r(p, a) == [rec EXCEPT ![s] = f(p, a)]
           Ceased == status' = "failed" /\ pc' = "none"
<1>6. \/ /\ Ceased /\ rec' = [rec EXCEPT ![s] = SetHost(@, 0)]
         /\ proc' \in {proc, [proc EXCEPT ![s] = NoProc]}
      \/ \E p \in Ports(s) : \E a \in Placings(p) :
           /\ proc' = [proc EXCEPT ![s] = Process(s, a, Peers(rec, s))]
           /\ \/ /\ rec' = [r(p, a) EXCEPT ![s] = SetPrint(@, Fingerprint(r(p, a), s))]
                 /\ todo' = todo \ {s} /\ UNCHANGED <<status, pc>>
              \/ Ceased /\ rec' = [r(p, a) EXCEPT ![s] = SetHost(@, 0)]
  BY DEF Restart, Broke
<1>7. ASSUME NEW p \in Ports(s), NEW a \in Placings(p),
             proc' = [proc EXCEPT ![s] = Process(s, a, Peers(rec, s))]
      PROVE  /\ proc' = [t \in Service |-> proc'[t]]
             /\ \A t \in Service \ {s} : proc'[t] = proc[t]
             /\ IsProc(proc'[s]) /\ proc'[s].address \in Addresses /\ proc'[s].address # 0
             /\ proc'[s].peers = Peers(rec, s)
             /\ IsRec(f(p, a)) /\ f(p, a).ver = rec[s].ver /\ f(p, a).host = a
             /\ f(p, a).port = p /\ f(p, a).job = rec[s].job /\ f(p, a).print = rec[s].print
             /\ r(p, a) = [t \in Service |-> r(p, a)[t]] /\ r(p, a)[s] = f(p, a)
             /\ \A t \in Service \ {s} : r(p, a)[t] = rec[t]
             /\ p \in Addresses /\ a \in Addresses
  <2>1. /\ proc' = [t \in Service |-> proc'[t]] /\ proc'[s] = Process(s, a, Peers(rec, s))
        /\ \A t \in Service \ {s} : proc'[t] = proc[t]
    BY <1>3, <1>7, Updates DEF Functions
  <2>2. p \in Addresses /\ a \in Addresses /\ a # 0
    BY <1>5, DeploymentAssumption DEF Addresses
  <2>3. IsProc(proc'[s]) /\ proc'[s].address = a /\ proc'[s].peers = Peers(rec, s)
    BY <2>1, ProcessOf
  <2>4. /\ IsRec(f(p, a)) /\ f(p, a).ver = rec[s].ver /\ f(p, a).host = a
        /\ f(p, a).port = p /\ f(p, a).job = rec[s].job /\ f(p, a).print = rec[s].print
    <3> DEFINE h == SetPort(rec[s], p)
    <3>1. /\ IsRec(h) /\ h.ver = rec[s].ver /\ h.port = p /\ h.job = rec[s].job
          /\ h.print = rec[s].print
      BY <1>4, PortSet
    <3>2. f(p, a) = SetHost(h, a)
      OBVIOUS
    <3> HIDE DEF h, f
    <3> QED BY <3>1, <3>2, HostSet
  <2>5. /\ r(p, a) = [t \in Service |-> r(p, a)[t]] /\ r(p, a)[s] = f(p, a)
        /\ \A t \in Service \ {s} : r(p, a)[t] = rec[t]
    <3> DEFINE x == f(p, a)
               q == r(p, a)
    <3>1. q = [rec EXCEPT ![s] = x]
      OBVIOUS
    <3> HIDE DEF x, q
    <3>2. q = [t \in Service |-> q[t]] /\ q[s] = x /\ \A t \in Service \ {s} : q[t] = rec[t]
      BY <1>3, <3>1, Updates DEF Functions
    <3> QED BY <3>2 DEF x, q
  <2> HIDE DEF f, r
  <2> QED BY <2>1, <2>2, <2>3, <2>4, <2>5
<1> DEFINE Shaped ==
             /\ rec' = [t \in Service |-> rec'[t]] /\ proc' = [t \in Service |-> proc'[t]]
             /\ \A t \in Service \ {s} : rec'[t] = rec[t] /\ proc'[t] = proc[t]
             /\ IsRec(rec'[s]) /\ rec'[s].ver = rec[s].ver
             /\ rec'[s].host \in Addresses /\ rec'[s].port \in Addresses
             /\ rec'[s].job \in JobStates
             /\ IsProc(proc'[s]) /\ proc'[s].address \in Addresses
             /\ proc'[s] # NoProc => proc'[s].address # 0
<1>8. ASSUME NEW p \in Ports(s), NEW a \in Placings(p),
             proc' = [proc EXCEPT ![s] = Process(s, a, Peers(rec, s))],
             rec' = [r(p, a) EXCEPT ![s] = SetPrint(@, Fingerprint(r(p, a), s))]
      PROVE  Shaped /\ rec'[s].print.peers = proc'[s].peers
  <2> DEFINE g == SetPrint(f(p, a), Fingerprint(r(p, a), s))
             q == r(p, a)
  <2>1. /\ q = [t \in Service |-> q[t]] /\ q[s] = f(p, a)
        /\ \A t \in Service \ {s} : q[t] = rec[t]
    BY <1>7, <1>8
  <2>2. rec' = [q EXCEPT ![s] = g]
    BY <1>8, <2>1
  <2>3. /\ rec' = [t \in Service |-> rec'[t]] /\ rec'[s] = g
        /\ \A t \in Service \ {s} : rec'[t] = rec[t]
    <3> HIDE DEF q, g
    <3> QED BY <2>1, <2>2, Updates
  <2>4. /\ IsRec(g) /\ g.ver = rec[s].ver /\ g.host = a /\ g.port = p /\ g.job = rec[s].job
        /\ g.print.peers = Peers(q, s)
    <3> DEFINE print == Fingerprint(q, s)
               x == f(p, a)
    <3>1. g = SetPrint(x, print) /\ print.peers = Peers(q, s)
      BY PrintOf
    <3>2. IsRec(x) /\ x.ver = rec[s].ver /\ x.host = a /\ x.port = p /\ x.job = rec[s].job
      BY <1>7, <1>8
    <3> HIDE DEF print, x, g, q
    <3> QED BY <3>1, <3>2, PrintSet
  <2>5. Peers(q, s) = Peers(rec, s)
    <3>1. \A d \in DependsOn[s] \ Job : Reach(q[d], d) = Reach(rec[d], d)
      BY <2>1, Dependencies
    <3> HIDE DEF q
    <3> QED BY <3>1, SamePeers
  <2>6. /\ proc' = [t \in Service |-> proc'[t]] /\ p \in Addresses /\ a \in Addresses
        /\ \A t \in Service \ {s} : proc'[t] = proc[t]
        /\ IsProc(proc'[s]) /\ proc'[s].address \in Addresses /\ proc'[s].address # 0
        /\ proc'[s].peers = Peers(rec, s)
    BY <1>7, <1>8
  <2> HIDE DEF g, q, f, r
  <2> QED BY <1>4, <2>3, <2>4, <2>5, <2>6
<1>9. ASSUME NEW p \in Ports(s), NEW a \in Placings(p),
             proc' = [proc EXCEPT ![s] = Process(s, a, Peers(rec, s))],
             rec' = [r(p, a) EXCEPT ![s] = SetHost(@, 0)]
      PROVE  Shaped /\ proc'[s].peers = Peers(rec', s)
  <2> DEFINE g == SetHost(f(p, a), 0)
             q == r(p, a)
  <2>1. /\ q = [t \in Service |-> q[t]] /\ q[s] = f(p, a)
        /\ \A t \in Service \ {s} : q[t] = rec[t]
    BY <1>7, <1>9
  <2>2. rec' = [q EXCEPT ![s] = g]
    BY <1>9, <2>1
  <2>3. /\ rec' = [t \in Service |-> rec'[t]] /\ rec'[s] = g
        /\ \A t \in Service \ {s} : rec'[t] = rec[t]
    <3> HIDE DEF q, g
    <3> QED BY <2>1, <2>2, Updates
  <2>4. IsRec(g) /\ g.ver = rec[s].ver /\ g.host = 0 /\ g.port = p /\ g.job = rec[s].job
    <3> DEFINE x == f(p, a)
    <3>1. IsRec(x) /\ x.ver = rec[s].ver /\ x.port = p /\ x.job = rec[s].job
      BY <1>7, <1>9
    <3>2. g = SetHost(x, 0)
      OBVIOUS
    <3> HIDE DEF x, g
    <3> QED BY <3>1, <3>2, HostSet
  <2>5. Peers(rec', s) = Peers(rec, s)
    <3>1. \A d \in DependsOn[s] \ Job : Reach(rec'[d], d) = Reach(rec[d], d)
      BY <2>3, Dependencies
    <3> QED BY <3>1, SamePeers
  <2>6. /\ proc' = [t \in Service |-> proc'[t]] /\ p \in Addresses /\ 0 \in Addresses
        /\ \A t \in Service \ {s} : proc'[t] = proc[t]
        /\ IsProc(proc'[s]) /\ proc'[s].address \in Addresses /\ proc'[s].address # 0
        /\ proc'[s].peers = Peers(rec, s)
    BY <1>7, <1>9 DEF Addresses
  <2> HIDE DEF g, q, f, r
  <2> QED BY <1>4, <2>3, <2>4, <2>5, <2>6
<1>10. ASSUME rec' = [rec EXCEPT ![s] = SetHost(@, 0)], proc' \in {proc, [proc EXCEPT ![s] = NoProc]}
       PROVE  Shaped /\ (proc'[s] # NoProc => rec'[s].print.peers = proc'[s].peers)
  <2> DEFINE g == SetHost(rec[s], 0)
  <2>1. rec' = [rec EXCEPT ![s] = g]
    BY <1>10
  <2>2. /\ rec' = [t \in Service |-> rec'[t]] /\ rec'[s] = g
        /\ \A t \in Service \ {s} : rec'[t] = rec[t]
    <3> HIDE DEF g
    <3> QED BY <1>3, <2>1, Updates DEF Functions
  <2>3. /\ proc' = [t \in Service |-> proc'[t]] /\ proc'[s] \in {proc[s], NoProc}
        /\ \A t \in Service \ {s} : proc'[t] = proc[t]
    <3>1. CASE proc' = proc
      BY <1>3, <3>1 DEF Functions
    <3>2. CASE proc' = [proc EXCEPT ![s] = NoProc]
      BY <1>3, <3>2, Updates DEF Functions
    <3> QED BY <1>10, <3>1, <3>2
  <2>4. /\ IsRec(g) /\ g.ver = rec[s].ver /\ g.host = 0 /\ g.port = rec[s].port
        /\ g.job = rec[s].job /\ g.print = rec[s].print /\ 0 \in Addresses
    BY <1>4, HostSet DEF Addresses
  <2> HIDE DEF g
  <2> QED BY <1>2, <1>4, <2>2, <2>3, <2>4, Nothings
<1>11. /\ Shaped
       /\ proc'[s] # NoProc => \/ rec'[s].print.peers = proc'[s].peers
                               \/ Ceased /\ proc'[s].peers = Peers(rec', s)
  <2> HIDE DEF f, r, Placings, Shaped
  <2> QED BY <1>6, <1>8, <1>9, <1>10
<1>12. pc' \in {"recover", "none"} /\ status' \in {status, "failed"}
       /\ (pc' = "recover" => todo' \subseteq todo)
  <2> HIDE DEF f, r, Placings
  <2> QED BY <1>1, <1>6
<1> HIDE DEF f, r, Placings
<1>13. ASSUME NEW t \in Service
       PROVE  /\ IsRec(rec'[t]) /\ rec'[t].host \in Addresses /\ rec'[t].port \in Addresses
              /\ rec'[t].job \in JobStates
              /\ rec'[t].ver = "absent" => rec'[t] = NoRec
              /\ IsProc(proc'[t]) /\ proc'[t].address \in Addresses
              /\ proc'[t] # NoProc => rec'[t].ver # "absent" /\ (t \notin Job =>
                   proc'[t].address # 0)
              /\ proc'[t] # NoProc => \/ rec'[t].print.peers = proc'[t].peers
                                      \/ Ceased /\ proc'[t].peers = Peers(rec', t)
              /\ rec[t].ver = rec'[t].ver
  <2>1. CASE t = s
    BY <1>2, <1>11, <2>1
  <2>2. CASE t # s
    BY <1>4, <1>11, <2>2
  <2> QED BY <2>1, <2>2
<1>14. Recording'
  BY <1>11, <1>13 DEF Recording
<1>15. TrueRecords' /\ Fits'
  BY <1>13 DEF TrueRecords, Fits
<1>16. Control'
  <2>1. Recorded \subseteq Recorded' /\ Names' = Names
    BY <1>1, <1>4, <1>13, Nothings DEF Recorded, Names
  <2>2. todo \subseteq Recorded \ Job
    BY <1>1 DEF DeploymentIInv, Control
  <2> QED BY <1>1, <1>12, <2>1, <2>2 DEF DeploymentIInv, Control, Changing, Phases
<1>17. Task'
  BY <1>1, <1>12, IdleTasks, Ended DEF DeploymentIInv
<1>18. Waves' /\ Removing' /\ Retaining' /\ Started'
  BY <1>12, Elsewhere DEF Changing, Phases
<1> QED BY <1>12, <1>14, <1>15, <1>16, <1>17, <1>18 DEF DeploymentIInv, Inspected, PeersCurrent

(* Steps that change neither a record nor a process.                       *)
LEMMA QuietStep ==
  ASSUME DeploymentIInv,
         \/ \E s \in Service : LeaveAlone(s)
         \/ Recovered \/ Cancel \/ Outside \/ UNCHANGED deploymentVars
  PROVE  DeploymentIInv'
<1>1. /\ UNCHANGED <<status, rec, proc, wanted, before, mutated, retained, task, conf>>
      /\ todo' \subseteq todo
      /\ pc' = pc \/ (pc = "recover" /\ pc' = "none")
  BY DEF LeaveAlone, Recovered, Cancel, Outside, deploymentVars, deployment, recovery, told
<1>2. Names' = Names /\ Recorded' = Recorded /\ Candidate' = Candidate
  BY <1>1 DEF Names, Recorded, Candidate
<1>3. Recording' /\ Fits' /\ TrueRecords' /\ \A t \in Service : AsBefore(t) => AsBefore(t)'
  BY <1>1, Standing
<1>4. Control'
  BY <1>1, <1>2 DEF DeploymentIInv, Control, Changing, Phases
<1>5. CASE pc' = pc
  <2>1. Task' /\ Waves' /\ Removing'
    BY <1>1, <1>2, <1>5 DEF DeploymentIInv, Task, Waves, Removing, Among
  <2>2. Inspected'
    BY <1>1, <1>2, <1>3, <1>5 DEF DeploymentIInv, Inspected
  <2>3. Retaining'
    <3>1. retained \subseteq Service
      BY DEF DeploymentIInv, Control, Names
    <3> QED BY <1>1, <1>2, <1>3, <1>5, <3>1 DEF DeploymentIInv, Retaining
  <2>4. Started'
    <3>1. \A s \in Service : Placed(s)' <=> Placed(s)
      BY <1>1 DEF Placed
    <3> QED BY <1>1, <1>2, <1>5, <3>1 DEF DeploymentIInv, Started
  <2>5. PeersCurrent'
    BY <1>1, <1>5 DEF DeploymentIInv, PeersCurrent, Configured
  <2> QED BY <1>3, <1>4, <2>1, <2>2, <2>3, <2>4, <2>5 DEF DeploymentIInv
<1>6. CASE pc = "recover" /\ pc' = "none"
  <2>1. Task'
    BY <1>1, <1>6, IdleTasks, Ended DEF DeploymentIInv
  <2>2. Waves' /\ Removing' /\ Retaining' /\ Started'
    BY <1>6, Elsewhere DEF Changing, Phases
  <2> QED BY <1>3, <1>4, <1>6, <2>1, <2>2 DEF DeploymentIInv, Inspected, PeersCurrent
<1> QED BY <1>1, <1>5, <1>6

(* A process that ends takes nothing with it.                              *)
LEMMA ProcessExitsStep ==
  ASSUME DeploymentIInv, NEW s \in Service, ProcessExits(s)
  PROVE  DeploymentIInv'
<1>1. /\ UNCHANGED <<status, rec, pc, wanted, before, mutated, retained, task, conf, todo>>
      /\ proc' = [proc EXCEPT ![s] = NoProc]
  BY DEF ProcessExits, deployment, recovery, told
<1>2. /\ proc' = [t \in Service |-> proc'[t]] /\ \A t \in Service : proc'[t] \in {proc[t], NoProc}
  BY <1>1, Updates DEF DeploymentIInv, Recording
<1>3. Names' = Names /\ Recorded' = Recorded /\ Candidate' = Candidate
  BY <1>1 DEF Names, Recorded, Candidate
<1>4. Recording' /\ Fits' /\ TrueRecords' /\ \A t \in Service : AsBefore(t) => AsBefore(t)'
  BY <1>1, <1>2, Lessening
<1>5. Control'
  BY <1>1, <1>3 DEF DeploymentIInv, Control
<1>6. Task' /\ Waves' /\ Removing'
  BY <1>1, <1>2, <1>3 DEF DeploymentIInv, Task, Waves, Removing, Among
<1>7. Inspected'
  BY <1>1, <1>3, <1>4 DEF DeploymentIInv, Inspected
<1>8. Retaining'
  <2>1. retained \subseteq Service
    BY DEF DeploymentIInv, Control, Names
  <2> QED BY <1>1, <1>3, <1>4, <2>1 DEF DeploymentIInv, Retaining
<1>9. Started'
  <2>1. \A t \in Service : Placed(t)' <=> Placed(t)
    BY <1>1 DEF Placed
  <2>2. \A t \in Service : proc'[t] # NoProc => proc'[t] = proc[t]
    BY <1>2
  <2> QED BY <1>1, <1>3, <2>1, <2>2 DEF DeploymentIInv, Started
<1>10. PeersCurrent'
  BY <1>1, <1>2 DEF DeploymentIInv, PeersCurrent, Configured
<1> QED BY <1>4, <1>5, <1>6, <1>7, <1>8, <1>9, <1>10 DEF DeploymentIInv

(* Nor does the hub: what is left running is recorded.                     *)
LEMMA HubDiesStep ==
  ASSUME DeploymentIInv, HubDies
  PROVE  DeploymentIInv'
<1>1. /\ UNCHANGED <<status, rec>> /\ pc' = "down" /\ retained' = {} /\ before' = "none"
      /\ wanted' = [s \in Service |-> "absent"]
      /\ task' = [s \in Service |-> "none"] /\ conf' = [s \in Service |-> <<>>]
      /\ \E dead \in SUBSET OnHost :
           proc' = [s \in Service |-> IF s \in dead THEN NoProc ELSE proc[s]]
  BY DEF HubDies
<1>2. /\ proc' = [t \in Service |-> proc'[t]] /\ \A t \in Service : proc'[t] \in {proc[t], NoProc}
  BY <1>1
<1>3. Recording' /\ Fits'
  BY <1>1, <1>2, Lessening
<1>4. TrueRecords'
  BY <1>1, <1>2, Lessening
<1>5. Control'
  BY <1>1 DEF DeploymentIInv, Control, Changing, Phases
<1>6. Task'
  BY <1>1 DEF Task, TaskPlaces, Active
<1>7. Waves' /\ Removing' /\ Retaining' /\ Started'
  BY <1>1, Elsewhere DEF Changing, Phases
<1> QED BY <1>1, <1>3, <1>4, <1>5, <1>6, <1>7 DEF DeploymentIInv, Inspected, PeersCurrent

(* Every step preserves the invariant.                                     *)
LEMMA DeploymentStep == DeploymentIInv /\ [DeploymentNext]_deploymentVars => DeploymentIInv'
<1> SUFFICES ASSUME DeploymentIInv, [DeploymentNext]_deploymentVars PROVE DeploymentIInv'
  OBVIOUS
<1>1. CASE \E m \in Manifests, again \in BOOLEAN : Deploy(m, again)
  BY <1>1, DeployStep
<1>2. CASE \E s \in Service : Starting(s)
  BY <1>2, StartingStep
<1>3. CASE \E s \in Service : Built(s) \/ Inspect(s) \/ RemoveService(s) \/ Restart(s) \/
             ProcessExits(s)
  BY <1>3, BuiltStep, InspectStep, RemoveStep, RestartStep, ProcessExitsStep
<1>4. CASE BuildsDone \/ Choose \/ Removed \/ InfraDone \/ AppsDone
  BY <1>4, BuildsDoneStep, ChooseStep, RemovedStep, InfraDoneStep, AppsDoneStep
<1>5. CASE Recover \/ RecoverBlind \/ HubDies
  BY <1>5, RecoverStep, RecoverBlindStep, HubDiesStep
<1>6. CASE (\E s \in Service : LeaveAlone(s)) \/ Recovered \/ Cancel \/ Outside \/
             UNCHANGED deploymentVars
  BY <1>6, QuietStep
<1> QED BY <1>1, <1>2, <1>3, <1>4, <1>5, <1>6 DEF DeploymentNext, Progress, World

(* And the invariant holds initially.                                      *)
LEMMA DeploymentStart == DeploymentInit => DeploymentIInv
<1> SUFFICES ASSUME DeploymentInit PROVE DeploymentIInv
  OBVIOUS
<1>1. /\ status = "none" /\ pc = "none" /\ before = "none" /\ retained = {}
      /\ rec = [s \in Service |-> NoRec] /\ proc = [s \in Service |-> NoProc]
      /\ wanted = [s \in Service |-> "absent"]
      /\ task = [s \in Service |-> "none"] /\ conf = [s \in Service |-> <<>>]
  BY DEF DeploymentInit
<1>2. Recording /\ Fits
  BY <1>1, Nothings DEF Recording, Fits, Addresses, JobStates
<1>3. Control /\ Task
  BY <1>1 DEF Control, Task, TaskPlaces, Active, Changing, Phases
<1>4. Waves /\ Removing /\ Retaining /\ Started /\ Inspected /\ TrueRecords /\ PeersCurrent
  BY <1>1 DEF Waves, Removing, Retaining, Started, Inspected, TrueRecords, PeersCurrent, Changing,
      Phases
<1> QED BY <1>2, <1>3, <1>4 DEF DeploymentIInv

(* The invariant, in every state of every deployment and recovery.         *)
THEOREM DeploymentInductive == DeploymentSpec => []DeploymentIInv
BY DeploymentStart, DeploymentStep, PTL DEF DeploymentSpec

(* The flag of the clone is a Boolean.                                     *)
CloneFlag == cloned \in BOOLEAN
(* No step makes it anything else.                                         *)
LEMMA ClonedStep == CloneFlag /\ [DeploymentNext]_deploymentVars => CloneFlag'
<1> USE DEF CloneFlag
<1> SUFFICES ASSUME CloneFlag, [DeploymentNext]_deploymentVars PROVE CloneFlag'
  OBVIOUS
<1>1. CASE \E s \in Service : Starting(s)
  BY <1>1 DEF Starting, Begin, Prepare, Run, Wait, RunJob, JobEnds, JobCleaned
<1>2. CASE Progress /\ ~(\E s \in Service : Starting(s))
  BY <1>2 DEF Progress, Built, Inspect, RemoveService, Restart, LeaveAlone, BuildsDone, Choose,
      Removed,
    InfraDone, AppsDone, Recover, RecoverBlind, Recovered
<1>3. CASE World \/ UNCHANGED deploymentVars
  BY <1>3 DEF World, Deploy, Cancel, Outside, HubDies, ProcessExits, deploymentVars
<1> QED BY <1>1, <1>2, <1>3 DEF DeploymentNext

(* The state has the shape the code gives it.                              *)
THEOREM DeploymentTypeCorrect == DeploymentSpec => []DeploymentTypeOK
<1>1. DeploymentInit => CloneFlag
  BY DEF DeploymentInit, CloneFlag
<1>2. DeploymentSpec => []CloneFlag
  BY <1>1, ClonedStep, PTL DEF DeploymentSpec
<1>3. DeploymentIInv /\ CloneFlag => DeploymentTypeOK
  BY DEF CloneFlag, DeploymentIInv, Recording, Control, DeploymentTypeOK, Addresses, JobStates,
      Changing, Phases
<1> QED BY <1>2, <1>3, DeploymentInductive, PTL

(* Whatever runs is recorded.                                              *)
THEOREM NothingOrphaned == DeploymentSpec => []NoOrphans
<1>1. DeploymentIInv => NoOrphans
  BY Nothings DEF DeploymentIInv, Recording, NoOrphans, Recorded
<1> QED BY <1>1, DeploymentInductive, PTL

(* Every service that runs has the addresses of what it depends on.        *)
THEOREM PeersKnown == DeploymentSpec => []PeersCurrent
<1>1. DeploymentIInv => PeersCurrent
  BY DEF DeploymentIInv
<1> QED BY <1>1, DeploymentInductive, PTL

(* What is said of a service whose start is over was found out.            *)
Found(s) ==
  IF s \in Job THEN s \in retained \/ <<s, 0>> \in answered
  ELSE <<s, Reach(rec[s], s)>> \in answered
Answering ==
  pc \in Phases =>
    \A s \in Service :
      /\ task[s] = "done" => Found(s)
      /\ task[s] = "clean" /\ rec[s].job = "succeeded" => <<s, 0>> \in answered

(* A step of a wave says of its own service only what it found out, and    *)
(* forgets nothing.                                                        *)
LEMMA AnsweringOf ==
  ASSUME DeploymentIInv, Answering, NEW s \in Service, Starting(s)
  PROVE  Answering'
<1>1. StepOf(s)
  BY BeginOf, PrepareOf, RunOf, WaitOf, RunJobOf, JobEndsOf, JobCleanedOf DEF Starting
<1>2. /\ pc \in Phases /\ pc' = pc /\ retained' = retained
      /\ \A t \in Service \ {s} : rec'[t] = rec[t] /\ task'[t] = task[t]
  BY <1>1 DEF StepOf, Alone, Frame
<1>3. Functions
  BY DEF DeploymentIInv, Recording, Task, Functions
<1>4. answered \subseteq answered'
  BY DEF Starting, Begin, Prepare, Run, Wait, RunJob, JobEnds, JobCleaned, told
<1>5. ASSUME NEW t \in Service \ {s}
      PROVE  /\ task'[t] = "done" => Found(t)'
             /\ task'[t] = "clean" /\ rec'[t].job = "succeeded" => <<t, 0>> \in answered'
  BY <1>2, <1>4 DEF Answering, Found
<1>6. /\ task'[s] = "done" => Found(s)'
      /\ task'[s] = "clean" /\ rec'[s].job = "succeeded" => <<s, 0>> \in answered'
  <2>1. CASE Begin(s)
    BY <1>2, <1>3, <2>1, BeginEffect DEF Found
  <2>2. CASE Prepare(s)
    <3>1. task'[s] \in {"failed", "job", "run"}
      BY <1>3, <2>2, PrepareEffect DEF DeploymentIInv
    <3> QED BY <3>1
  <2>3. CASE Run(s)
    <3>1. \E x \in {"wait", "failed"} : To(s, x)
      BY <2>3 DEF Run
    <3> QED BY <1>3, <3>1, Moved
  <2>4. CASE Wait(s)
    <3> DEFINE f == SetHost(rec[s], proc[s].address)
               r == [rec EXCEPT ![s] = f]
    <3>1. \/ To(s, "failed")
          \/ /\ To(s, "done") /\ answered' = answered \cup {<<s, Reach(r[s], s)>>}
             /\ rec' = IF s \in retained THEN r
                       ELSE [r EXCEPT ![s] = SetPrint(@, Fingerprint(r, s))]
      BY <2>4 DEF Wait
    <3>2. r = [t \in Service |-> r[t]] /\ r[s] = f
      <4> HIDE DEF f
      <4> QED BY <1>3, Updates DEF Functions
    <3>3. IsRec(f) /\ s \notin Job
      <4>1. task[s] = "wait" /\ task[s] \in Active
        BY <2>4 DEF Wait, Active
      <4> QED BY <4>1, Before, HostSet
    <3>4. CASE To(s, "failed")
      BY <1>3, <3>4, Moved
    <3>5. CASE /\ To(s, "done") /\ answered' = answered \cup {<<s, Reach(r[s], s)>>}
               /\ rec' = IF s \in retained THEN r
                         ELSE [r EXCEPT ![s] = SetPrint(@, Fingerprint(r, s))]
      <4> DEFINE g == SetPrint(f, Fingerprint(r, s))
      <4>1. rec'[s] = f \/ rec'[s] = g
        <5>1. s \notin retained => rec' = [r EXCEPT ![s] = g]
          BY <3>2, <3>5
        <5>2. s \in retained => rec' = r
          BY <3>5
        <5> HIDE DEF f, g, r
        <5> QED BY <3>2, <5>1, <5>2, Updates
      <4>2. g.host = f.host /\ g.port = f.port
        <5> HIDE DEF f, r
        <5> QED BY <3>3, PrintSet
      <4>3. Reach(rec'[s], s) = Reach(f, s)
        <5> HIDE DEF f, g, r
        <5> QED BY <4>1, <4>2, SameReach
      <4>4. <<s, Reach(rec'[s], s)>> \in answered' /\ task'[s] = "done"
        <5>1. task'[s] = "done"
          BY <1>3, <3>5, Moved
        <5> HIDE DEF f, g, r
        <5> QED BY <3>2, <3>5, <4>3, <5>1
      <4> HIDE DEF f, g, r
      <4> QED BY <3>3, <4>4 DEF Found
    <3> HIDE DEF f, r
    <3> QED BY <3>1, <3>4, <3>5
  <2>5. CASE RunJob(s)
    <3>1. task'[s] = "ends"
      BY <1>3, <2>5, Moved DEF RunJob
    <3> QED BY <3>1
  <2>6. CASE JobEnds(s)
    <3>1. PICK end \in {"succeeded", IF aborted THEN "interrupted" ELSE "failed"} :
            /\ rec' = [rec EXCEPT ![s] = SetJob(@, end)]
            /\ answered' = IF end = "succeeded" THEN answered \cup {<<s, 0>>} ELSE answered
      BY <2>6 DEF JobEnds
    <3>2. task'[s] = "clean"
      BY <1>3, <2>6, Moved DEF JobEnds
    <3>3. rec'[s].job = end
      <4> DEFINE f == SetJob(rec[s], end)
      <4>1. rec' = [rec EXCEPT ![s] = f]
        BY <3>1
      <4>2. f.job = end
        BY JobSet DEF DeploymentIInv, Recording
      <4> HIDE DEF f
      <4> QED BY <1>3, <4>1, <4>2, Updates DEF Functions
    <3> QED BY <3>1, <3>2, <3>3
  <2>7. CASE JobCleaned(s)
    <3>1. task[s] = "clean" /\ s \in Job
      <4>1. task[s] = "clean" /\ task[s] \in Active
        BY <2>7 DEF JobCleaned, Active
      <4> QED BY <4>1, Before
    <3>2. \/ To(s, "failed")
          \/ To(s, "done") /\ rec[s].job = "succeeded"
      BY <2>7 DEF JobCleaned
    <3>3. task'[s] = "failed" \/ (task'[s] = "done" /\ rec[s].job = "succeeded")
      BY <1>3, <3>2, Moved
    <3> QED BY <1>2, <1>4, <3>1, <3>3 DEF Answering, Found
  <2> QED BY <2>1, <2>2, <2>3, <2>4, <2>5, <2>6, <2>7 DEF Starting
<1> QED BY <1>2, <1>5, <1>6 DEF Answering

(* What was found out is not forgotten while nothing starts.               *)
LEMMA Remembered ==
  ASSUME Answering, pc \in Phases, UNCHANGED <<rec, task, retained, answered>>
  PROVE  Answering'
BY DEF Answering, Found

(* Every step preserves it.                                                *)
LEMMA AnsweringStep == DeploymentIInv /\ Answering /\ [DeploymentNext]_deploymentVars => Answering'
<1> SUFFICES ASSUME DeploymentIInv, Answering, [DeploymentNext]_deploymentVars, pc' \in Phases
             PROVE  Answering'
  BY DEF Answering
<1>1. CASE \E s \in Service : Starting(s)
  BY <1>1, AnsweringOf
<1>2. CASE \/ InfraDone \/ AppsDone \/ Cancel \/ Outside \/ \E s \in Service : ProcessExits(s)
           \/ UNCHANGED deploymentVars
  <2>1. UNCHANGED <<rec, task, retained, answered>>
    BY <1>2 DEF InfraDone, AppsDone, Cancel, Outside, ProcessExits, deploymentVars, deployment, told
  <2>2. pc \in Phases
    BY <1>2 DEF InfraDone, AppsDone, Cancel, Outside, ProcessExits, deploymentVars, deployment,
        Phases
  <2> QED BY <2>1, <2>2, Remembered
<1>3. CASE Removed
  <2>1. task' = All(Names, "waiting")
    BY <1>3 DEF Removed, Fail, Broke, Phases
  <2> QED BY <2>1 DEF Answering, All
<1>4. ASSUME NEW s \in Service
      PROVE  ~(Built(s) \/ Inspect(s) \/ RemoveService(s) \/ Restart(s) \/ LeaveAlone(s))
  <2>1. /\ task[s] = "build" => pc = "build"
        /\ task[s] = "inspect" => pc = "inspect"
        /\ task[s] = "remove" => pc = "remove"
    BY DEF DeploymentIInv, Task
  <2>2. ~Built(s)
    BY <2>1 DEF Built, Phases
  <2>3. ~Inspect(s)
    BY <2>1 DEF Inspect, Phases
  <2>4. ~RemoveService(s)
    BY <2>1 DEF RemoveService, Phases
  <2>5. ~Restart(s) /\ ~LeaveAlone(s)
    <3>1. pc' = "infra" \/ pc' = "apps"
      BY DEF Phases
    <3>2. Restart(s) => pc = "recover" /\ pc' \in {pc, "none"}
      BY DEF Restart, Broke
    <3>3. LeaveAlone(s) => pc = "recover" /\ pc' = pc
      BY DEF LeaveAlone, deployment
    <3> QED BY <3>1, <3>2, <3>3
  <2> QED BY <2>2, <2>3, <2>4, <2>5
<1>5. ~(\E m \in Manifests, again \in BOOLEAN : Deploy(m, again)) /\ ~BuildsDone /\ ~Choose
  BY DEF Deploy, BuildsDone, Choose, Fail, Broke, Phases
<1>6. ~(Recover \/ RecoverBlind \/ Recovered \/ HubDies)
  BY DEF Recover, RecoverBlind, Recovered, HubDies, Broke, Phases
<1> QED BY <1>1, <1>2, <1>3, <1>4, <1>5, <1>6 DEF DeploymentNext, Progress, World

(* What a deployment knows of its services, it found out itself.           *)
LEMMA Answers == DeploymentSpec => []Answering
<1>1. DeploymentInit => Answering
  BY DEF DeploymentInit, Answering, Phases
<1> QED BY <1>1, AnsweringStep, DeploymentInductive, PTL DEF DeploymentSpec

(* Only the start of a service makes it run.                               *)
LEMMA StartsFirst ==
  ASSUME DeploymentIInv, Answering, DeploymentNext, NEW s \in Service, Starts(s),
         NEW d \in DependsOn[s]
  PROVE  Met(s, d)
<1>1. pc \in Phases /\ proc[s] = NoProc /\ proc'[s] # NoProc /\ d \in Service
  BY Dependencies DEF Starts, Phases
<1>2. ASSUME NEW t \in Service, Starting(t)
      PROVE  task[d] = "done" /\ proc'[s].peers = Peers(rec, s)
  <2>1. StepOf(t) /\ StartOf(t)
    BY <1>2, BeginOf, PrepareOf, RunOf, WaitOf, RunJobOf, JobEndsOf, JobCleanedOf DEF Starting
  <2>2. t = s
    BY <1>1, <2>1 DEF StepOf, Alone
  <2>3. task[s] \in Active
    BY <1>1, <2>1, <2>2 DEF StepOf
  <2>4. proc'[s].peers = Peers(rec, s)
    BY <1>1, <2>1, <2>2 DEF StartOf
  <2> QED BY <2>3, <2>4, Before
<1>3. \E t \in Service : Starting(t)
  <2>1. \A t \in Service : task[t] \notin {"build", "inspect", "remove"}
    BY <1>1 DEF DeploymentIInv, Task, Phases
  <2>2. pc \notin {"recover", "down", "build", "inspect", "remove"} /\ ~Resting
    BY <1>1 DEF Phases, Resting
  <2>3. ~(\E m \in Manifests, again \in BOOLEAN : Deploy(m, again)) /\ ~(BuildsDone \/ Choose \/
          Removed)
    BY <2>2 DEF Deploy, BuildsDone, Choose, Removed
  <2>4. ~(\E t \in Service : Built(t) \/ Inspect(t) \/ RemoveService(t) \/ Restart(t) \/
          LeaveAlone(t))
    BY <2>1, <2>2 DEF Built, Inspect, RemoveService, Restart, LeaveAlone
  <2>5. ~(InfraDone \/ AppsDone \/ Cancel \/ Outside)
    BY <1>1 DEF InfraDone, AppsDone, Cancel, Outside
  <2>6. ~(Recover \/ RecoverBlind \/ Recovered)
    BY <2>2 DEF Recover, RecoverBlind, Recovered
  <2>7. ~HubDies
    BY <1>1 DEF HubDies
  <2>8. ~(\E t \in Service : ProcessExits(t))
    BY <1>1 DEF ProcessExits, DeploymentIInv, Recording
  <2> QED BY <2>3, <2>4, <2>5, <2>6, <2>7, <2>8 DEF DeploymentNext, Progress, World
<1>4. task[d] = "done" /\ proc'[s].peers = Peers(rec, s)
  BY <1>2, <1>3
<1>5. Found(d)
  BY <1>1, <1>4 DEF Answering
<1>6. d \notin Job => Peers(rec, s)[d] = Reach(rec[d], d)
  BY DEF Peers
<1> QED BY <1>4, <1>5, <1>6 DEF Found, Met

(* A service is started only with addresses at which this deployment found *)
(* what it depends on ready, and after the jobs before it succeeded in it  *)
(* or were kept (startGroup of Manager.deploy).                            *)
THEOREM DependenciesMet == DeploymentSpec => DependenciesFirst
<1>1. DeploymentIInv /\ Answering /\ [DeploymentNext]_deploymentVars
        => [\A s \in Service : Starts(s) => \A d \in DependsOn[s] : Met(s, d)]_deploymentVars
  BY StartsFirst
<1> QED BY <1>1, Answers, DeploymentInductive, PTL DEF DeploymentSpec, DependenciesFirst
=============================================================================
