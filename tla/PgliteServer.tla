---------------------------- MODULE PgliteServer ----------------------------
(***************************************************************************)
(* One PGlite service: the runtime's calls (pglite-runtime.ts), the handle *)
(* each launch returns (pglite-server.ts, pglite-worker-lifecycle.ts) and  *)
(* the worker that admits one session at a time (pglite-worker.ts).        *)
(*                                                                         *)
(* A launch is numbered; the worker's part describes the newest one, since *)
(* only that can listen.  Worker and parent talk in messages, in order.    *)
(* The runtime's calls for one service hold its lock, so there is one.     *)
(***************************************************************************)
EXTENDS Naturals, SequencesExt

CONSTANTS
  Client, Nobody,
  MaxLaunches,   \* BOUND on launches
  MaxMessages    \* BOUND on messages under way when a client leaves

ASSUME ServerAssumption ==
  Nobody \notin Client /\ {MaxLaunches, MaxMessages} \subseteq Nat \ {0}

VARIABLES
  call, at,      \* the runtime's call, and the await it is at
  known,         \* `instances` has the service
  current,       \* the launch whose handle the instance has, 0 for none
  gen,           \* launches so far
  lock,          \* holder of the data lock: a launch, Copier or 0
  alive, open,   \* launches whose worker lives, and has the database open
  running, failed, ended,  \* handles: running, failed, stop() under way
  term,          \* term[g]: the handle's termination
  worker,        \* the newest worker's own progress
  session,       \* whose messages the backend has run since it was reset
  served, backend, occupied, waiters, late,
  reset,         \* the step of the reset between two sessions
  chan,          \* messages from the worker on their way
  resetTimer     \* the parent waits for a reset to end

runtimeVars == <<call, at, known, current>>
handleVars == <<gen, lock, running, failed, ended, term>>
socketVars == <<served, backend, occupied, waiters, late, reset, session>>
vars == <<runtimeVars, handleVars, alive, open, worker, socketVars, chan, resetTimer>>

Launch == 1 .. MaxLaunches
Copier == MaxLaunches + 1
Live == gen \in alive
Told(m) == IF chan # <<>> /\ chan[Len(chan)] = m THEN chan ELSE Append(chan, m)
In(s, c) == \E i \in 1 .. Len(s) : s[i] = c

Init ==
  /\ call = "none" /\ at = "none" /\ known = FALSE /\ current = 0 /\ gen = 0
  /\ lock = 0 /\ alive = {} /\ open = {} /\ running = {} /\ failed = {}
  /\ ended = [g \in Launch |-> "no"] /\ term = [g \in Launch |-> "none"]
  /\ worker = "none" /\ session = Nobody /\ served = Nobody /\ backend = FALSE
  /\ occupied = FALSE /\ waiters = <<>> /\ late = {} /\ reset = "none"
  /\ chan = <<>> /\ resetTimer = FALSE
------------------------------------------------------------------------------
(* Handles.  Termination asks the worker to end and lets the lock go once  *)
(* it has, also when that takes longer than the grace period.              *)
Terminate(G) ==
  /\ term' = [g \in Launch |-> IF g \in G /\ term[g] = "none" THEN "pending" ELSE term[g]]
  /\ resetTimer' = IF gen \in G THEN FALSE ELSE resetTimer

FatalSpared ==                 \* mutant of Fatal: the worker is left alone
  /\ failed' = failed \cup {gen} /\ running' = running \ {gen}
  /\ Terminate({})
Fatal ==
  /\ failed' = failed \cup {gen} /\ running' = running \ {gen}
  /\ Terminate({gen})

StopHandle(g) ==               \* handle.stop(), the first time it is called
  ended' = [ended EXCEPT ![g] = IF @ # "no" THEN @
                                ELSE IF g \notin failed /\ g \in alive THEN "asking"
                                ELSE "ending"]

(* The worker is asked, in a message of its own; or there is nothing to    *)
(* ask and termination follows at once.                                    *)
Halt ==
  /\ Live /\ ended[gen] \in {"asking", "throwing"} /\ worker = "up"
  /\ worker' = "halting"
  /\ waiters' = <<>> /\ late' = {} /\ backend' = FALSE /\ served' = Nobody
  /\ UNCHANGED <<runtimeVars, handleVars, alive, open, session, occupied, reset, chan,
                 resetTimer>>

Threw(g) == term[g] \in {"late", "spoilt"}
EndUnterminated(g) ==          \* mutant of End: what failed needs no termination
  /\ ended[g] = "ending" /\ (term[g] \in {"none", "done"} \/ Threw(g))
  /\ ended' = [ended EXCEPT ![g] = IF Threw(g) THEN "failed" ELSE "done"]
  /\ UNCHANGED <<term, resetTimer>>
End(g) ==
  /\ ended[g] \in {"ending", "throwing"}
  /\ IF term[g] = "none" THEN Terminate({g}) /\ UNCHANGED ended
     ELSE /\ term[g] = "done" \/ Threw(g)
          /\ ended' = [ended EXCEPT ![g] = IF Threw(g) \/ @ = "throwing" THEN "failed" ELSE "done"]
          /\ UNCHANGED <<term, resetTimer>>
StopStep(g) ==
  /\ End(g)
  /\ UNCHANGED <<runtimeVars, gen, lock, running, failed, alive, open, worker, socketVars, chan>>

StopTimeout ==                 \* 30 s: stop() throws, after it has terminated
  /\ gen > 0 /\ ended[gen] = "asking"
  /\ ended' = [ended EXCEPT ![gen] = "throwing"]
  /\ running' = running \ {gen}
  /\ UNCHANGED <<runtimeVars, gen, lock, failed, term, alive, open, worker, socketVars, chan,
                 resetTimer>>

(* The worker is gone: terminated, or of itself, with or without an error. *)
Exit(g) ==
  /\ g \in alive /\ term[g] # "none"
  /\ alive' = alive \ {g} /\ open' = open \ {g}
  /\ running' = running \ {g}
  /\ ended' = [ended EXCEPT ![g] = IF @ = "asking" THEN "ending" ELSE @]
  /\ IF g # gen THEN UNCHANGED <<worker, socketVars, chan>>
     ELSE /\ worker' = "none" /\ chan' = <<>> /\ served' = Nobody /\ backend' = FALSE
          /\ occupied' = FALSE /\ waiters' = <<>> /\ late' = {} /\ reset' = "none"
          /\ session' = Nobody
  /\ UNCHANGED <<runtimeVars, gen, lock, failed, term, resetTimer>>

Crash ==                       \* with no error event, nobody terminates it
  /\ Live /\ term[gen] = "none"
  /\ alive' = alive \ {gen} /\ open' = open \ {gen} /\ worker' = "none" /\ chan' = <<>>
  /\ served' = Nobody /\ backend' = FALSE /\ occupied' = FALSE /\ waiters' = <<>>
  /\ late' = {} /\ reset' = "none" /\ session' = Nobody
  /\ \/ /\ Fatal
        /\ ended' = [ended EXCEPT ![gen] = IF @ = "asking" THEN "ending" ELSE @]
     \/ /\ running' = running \ {gen} /\ UNCHANGED <<failed, term, resetTimer>>
        /\ ended' = [ended EXCEPT ![gen] = IF @ = "asking" THEN "throwing" ELSE @]
  /\ UNCHANGED <<runtimeVars, gen, lock>>

(* What is cleaned up before may throw: the lock goes all the same, but    *)
(* termination, and with it stop(), has failed for good.                   *)
Unlock(g) ==                   \* exited.then(unlock)
  /\ term[g] # "none" /\ g \notin alive /\ lock = g /\ lock' = 0
  /\ \E end \in {"done", "spoilt"} :
       term' = [term EXCEPT ![g] = IF @ = "pending" THEN end ELSE @]
  /\ UNCHANGED <<runtimeVars, gen, running, failed, ended, alive, open, worker, socketVars,
                 chan, resetTimer>>

GraceOver(g) ==                \* 5 s: termination has failed, for good
  /\ term[g] = "pending" /\ lock = g
  /\ term' = [term EXCEPT ![g] = "late"]
  /\ UNCHANGED <<runtimeVars, gen, lock, running, failed, ended, alive, open, worker,
                 socketVars, chan, resetTimer>>
------------------------------------------------------------------------------
(* The runtime's calls.                                                    *)
NeedsStop == current # 0
Call(kind) ==
  /\ call = "none" /\ call' = kind
  /\ CASE kind = "start" -> known /\ current \notin running
       [] kind = "clone" -> current \notin running
       [] OTHER -> TRUE
  /\ at' = IF kind = "clone" THEN "locking" ELSE IF NeedsStop THEN "stopping"
           ELSE IF kind \in {"stop", "remove"} THEN "returning" ELSE "locking"
  /\ IF NeedsStop /\ kind # "clone" THEN StopHandle(current) ELSE UNCHANGED ended
  /\ UNCHANGED <<known, current, gen, lock, running, failed, term, alive, open, worker,
                 socketVars, chan, resetTimer>>

(* The handle's stop() has settled; if it threw, so does the call.         *)
HandleStopped ==
  /\ at = "stopping" /\ ended[current] \in {"done", "failed"}
  /\ at' = IF ended[current] = "done" /\ call \in {"run", "start"} THEN "locking" ELSE "returning"
  /\ call' = IF ended[current] = "failed" THEN "thrown" ELSE call
  /\ UNCHANGED <<known, current, handleVars, alive, open, worker, socketVars, chan, resetTimer>>

Return ==
  /\ at = "returning" /\ call' = "none" /\ at' = "none"
  /\ IF call = "remove" THEN known' = FALSE /\ current' = 0 ELSE UNCHANGED <<known, current>>
  /\ UNCHANGED <<handleVars, alive, open, worker, socketVars, chan, resetTimer>>

LockUnchecked ==               \* mutant of Lock: the lock does not exclude
  /\ at = "locking" /\ gen < MaxLaunches
  /\ IF call = "run" THEN known' = TRUE /\ current' = 0 ELSE UNCHANGED <<known, current>>
  /\ lock' = IF call = "clone" THEN Copier ELSE gen + 1
  /\ at' = IF call = "clone" THEN "copying" ELSE "recovering"
Lock ==
  /\ at = "locking" /\ (call # "clone" => gen < MaxLaunches)
  /\ IF call = "run" THEN known' = TRUE /\ current' = 0 ELSE UNCHANGED <<known, current>>
  /\ IF lock # 0 THEN at' = "returning" /\ UNCHANGED lock
     ELSE /\ lock' = IF call = "clone" THEN Copier ELSE gen + 1
          /\ at' = IF call = "clone" THEN "copying" ELSE "recovering"
TakeLock ==
  /\ Lock
  /\ UNCHANGED <<call, gen, running, failed, ended, term, alive, open, worker, socketVars,
                 chan, resetTimer>>

CopyEnds ==
  /\ at = "copying" /\ at' = "returning" /\ lock' = 0
  /\ UNCHANGED <<call, known, current, gen, running, failed, ended, term, alive, open, worker,
                 socketVars, chan, resetTimer>>

(* The publication is recovered and the worker created and asked to start; *)
(* or one of them fails and the lock is given back.                        *)
Spawn ==
  /\ at = "recovering"
  /\ \/ /\ gen' = gen + 1 /\ alive' = alive \cup {gen + 1} /\ worker' = "opening"
        /\ at' = "starting" /\ UNCHANGED lock
     \/ at' = "returning" /\ lock' = 0 /\ UNCHANGED <<gen, alive, worker>>
  /\ UNCHANGED <<call, known, current, running, failed, ended, term, open, socketVars, chan,
                 resetTimer>>

(* The start failed or takes more than 30 s: the launch throws once the    *)
(* worker is terminated, or that has failed.  There is no handle.          *)
StartTimeout ==
  /\ at = "starting" /\ at' = "closing" /\ Terminate({gen})
  /\ UNCHANGED <<call, known, current, gen, lock, running, failed, ended, alive, open, worker,
                 socketVars, chan>>
StartFailed ==
  /\ at = "starting" /\ (gen \in failed \/ ~Live)
  /\ at' = "closing" /\ Terminate({gen})
  /\ UNCHANGED <<call, known, current, gen, lock, running, failed, ended, alive, open, worker,
                 socketVars, chan>>
Closed ==
  /\ at = "closing" /\ (term[gen] = "done" \/ Threw(gen)) /\ at' = "returning"
  /\ UNCHANGED <<call, known, current, handleVars, alive, open, worker, socketVars, chan,
                 resetTimer>>

(* A launch whose context was aborted meanwhile is stopped again.          *)
Launched ==
  /\ at = "launched" /\ current' = gen
  /\ \/ at' = "returning" /\ UNCHANGED <<call, ended>>
     \/ at' = "stopping" /\ call' = "thrown" /\ StopHandle(gen)
  /\ UNCHANGED <<known, gen, lock, running, failed, term, alive, open, worker, socketVars,
                 chan, resetTimer>>
------------------------------------------------------------------------------
(* Messages to the parent.                                                 *)
Receive ==
  /\ Live /\ chan # <<>> /\ chan' = Tail(chan)
  /\ CASE Head(chan) = "started" ->
            /\ IF at = "starting" THEN at' = "launched" /\ running' = running \cup {gen}
               ELSE UNCHANGED <<at, running>>
            /\ UNCHANGED <<failed, ended, term, resetTimer>>
       [] Head(chan) = "stopped" ->
            /\ ended' = [ended EXCEPT ![gen] = IF @ = "asking" THEN "ending" ELSE @]
            /\ running' = IF ended[gen] = "asking" THEN running \ {gen} ELSE running
            /\ UNCHANGED <<at, failed, term, resetTimer>>
       [] Head(chan) = "error" ->
            /\ Fatal /\ UNCHANGED at
            /\ ended' = [ended EXCEPT ![gen] = IF @ = "asking" THEN "ending" ELSE @]
       [] Head(chan) = "resetting" ->
            resetTimer' = TRUE /\ UNCHANGED <<at, running, failed, ended, term>>
       [] Head(chan) = "reset" ->
            resetTimer' = FALSE /\ UNCHANGED <<at, running, failed, ended, term>>
  /\ UNCHANGED <<call, known, current, gen, lock, alive, open, worker, socketVars>>

ResetTimeout ==
  /\ resetTimer /\ Fatal
  /\ UNCHANGED <<runtimeVars, gen, lock, ended, alive, open, worker, socketVars, chan>>
------------------------------------------------------------------------------
(* The worker: it opens the database, then listens.                        *)
Quiet == UNCHANGED <<runtimeVars, handleVars, alive, resetTimer>>
WorkerOpen ==
  /\ Live /\ worker = "opening" /\ worker' = "listening" /\ open' = open \cup {gen}
  /\ UNCHANGED <<socketVars, chan>> /\ Quiet
Listen ==
  /\ Live /\ worker = "listening" /\ worker' = "up" /\ chan' = Append(chan, "started")
  /\ UNCHANGED <<open, socketVars>> /\ Quiet

(* The handler throws while it starts or halts: whatever is open is closed,*)
(* if that can be.                                                         *)
Breaks ==
  /\ Live /\ worker \in {"opening", "listening", "halting"}
  /\ worker' = "broken" /\ chan' = Append(chan, "error")
  /\ open' \in {open, open \ {gen}}
  /\ waiters' = <<>> /\ late' = {} /\ served' = Nobody /\ backend' = FALSE
  /\ UNCHANGED <<occupied, reset, session>> /\ Quiet

Halted ==                      \* after the client's end and the reset
  /\ Live /\ worker = "halting" /\ reset = "none"
  /\ worker' = "halted" /\ open' = open \ {gen} /\ chan' = Append(chan, "stopped")
  /\ UNCHANGED socketVars /\ Quiet

Connect(c) ==                  \* a connection made while it halts is refused
  /\ Live /\ worker = "up" /\ served # c /\ ~In(waiters, c)
  /\ IF occupied THEN waiters' = Append(waiters, c) /\ UNCHANGED <<served, backend, occupied>>
     ELSE served' = c /\ backend' = TRUE /\ occupied' = TRUE /\ UNCHANGED waiters
  /\ UNCHANGED <<late, reset, session, open, worker, chan>> /\ Quiet

Gone(c) ==
  /\ \E i \in 1 .. Len(waiters) : waiters[i] = c /\ waiters' = RemoveAt(waiters, i)
  /\ late' = late \ {c}
Withdraw(c) ==                 \* a waiter closes, or its timer refuses it
  /\ Gone(c)
  /\ UNCHANGED <<served, backend, occupied, reset, session, open, worker, chan>> /\ Quiet
Overdue(c) ==                  \* its time is over before its timer can fire
  /\ In(waiters, c) /\ late' = late \cup {c}
  /\ UNCHANGED <<served, backend, occupied, waiters, reset, session, open, worker, chan>> /\ Quiet

Use ==
  /\ Live /\ backend /\ session' = served
  /\ UNCHANGED <<served, backend, occupied, waiters, late, reset, open, worker, chan>> /\ Quiet

(* The client or the wire server closes: the parent is told, and told      *)
(* again, which changes nothing, by the events that follow it before the   *)
(* reset of the session can end.                                           *)
Leave ==
  /\ Live /\ worker = "up" /\ backend /\ Len(chan) < MaxMessages
  /\ backend' = FALSE /\ chan' = Told("resetting")
  /\ UNCHANGED <<served, occupied, waiters, late, reset, session, open, worker>> /\ Quiet
BackendClosed ==
  /\ Live /\ worker = "up" /\ served # Nobody /\ ~backend
  /\ served' = Nobody /\ reset' = "wire" /\ chan' = Told("resetting")
  /\ UNCHANGED <<backend, occupied, waiters, late, session, open, worker>> /\ Quiet

(* The wire server is stopped, the session rolled back and discarded, and  *)
(* unless the worker halts a new wire server started.                      *)
ResetStepKept ==               \* mutant of ResetStep: nothing is discarded
  /\ Live /\ reset \in {"wire", "discard"} /\ UNCHANGED session
  /\ reset' = IF reset = "wire" THEN "discard" ELSE "last"
  /\ UNCHANGED <<served, backend, occupied, waiters, late, open, worker, chan>> /\ Quiet
ResetStep ==
  /\ Live /\ reset \in {"wire", "discard"}
  /\ \/ reset = "wire" /\ reset' = "discard" /\ UNCHANGED session
     \/ reset = "discard" /\ reset' = "last" /\ session' = Nobody
  /\ UNCHANGED <<served, backend, occupied, waiters, late, open, worker, chan>> /\ Quiet

Admissible(i) == \A j \in 1 .. i : (waiters[j] \in late) = (j < i)
ResetDone ==
  /\ Live /\ reset = "last" /\ reset' = "none" /\ chan' = Append(chan, "reset")
  /\ IF worker # "up" THEN occupied' = FALSE /\ UNCHANGED <<waiters, served, backend>>
     ELSE IF \E i \in 1 .. Len(waiters) : Admissible(i)
       THEN LET i == CHOOSE i \in 1 .. Len(waiters) : Admissible(i)
            IN /\ served' = waiters[i] /\ backend' = TRUE /\ occupied' = TRUE
               /\ waiters' = SubSeq(waiters, i + 1, Len(waiters))
       ELSE /\ occupied' = FALSE /\ UNCHANGED <<served, backend>>
            /\ waiters' = <<>>                     \* the time of all of them is over
  /\ late' = late \cap {waiters'[i] : i \in 1 .. Len(waiters')}
  /\ UNCHANGED <<session, open, worker>> /\ Quiet

ResetFails ==                  \* never hand an unreset session to another client
  /\ Live /\ reset \in {"wire", "discard", "last"} /\ reset' = "failed"
  /\ worker' = "broken" /\ chan' = Append(chan, "error")
  /\ served' = Nobody /\ backend' = FALSE /\ waiters' = <<>> /\ late' = {}
  /\ UNCHANGED <<occupied, session, open>> /\ Quiet
------------------------------------------------------------------------------
Kinds == {"run", "start", "stop", "remove", "clone"}
Runtime ==
  \/ HandleStopped \/ Return \/ TakeLock \/ CopyEnds \/ Spawn \/ StartFailed \/ Closed
  \/ Launched
Next ==
  \/ \E kind \in Kinds : Call(kind)
  \/ Runtime \/ StartTimeout \/ StopTimeout \/ Receive \/ ResetTimeout \/ Crash
  \/ Halt \/ Halted \/ WorkerOpen \/ Listen \/ Breaks
  \/ \E g \in Launch : StopStep(g) \/ Exit(g) \/ Unlock(g) \/ GraceOver(g)
  \/ \E c \in Client : Connect(c) \/ Withdraw(c) \/ Overdue(c)
  \/ Use \/ Leave \/ BackendClosed \/ ResetStep \/ ResetDone \/ ResetFails

Spec == Init /\ [][Next]_vars

(* Messages are delivered, sockets close, timers fire, and what is         *)
(* terminated ends: nothing is assumed of the database.                    *)
FairSpec ==
  /\ Spec /\ WF_vars(Receive) /\ WF_vars(ResetTimeout) /\ WF_vars(BackendClosed)
  /\ \A g \in Launch : WF_vars(Exit(g))
------------------------------------------------------------------------------
(* The state has the shape the code gives it.                              *)
TypeOK ==
  /\ call \in Kinds \cup {"none", "thrown"} /\ known \in BOOLEAN
  /\ at \in {"none", "stopping", "locking", "recovering", "starting", "launched", "closing",
             "copying", "returning"}
  /\ gen \in 0 .. MaxLaunches /\ current \in 0 .. gen /\ lock \in 0 .. Copier
  /\ open \subseteq alive /\ alive \cup running \cup failed \subseteq 1 .. gen
  /\ ended \in [Launch -> {"no", "asking", "ending", "throwing", "done", "failed"}]
  /\ term \in [Launch -> {"none", "pending", "done", "late", "spoilt"}]
  /\ worker \in {"none", "opening", "listening", "up", "halting", "halted", "broken"}
  /\ {session, served} \subseteq Client \cup {Nobody} /\ backend \in BOOLEAN
  /\ occupied \in BOOLEAN /\ resetTimer \in BOOLEAN
  /\ \A i \in 1 .. Len(waiters) : waiters[i] \in Client
  /\ late \subseteq {waiters[i] : i \in 1 .. Len(waiters)}
  /\ reset \in {"none", "wire", "discard", "last", "failed"}
  /\ \A i \in 1 .. Len(chan) : chan[i] \in {"started", "stopped", "error", "resetting", "reset"}

(* One worker at most has the data open, under the lock, and none while    *)
(* the data is copied: not even one that failed, was given up, or does not *)
(* end in time.                                                            *)
OneWriter ==
  /\ \A g \in open : lock = g
  /\ at = "copying" => alive = {}

(* A restart does not trip over its predecessor: when it goes for the data *)
(* lock the old worker has let go of it, unless it did not end in time.    *)
RestartFindsLock ==
  at = "locking" /\ call # "clone" /\ (\A g \in Launch : term[g] # "late") => lock = 0

(* The state a session leaves is never seen by another client.             *)
Lease == INSTANCE BackendLease WITH user <- session
ImplementsLease == Lease!Spec

(* A reset that does not end takes the worker down, so that the service    *)
(* can be started again, instead of refusing everyone for ever.            *)
ResetEnds == reset # "none" ~> reset = "none"
=============================================================================
