------------------------------- MODULE HubLife -------------------------------
(***************************************************************************)
(* The life of hub processes on one home: launched by commands that find    *)
(* none (apps/cli/src/client.ts), holding the home's lock, reaping what an  *)
(* earlier hub left running, recovering, serving on the home's socket and   *)
(* cleaning up (packages/hub/src/server.ts), and the subprocesses a hub     *)
(* runs and keeps a journal of (packages/execution/src/process.ts and       *)
(* process-journal.ts).                                                     *)
(*                                                                         *)
(* A task is a subprocess, the leader of a group, and its pid.  The leader *)
(* may replace its program, and end before the others of its group do.  A  *)
(* pid is not given to another program while its group has members or the  *)
(* hub that runs the task still waits for its output.                      *)
(***************************************************************************)
EXTENDS Naturals, Sequences

CONSTANTS
  Hub,                     \* hub processes, numbered as they are spawned
  Client, Task,
  MaxCrashes               \* BOUND

ASSUME HubLifeAssumption == Hub \subseteq Nat \ {0} /\ 0 \notin Task /\ MaxCrashes \in Nat

VARIABLES
  pc,                      \* pc[h]: how far hub h is
  cleaned,                 \* cleaned[h]: how many of its cleanups are done
  lock, path,              \* the hub that has locked the home; the one hub.sock leads to
  call, child,             \* of a launch: where it is, and the hub it spawned
  task, owner,             \* task[t]: what its hub knows of it; the hub that runs it
  who,                     \* who[t]: what runs under its pid
  journal,                 \* tasks with a file in the home's processes directory
  todo, reaping,           \* of the journal, those still to reap; the one that was told to end
  crashes

hubs == <<pc, cleaned, lock, path>>
launches == <<call, child>>
tasks == <<task, owner, who>>
hubVars == <<hubs, launches, tasks, journal, todo, reaping, crashes>>

Starting == {"reap", "recover", "listen", "public"}
Working == {"recover", "listen", "public", "ready"}
Alive(h) == pc[h] \in Starting \cup {"ready", "closing"}
Own(h) == {t \in Task : owner[t] = h}
Under == {"runs", "termed"}    \* what its hub waits for
(* The program that was recorded, or one it has replaced itself by; then   *)
(* its group without it, nobody, or a stranger.                            *)
Leader == {"task", "replaced"}
Whos == Leader \cup {"orphans", "nobody", "other"}

HubInit ==
  /\ pc = [h \in Hub |-> "off"] /\ cleaned = [h \in Hub |-> 0] /\ lock = 0 /\ path = 0
  /\ call = [c \in Client |-> "none"] /\ child = [c \in Client |-> 0]
  /\ task = [t \in Task |-> "none"] /\ owner = [t \in Task |-> 0] /\ who = [t \in Task |-> "nobody"]
  /\ journal = {} /\ todo = {} /\ reaping = 0 /\ crashes = 0
------------------------------------------------------------------------------
To(h, place) == pc' = [pc EXCEPT ![h] = place]
Serving == path # 0 /\ pc[path] = "ready"
Termed(S) == [t \in Task |-> IF t \in S /\ task[t] = "runs" THEN "termed" ELSE task[t]]
(* A process that ends gives up its lock; its socket's file stays.         *)
Die(h) == To(h, "gone") /\ lock' = IF lock = h THEN 0 ELSE lock

Boot(h) ==                     \* startServer: nothing is touched before the lock is held
  /\ pc[h] = "boot"
  /\ IF lock = 0 THEN To(h, "reap") /\ lock' = h /\ todo' = journal /\ reaping' = 0
     ELSE To(h, "gone") /\ UNCHANGED <<lock, todo, reaping>>
  /\ UNCHANGED <<cleaned, path, launches, tasks, journal, crashes>>

(* reapProcesses: the leader is known by its start and its program's name. *)
(* One that replaced its program is known only if it has the name again;   *)
(* what is not known is left alone, and the file goes all the same.        *)
ReapFirst(h, t) ==
  /\ pc[h] = "reap" /\ reaping = 0 /\ t \in todo
  /\ \/ who[t] \in Leader /\ reaping' = t /\ UNCHANGED <<journal, todo>>
     \/ who[t] # "task" /\ journal' = journal \ {t} /\ todo' = todo \ {t} /\ UNCHANGED reaping
  /\ UNCHANGED <<hubs, launches, tasks, crashes>>
ReapAgain(h, t) ==
  /\ pc[h] = "reap" /\ reaping = t
  /\ \/ who[t] \in Leader /\ who' = [who EXCEPT ![t] = "nobody"]
     \/ who[t] # "task" /\ UNCHANGED who
  /\ journal' = journal \ {t} /\ todo' = todo \ {t} /\ reaping' = 0
  /\ UNCHANGED <<hubs, launches, task, owner, crashes>>
Reaped(h) ==
  /\ pc[h] = "reap" /\ todo = {} /\ To(h, "recover")
  /\ UNCHANGED <<cleaned, lock, path, launches, tasks, journal, todo, reaping, crashes>>

Recovered(h) ==
  /\ pc[h] = "recover" /\ To(h, "listen")
  /\ UNCHANGED <<cleaned, lock, path, launches, tasks, journal, todo, reaping, crashes>>
Listen(h) ==                   \* whatever hub.sock was left is replaced
  /\ pc[h] = "listen" /\ To(h, "public") /\ path' = h
  /\ UNCHANGED <<cleaned, lock, launches, tasks, journal, todo, reaping, crashes>>
Open(h) ==                     \* the public server listens; from here on it is healthy
  /\ pc[h] = "public" /\ To(h, "ready")
  /\ UNCHANGED <<cleaned, lock, path, launches, tasks, journal, todo, reaping, crashes>>
StartFails(h) ==               \* at any step: close does what there is to clean up
  /\ pc[h] \in Starting /\ To(h, "closing") /\ task' = Termed(Own(h))
  /\ UNCHANGED <<cleaned, lock, path, launches, owner, who, journal, todo, reaping, crashes>>
Stop(h) ==                     \* a stop request, or a signal
  /\ pc[h] = "ready" /\ To(h, "closing") /\ task' = Termed(Own(h))
  /\ UNCHANGED <<cleaned, lock, path, launches, owner, who, journal, todo, reaping, crashes>>

(* The cleanups of close, one after another; the process ends after them.  *)
CleanupsUnlockFirst == <<"tasks", "lock", "socket">>   \* mutant of Cleanups
Cleanups == <<"tasks", "socket", "lock">>
Clean(h) ==
  /\ pc[h] = "closing" /\ cleaned[h] < Len(Cleanups)
  /\ cleaned' = [cleaned EXCEPT ![h] = @ + 1]
  /\ LET does == Cleanups[cleaned[h] + 1]
     IN /\ does = "tasks" => \A t \in Own(h) : task[t] \notin Under
        /\ path' = IF does = "socket" THEN 0 ELSE path
        /\ lock' = IF does = "lock" THEN 0 ELSE lock
  /\ UNCHANGED <<pc, launches, tasks, journal, todo, reaping, crashes>>
Ended(h) ==
  /\ pc[h] = "closing" /\ cleaned[h] = Len(Cleanups) /\ To(h, "gone")
  /\ UNCHANGED <<cleaned, lock, path, launches, tasks, journal, todo, reaping, crashes>>

Crash(h) ==                    \* perhaps right after it spawned something
  /\ (Alive(h) \/ pc[h] = "boot") /\ crashes < MaxCrashes /\ crashes' = crashes + 1 /\ Die(h)
  /\ \/ UNCHANGED tasks
     \/ \E t \in Task :
          /\ pc[h] \in Working /\ task[t] = "none" /\ who' = [who EXCEPT ![t] = "task"]
          /\ task' = [task EXCEPT ![t] = "lost"] /\ owner' = [owner EXCEPT ![t] = h]
  /\ UNCHANGED <<cleaned, path, launches, journal, todo, reaping>>
------------------------------------------------------------------------------
(* run: spawned and journaled before anything else happens in the hub.     *)
Spawn(h, t) ==
  /\ pc[h] \in Working /\ task[t] = "none"
  /\ task' = [task EXCEPT ![t] = "runs"] /\ owner' = [owner EXCEPT ![t] = h]
  /\ \/ who' = [who EXCEPT ![t] = "task"] /\ journal' = journal \cup {t}
     \/ UNCHANGED <<who, journal>>               \* it has ended already
  /\ UNCHANGED <<hubs, launches, todo, reaping, crashes>>
Abort(t) ==                    \* cancelled, timed out, too much output
  /\ task[t] = "runs" /\ Alive(owner[t]) /\ task' = Termed({t})
  /\ UNCHANGED <<hubs, launches, owner, who, journal, todo, reaping, crashes>>
ForceKill(t) ==                \* four seconds after that, five after the leader's end
  /\ task[t] \in Under /\ Alive(owner[t])
  /\ who[t] = "orphans" \/ (task[t] = "termed" /\ who[t] \in Leader)
  /\ who' = [who EXCEPT ![t] = "nobody"]
  /\ UNCHANGED <<hubs, launches, task, owner, journal, todo, reaping, crashes>>
Replaces(t) ==                 \* exec
  /\ who[t] = "task" /\ who' = [who EXCEPT ![t] = "replaced"]
  /\ UNCHANGED <<hubs, launches, task, owner, journal, todo, reaping, crashes>>
Exits(t) ==                    \* the leader, perhaps alone, or the last of the others
  /\ \/ who[t] \in Leader /\ \E left \in {"nobody", "orphans"} : who' = [who EXCEPT ![t] = left]
     \/ who[t] = "orphans" /\ who' = [who EXCEPT ![t] = "nobody"]
  /\ UNCHANGED <<hubs, launches, task, owner, journal, todo, reaping, crashes>>
FinishOnAbort(t) ==            \* mutant of Finish: the file goes when the task is told to end
  /\ task[t] \in Under /\ Alive(owner[t]) /\ (task[t] = "termed" \/ who[t] \notin Leader)
  /\ journal' = journal \ {t}
  /\ task' = [task EXCEPT ![t] = IF who[t] \in Leader THEN @ ELSE "done"]
  /\ UNCHANGED <<hubs, launches, owner, who, todo, reaping, crashes>>
(* Its output is closed, and its file removed.  Others of its group that   *)
(* do not hold the output go on, unless it had been told to end.           *)
Finish(t) ==
  /\ task[t] \in Under /\ Alive(owner[t]) /\ who[t] \notin Leader
  /\ journal' = journal \ {t} /\ task' = [task EXCEPT ![t] = "done"]
  /\ who' = [who EXCEPT ![t] = IF task[t] = "termed" /\ @ = "orphans" THEN "nobody" ELSE @]
  /\ UNCHANGED <<hubs, launches, owner, todo, reaping, crashes>>
Reuse(t) ==                    \* another program is given its pid
  /\ who[t] = "nobody" /\ task[t] # "none" /\ (task[t] = "done" \/ ~Alive(owner[t]))
  /\ who' = [who EXCEPT ![t] = "other"]
  /\ UNCHANGED <<hubs, launches, task, owner, journal, todo, reaping, crashes>>
------------------------------------------------------------------------------
(* launch.                                                                 *)
Launch(c) ==
  /\ call[c] # "waits"
  /\ \/ Serving /\ call' = [call EXCEPT ![c] = "returned"] /\ UNCHANGED <<pc, child>>
     \/ \E h \in Hub :
          /\ ~Serving /\ pc[h] = "off" /\ \A g \in Hub : g < h => pc[g] # "off"
          /\ To(h, "boot") /\ child' = [child EXCEPT ![c] = h]
          /\ call' = [call EXCEPT ![c] = "waits"]
  /\ UNCHANGED <<cleaned, lock, path, tasks, journal, todo, reaping, crashes>>
Poll(c) ==                     \* it is asked for its health first
  /\ call[c] = "waits"
  /\ \/ Serving /\ call' = [call EXCEPT ![c] = "returned"]
     \/ ~Serving /\ pc[child[c]] = "gone" /\ call' = [call EXCEPT ![c] = "failed"]
  /\ UNCHANGED <<hubs, child, tasks, journal, todo, reaping, crashes>>

(* SIGTERM to the hub it spawned: one that starts is interrupted, which    *)
(* aborts its tasks and ends it at once; one that serves closes.           *)
Kill(h) ==
  \/ pc[h] = "boot" /\ Die(h) /\ UNCHANGED task
  \/ pc[h] \in Starting /\ Die(h) /\ task' = Termed(Own(h))
  \/ pc[h] = "ready" /\ To(h, "closing") /\ task' = Termed(Own(h)) /\ UNCHANGED lock
  \/ pc[h] \in {"closing", "gone"} /\ UNCHANGED <<pc, lock, task>>
GiveUpAlone(c) ==              \* mutant of GiveUp: the hub is left to itself
  /\ call[c] = "waits" /\ call' = [call EXCEPT ![c] = "failed"]
  /\ UNCHANGED <<hubs, child, tasks, journal, todo, reaping, crashes>>
GiveUp(c) ==                   \* out of time, cancelled, or the hub found routes otherwise
  /\ call[c] = "waits" /\ call' = [call EXCEPT ![c] = "failed"] /\ Kill(child[c])
  /\ UNCHANGED <<cleaned, path, child, owner, who, journal, todo, reaping, crashes>>

HubStep(h) ==
  \/ Boot(h) \/ Reaped(h) \/ Recovered(h) \/ Listen(h) \/ Open(h) \/ Clean(h) \/ Ended(h)
  \/ \E t \in Task : ReapFirst(h, t) \/ ReapAgain(h, t)
HubNext ==
  \/ \E h \in Hub : HubStep(h) \/ StartFails(h) \/ Stop(h) \/ Crash(h) \/ \E t \in Task : Spawn(h, t)
  \/ \E t \in Task : Abort(t) \/ ForceKill(t) \/ Replaces(t) \/ Exits(t) \/ Finish(t) \/ Reuse(t)
  \/ \E c \in Client : Launch(c) \/ Poll(c) \/ GiveUp(c)

HubSpec == HubInit /\ [][HubNext]_hubVars
(* Timers fire, and a hub goes on with what it has begun.                  *)
FairSpec ==
  /\ HubSpec
  /\ \A h \in Hub : WF_hubVars(HubStep(h))
  /\ \A t \in Task : WF_hubVars(ForceKill(t)) /\ WF_hubVars(Finish(t))
------------------------------------------------------------------------------
(* The state has the shape the code gives it.                              *)
HubTypeOK ==
  /\ pc \in [Hub -> Starting \cup {"off", "boot", "ready", "closing", "gone"}]
  /\ cleaned \in [Hub -> 0 .. Len(Cleanups)] /\ {lock, path} \subseteq Hub \cup {0}
  /\ call \in [Client -> {"none", "waits", "returned", "failed"}]
  /\ child \in [Client -> Hub \cup {0}] /\ owner \in [Task -> Hub \cup {0}]
  /\ task \in [Task -> Under \cup {"none", "done", "lost"}]
  /\ who \in [Task -> Whos]
  /\ journal \subseteq Task /\ todo \subseteq Task /\ reaping \in Task \cup {0}
  /\ crashes \in 0 .. MaxCrashes

(* As long as a hub is ready, the home's socket leads to it: no hub that   *)
(* closes, or fails to start, takes away another's.                        *)
SocketServes == \A h \in Hub : pc[h] = "ready" => path = h

(* Once a hub recovers, nothing that an earlier one recorded still runs as *)
(* it was recorded, however that one ended and however often reaping was   *)
(* cut short.  What has replaced its program, or has outlived the leader   *)
(* of its group, is not recognised, and goes on.                           *)
NothingLeft ==
  \A h \in Hub : pc[h] \in Working =>
    \A t \in Task : who[t] = "task" => owner[t] = h \/ task[t] = "lost"

(* A launch that fails leaves no hub behind, even one that got ready while *)
(* it was given up.                                                        *)
FailedLaunchEnds ==
  \A h \in Hub : (\E c \in Client : call[c] = "failed" /\ child[c] = h) ~> pc[h] = "gone"
=============================================================================
