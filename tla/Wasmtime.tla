------------------------------ MODULE Wasmtime ------------------------------
(***************************************************************************)
(* One service of the Wasmtime runtime                                     *)
(* (packages/environments/src/wasmtime.ts): its record and snapshots on    *)
(* disk, its process, which outlives the hub, and the watcher that rebuilds*)
(* and restarts it when its source changes.                                *)
(*                                                                         *)
(* The manager makes one call at a time; inspections and the watcher run   *)
(* beside it.  Both spawn, so there are two threads.  A read of the record *)
(* is a step of its own wherever another actor may write it before what    *)
(* was read is used: in watchService, whose epochs are there for that, and *)
(* where a spawn that failed puts the record back, where nothing is.       *)
(***************************************************************************)
EXTENDS Naturals, FiniteSets

CONSTANTS
  Component,   \* what builds can produce
  MaxPids,     \* BOUND on processes
  MaxCrashes,  \* BOUND on deaths of the hub
  MaxCorrupt   \* BOUND on records spoilt from outside

ASSUME WasmtimeAssumption ==
  /\ "none" \notin Component /\ {MaxPids, MaxCrashes, MaxCorrupt} \subseteq Nat

VARIABLES
  record, corrupt, owner,  \* the record, whether it is readable, and the owner file
  files,                   \* the snapshots there are
  alive, born,             \* the live processes, and how many there have been
  call, at, image,         \* the manager's call, its step, and what it is to run
  stopping,
  watcher,                 \* "none", "on", or "closed" while its rebuild goes on
  pending, build, before,  \* another change came; the rebuild's step, what it replaces
  thread,                  \* thread[t]: a spawn of the call or of the rebuild
  look,                    \* an inspection's watchService: the epoch it saw, what it read
  leaked,                  \* history: the processes no record names any more
  lapsed,                  \* history: the pids whose records may have lost their snapshot
  crashes, corrupts

disk == <<record, corrupt, owner, files>>
caller == <<call, at, image, stopping>>
watching == <<watcher, pending, build, before, look>>
counts == <<leaked, lapsed, crashes, corrupts>>
vars == <<disk, alive, born, caller, watching, thread, counts>>

Pid == 1 .. MaxPids
Thread == {"call", "build"}
NoRecord == [pid |-> 0, component |-> "none", previous |-> "none", desired |-> "stopped"]
NoSpawn == [at |-> "none", component |-> "none", previous |-> NoRecord, pid |-> 0]
Aborted == watcher # "on"                    \* the watcher's controller
Save(r) == record' = r /\ owner' = r.pid /\ corrupt' = FALSE

Init ==
  /\ record = NoRecord /\ corrupt = FALSE /\ owner = 0 /\ files = {}
  /\ alive = {} /\ born = 0
  /\ call = "none" /\ at = "none" /\ image = "none" /\ stopping = FALSE
  /\ watcher = "none" /\ pending = FALSE /\ build = "none" /\ before = "none" /\ look = "none"
  /\ thread = [t \in Thread |-> NoSpawn]
  /\ leaked = {} /\ lapsed = {} /\ crashes = 0 /\ corrupts = 0
------------------------------------------------------------------------------
(* spawn, of the call or of the rebuild.  It fails before anything is      *)
(* started, or what it started is killed and the record put back.          *)
Step(t, place) == thread' = [thread EXCEPT ![t].at = place]
Enter(c) == [at |-> "preflight", component |-> c, previous |-> NoRecord, pid |-> 0]

(* A start, and a rebuild that goes back, run the snapshot that is there.  *)
Sourced(t) ==
  \/ IF t = "call" THEN call = "run" ELSE build = "spawn"
  \/ thread[t].component \in files
Preflight(t) ==
  /\ thread[t].at = "preflight"
  /\ \/ /\ ~(t = "build" /\ Aborted) /\ ~corrupt /\ Sourced(t)
        /\ files' = files \cup {thread[t].component}
        /\ thread' = [thread EXCEPT ![t].at = "port", ![t].previous = record]
     \/ Step(t, "failed") /\ UNCHANGED files
  /\ UNCHANGED <<record, corrupt, owner, alive, born, caller, watching, counts>>

(* A process that answers on the port is in the way; one that does not     *)
(* answer yet, or that serves no port, is not seen.                        *)
Spawn(t) ==
  /\ thread[t].at = "port"
  /\ \/ /\ born < MaxPids
        /\ born' = born + 1 /\ alive' = alive \cup {born + 1}
        /\ thread' = [thread EXCEPT ![t].at = "spawned", ![t].pid = born + 1]
     \/ alive # {} /\ Step(t, "failed") /\ UNCHANGED <<alive, born>>
Spawns(t) == Spawn(t) /\ UNCHANGED <<disk, caller, watching, counts>>

Record(t) ==
  LET s == thread[t]
  IN [pid |-> s.pid, component |-> s.component, desired |-> "running",
      previous |-> IF s.previous.component = s.component THEN s.previous.previous
                   ELSE s.previous.component]
SavedPruned(t) ==              \* mutant of Saved: the other snapshots go at once
  /\ thread[t].at = "spawned"
  /\ IF thread[t].pid \in alive THEN Save(Record(t)) /\ Step(t, "wait") /\ files' = {thread[t].component}
     ELSE UNCHANGED <<record, owner, corrupt, files>> /\ Step(t, "failed")
  /\ UNCHANGED <<alive, born, caller, watching, counts>>
Saved(t) ==
  /\ thread[t].at = "spawned"
  /\ IF thread[t].pid \in alive THEN Save(Record(t)) /\ Step(t, "wait")
     ELSE UNCHANGED <<record, owner, corrupt>> /\ Step(t, "failed")
  /\ UNCHANGED <<files, alive, born, caller, watching, counts>>

(* Ready: older snapshots go, but for the one before.  Or it died, was     *)
(* aborted, or took too long.                                              *)
Kept(t) == {thread[t].component, Record(t).previous}
Ready(t) ==
  /\ thread[t].at = "wait"
  /\ \/ /\ thread[t].pid \in alive /\ ~(t = "build" /\ Aborted)
        /\ files' = files \cap Kept(t) /\ Step(t, "done") /\ UNCHANGED alive
     \/ /\ alive' = alive \ {thread[t].pid} /\ Step(t, "undo") /\ UNCHANGED files
  /\ UNCHANGED <<record, corrupt, owner, born, caller, watching, counts>>
(* The record is put back if it is still this spawn's when it is read.     *)
Reread(t) ==
  /\ thread[t].at = "undo"
  /\ Step(t, IF ~corrupt /\ record.pid = thread[t].pid THEN "putback" ELSE "failed")
  /\ UNCHANGED <<disk, alive, born, caller, watching, counts>>
(* Whatever the other spawn recorded since is overwritten and forgotten.   *)
PutBack(t) ==
  IF thread[t].previous # NoRecord THEN thread[t].previous
  ELSE [Record(t) EXCEPT !.desired = "stopped"]
Restore(t) ==
  /\ thread[t].at = "putback" /\ Step(t, "failed") /\ Save(PutBack(t))
  /\ IF record.pid = thread[t].pid THEN UNCHANGED <<leaked, lapsed>>
     ELSE /\ leaked' = leaked \cup (alive \cap {record.pid})
          /\ lapsed' = lapsed \cup {PutBack(t).pid}
  /\ UNCHANGED <<files, alive, born, caller, watching, crashes, corrupts>>

Spawning(t) ==
  Preflight(t) \/ Spawns(t) \/ Saved(t) \/ Ready(t) \/ Reread(t) \/ Restore(t)
------------------------------------------------------------------------------
(* The manager's calls.  Each begins with a stop, which closes the watcher *)
(* and waits for its rebuild.                                              *)
Closed == IF build # "none" THEN "closed" ELSE "none"
Call(kind) ==
  /\ call = "none" /\ call' = kind
  /\ \/ kind = "start" /\ record # NoRecord /\ ~corrupt /\ image' = record.component
     \/ kind = "run" /\ image' \in Component
     \/ kind \in {"stop", "remove"} /\ image' = "none"
  /\ stopping' = TRUE /\ at' = "closing"
  /\ look' = IF look = "none" THEN look ELSE "stale"        \* watcherEpochs
  /\ watcher' = Closed
  /\ UNCHANGED <<disk, alive, born, pending, build, before, thread, counts>>

StopReadEarly ==               \* mutant of StopRead: the rebuild is not waited for
  /\ at = "closing"
  /\ IF corrupt \/ record = NoRecord
       THEN at' = "broken" /\ UNCHANGED <<record, owner, corrupt>>
       ELSE at' = "kill" /\ Save([record EXCEPT !.desired = "stopped"])
  /\ UNCHANGED <<files, alive, born, call, image, stopping, watching, thread, counts>>
StopRead ==
  /\ at = "closing" /\ build = "none"
  /\ IF corrupt \/ record = NoRecord
       THEN at' = "broken" /\ UNCHANGED <<record, owner, corrupt>>
       ELSE at' = "kill" /\ Save([record EXCEPT !.desired = "stopped"])
  /\ UNCHANGED <<files, alive, born, call, image, stopping, watching, thread, counts>>

Stopped == stopping' = FALSE /\ at' = IF call = "stop" THEN "return"
                                      ELSE IF call = "remove" THEN "remove" ELSE "spawn"
StopKill ==
  /\ at = "kill" /\ alive' = alive \ {record.pid} /\ Stopped
  /\ UNCHANGED <<disk, born, call, image, watching, thread, counts>>
Broken ==                      \* whoever the owner file names is ended
  /\ at = "broken" /\ alive' = alive \ {owner} /\ Stopped
  /\ record' = NoRecord /\ owner' = 0 /\ corrupt' = FALSE
  /\ UNCHANGED <<files, born, call, image, watching, thread, counts>>

(* The files are unlinked side by side, and the hub can die in between.    *)
Remove ==
  /\ at = "remove"
  /\ \/ record # NoRecord /\ record' = NoRecord /\ corrupt' = FALSE /\ UNCHANGED <<owner, files, lapsed>>
     \/ owner # 0 /\ owner' = 0 /\ UNCHANGED <<record, corrupt, files, lapsed>>
     \/ /\ \E c \in files : files' = files \ {c}
        /\ lapsed' = lapsed \cup {record.pid} /\ UNCHANGED <<record, corrupt, owner>>
  /\ UNCHANGED <<alive, born, caller, watching, thread, leaked, crashes, corrupts>>
Removed ==
  /\ at = "remove" /\ record = NoRecord /\ owner = 0 /\ files = {} /\ at' = "return"
  /\ UNCHANGED <<disk, alive, born, call, image, stopping, watching, thread, counts>>

CallSpawn ==
  /\ at = "spawn" /\ thread["call"].at = "none"
  /\ thread' = [thread EXCEPT !["call"] = Enter(image)]
  /\ UNCHANGED <<disk, alive, born, caller, watching, counts>>
CallSpawned ==                 \* then it looks whether to watch, as an inspection does
  /\ at = "spawn" /\ thread["call"].at \in {"done", "failed"} /\ at' = "return"
  /\ thread' = [thread EXCEPT !["call"] = NoSpawn]
  /\ IF thread["call"].at = "done" /\ look = "none" /\ watcher = "none"
       THEN look' = "looking" ELSE UNCHANGED look
  /\ UNCHANGED <<disk, alive, born, call, image, stopping, watcher, pending, build, before, counts>>
Return ==
  /\ at = "return" /\ at' = "none" /\ call' = "none" /\ image' = "none"
  /\ UNCHANGED <<disk, alive, born, stopping, watching, thread, counts>>
------------------------------------------------------------------------------
(* watchService, of an inspection: what it read is used only if no stop    *)
(* came in between.                                                        *)
Inspect ==
  /\ look = "none" /\ watcher = "none" /\ ~stopping /\ ~corrupt /\ record.pid \in alive
  /\ look' = "looking"
  /\ UNCHANGED <<disk, alive, born, caller, watcher, pending, build, before, thread, counts>>
Looked ==
  /\ look = "looking"
  /\ look' = IF ~corrupt /\ record.desired = "running" THEN "read" ELSE "none"
  /\ UNCHANGED <<disk, alive, born, caller, watcher, pending, build, before, thread, counts>>
Watch ==
  /\ look \in {"read", "stale"} /\ look' = "none"
  /\ watcher' = IF look = "read" /\ watcher = "none" /\ ~stopping THEN "on" ELSE watcher
  /\ UNCHANGED <<disk, alive, born, caller, pending, build, before, thread, counts>>

(* A change starts a rebuild, or has the one under way begin again.        *)
Change ==
  /\ watcher = "on"
  /\ pending' = (build # "none") /\ build' = IF build = "none" THEN "valid" ELSE build
  /\ UNCHANGED <<disk, alive, born, caller, watcher, before, look, thread, counts>>
SourceGone ==
  /\ watcher = "on" /\ watcher' = Closed
  /\ UNCHANGED <<disk, alive, born, caller, pending, build, before, look, thread, counts>>

Build(place) == build' = place /\ UNCHANGED <<watcher, pending>>
Over ==                        \* the loop goes round, or the rebuild is over
  IF pending /\ ~Aborted THEN pending' = FALSE /\ build' = "valid" /\ UNCHANGED watcher
  ELSE build' = "none" /\ pending' = FALSE /\ watcher' = IF Aborted THEN "none" ELSE watcher
Valid ==
  /\ build \in {"valid", "revalid"}
  /\ IF Aborted \/ corrupt THEN Over
     ELSE IF record.desired # "running" THEN build' = "none" /\ pending' = FALSE /\ watcher' = "none"
     ELSE Build(IF build = "valid" THEN "make" ELSE "read")
  /\ UNCHANGED <<disk, alive, born, caller, before, look, thread, counts>>
Make ==                        \* the project's build command; it may fail
  /\ build = "make" /\ (Build("revalid") \/ Over)
  /\ UNCHANGED <<disk, alive, born, caller, before, look, thread, counts>>
ReplaceBeside ==               \* mutant of Replace: the old process is not ended
  /\ build = "read"
  /\ IF corrupt \/ record = NoRecord THEN Over /\ UNCHANGED <<thread, before>>
     ELSE /\ before' = record.component /\ Build("spawn")
          /\ \E c \in Component : thread' = [thread EXCEPT !["build"] = Enter(c)]
  /\ UNCHANGED <<disk, alive, born, caller, look, counts>>
Replace ==                     \* the process is ended, and the new build spawned
  /\ build = "read"
  /\ IF corrupt \/ record = NoRecord THEN Over /\ UNCHANGED <<thread, alive, before>>
     ELSE /\ alive' = alive \ {record.pid} /\ before' = record.component /\ Build("spawn")
          /\ \E c \in Component : thread' = [thread EXCEPT !["build"] = Enter(c)]
  /\ UNCHANGED <<disk, born, caller, look, counts>>
(* If that failed the one before is spawned again.                         *)
Replaced ==
  /\ build \in {"spawn", "again"} /\ thread["build"].at \in {"done", "failed"}
  /\ IF build = "again" \/ thread["build"].at = "done" \/ Aborted
       THEN Over /\ thread' = [thread EXCEPT !["build"] = NoSpawn]
       ELSE /\ Build("again")
            /\ thread' = [thread EXCEPT !["build"] = Enter(before)]
  /\ before' = IF build' = "again" THEN before ELSE "none"
  /\ UNCHANGED <<disk, alive, born, caller, look, counts>>
------------------------------------------------------------------------------
Exit(p) ==                     \* a process ends by itself
  /\ p \in alive /\ alive' = alive \ {p}
  /\ UNCHANGED <<disk, born, caller, watching, thread, counts>>
Corrupt ==
  /\ corrupts < MaxCorrupt /\ record # NoRecord /\ ~corrupt
  /\ corrupt' = TRUE /\ corrupts' = corrupts + 1
  /\ UNCHANGED <<record, owner, files, alive, born, caller, watching, thread, leaked, lapsed, crashes>>
(* The hub dies: what it had started but not recorded nobody knows.        *)
Crash ==
  /\ crashes < MaxCrashes /\ crashes' = crashes + 1
  /\ leaked' = leaked \cup (alive \ {record.pid})
  /\ call' = "none" /\ at' = "none" /\ image' = "none" /\ stopping' = FALSE
  /\ watcher' = "none" /\ pending' = FALSE /\ build' = "none" /\ before' = "none" /\ look' = "none"
  /\ thread' = [t \in Thread |-> NoSpawn]
  /\ UNCHANGED <<disk, alive, born, lapsed, corrupts>>

Caller ==
  \/ StopRead \/ StopKill \/ Broken \/ Remove \/ Removed \/ CallSpawn \/ CallSpawned \/ Return
Watcher ==
  \/ Inspect \/ Looked \/ Watch \/ Change \/ SourceGone
  \/ Valid \/ Make \/ Replace \/ Replaced
Kinds == {"run", "start", "stop", "remove"}
Next ==
  \/ \E kind \in Kinds : Call(kind)
  \/ Caller \/ Watcher \/ Corrupt \/ Crash
  \/ \E t \in Thread : Spawning(t)
  \/ \E p \in Pid : Exit(p)

Spec == Init /\ [][Next]_vars
------------------------------------------------------------------------------
Places == {"none", "preflight", "port", "spawned", "wait", "undo", "putback", "done", "failed"}
Records == [pid : 0 .. born, component : Component \cup {"none"},
            previous : Component \cup {"none"}, desired : {"running", "stopped"}]
Threads ==
  [at : Places, component : Component \cup {"none"}, previous : Records, pid : 0 .. born]

(* The state has the shape the code gives it.                              *)
TypeOK ==
  /\ record \in Records /\ corrupt \in BOOLEAN /\ owner \in 0 .. born /\ files \subseteq Component
  /\ born \in 0 .. MaxPids /\ alive \cup leaked \subseteq 1 .. born /\ lapsed \subseteq 0 .. born
  /\ call \in Kinds \cup {"none"} /\ image \in Component \cup {"none"}
  /\ at \in {"none", "closing", "kill", "broken", "spawn", "remove", "return"}
  /\ stopping \in BOOLEAN /\ pending \in BOOLEAN
  /\ before \in Component \cup {"none"}
  /\ watcher \in {"none", "on", "closed"} /\ (watcher = "closed" => build # "none")
  /\ build \in {"none", "valid", "make", "revalid", "read", "spawn", "again"}
  /\ look \in {"none", "looking", "read", "stale"}
  /\ thread \in [Thread -> Threads]
  /\ crashes \in Nat /\ corrupts \in Nat

(* The service never runs twice, however calls, inspections and rebuilds   *)
(* meet, but for a process that was never recorded because its hub died,   *)
(* or whose record a failed spawn wrote over.                              *)
OneProcess == Cardinality(alive \ leaked) <= 1

(* When a stop or a removal returns nothing runs but those, and at rest    *)
(* only they and what the record names: no rebuild starts it again behind  *)
(* a stop.                                                                 *)
StoppedIsDead ==
  /\ at = "return" /\ call \in {"stop", "remove"} => alive \subseteq leaked
  /\ call = "none" /\ build = "none" /\ ~corrupt => alive \subseteq leaked \cup {record.pid}

(* The snapshot of the recorded component is there to be started from,     *)
(* unless the record was put back over another's or its removal had begun. *)
SnapshotKept ==
  record # NoRecord => record.component \in files \/ record.pid \in lapsed
=============================================================================
