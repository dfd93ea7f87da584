--------------------------- MODULE WasmtimeProofs ---------------------------
(***************************************************************************)
(* Proofs about one service of the Wasmtime runtime: it never runs twice,  *)
(* what a stop ended stays dead, and the snapshot to start from is there.  *)
(***************************************************************************)
EXTENDS Wasmtime, FiniteSetTheorems, TLAPS

(* What is alive and is not a leftover of a hub that died, or of a spawn   *)
(* whose record another put its own back over.                             *)
Live == alive \ leaked

(* The two halves of TypeOK: the flags, and everything else.               *)
Flags == corrupt \in BOOLEAN /\ stopping \in BOOLEAN /\ pending \in BOOLEAN
Shape ==
  /\ record \in Records /\ owner \in 0 .. born /\ files \subseteq Component
  /\ born \in 0 .. MaxPids /\ alive \subseteq 1 .. born /\ leaked \subseteq 1 .. born
  /\ lapsed \subseteq 0 .. born
  /\ call \in Kinds \cup {"none"} /\ image \in Component \cup {"none"}
  /\ at \in {"none", "closing", "kill", "broken", "spawn", "remove", "return"}
  /\ before \in Component \cup {"none"}
  /\ watcher \in {"none", "on", "closed"} /\ (watcher = "closed" => build # "none")
  /\ build \in {"none", "valid", "make", "revalid", "read", "spawn", "again"}
  /\ look \in {"none", "looking", "read", "stale"}
  /\ thread \in [Thread -> Threads]
  /\ crashes \in Nat /\ corrupts \in Nat

C == thread["call"]
B == thread["build"]

(* The call has ended what ran, and has not yet recorded a new process.    *)
Dead == \/ at = "remove" \/ (at = "return" /\ call \in {"stop", "remove"})
        \/ (at = "spawn" /\ C.at \in {"none", "preflight", "port"})
Quiet == at \in {"kill", "broken"} \/ Dead \/ C.at = "spawned"

(* Who is where: a thread works only for its call or its rebuild, and from *)
(* the moment a stop reads the record until a new process is recorded no   *)
(* rebuild runs and no inspection can start one.                           *)
Control ==
  /\ stopping <=> at \in {"closing", "kill", "broken"}
  /\ call = "none" <=> at = "none"
  /\ at = "remove" => call = "remove"
  /\ at = "spawn" => call \in {"run", "start"}
  /\ call \in {"run", "start"} => image \in Component
  /\ at # "spawn" => C = NoSpawn
  /\ IF build \in {"spawn", "again"} THEN before \in Component /\ B.at # "none" ELSE B = NoSpawn
  /\ \A t \in Thread : thread[t].at # "none" => thread[t].component \in Component
  /\ stopping => watcher # "on"
  /\ stopping \/ Quiet => look \in {"none", "stale"}
  /\ Quiet => build = "none" /\ watcher = "none"

Working == {"port", "spawned", "wait", "undo", "putback"}
Processes ==
  /\ owner # record.pid => record.pid \notin alive
  /\ \A t \in Thread : thread[t].at \in {"spawned", "wait"} => thread[t].pid \in 1 .. born
  /\ C.at \in {"spawned", "wait"} => C.pid \notin leaked
  /\ B.at = "spawned" => B.pid \notin leaked /\ record.pid # B.pid
  /\ C.at \in Working /\ B.at = "spawned" => C.previous.pid # B.pid
  /\ C.pid = B.pid => C.pid = 0
  /\ Dead => Live = {} /\ record.pid \notin alive
  /\ C.at = "spawned" => Live \subseteq {C.pid} /\ record.pid \notin alive
  /\ C.at \in {"undo", "putback"} => C.pid \notin alive
  /\ B.at \in {"preflight", "port", "undo", "putback", "failed"} => Live = {}
  /\ B.at \in {"spawned", "wait", "done"} => Live \subseteq {B.pid}
  /\ C.at # "spawned" /\ B.at # "spawned" => Live \subseteq {record.pid}
  /\ \A t \in Thread : thread[t].at = "wait" /\ thread[t].pid \in alive
       => \/ record.pid = thread[t].pid /\ record.component = thread[t].component
          \/ t = "build" /\ record.pid \in lapsed /\ C.at \notin Working

(* What a spawn may put back is on disk, or was put back over another's,   *)
(* or will not be put back.                                                *)
Named(r) == r # NoRecord => r.component \in Component
Startable(r) == r # NoRecord => r.component \in files \/ r.pid \in lapsed
Safe(t) == thread[t].component \in files /\ Startable(thread[t].previous)
Displaced == record.pid # C.pid /\ (B.at \in Working => B.previous.pid # C.pid)
Snapshots ==
  /\ Startable(record) /\ Named(record)
  /\ \A t \in Thread : thread[t].at \in Working => Named(thread[t].previous)
  /\ B.at \in Working => Safe("build")
  /\ C.at \in {"port", "spawned"} => Safe("call")
  /\ C.at \in {"wait", "undo", "putback"} => Safe("call") \/ Displaced

IInv == TypeOK /\ Control /\ Processes /\ Snapshots
------------------------------------------------------------------------------
(* The records and the states of a spawn the code makes up are of their    *)
(* types, whatever has been started so far.                                *)
LEMMA Shapes ==
  ASSUME born \in Nat
  PROVE  /\ NoRecord \in Records /\ NoSpawn \in Threads
         /\ \A c \in Component : Enter(c) \in Threads
         /\ \A r \in Records : [r EXCEPT !.desired = "stopped"] \in Records
         /\ \A t \in Thread : thread[t] \in Threads
              => Record(t) \in Records /\ Record(t).pid = thread[t].pid
                 /\ Record(t).component = thread[t].component
<1>1. NoRecord \in Records
  BY SMT DEF NoRecord, Records
<1>2. NoSpawn \in Threads
  BY <1>1, SMT DEF NoSpawn, Threads, Places
<1>3. ASSUME NEW c \in Component PROVE Enter(c) \in Threads
  BY <1>1, <1>3, SMT DEF Enter, Threads, Places
<1>4. ASSUME NEW r \in Records PROVE [r EXCEPT !.desired = "stopped"] \in Records
  BY <1>4, SMT DEF Records
<1>5. ASSUME NEW t \in Thread, thread[t] \in Threads
      PROVE  Record(t) \in Records /\ Record(t).pid = thread[t].pid
             /\ Record(t).component = thread[t].component
  <2>1. thread[t].previous \in Records /\ thread[t].component \in Component \cup {"none"} /\ thread[t].pid \in 0 .. born
    BY <1>5, SMT DEF Threads
  <2>2. thread[t].previous.component \in Component \cup {"none"} /\ thread[t].previous.previous \in Component \cup {"none"}
    BY <2>1, SMT DEF Records
  <2> QED
    BY <2>1, <2>2, SMT DEF Record, Records
<1> QED
  BY <1>1, <1>2, <1>3, <1>4, <1>5

(* Initially nothing runs and nothing is on disk.                          *)
LEMMA InitIInv == Init => IInv
<1> SUFFICES ASSUME Init PROVE IInv
  OBVIOUS
<1> USE WasmtimeAssumption DEF Init
<1>0. born \in Nat
  OBVIOUS
<1>s. NoRecord \in Records /\ NoSpawn \in Threads
  BY <1>0, Shapes
<1>t. thread \in [Thread -> Threads]
  BY <1>s
<1>m. MaxPids \in Nat
  OBVIOUS
<1>1. TypeOK
  <2>1. record \in Records /\ owner \in 0 .. born /\ files \subseteq Component
    BY <1>s, SMT
  <2>b. corrupt \in BOOLEAN /\ stopping \in BOOLEAN /\ pending \in BOOLEAN
    BY Zenon
  <2>2. born \in 0 .. MaxPids /\ alive \cup leaked \subseteq 1 .. born
    BY <1>m, SMT
  <2>3. /\ call \in Kinds \cup {"none"} /\ image \in Component \cup {"none"}
        /\ before \in Component \cup {"none"}
    BY SMT
  <2> QED
    BY <1>t, <2>1, <2>2, <2>3, <2>b DEF TypeOK
<1>2. Control
  BY SMT DEF Control, Quiet, Dead, C, B, Thread, NoSpawn, NoRecord
<1>3. Processes
  BY SMT DEF Processes, Live, Dead, C, B, Thread, NoSpawn, NoRecord
<1>4. Snapshots
  BY SMT DEF Snapshots, Startable, Named, C, B, Working, Thread, NoSpawn
<1> QED
  BY <1>1, <1>2, <1>3, <1>4 DEF IInv

(* A record of a spawn with two of its fields replaced.                    *)
LEMMA TwoFields ==
  ASSUME NEW P, NEW K, NEW R, NEW I, NEW x \in P,
         NEW s \in [at : P, component : K, previous : R, pid : I]
  PROVE  /\ \A y \in R : LET r == [s EXCEPT !.at = x, !.previous = y] IN
              /\ r \in [at : P, component : K, previous : R, pid : I]
              /\ r.at = x /\ r.previous = y /\ r.component = s.component /\ r.pid = s.pid
         /\ \A n \in I : LET r == [s EXCEPT !.at = x, !.pid = n] IN
              /\ r \in [at : P, component : K, previous : R, pid : I]
              /\ r.at = x /\ r.pid = n /\ r.component = s.component /\ r.previous = s.previous
<1>1. ASSUME NEW y \in R
      PROVE  LET r == [s EXCEPT !.at = x, !.previous = y] IN
               /\ r \in [at : P, component : K, previous : R, pid : I]
               /\ r.at = x /\ r.previous = y /\ r.component = s.component /\ r.pid = s.pid
  <2> DEFINE q == [s EXCEPT !.at = x]
             r == [q EXCEPT !.previous = y]
  <2>1. [s EXCEPT !.at = x, !.previous = y] = r
    OBVIOUS
  <2>2. q \in [at : P, component : K, previous : R, pid : I] /\ q.at = x /\ q.component = s.component /\ q.pid = s.pid
    BY SMT
  <2> HIDE DEF q
  <2>3. r \in [at : P, component : K, previous : R, pid : I]
    BY <2>2, SMT
  <2>4. r.at = x /\ r.previous = y /\ r.component = s.component /\ r.pid = s.pid
    BY <2>2, SMT
  <2> HIDE DEF r
  <2> QED
    BY <2>1, <2>3, <2>4, Zenon
<1>2. ASSUME NEW n \in I
      PROVE  LET r == [s EXCEPT !.at = x, !.pid = n] IN
               /\ r \in [at : P, component : K, previous : R, pid : I]
               /\ r.at = x /\ r.pid = n /\ r.component = s.component /\ r.previous = s.previous
  <2> DEFINE q == [s EXCEPT !.at = x]
             r == [q EXCEPT !.pid = n]
  <2>1. [s EXCEPT !.at = x, !.pid = n] = r
    OBVIOUS
  <2>2. q \in [at : P, component : K, previous : R, pid : I] /\ q.at = x /\ q.component = s.component /\ q.previous = s.previous
    BY SMT
  <2> HIDE DEF q
  <2>3. r \in [at : P, component : K, previous : R, pid : I]
    BY <2>2, SMT
  <2>4. r.at = x /\ r.pid = n /\ r.component = s.component /\ r.previous = s.previous
    BY <2>2, SMT
  <2> HIDE DEF r
  <2> QED
    BY <2>1, <2>3, <2>4, Zenon
<1> QED
  BY <1>1, <1>2

(* What a step of a spawn changes of it, and of the other's.               *)
LEMMA StepFields ==
  ASSUME thread \in [Thread -> Threads], born \in Nat, NEW t \in Thread, NEW place \in Places,
         Step(t, place)
  PROVE  /\ thread' \in [Thread -> Threads]
         /\ \A u \in Thread : u # t => thread'[u] = thread[u]
         /\ thread'[t] = [thread[t] EXCEPT !.at = place]
         /\ thread'[t].at = place /\ thread'[t].component = thread[t].component
         /\ thread'[t].previous = thread[t].previous /\ thread'[t].pid = thread[t].pid
<1>1. thread[t] \in Threads
  OBVIOUS
<1>2. [thread[t] EXCEPT !.at = place] \in Threads
  BY <1>1, SMT DEF Threads
<1>3. thread' = [thread EXCEPT ![t] = [thread[t] EXCEPT !.at = place]]
  BY SMT DEF Step
<1>4. thread'[t] = [thread[t] EXCEPT !.at = place]
  BY <1>3
<1>5. /\ thread'[t].at = place /\ thread'[t].component = thread[t].component
      /\ thread'[t].previous = thread[t].previous /\ thread'[t].pid = thread[t].pid
  BY <1>1, <1>4, SMT DEF Threads
<1>6. thread' \in [Thread -> Threads] /\ \A u \in Thread : u # t => thread'[u] = thread[u]
  BY <1>2, <1>3
<1> QED
  BY <1>4, <1>5, <1>6

(* TypeOK is its two halves.                                               *)
LEMMA Halves == TypeOK <=> Flags /\ Shape
  BY DEF TypeOK, Flags, Shape

(* Every step keeps the flags truth values.                                *)
LEMMA FlagsStep == Flags /\ [Next]_vars => Flags'
<1> SUFFICES ASSUME Flags, [Next]_vars PROVE Flags'
  OBVIOUS
<1> USE DEF Flags, disk, caller, watching, counts
<1>1. ASSUME NEW kind \in Kinds, Call(kind) PROVE Flags'
  BY <1>1, Zenon DEF Call, Closed
<1>2. CASE StopRead
  BY <1>2, Zenon DEF StopRead, Save
<1>3. CASE StopKill
  BY <1>3, Zenon DEF StopKill, Stopped
<1>4. CASE Broken
  BY <1>4, Zenon DEF Broken, Stopped
<1>5. CASE Remove
  BY <1>5, Zenon DEF Remove
<1>0. CASE Removed
  BY <1>0, Zenon DEF Removed
<1>6. CASE CallSpawn
  BY <1>6, Zenon DEF CallSpawn, Enter
<1>7. CASE CallSpawned
  BY <1>7, Zenon DEF CallSpawned
<1>8. CASE Return
  BY <1>8, Zenon DEF Return
<1>9. CASE Inspect
  BY <1>9, Zenon DEF Inspect
<1>10. CASE Looked
  BY <1>10, Zenon DEF Looked
<1>11. CASE Watch
  BY <1>11, Zenon DEF Watch
<1>12. CASE Change
  BY <1>12, Zenon DEF Change
<1>13. CASE SourceGone
  BY <1>13, Zenon DEF SourceGone, Closed
<1>14. CASE Valid
  BY <1>14, Zenon DEF Valid, Build, Over, Aborted
<1>15. CASE Make
  BY <1>15, Zenon DEF Make, Build, Over, Aborted
<1>16. CASE Replace
  BY <1>16, Zenon DEF Replace, Build, Over, Aborted, Enter
<1>17. CASE Replaced
  BY <1>17, Zenon DEF Replaced, Build, Over, Aborted, Enter
<1>18. CASE Corrupt
  BY <1>18, Zenon DEF Corrupt
<1>19. CASE Crash
  BY <1>19, Zenon DEF Crash
<1>20. ASSUME NEW t \in Thread, Preflight(t) PROVE Flags'
  BY <1>20, Zenon DEF Preflight, Step
<1>21. ASSUME NEW t \in Thread, Spawns(t) PROVE Flags'
  BY <1>21, Zenon DEF Spawns, Spawn, Step
<1>22. ASSUME NEW t \in Thread, Saved(t) PROVE Flags'
  BY <1>22, Zenon DEF Saved, Save, Record, Step
<1>23. ASSUME NEW t \in Thread, Ready(t) PROVE Flags'
  BY <1>23, Zenon DEF Ready, Step, Kept
<1>24. ASSUME NEW t \in Thread, Restore(t) PROVE Flags'
  BY <1>24, Zenon DEF Restore, Save, Record, Step
<1>27. ASSUME NEW t \in Thread, Reread(t) PROVE Flags'
  BY <1>27, Zenon DEF Reread, Step
<1>25. ASSUME NEW p \in Pid, Exit(p) PROVE Flags'
  BY <1>25, Zenon DEF Exit
<1>26. CASE UNCHANGED vars
  BY <1>26 DEF vars
<1> QED
  BY <1>0, <1>1, <1>2, <1>3, <1>4, <1>5, <1>6, <1>7, <1>8, <1>9, <1>10, <1>11, <1>12, <1>13, <1>14,
      <1>15, <1>16, <1>17, <1>18, <1>19, <1>20, <1>21, <1>22, <1>23, <1>24, <1>25, <1>26,
      <1>27 DEF Next, Caller, Watcher, Spawning

(* Every step keeps the rest of the shape.                                 *)
LEMMA ShapeStep == IInv /\ [Next]_vars => Shape'
<1> SUFFICES ASSUME IInv, [Next]_vars PROVE Shape'
  OBVIOUS
<1>i. Shape /\ Control /\ Snapshots
  BY Halves DEF IInv
<1>b. born \in Nat
  BY <1>i, SMT DEF Shape
<1>n. born' = born => Records' = Records /\ Threads' = Threads
  BY SMT DEF Records, Threads
<1>s. NoRecord \in Records /\ NoSpawn \in Threads
  BY <1>b, Shapes
<1>e. \A c \in Component : Enter(c) \in Threads
  BY <1>b, Shapes
<1>p. \A r \in Records : [r EXCEPT !.desired = "stopped"] \in Records
                           /\ r.pid \in 0 .. born /\ [r EXCEPT !.desired = "stopped"].pid = r.pid
  <2>1. \A r \in Records : r.pid \in 0 .. born /\ [r EXCEPT !.desired = "stopped"].pid = r.pid
    BY SMT DEF Records
  <2> QED
    BY <2>1, <1>b, Shapes
<1>c. \A t \in Thread : thread[t] \in Threads /\ Record(t) \in Records /\ Record(t).pid = thread[t].pid
  BY <1>i, <1>b, Shapes DEF Shape
<1> USE <1>i, WasmtimeAssumption DEF Shape, Control, Snapshots, Named, Kinds, C, B, Thread, disk,
    caller, watching, counts
<1>1. ASSUME NEW kind \in Kinds, Call(kind) PROVE Shape'
  BY <1>1, <1>n, <1>s, <1>e, <1>p, <1>c, SMT DEF Call, Closed
<1>2. CASE StopRead
  BY <1>2, <1>n, <1>s, <1>e, <1>p, <1>c, SMT DEF StopRead, Save
<1>3. CASE StopKill
  BY <1>3, <1>n, <1>s, <1>e, <1>p, <1>c, SMT DEF StopKill, Stopped
<1>4. CASE Broken
  BY <1>4, <1>n, <1>s, <1>e, <1>p, <1>c, SMT DEF Broken, Stopped
<1>5. CASE Remove
  <2>1. record.pid \in 0 .. born
    BY <1>i, <1>p DEF Shape
  <2>2. /\ record' \in Records /\ owner' \in 0 .. born /\ files' \subseteq Component
        /\ lapsed' \subseteq 0 .. born
    <3>1. record' \in Records /\ files' \subseteq Component
      BY <1>5, <1>s DEF Remove
    <3>2. owner' \in 0 .. born
      <4>1. owner' = owner \/ owner' = 0
        BY <1>5 DEF Remove
      <4> QED
        BY <4>1, <1>b, <1>i, SMT DEF Shape
    <3>3. lapsed' = lapsed \/ lapsed' = lapsed \cup {record.pid}
      BY <1>5 DEF Remove
    <3> QED
      BY <3>1, <3>2, <3>3, <2>1
  <2> QED
    BY <1>5, <1>n, <2>2 DEF Remove
<1>0. CASE Removed
  BY <1>0, <1>n, <1>s, <1>e, <1>p, <1>c, SMT DEF Removed
<1>6. CASE CallSpawn
  BY <1>6, <1>n, <1>s, <1>e, <1>p, <1>c, SMT DEF CallSpawn
<1>7. CASE CallSpawned
  BY <1>7, <1>n, <1>s, <1>e, <1>p, <1>c, SMT DEF CallSpawned
<1>8. CASE Return
  BY <1>8, <1>n, <1>s, <1>e, <1>p, <1>c, SMT DEF Return
<1>9. CASE Inspect
  BY <1>9, <1>n, <1>s, <1>e, <1>p, <1>c, SMT DEF Inspect
<1>10. CASE Looked
  BY <1>10, <1>n, <1>s, <1>e, <1>p, <1>c, SMT DEF Looked
<1>11. CASE Watch
  BY <1>11, <1>n, <1>s, <1>e, <1>p, <1>c, SMT DEF Watch
<1>12. CASE Change
  BY <1>12, <1>n, <1>s, <1>e, <1>p, <1>c, SMT DEF Change
<1>13. CASE SourceGone
  BY <1>13, <1>n, <1>s, <1>e, <1>p, <1>c, SMT DEF SourceGone, Closed
<1>14. CASE Valid
  BY <1>14, <1>n, <1>s, <1>e, <1>p, <1>c, SMT DEF Valid, Build, Over, Aborted
<1>15. CASE Make
  BY <1>15, <1>n, <1>s, <1>e, <1>p, <1>c, SMT DEF Make, Build, Over, Aborted
<1>16. CASE Replace
  BY <1>16, <1>n, <1>s, <1>e, <1>p, <1>c, SMT DEF Replace, Build, Over, Aborted
<1>17. CASE Replaced
  BY <1>17, <1>n, <1>s, <1>e, <1>p, <1>c, SMT DEF Replaced, Build, Over, Aborted
<1>18. CASE Corrupt
  BY <1>18, <1>n, <1>s, <1>e, <1>p, <1>c, SMT DEF Corrupt
<1>19. CASE Crash
  BY <1>19, <1>n, <1>s, <1>e, <1>p, <1>c, SMT DEF Crash
<1>f. ASSUME NEW t \in Thread, NEW place \in Places, Step(t, place) PROVE thread' \in [Thread -> Threads]
  BY <1>b, <1>f, StepFields
<1>20. ASSUME NEW t \in Thread, Preflight(t) PROVE Shape'
  <2>1. CASE Step(t, "failed") /\ UNCHANGED files
    <3>1. thread' \in [Thread -> Threads]
      BY <2>1, <1>f DEF Places
    <3> QED
      BY <3>1, <2>1, <1>20, <1>n, SMT DEF Preflight
  <2>2. CASE /\ files' = files \cup {thread[t].component}
             /\ thread' = [thread EXCEPT ![t].at = "port", ![t].previous = record]
    <3>1. [thread[t] EXCEPT !.at = "port", !.previous = record] \in Threads
      <4>1. thread[t] \in Threads /\ "port" \in Places /\ record \in Records
        BY <1>c DEF Places
      <4> QED
        BY <4>1, TwoFields DEF Threads
    <3>2. thread' \in [Thread -> Threads]
      BY <3>1, <2>2
    <3> QED
      BY <3>2, <2>2, <1>20, <1>n, <1>c, SMT DEF Preflight
  <2> QED
    BY <1>20, <2>1, <2>2 DEF Preflight
<1>21. ASSUME NEW t \in Thread, Spawns(t) PROVE Shape'
  <2>1. CASE Step(t, "failed") /\ UNCHANGED <<alive, born>>
    <3>1. thread' \in [Thread -> Threads]
      BY <2>1, <1>f DEF Places
    <3> QED
      BY <3>1, <2>1, <1>21, <1>n, SMT DEF Spawns
  <2>2. CASE /\ born < MaxPids
             /\ born' = born + 1 /\ alive' = alive \cup {born + 1}
             /\ thread' = [thread EXCEPT ![t].at = "spawned", ![t].pid = born + 1]
    <3>1. Records \subseteq Records'
      BY <2>2, <1>b, SMT DEF Records
    <3>2. Threads \subseteq Threads'
      BY <2>2, <1>b, <3>1, SMT DEF Threads
    <3>3. [thread[t] EXCEPT !.at = "spawned", !.pid = born + 1] \in Threads'
      <4>1. thread[t] \in Threads' /\ born + 1 \in 0 .. born' /\ "spawned" \in Places
        BY <1>c, <1>b, <2>2, <3>2, SMT DEF Places
      <4> QED
        BY <4>1, TwoFields DEF Threads
    <3>4. thread' \in [Thread -> Threads']
      BY <3>2, <3>3, <2>2
    <3>5. record \in Records' /\ born' \in 0 .. MaxPids /\ alive' \subseteq 1 .. born' /\ leaked \subseteq 1 .. born'
          /\ lapsed \subseteq 0 .. born' /\ owner \in 0 .. born'
      BY <3>1, <2>2, <1>b, SMT
    <3> QED
      BY <3>4, <3>5, <1>21 DEF Spawns
  <2> QED
    BY <1>21, <2>1, <2>2 DEF Spawns, Spawn
<1>22. ASSUME NEW t \in Thread, Saved(t) PROVE Shape'
  <2>1. thread' \in [Thread -> Threads]
    BY <1>22, <1>f DEF Saved, Places
  <2> QED
    BY <2>1, <1>22, <1>n, <1>p, <1>c, SMT DEF Saved, Save
<1>23. ASSUME NEW t \in Thread, Ready(t) PROVE Shape'
  <2>1. thread' \in [Thread -> Threads]
    BY <1>23, <1>f DEF Ready, Places
  <2>2. files' \subseteq Component /\ alive' \subseteq 1 .. born
    BY <1>23 DEF Ready
  <2> QED
    BY <2>1, <2>2, <1>23, <1>n, SMT DEF Ready
<1>24. ASSUME NEW t \in Thread, Restore(t) PROVE Shape'
  <2>1. thread' \in [Thread -> Threads]
    BY <1>24, <1>f DEF Restore, Places
  <2>2. thread[t].previous \in Records
    BY <1>c, SMT DEF Threads
  <2>3. PutBack(t) \in Records /\ PutBack(t).pid \in 0 .. born
    BY <2>2, <1>c, <1>p DEF PutBack
  <2>4. record' \in Records /\ owner' \in 0 .. born
    BY <2>3, <1>24 DEF Restore, Save
  <2>5. leaked' \subseteq 1 .. born /\ lapsed' \subseteq 0 .. born
    BY <2>3, <1>24 DEF Restore
  <2> QED
    BY <2>1, <2>4, <2>5, <1>24, <1>n DEF Restore
<1>27. ASSUME NEW t \in Thread, Reread(t) PROVE Shape'
  <2>1. thread' \in [Thread -> Threads]
    BY <1>27, <1>f DEF Reread, Places
  <2> QED
    BY <2>1, <1>27, <1>n, SMT DEF Reread
<1>25. ASSUME NEW p \in Pid, Exit(p) PROVE Shape'
  BY <1>25, <1>n, <1>s, <1>e, <1>p, <1>c, SMT DEF Exit
<1>26. CASE UNCHANGED vars
  BY <1>26, <1>n DEF vars
<1> QED
  BY <1>0, <1>1, <1>2, <1>3, <1>4, <1>5, <1>6, <1>7, <1>8, <1>9, <1>10, <1>11, <1>12, <1>13, <1>14,
      <1>15, <1>16, <1>17, <1>18, <1>19, <1>20, <1>21, <1>22, <1>23, <1>24, <1>25, <1>26,
      <1>27 DEF Next, Caller, Watcher, Spawning

(* The steps of a spawn, as what they change of its state and of the       *)
(* other's.                                                                *)
Moves(t, from, to) ==
  /\ thread[t].at = from /\ thread'[t].at \in to
  /\ \A u \in Thread : u # t => thread'[u] = thread[u]
  /\ thread'[t].component = thread[t].component
(* What each step of a spawn does to the thread, the processes and the     *)
(* snapshots.                                                              *)
LEMMA Advances ==
  ASSUME thread \in [Thread -> Threads], born \in Nat, record \in Records, NEW t \in Thread
  PROVE  /\ Preflight(t) => /\ Moves(t, "preflight", {"port", "failed"})
                            /\ thread'[t].pid = thread[t].pid
                            /\ thread'[t].at = "port" => thread'[t].previous = record /\ ~corrupt
                                  /\ files' = files \cup {thread[t].component}
                            /\ thread'[t].at = "failed" => files' = files
         /\ Spawns(t) => /\ Moves(t, "port", {"spawned", "failed"})
                         /\ thread'[t].previous = thread[t].previous
                         /\ thread'[t].at = "spawned" => thread'[t].pid = born + 1 /\ born' = born + 1
                               /\ alive' = alive \cup {born + 1}
                         /\ thread'[t].at = "failed" => thread'[t].pid = thread[t].pid
                               /\ UNCHANGED <<alive, born>>
         /\ Saved(t) => /\ Moves(t, "spawned", {"wait", "failed"}) /\ thread'[t].pid = thread[t].pid
                        /\ thread'[t].previous = thread[t].previous
                        /\ IF thread[t].pid \in alive THEN Save(Record(t)) /\ thread'[t].at = "wait"
                           ELSE UNCHANGED <<record, owner, corrupt>> /\ thread'[t].at = "failed"
         /\ Ready(t) => /\ Moves(t, "wait", {"done", "undo"}) /\ thread'[t].pid = thread[t].pid
                        /\ thread'[t].previous = thread[t].previous
                        /\ thread'[t].at = "done" => thread[t].pid \in alive /\ files' = files \cap Kept(t)
                              /\ UNCHANGED alive
                        /\ thread'[t].at = "undo" => alive' = alive \ {thread[t].pid} /\ UNCHANGED files
         /\ Reread(t) => /\ Moves(t, "undo", {"putback", "failed"})
                         /\ thread'[t].pid = thread[t].pid /\ thread'[t].previous = thread[t].previous
         /\ Restore(t) => /\ Moves(t, "putback", {"failed"}) /\ thread'[t].pid = thread[t].pid
                          /\ thread'[t].previous = thread[t].previous
<1>f. ASSUME NEW place \in Places, Step(t, place)
      PROVE  /\ \A u \in Thread : u # t => thread'[u] = thread[u]
             /\ thread'[t].at = place /\ thread'[t].component = thread[t].component
             /\ thread'[t].previous = thread[t].previous /\ thread'[t].pid = thread[t].pid
  BY <1>f, StepFields
<1>t. thread[t] \in Threads
  OBVIOUS
<1>1. ASSUME Preflight(t)
      PROVE  /\ Moves(t, "preflight", {"port", "failed"}) /\ thread'[t].pid = thread[t].pid
             /\ thread'[t].at = "port" => thread'[t].previous = record /\ ~corrupt
                   /\ files' = files \cup {thread[t].component}
             /\ thread'[t].at = "failed" => files' = files
  <2>1. CASE Step(t, "failed") /\ UNCHANGED files
    BY <2>1, <1>1, <1>f DEF Preflight, Moves, Places
  <2>2. CASE /\ ~corrupt /\ files' = files \cup {thread[t].component}
             /\ thread' = [thread EXCEPT ![t].at = "port", ![t].previous = record]
    <3>1. thread'[t] = [thread[t] EXCEPT !.at = "port", !.previous = record]
      BY <2>2
    <3>2. /\ thread'[t].at = "port" /\ thread'[t].component = thread[t].component
          /\ thread'[t].previous = record /\ thread'[t].pid = thread[t].pid
      <4>1. "port" \in Places
        BY DEF Places
      <4>2. LET r == [thread[t] EXCEPT !.at = "port", !.previous = record]
            IN  /\ r.at = "port" /\ r.component = thread[t].component
                /\ r.previous = record /\ r.pid = thread[t].pid
        <5>1. thread[t] \in [at : Places, component : Component \cup {"none"}, previous : Records, pid : 0 .. born]
          BY <1>t DEF Threads
        <5> QED
          BY <5>1, <4>1, TwoFields
      <4> QED
        BY <3>1, <4>2, Zenon
    <3>3. \A u \in Thread : u # t => thread'[u] = thread[u]
      BY <2>2
    <3> QED
      BY <3>2, <3>3, <2>2, <1>1 DEF Preflight, Moves
  <2> QED
    BY <1>1, <2>1, <2>2 DEF Preflight
<1>2. ASSUME Spawns(t)
      PROVE  /\ Moves(t, "port", {"spawned", "failed"}) /\ thread'[t].previous = thread[t].previous
             /\ thread'[t].at = "spawned" => thread'[t].pid = born + 1 /\ born' = born + 1
                   /\ alive' = alive \cup {born + 1}
             /\ thread'[t].at = "failed" => thread'[t].pid = thread[t].pid /\ UNCHANGED <<alive, born>>
  <2>1. CASE Step(t, "failed") /\ UNCHANGED <<alive, born>>
    BY <2>1, <1>2, <1>f DEF Spawns, Spawn, Moves, Places
  <2>2. CASE /\ born' = born + 1 /\ alive' = alive \cup {born + 1}
             /\ thread' = [thread EXCEPT ![t].at = "spawned", ![t].pid = born + 1]
    <3>1. thread'[t] = [thread[t] EXCEPT !.at = "spawned", !.pid = born + 1]
      BY <2>2
    <3>2. /\ thread'[t].at = "spawned" /\ thread'[t].component = thread[t].component
          /\ thread'[t].previous = thread[t].previous /\ thread'[t].pid = born + 1
      <4>1. "spawned" \in Places /\ born + 1 \in 0 .. (born + 1)
        BY SMT DEF Places
      <4>2. thread[t] \in [at : Places, component : Component \cup {"none"}, previous : Records,
                           pid : 0 .. (born + 1)]
        BY <1>t, SMT DEF Threads
      <4>3. LET r == [thread[t] EXCEPT !.at = "spawned", !.pid = born + 1]
            IN  /\ r.at = "spawned" /\ r.component = thread[t].component
                /\ r.previous = thread[t].previous /\ r.pid = born + 1
        BY <4>1, <4>2, TwoFields
      <4> QED
        BY <3>1, <4>3, Zenon
    <3>3. \A u \in Thread : u # t => thread'[u] = thread[u]
      BY <2>2
    <3> QED
      BY <3>2, <3>3, <2>2, <1>2 DEF Spawns, Spawn, Moves
  <2> QED
    BY <1>2, <2>1, <2>2 DEF Spawns, Spawn
<1>3. ASSUME Saved(t)
      PROVE  /\ Moves(t, "spawned", {"wait", "failed"}) /\ thread'[t].pid = thread[t].pid
             /\ thread'[t].previous = thread[t].previous
             /\ IF thread[t].pid \in alive THEN Save(Record(t)) /\ thread'[t].at = "wait"
                ELSE UNCHANGED <<record, owner, corrupt>> /\ thread'[t].at = "failed"
  BY <1>3, <1>f DEF Saved, Moves, Places
<1>4. ASSUME Ready(t)
      PROVE  /\ Moves(t, "wait", {"done", "undo"}) /\ thread'[t].pid = thread[t].pid
             /\ thread'[t].previous = thread[t].previous
             /\ thread'[t].at = "done" => thread[t].pid \in alive /\ files' = files \cap Kept(t)
                   /\ UNCHANGED alive
             /\ thread'[t].at = "undo" => alive' = alive \ {thread[t].pid} /\ UNCHANGED files
  BY <1>4, <1>f DEF Ready, Moves, Places
<1>5. ASSUME Restore(t)
      PROVE  /\ Moves(t, "putback", {"failed"}) /\ thread'[t].pid = thread[t].pid
             /\ thread'[t].previous = thread[t].previous
  BY <1>5, <1>f DEF Restore, Moves, Places
<1>6. ASSUME Reread(t)
      PROVE  /\ Moves(t, "undo", {"putback", "failed"})
             /\ thread'[t].pid = thread[t].pid /\ thread'[t].previous = thread[t].previous
  BY <1>6, <1>f DEF Reread, Moves, Places
<1> QED
  BY <1>1, <1>2, <1>3, <1>4, <1>5, <1>6


(* Every step keeps who is where.                                          *)
LEMMA ControlStep == IInv /\ [Next]_vars => Control'
<1> SUFFICES ASSUME IInv, [Next]_vars PROVE Control'
  OBVIOUS
<1>i. TypeOK /\ Shape /\ Control /\ Processes /\ Snapshots /\ born \in Nat
  BY Halves, SMT DEF IInv, Shape
<1>a. ASSUME NEW t \in Thread
      PROVE  /\ Preflight(t) => /\ Moves(t, "preflight", {"port", "failed"})
                                /\ thread'[t].pid = thread[t].pid
             /\ Spawns(t) => /\ Moves(t, "port", {"spawned", "failed"})
             /\ Saved(t) => /\ Moves(t, "spawned", {"wait", "failed"})
             /\ Ready(t) => /\ Moves(t, "wait", {"done", "undo"})
             /\ Reread(t) => Moves(t, "undo", {"putback", "failed"})
             /\ Restore(t) => Moves(t, "putback", {"failed"})
  BY <1>i, Advances DEF Shape
<1>c. \A t \in Thread : Record(t).pid = thread[t].pid
  BY <1>i, Shapes DEF Shape
<1>w. watcher \in {"none", "on", "closed"} /\ (watcher = "closed" => build # "none")
  BY <1>i DEF Shape
<1>m. record # NoRecord => record.component \in Component
  BY <1>i DEF Snapshots, Named
<1>o. \A r \in Records : [r EXCEPT !.desired = "stopped"].pid = r.pid
  BY SMT DEF Records
<1>r. record \in Records /\ \A t \in Thread : Record(t) \in Records /\ thread[t].previous \in Records
  <2>1. \A t \in Thread : thread[t].previous \in Records
    BY <1>i, SMT DEF Shape, Threads
  <2> QED
    BY <2>1, <1>i, Shapes DEF Shape
<1>z. /\ NoSpawn.at = "none" /\ NoSpawn.pid = 0 /\ NoRecord.pid = 0
      /\ \A c \in Component : Enter(c).at = "preflight" /\ Enter(c).component = c /\ Enter(c).pid = 0
  BY SMT DEF NoSpawn, NoRecord, Enter
<1>t. thread \in [Thread -> Threads]
  BY <1>i DEF Shape
<1>k. call \in Kinds \cup {"none"}
  BY <1>i DEF Shape
<1>y. Dead => record.pid \notin alive
  BY <1>i DEF Processes
<1>x. C.at = "spawned" => record.pid \notin alive
  BY <1>i DEF Processes
<1> USE <1>i, <1>w, <1>m, <1>o, <1>r, <1>z, <1>t, <1>k, <1>y, <1>x DEF Control, Quiet, Dead, C, B,
    Thread, Kinds, disk, caller, watching, counts
<1>1. ASSUME NEW kind \in Kinds, Call(kind) PROVE Control'
  BY <1>1, SMT DEF Call, Closed
<1>2. CASE StopRead
  <2>1. at = "closing" /\ build = "none" /\ at' \in {"broken", "kill"}
    BY <1>2 DEF StopRead
  <2> QED
    BY <1>2, <2>1, SMT DEF StopRead
<1>3. CASE StopKill
  BY <1>3, SMT DEF StopKill, Stopped
<1>4. CASE Broken
  BY <1>4, SMT DEF Broken, Stopped
<1>5. CASE Remove
  BY <1>5, SMT DEF Remove
<1>0. CASE Removed
  BY <1>0, SMT DEF Removed
<1>6. CASE CallSpawn
  BY <1>6, SMT DEF CallSpawn, Enter
<1>7. CASE CallSpawned
  BY <1>7, SMT DEF CallSpawned
<1>8. CASE Return
  BY <1>8, SMT DEF Return
<1>9. CASE Inspect
  BY <1>9, SMT DEF Inspect
<1>10. CASE Looked
  BY <1>10, SMT DEF Looked
<1>11. CASE Watch
  BY <1>11, SMT DEF Watch
<1>12. CASE Change
  BY <1>12, SMT DEF Change
<1>13. CASE SourceGone
  BY <1>13, SMT DEF SourceGone, Closed
<1>14. CASE Valid
  BY <1>14, SMT DEF Valid, Build, Over, Aborted
<1>15. CASE Make
  BY <1>15, SMT DEF Make, Build, Over, Aborted
<1>16. CASE Replace
  BY <1>16, SMT DEF Replace, Build, Over, Aborted
<1>17. CASE Replaced
  BY <1>17, SMT DEF Replaced, Build, Over, Aborted
<1>18. CASE Corrupt
  BY <1>18, SMT DEF Corrupt
<1>19. CASE Crash
  BY <1>19, SMT DEF Crash
<1>20. ASSUME NEW t \in Thread, Preflight(t) PROVE Control'
  BY <1>20, <1>a, <1>c, SMT DEF Preflight, Moves
<1>21. ASSUME NEW t \in Thread, Spawns(t) PROVE Control'
  BY <1>21, <1>a, <1>c, SMT DEF Spawns, Moves
<1>22. ASSUME NEW t \in Thread, Saved(t) PROVE Control'
  BY <1>22, <1>a, SMT DEF Saved, Moves
<1>23. ASSUME NEW t \in Thread, Ready(t) PROVE Control'
  BY <1>23, <1>a, <1>c, SMT DEF Ready, Moves
<1>24. ASSUME NEW t \in Thread, Restore(t) PROVE Control'
  BY <1>24, <1>a, SMT DEF Restore, Moves
<1>27. ASSUME NEW t \in Thread, Reread(t) PROVE Control'
  BY <1>27, <1>a, SMT DEF Reread, Moves
<1>25. ASSUME NEW p \in Pid, Exit(p) PROVE Control'
  BY <1>25, SMT DEF Exit
<1>26. CASE UNCHANGED vars
  BY <1>26 DEF vars
<1> QED
  BY <1>0, <1>1, <1>2, <1>3, <1>4, <1>5, <1>6, <1>7, <1>8, <1>9, <1>10, <1>11, <1>12, <1>13, <1>14,
      <1>15, <1>16, <1>17, <1>18, <1>19, <1>20, <1>21, <1>22, <1>23, <1>24, <1>25, <1>26,
      <1>27 DEF Next, Caller, Watcher, Spawning

(* Every step keeps the processes accounted for.                           *)
LEMMA ProcessesStep == IInv /\ [Next]_vars => Processes'
<1> SUFFICES ASSUME IInv, [Next]_vars PROVE Processes'
  OBVIOUS
<1>i. TypeOK /\ Shape /\ Control /\ Processes /\ Snapshots /\ born \in Nat
  BY Halves, SMT DEF IInv, Shape
<1>c. \A t \in Thread : Record(t).pid = thread[t].pid /\ Record(t).component = thread[t].component
  BY <1>i, Shapes DEF Shape
<1>w. watcher \in {"none", "on", "closed"} /\ (watcher = "closed" => build # "none")
  BY <1>i DEF Shape
<1>m. record # NoRecord => record.component \in Component
  BY <1>i DEF Snapshots, Named
<1>o. \A r \in Records : [r EXCEPT !.desired = "stopped"].pid = r.pid
  BY SMT DEF Records
<1>r. record \in Records /\ \A t \in Thread : Record(t) \in Records /\ thread[t].previous \in Records
  <2>1. \A t \in Thread : thread[t].previous \in Records
    BY <1>i, SMT DEF Shape, Threads
  <2> QED
    BY <2>1, <1>i, Shapes DEF Shape
<1>z. /\ NoSpawn.at = "none" /\ NoSpawn.pid = 0 /\ NoRecord.pid = 0
      /\ \A c \in Component : Enter(c).at = "preflight" /\ Enter(c).component = c /\ Enter(c).pid = 0
  BY SMT DEF NoSpawn, NoRecord, Enter
<1>t. thread \in [Thread -> Threads]
  BY <1>i DEF Shape
<1>k. call \in Kinds \cup {"none"}
  BY <1>i DEF Shape
<1>b. /\ born \in Nat /\ alive \subseteq 1 .. born /\ leaked \subseteq 1 .. born
      /\ record.pid \in 0 .. born /\ \A t \in Thread : thread[t].pid \in 0 .. born
  BY <1>i, SMT DEF Shape, Records, Threads
<1> USE <1>i, <1>w, <1>o, <1>r, <1>z, <1>t, <1>k, <1>b DEF Control, Quiet, Dead, C, B, Processes,
    Live, Working, Thread, Kinds, disk, caller, watching, counts
<1>1. ASSUME NEW kind \in Kinds, Call(kind) PROVE Processes'
  BY <1>1, SMT DEF Call, Closed
<1>2. CASE StopRead
  <2>1. record'.pid = record.pid /\ (owner' = owner \/ owner' = record'.pid)
    <3>1. CASE corrupt \/ record = NoRecord
      BY <1>2, <3>1 DEF StopRead
    <3>2. CASE ~(corrupt \/ record = NoRecord)
      BY <1>2, <3>2 DEF StopRead, Save
    <3> QED
      BY <3>1, <3>2
  <2>2. /\ at = "closing" /\ build = "none" /\ at' \in {"broken", "kill"}
        /\ UNCHANGED <<alive, born, call, thread, leaked, lapsed>>
    BY <1>2 DEF StopRead
  <2>3. C.at = "none" /\ B.at = "none"
    BY <2>2
  <2> QED
    BY <2>1, <2>2, <2>3, SMT
<1>3. CASE StopKill
  BY <1>3, SMT DEF StopKill, Stopped
<1>4. CASE Broken
  BY <1>4, SMT DEF Broken, Stopped
<1>5. CASE Remove
  BY <1>5, SMT DEF Remove
<1>0. CASE Removed
  BY <1>0, SMT DEF Removed
<1>6. CASE CallSpawn
  BY <1>6, SMT DEF CallSpawn
<1>7. CASE CallSpawned
  BY <1>7, SMT DEF CallSpawned
<1>8. CASE Return
  BY <1>8, SMT DEF Return
<1>9. CASE Inspect
  BY <1>9, SMT DEF Inspect
<1>10. CASE Looked
  BY <1>10, SMT DEF Looked
<1>11. CASE Watch
  BY <1>11, SMT DEF Watch
<1>12. CASE Change
  BY <1>12, SMT DEF Change
<1>13. CASE SourceGone
  BY <1>13, SMT DEF SourceGone, Closed
<1>14. CASE Valid
  BY <1>14, SMT DEF Valid, Build, Over, Aborted
<1>15. CASE Make
  BY <1>15, SMT DEF Make, Build, Over, Aborted
<1>16. CASE Replace
  BY <1>16, SMT DEF Replace, Build, Over, Aborted
<1>17. CASE Replaced
  BY <1>17, SMT DEF Replaced, Build, Over, Aborted
<1>18. CASE Corrupt
  BY <1>18, SMT DEF Corrupt
<1>19. CASE Crash
  BY <1>19, SMT DEF Crash
<1>20. ASSUME NEW t \in Thread, Preflight(t) PROVE Processes'
  BY <1>20, Advances, <1>c, SMT DEF Preflight, Moves
<1>21. ASSUME NEW t \in Thread, Spawns(t) PROVE Processes'
  <2>1. /\ Moves(t, "port", {"spawned", "failed"}) /\ thread'[t].previous = thread[t].previous
        /\ UNCHANGED <<record, owner, at, call, build, leaked, lapsed>>
    BY <1>21, Advances DEF Spawns
  <2>2. \A u \in Thread : thread[u].previous.pid \in 0 .. born
    BY <1>r, SMT DEF Records
  <2>3. CASE thread'[t].at = "spawned"
    <3>1. thread'[t].pid = born + 1 /\ born' = born + 1 /\ alive' = alive \cup {born + 1}
      BY <1>21, <2>3, Advances
    <3>2. CASE t = "call"
      BY <2>1, <2>2, <2>3, <3>1, <3>2, SMT DEF Moves
    <3>3. CASE t = "build"
      BY <2>1, <2>2, <2>3, <3>1, <3>3, SMT DEF Moves
    <3> QED
      BY <3>2, <3>3
  <2>4. CASE thread'[t].at = "failed"
    <3>1. thread'[t].pid = thread[t].pid /\ UNCHANGED <<alive, born>>
      BY <1>21, <2>4, Advances
    <3> QED
      BY <2>1, <2>4, <3>1, SMT DEF Moves
  <2> QED
    BY <2>1, <2>3, <2>4 DEF Moves
<1>22. ASSUME NEW t \in Thread, Saved(t) PROVE Processes'
  <2>1. /\ Moves(t, "spawned", {"wait", "failed"}) /\ thread'[t].pid = thread[t].pid
        /\ thread'[t].previous = thread[t].previous
        /\ UNCHANGED <<alive, born, at, call, build, leaked, lapsed>>
    BY <1>22, Advances DEF Saved
  <2>2. CASE thread[t].pid \in alive
    <3>1. /\ record'.pid = thread[t].pid /\ record'.component = thread[t].component /\ thread'[t].at = "wait"
          /\ owner' = record'.pid
      <4>1. Save(Record(t)) /\ thread'[t].at = "wait"
        BY <1>22, <2>2, Advances
      <4> QED
        BY <4>1, <1>c DEF Save
    <3>2. CASE t = "call"
      BY <2>1, <2>2, <3>1, <3>2, SMT DEF Moves
    <3>3. CASE t = "build"
      BY <2>1, <2>2, <3>1, <3>3, SMT DEF Moves
    <3> QED
      BY <3>2, <3>3
  <2>3. CASE thread[t].pid \notin alive
    <3>1. UNCHANGED <<record, owner>> /\ thread'[t].at = "failed"
      BY <1>22, <2>3, Advances
    <3>2. CASE t = "call"
      BY <2>1, <2>3, <3>1, <3>2, SMT DEF Moves
    <3>3. CASE t = "build"
      BY <2>1, <2>3, <3>1, <3>3, SMT DEF Moves
    <3> QED
      BY <3>2, <3>3
  <2> QED
    BY <2>2, <2>3
<1>23. ASSUME NEW t \in Thread, Ready(t) PROVE Processes'
  BY <1>23, Advances, <1>c, SMT DEF Ready, Moves
<1>24. ASSUME NEW t \in Thread, Restore(t) PROVE Processes'
  <2>1. /\ Moves(t, "putback", {"failed"}) /\ thread'[t].pid = thread[t].pid
        /\ thread'[t].previous = thread[t].previous
        /\ UNCHANGED <<alive, born, at, call, build>>
    BY <1>24, Advances DEF Restore
  <2>2. record' = PutBack(t) /\ owner' = PutBack(t).pid
    BY <1>24 DEF Restore, Save
  <2>3. IF record.pid = thread[t].pid THEN UNCHANGED <<leaked, lapsed>>
        ELSE /\ leaked' = leaked \cup (alive \cap {record.pid})
             /\ lapsed' = lapsed \cup {PutBack(t).pid}
    BY <1>24 DEF Restore
  <2>4. PutBack(t).pid = IF thread[t].previous # NoRecord THEN thread[t].previous.pid ELSE thread[t].pid
    BY <1>c, <1>o, <1>r DEF PutBack
  <2>5. CASE t = "call"
    BY <2>1, <2>2, <2>3, <2>4, <2>5, SMT DEF Moves
  <2>6. CASE t = "build"
    BY <2>1, <2>2, <2>3, <2>4, <2>6, SMT DEF Moves
  <2> QED
    BY <2>5, <2>6
<1>27. ASSUME NEW t \in Thread, Reread(t) PROVE Processes'
  BY <1>27, Advances, <1>c, SMT DEF Reread, Moves
<1>25. ASSUME NEW p \in Pid, Exit(p) PROVE Processes'
  BY <1>25, SMT DEF Exit
<1>26. CASE UNCHANGED vars
  BY <1>26 DEF vars
<1> QED
  BY <1>0, <1>1, <1>2, <1>3, <1>4, <1>5, <1>6, <1>7, <1>8, <1>9, <1>10, <1>11, <1>12, <1>13, <1>14,
      <1>15, <1>16, <1>17, <1>18, <1>19, <1>20, <1>21, <1>22, <1>23, <1>24, <1>25, <1>26,
      <1>27 DEF Next, Caller, Watcher, Spawning

(* Every step keeps the snapshots that may be started from.                *)
LEMMA SnapshotsStep == IInv /\ [Next]_vars => Snapshots'
<1> SUFFICES ASSUME IInv, [Next]_vars PROVE Snapshots'
  OBVIOUS
<1>i. TypeOK /\ Shape /\ Control /\ Processes /\ Snapshots /\ born \in Nat
  BY Halves, SMT DEF IInv, Shape
<1>c. \A t \in Thread : Record(t).pid = thread[t].pid /\ Record(t).component = thread[t].component
  BY <1>i, Shapes DEF Shape
<1>w. watcher \in {"none", "on", "closed"} /\ (watcher = "closed" => build # "none")
  BY <1>i DEF Shape
<1>m. record # NoRecord => record.component \in Component
  BY <1>i DEF Snapshots, Named
<1>o. \A r \in Records : [r EXCEPT !.desired = "stopped"].pid = r.pid
  BY SMT DEF Records
<1>r. record \in Records /\ \A t \in Thread : Record(t) \in Records /\ thread[t].previous \in Records
  <2>1. \A t \in Thread : thread[t].previous \in Records
    BY <1>i, SMT DEF Shape, Threads
  <2> QED
    BY <2>1, <1>i, Shapes DEF Shape
<1>z. /\ NoSpawn.at = "none" /\ NoSpawn.pid = 0 /\ NoRecord.pid = 0
      /\ \A c \in Component : Enter(c).at = "preflight" /\ Enter(c).component = c /\ Enter(c).pid = 0
  BY SMT DEF NoSpawn, NoRecord, Enter
<1>t. thread \in [Thread -> Threads]
  BY <1>i DEF Shape
<1>k. call \in Kinds \cup {"none"}
  BY <1>i DEF Shape
<1>b. /\ born \in Nat /\ alive \subseteq 1 .. born /\ leaked \subseteq 1 .. born
      /\ record.pid \in 0 .. born /\ \A t \in Thread : thread[t].pid \in 0 .. born
  BY <1>i, SMT DEF Shape, Records, Threads
<1> USE <1>i, <1>o, <1>r, <1>z, <1>t, <1>b DEF Control, Quiet, Dead, C, B, Processes, Live,
    Snapshots, Safe, Startable, Named, Displaced, Working, Thread, disk, caller, watching, counts
<1>1. ASSUME NEW kind \in Kinds, Call(kind) PROVE Snapshots'
  BY <1>1, SMT DEF Call, Closed
<1>2. CASE StopRead
  <2>1. \/ record' = record
        \/ record # NoRecord /\ record'.component = record.component /\ record'.pid = record.pid
    <3>1. CASE corrupt \/ record = NoRecord
      BY <1>2, <3>1 DEF StopRead
    <3>2. CASE ~(corrupt \/ record = NoRecord)
      <4>1. [record EXCEPT !.desired = "stopped"].component = record.component
        BY SMT DEF Records
      <4> QED
        BY <1>2, <3>2, <4>1 DEF StopRead, Save
    <3> QED
      BY <3>1, <3>2
  <2>2. /\ at = "closing" /\ build = "none" /\ UNCHANGED <<files, call, thread, build, lapsed>>
    BY <1>2 DEF StopRead
  <2>3. C.at = "none" /\ B.at = "none"
    BY <2>2
  <2> QED
    BY <2>1, <2>2, <2>3, SMT
<1>3. CASE StopKill
  BY <1>3, SMT DEF StopKill, Stopped
<1>4. CASE Broken
  BY <1>4, SMT DEF Broken, Stopped
<1>5. CASE Remove
  BY <1>5, SMT DEF Remove
<1>0. CASE Removed
  BY <1>0, SMT DEF Removed
<1>6. CASE CallSpawn
  BY <1>6, SMT DEF CallSpawn
<1>7. CASE CallSpawned
  BY <1>7, SMT DEF CallSpawned
<1>8. CASE Return
  BY <1>8, SMT DEF Return
<1>9. CASE Inspect
  BY <1>9, SMT DEF Inspect
<1>10. CASE Looked
  BY <1>10, SMT DEF Looked
<1>11. CASE Watch
  BY <1>11, SMT DEF Watch
<1>12. CASE Change
  BY <1>12, SMT DEF Change
<1>13. CASE SourceGone
  BY <1>13, SMT DEF SourceGone, Closed
<1>14. CASE Valid
  BY <1>14, SMT DEF Valid, Build, Over, Aborted
<1>15. CASE Make
  BY <1>15, SMT DEF Make, Build, Over, Aborted
<1>16. CASE Replace
  BY <1>16, SMT DEF Replace, Build, Over, Aborted
<1>17. CASE Replaced
  BY <1>17, SMT DEF Replaced, Build, Over, Aborted
<1>18. CASE Corrupt
  BY <1>18, SMT DEF Corrupt
<1>19. CASE Crash
  BY <1>19, SMT DEF Crash
<1>20. ASSUME NEW t \in Thread, Preflight(t) PROVE Snapshots'
  BY <1>20, Advances, <1>c, SMT DEF Preflight, Moves
<1>21. ASSUME NEW t \in Thread, Spawns(t) PROVE Snapshots'
  BY <1>21, Advances, <1>c, SMT DEF Spawns, Moves
<1>22. ASSUME NEW t \in Thread, Saved(t) PROVE Snapshots'
  <2>1. /\ Moves(t, "spawned", {"wait", "failed"}) /\ thread'[t].pid = thread[t].pid
        /\ thread'[t].previous = thread[t].previous /\ UNCHANGED <<files, lapsed>>
        /\ thread[t].component \in Component
    BY <1>22, Advances DEF Saved
  <2>2. CASE thread[t].pid \in alive
    <3>1. /\ record'.pid = thread[t].pid /\ record'.component = thread[t].component
      <4>1. Save(Record(t))
        BY <1>22, <2>2, Advances
      <4> QED
        BY <4>1, <1>c DEF Save
    <3>2. CASE t = "call"
      BY <2>1, <3>1, <3>2, SMT DEF Moves
    <3>3. CASE t = "build"
      BY <2>1, <3>1, <3>3, SMT DEF Moves
    <3> QED
      BY <3>2, <3>3
  <2>3. CASE thread[t].pid \notin alive
    <3>1. UNCHANGED record /\ thread'[t].at = "failed"
      BY <1>22, <2>3, Advances
    <3>2. CASE t = "call"
      BY <2>1, <3>1, <3>2, SMT DEF Moves
    <3>3. CASE t = "build"
      BY <2>1, <3>1, <3>3, SMT DEF Moves
    <3> QED
      BY <3>2, <3>3
  <2> QED
    BY <2>2, <2>3
<1>23. ASSUME NEW t \in Thread, Ready(t) PROVE Snapshots'
  BY <1>23, Advances, <1>c, SMT DEF Ready, Moves, Kept
<1>24. ASSUME NEW t \in Thread, Restore(t) PROVE Snapshots'
  <2>1. /\ Moves(t, "putback", {"failed"}) /\ UNCHANGED files
        /\ thread'[t].pid = thread[t].pid /\ thread'[t].previous = thread[t].previous
    BY <1>24, Advances DEF Restore
  <2>2. record' = PutBack(t)
    BY <1>24 DEF Restore, Save
  <2>3. lapsed \subseteq lapsed' /\ (record.pid # thread[t].pid => PutBack(t).pid \in lapsed')
    BY <1>24 DEF Restore
  <2>4. IF thread[t].previous # NoRecord THEN PutBack(t) = thread[t].previous
        ELSE PutBack(t).pid = thread[t].pid /\ PutBack(t).component = thread[t].component
    <3>1. \A r \in Records : [r EXCEPT !.desired = "stopped"].component = r.component
      BY SMT DEF Records
    <3> QED
      BY <3>1, <1>c, <1>o, <1>r DEF PutBack
  <2>5. CASE t = "call"
    BY <2>1, <2>2, <2>3, <2>4, <2>5, SMT DEF Moves
  <2>6. CASE t = "build"
    BY <2>1, <2>2, <2>3, <2>4, <2>6, SMT DEF Moves
  <2> QED
    BY <2>5, <2>6
<1>27. ASSUME NEW t \in Thread, Reread(t) PROVE Snapshots'
  BY <1>27, Advances, <1>c, SMT DEF Reread, Moves
<1>25. ASSUME NEW p \in Pid, Exit(p) PROVE Snapshots'
  BY <1>25, SMT DEF Exit
<1>26. CASE UNCHANGED vars
  BY <1>26 DEF vars
<1> QED
  BY <1>0, <1>1, <1>2, <1>3, <1>4, <1>5, <1>6, <1>7, <1>8, <1>9, <1>10, <1>11, <1>12, <1>13, <1>14,
      <1>15, <1>16, <1>17, <1>18, <1>19, <1>20, <1>21, <1>22, <1>23, <1>24, <1>25, <1>26,
      <1>27 DEF Next, Caller, Watcher, Spawning

(* Every step keeps the invariant.                                         *)
LEMMA NextIInv == IInv /\ [Next]_vars => IInv'
<1> SUFFICES ASSUME IInv, [Next]_vars PROVE IInv'
  OBVIOUS
<1>1. Flags' /\ Shape'
  BY Halves, FlagsStep, ShapeStep DEF IInv
<1>2. TypeOK'
  BY <1>1 DEF TypeOK, Flags, Shape
<1> QED
  BY <1>2, ControlStep, ProcessesStep, SnapshotsStep DEF IInv

(* The invariant holds of every reachable state.                           *)
THEOREM Inductive == Spec => []IInv
  BY InitIInv, NextIInv, PTL DEF Spec

(* Every reachable state has the shape the code gives it.                  *)
THEOREM TypeCorrect == Spec => []TypeOK
<1>1. IInv => TypeOK
  BY DEF IInv
<1> QED
  BY <1>1, Inductive, PTL

(* The service never runs twice, however calls, inspections and rebuilds   *)
(* meet, but for what a hub that died had not recorded and for a process   *)
(* whose record a failed spawn, which had read its own, wrote over.        *)
THEOREM NeverTwice == Spec => []OneProcess
<1>1. IInv => OneProcess
  <2> SUFFICES ASSUME IInv PROVE OneProcess
    OBVIOUS
  <2>1. \E p : Live \subseteq {p}
    <3>1. CASE C.at = "spawned"
      BY <3>1 DEF IInv, Processes
    <3>2. CASE B.at = "spawned"
      BY <3>2 DEF IInv, Processes
    <3>3. CASE C.at # "spawned" /\ B.at # "spawned"
      BY <3>3 DEF IInv, Processes
    <3> QED
      BY <3>1, <3>2, <3>3
  <2>2. PICK p : Live \subseteq {p}
    BY <2>1
  <2>3. Cardinality({p}) = 1 /\ IsFiniteSet({p})
    BY FS_Singleton
  <2>4. Cardinality(Live) <= Cardinality({p})
    BY <2>2, <2>3, FS_Subset
  <2> QED
    BY <2>3, <2>4 DEF OneProcess, Live
<1> QED
  BY <1>1, Inductive, PTL

(* When a stop or a removal returns nothing runs but what no record names, *)
(* and no rebuild and no inspection starts it again behind it.             *)
THEOREM StopsForGood == Spec => []StoppedIsDead
<1>1. IInv => StoppedIsDead
  <2> SUFFICES ASSUME IInv PROVE StoppedIsDead
    OBVIOUS
  <2> USE DEF IInv, Processes, Control, Dead, Live
  <2>1. at = "return" /\ call \in {"stop", "remove"} => alive \subseteq leaked
    OBVIOUS
  <2>2. call = "none" /\ build = "none" /\ ~corrupt => alive \subseteq leaked \cup {record.pid}
    BY SMT DEF C, B, NoSpawn
  <2> QED
    BY <2>1, <2>2 DEF StoppedIsDead
<1> QED
  BY <1>1, Inductive, PTL

(* What the record names is there to be started from, whatever failed,     *)
(* unless it was put back over another's or its removal had begun.         *)
THEOREM AlwaysStartable == Spec => []SnapshotKept
<1>1. IInv => SnapshotKept
  BY DEF IInv, Snapshots, Startable, SnapshotKept
<1> QED
  BY <1>1, Inductive, PTL
=============================================================================
