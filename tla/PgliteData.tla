----------------------------- MODULE PgliteData -----------------------------
(***************************************************************************)
(* The data directories of PGlite services on disk: how a database is      *)
(* first made (pglite-initialize.ts), copied over another (pglite-fork.ts) *)
(* and found again after a crash (pglite-data.ts), by processes that share *)
(* nothing but the kernel's locks.  A process may die at any step.         *)
(*                                                                         *)
(* A directory is a tree: absent, empty, a whole database (a Version), or  *)
(* what a removal under way has left of one, with ("parts") or without     *)
(* ("shell") its file PG_VERSION.  What the code never notices is told     *)
(* apart as "torn": the parts left by a removal that undid a publication   *)
(* and did not end, and whatever is copied from them.                      *)
(***************************************************************************)
EXTENDS Naturals, FiniteSets

CONSTANTS
  Proc, Nobody,
  Dir,           \* directories, numbered as their paths sort
  Version        \* contents of a database

ASSUME DataAssumption ==
  /\ Dir \subseteq Nat /\ Nobody \notin Proc
  /\ Version \cap {"absent", "empty", "parts", "shell", "torn", "missing"} = {}

VARIABLES
  data,          \* data[d]: the directory of that name
  previous,      \* previous[d]: the backup beside it, *.pglite-previous
  temporary,     \* temporary[d]: a copy on its way, *.fork-*
  staging,       \* staging[d]: a database being made, *.pglite-init
  lock,          \* lock[d]: who has its *.pglite-lock
  proc           \* proc[p]: what p does

tree == <<data, previous, temporary, staging>>
vars == <<tree, lock, proc>>

Eroded == {"parts", "shell"}
Entire == Version \cup {"torn"}          \* no removal of it is under way
Tree == {"absent", "empty"} \cup Eroded \cup Entire
Database(t) == t \in Entire \cup {"parts"}      \* PG_VERSION is there
Idle == [kind |-> "none", at |-> "none", source |-> 0, dir |-> 0, work |-> 0]
Locks(p) == {d \in Dir : lock[d] = p}
Go(p, place) == proc' = [proc EXCEPT ![p].at = place]
Wants(p) == {proc[p].source, proc[p].dir} \cap Dir

Init ==
  /\ data = [d \in Dir |-> "absent"] /\ previous = [d \in Dir |-> "absent"]
  /\ temporary = [d \in Dir |-> "absent"] /\ staging = [d \in Dir |-> "absent"]
  /\ lock = [d \in Dir |-> Nobody] /\ proc = [p \in Proc |-> Idle]
------------------------------------------------------------------------------
(* A call starts: a service, or a fork of one directory to another.        *)
Begin(p) ==
  /\ proc[p] = Idle /\ UNCHANGED <<tree, lock>>
  /\ \E d \in Dir :
       \/ proc' = [proc EXCEPT ![p] = [Idle EXCEPT !.kind = "start", !.at = "lock", !.dir = d]]
       \/ \E s \in Dir \ {d} :
            proc' = [proc EXCEPT ![p] = [kind |-> "fork", at |-> "lock", source |-> s,
                                         dir |-> d, work |-> 0]]

(* The manager makes the directory before it has the service started.      *)
Precreate(d) ==
  /\ data[d] = "absent" /\ lock[d] = Nobody
  /\ data' = [data EXCEPT ![d] = "empty"]
  /\ UNCHANGED <<previous, temporary, staging, lock, proc>>

(* Locks are taken in the order of their paths, and never waited for.      *)
LockNext(p) ==
  LET missing == {d \in Wants(p) : lock[d] # p}
      next == CHOOSE d \in missing : \A e \in missing : d <= e
  IN /\ proc[p].at = "lock"
     /\ IF missing = {}
          THEN /\ UNCHANGED lock
               /\ proc' = [proc EXCEPT ![p].at = "recover",
                             ![p].work = IF proc[p].kind =
                               "fork" THEN proc[p].source ELSE proc[p].dir]
        ELSE IF lock[next] = Nobody
          THEN lock' = [lock EXCEPT ![next] = p] /\ UNCHANGED proc
        ELSE UNCHANGED lock /\ Go(p, "release")
     /\ UNCHANGED tree

(* recoverPglitePublication(work), called with the lock.                   *)
Recover(p) ==
  LET d == proc[p].work
  IN /\ proc[p].at = "recover"
     /\ temporary' = [temporary EXCEPT ![d] = "absent"]
     /\ Go(p, IF previous[d] = "absent" THEN "recovered"
              ELSE IF Database(data[d]) THEN "dropPrevious"
              ELSE IF data[d] # "absent" THEN "dropData" ELSE "restore")
     /\ UNCHANGED <<data, previous, staging, lock>>
Falls(f, d) ==
  \/ Database(f[d]) /\ \E t \in Eroded : f' = [f EXCEPT ![d] = t]
  \/ f[d] = "shell" /\ UNCHANGED f
DropPrevious(p) ==
  LET d == proc[p].work
  IN /\ proc[p].at = "dropPrevious"
     /\ \/ Falls(previous, d) /\ UNCHANGED proc
        \/ previous' = [previous EXCEPT ![d] = "absent"] /\ Go(p, "recovered")
     /\ UNCHANGED <<data, temporary, staging, lock>>
DropData(p) ==
  LET d == proc[p].work
  IN /\ proc[p].at = "dropData"
     /\ \/ data' = [data EXCEPT ![d] = "shell"] /\ UNCHANGED proc
        \/ data' = [data EXCEPT ![d] = "absent"] /\ Go(p, "restore")
     /\ UNCHANGED <<previous, temporary, staging, lock>>
Restore(p) ==
  LET d == proc[p].work
  IN /\ proc[p].at = "restore"
     /\ data' = [data EXCEPT ![d] = previous[d]] /\ previous' = [previous EXCEPT ![d] = "absent"]
     /\ Go(p, "recovered")
     /\ UNCHANGED <<temporary, staging, lock>>

(* A fork recovers its source, its target, and its target again at the end.*)
(* What is forked has been used: the environment it comes from is deployed.*)
Recovered(p) ==
  /\ proc[p].at = "recovered"
  /\ IF proc[p].kind = "start"
       THEN /\ data' = [data EXCEPT ![proc[p].dir] = IF @ = "absent" THEN "empty" ELSE @]
            /\ Go(p, "initialize")
       ELSE /\ UNCHANGED data
            /\ proc' = IF proc[p].work = proc[p].source
                         THEN [proc EXCEPT ![p].at = "recover", ![p].work = proc[p].dir]
                       ELSE IF proc[p].kind = "published" THEN [proc EXCEPT ![p].at = "clean"]
                       ELSE [proc EXCEPT ![p].at = IF Database(data[proc[p].source])
                                                   THEN "copy" ELSE "release"]
  /\ UNCHANGED <<previous, temporary, staging, lock>>
------------------------------------------------------------------------------
(* A service starts.  A new database is made in the staging directory and  *)
(* marked complete once it is closed; an empty directory is replaced by it *)
(* at once.  A directory that is not empty is never touched.               *)
InitializeStale(p) ==          \* mutant of Initialize: what was being made stays
  LET d == proc[p].dir
  IN /\ proc[p].at = "initialize"
     /\ IF data[d] # "empty"
          THEN UNCHANGED staging /\ Go(p, IF Database(data[d]) THEN "open" ELSE "release")
        ELSE IF staging[d] \in Version THEN UNCHANGED staging /\ Go(p, "publish")
        ELSE staging' = [staging EXCEPT ![d] = "parts"] /\ Go(p, "make")
     /\ UNCHANGED <<data, previous, temporary, lock>>
Initialize(p) ==
  LET d == proc[p].dir
  IN /\ proc[p].at = "initialize"
     /\ IF data[d] # "empty"
          THEN /\ staging' = [staging EXCEPT ![d] = "absent"]
               /\ Go(p, IF Database(data[d]) THEN "open" ELSE "release")
        ELSE IF staging[d] \in Version THEN UNCHANGED staging /\ Go(p, "publish")
        ELSE staging' = [staging EXCEPT ![d] = "parts"] /\ Go(p, "make")
     /\ UNCHANGED <<data, previous, temporary, lock>>
Make(p) ==                     \* or it fails, and what there is stays
  /\ proc[p].at = "make"
  /\ \/ /\ \E v \in Version : staging' = [staging EXCEPT ![proc[p].dir] = v]
        /\ Go(p, "publish")
     \/ UNCHANGED staging /\ Go(p, "release")
  /\ UNCHANGED <<data, previous, temporary, lock>>
PublishNew(p) ==
  LET d == proc[p].dir
  IN /\ proc[p].at = "publish"
     /\ data' = [data EXCEPT ![d] = staging[d]] /\ staging' = [staging EXCEPT ![d] = "absent"]
     /\ Go(p, "open")
     /\ UNCHANGED <<previous, temporary, lock>>
Write(p) ==
  /\ proc[p].at = "open" /\ data[proc[p].dir] \in Version
  /\ \E v \in Version : data' = [data EXCEPT ![proc[p].dir] = v]
  /\ UNCHANGED <<previous, temporary, staging, lock, proc>>
Close(p) ==
  /\ proc[p].at = "open" /\ Go(p, "release") /\ UNCHANGED <<tree, lock>>
------------------------------------------------------------------------------
(* A fork.  The copy is made under a temporary name and then exchanged     *)
(* with the target; where the system cannot exchange names, the target is  *)
(* moved away first.                                                       *)
Target(p) == proc[p].dir
Copy(p) ==
  /\ proc[p].at = "copy"
  /\ \/ temporary' = [temporary EXCEPT ![Target(p)] = "parts"] /\ UNCHANGED proc
     \/ temporary' = [temporary EXCEPT ![Target(p)] = data[proc[p].source]] /\ Go(p, "swap")
     \/ UNCHANGED temporary /\ Go(p, "clean")               \* aborted, or it fails
  /\ UNCHANGED <<data, previous, staging, lock>>

Published(p, place) ==
  proc' = [proc EXCEPT ![p].at = place, ![p].kind = "published", ![p].work = Target(p)]
SwapRemoves(p) ==              \* mutant of Swap: the target is removed, not moved
  LET d == Target(p)
  IN /\ proc[p].at = "swap" /\ data' = [data EXCEPT ![d] = "absent"] /\ Go(p, "moved")
     /\ UNCHANGED <<previous, temporary, staging, lock>>
Swap(p) ==
  LET d == Target(p)
  IN /\ proc[p].at = "swap"
     /\ \/ /\ data' = [data EXCEPT ![d] = temporary[d]]
           /\ temporary' = [temporary EXCEPT ![d] = data[d]]
           /\ Published(p, "clean")
           /\ UNCHANGED previous
        \/ /\ data[d] # "absent" /\ data' = [data EXCEPT ![d] = "absent"]
           /\ previous' = [previous EXCEPT ![d] = data[d]]
           /\ Go(p, "moved") /\ UNCHANGED temporary
        \/ data[d] # "absent" /\ Go(p, "clean") /\ UNCHANGED <<data, previous, temporary>>
     /\ UNCHANGED <<staging, lock>>
Moved(p) ==
  LET d == Target(p)
  IN /\ proc[p].at = "moved"
     /\ \/ /\ data' = [data EXCEPT ![d] = temporary[d]]
           /\ temporary' = [temporary EXCEPT ![d] = "absent"] /\ Go(p, "synced")
        \/ Go(p, "undo") /\ UNCHANGED <<data, temporary>>        \* a sync or the rename throws
     /\ UNCHANGED <<previous, staging, lock>>
Synced(p) ==
  /\ proc[p].at = "synced"
  /\ \/ Published(p, "recover")
     \/ Go(p, "undo")                                      \* the sync throws
  /\ UNCHANGED <<tree, lock>>
Undo(p) ==
  LET d == Target(p)
  IN /\ proc[p].at = "undo"
     /\ \/ Falls(data, d) /\ UNCHANGED <<previous, proc>>
        \/ /\ data' = [data EXCEPT ![d] = previous[d]]
           /\ previous' = [previous EXCEPT ![d] = "absent"] /\ Go(p, "clean")
     /\ UNCHANGED <<temporary, staging, lock>>
Clean(p) ==
  /\ proc[p].at = "clean" /\ temporary' = [temporary EXCEPT ![Target(p)] = "absent"]
  /\ Go(p, "release") /\ UNCHANGED <<data, previous, staging, lock>>
------------------------------------------------------------------------------
Unlocked(p) == lock' = [d \in Dir |-> IF lock[d] = p THEN Nobody ELSE lock[d]]
Release(p) ==
  /\ proc[p].at = "release" /\ Unlocked(p)
  /\ proc' = [proc EXCEPT ![p] = Idle] /\ UNCHANGED tree
(* The process dies, or what it does throws with nothing left to undo: the *)
(* locks go.  A removal in Undo may be under way.                          *)
Die(p) ==
  /\ proc[p] # Idle /\ Unlocked(p)
  /\ proc' = [proc EXCEPT ![p] = Idle]
  /\ data' = IF proc[p].at = "undo" /\ data[Target(p)] = "parts"
               THEN [data EXCEPT ![Target(p)] = "torn"] ELSE data
  /\ UNCHANGED <<previous, temporary, staging>>

Step(p) ==
  \/ Begin(p) \/ LockNext(p) \/ Recover(p) \/ DropPrevious(p) \/ DropData(p) \/ Restore(p)
  \/ Recovered(p) \/ Initialize(p) \/ Make(p) \/ PublishNew(p) \/ Write(p) \/ Close(p)
  \/ Copy(p) \/ Swap(p) \/ Moved(p) \/ Synced(p) \/ Undo(p) \/ Clean(p) \/ Release(p) \/ Die(p)
Next == (\E p \in Proc : Step(p)) \/ (\E d \in Dir : Precreate(d))
Spec == Init /\ [][Next]_vars
------------------------------------------------------------------------------
(* The state has the shape the code gives it.                              *)
TypeOK ==
  /\ data \in [Dir -> Tree] /\ previous \in [Dir -> Tree] /\ temporary \in [Dir -> Tree]
  /\ staging \in [Dir -> {"absent", "parts"} \cup Version]
  /\ lock \in [Dir -> Proc \cup {Nobody}]
  /\ \A p \in Proc :
       /\ proc[p].kind \in {"none", "start", "fork", "published"}
       /\ {proc[p].source, proc[p].dir, proc[p].work} \subseteq Dir \cup {0}
       /\ proc[p].at \notin {"none", "lock", "release"} => Wants(p) \subseteq Locks(p)

(* What a directory holds: until its publication is through, what it held  *)
(* before, and otherwise what a recovery would make of it.                 *)
Publishing(d) == \E p \in Proc : proc[p].at \in {"synced", "undo"} /\ proc[p].dir = d
Found(d) == IF previous[d] = "absent" \/ Database(data[d]) THEN data[d] ELSE previous[d]
Value(t) == IF t \in {"absent", "empty"} THEN "missing" ELSE t
Content(d) == Value(IF Publishing(d) THEN previous[d] ELSE Found(d))

(* A database opens whole, and its predecessors and copies are gone: later *)
(* recoveries cannot bring them back over what it writes.  The exception   *)
(* is what an undone publication left when its removal did not end: it has *)
(* its PG_VERSION, so recovery takes it for published and removes the      *)
(* backup (pglite-fork.ts:138-144, pglite-data.ts).                        *)
OpensWhole ==
  \A p \in Proc : proc[p].at = "open" =>
    LET d == proc[p].dir
    IN data[d] \in Entire /\ {previous[d], temporary[d], staging[d]} = {"absent"}

(* Deaths and failures included, what a directory holds changes at once,   *)
(* and only as DataStore allows: nothing is lost or brought back, and      *)
(* nothing is torn but by such a removal.                                  *)
Store == INSTANCE DataStore WITH
  content <- [d \in Dir |-> Content(d)], Missing <- "missing", Torn <- "torn",
  open <- {proc[p].dir : p \in {q \in Proc : proc[q].at = "open"}}
ImplementsStore == Store!Spec
=============================================================================
