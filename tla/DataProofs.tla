----------------------------- MODULE DataProofs -----------------------------
(***************************************************************************)
(* What keeps an environment's data whole, in two halves.                  *)
(*                                                                         *)
(* First the data directories, for any processes, directories and contents.*)
(* The argument is the locks': whoever works on a directory has its lock,  *)
(* so what it has found out about the directory stays true until it acts,  *)
(* and nobody else's knowledge is touched by what it does.  A directory    *)
(* that nobody works on is one a recovery can still make whole             *)
(* (Recoverable).  A publication that is taken back is the one thing that  *)
(* can leave a torn directory (Unfinished says of whom while it runs); the *)
(* store that is implemented says so.                                      *)
(*                                                                         *)
(* Then, from Copying on, clones of main and their recovery, for any       *)
(* services, databases and branches, whatever the runtime refuses and      *)
(* however often the hub exits.  The argument is the journal's: at most    *)
(* one is pending, it names every writer that is not running, and nothing  *)
(* but the job that works on it, and a stop of main, changes what it says. *)
(***************************************************************************)
EXTENDS PgliteData, CloneRecovery, TLAPS

Places ==
  {"none", "lock", "recover", "dropPrevious", "dropData", "restore", "recovered",
   "initialize", "make", "publish", "open",
   "copy", "swap", "moved", "synced", "undo", "clean", "release"}
Recovering == {"recover", "dropPrevious", "dropData", "restore", "recovered"}
Starting == {"initialize", "make", "publish", "open"}
Forking == {"copy", "swap", "moved", "synced", "undo", "clean"}
Working(p) == proc[p].at \in Recovering \cup Starting \cup Forking

Record == [kind : {"none", "start", "fork", "published"}, at : Places,
           source : Dir \cup {0}, dir : Dir \cup {0}, work : Dir \cup {0}]

(* What a process may be at, and the locks it has there.                   *)
Shape(p) ==
  /\ proc[p] # Idle => proc[p].dir \in Dir /\ proc[p].at # "none"
  /\ proc[p].kind = "none" => proc[p] = Idle
  /\ proc[p] = Idle => Locks(p) = {}
  /\ proc[p].kind \in {"fork", "published"} => proc[p].source \in Dir \ {proc[p].dir}
  /\ proc[p].at \in Starting => proc[p].kind = "start"
  /\ proc[p].at \in Forking => proc[p].kind \in {"fork", "published"}
  /\ proc[p].at \in Forking \ {"clean"} => proc[p].kind = "fork"
  /\ proc[p].at \in Recovering => proc[p].work \in Wants(p)
  /\ proc[p].at \in Recovering /\ proc[p].kind # "fork" => proc[p].work = proc[p].dir
  /\ Working(p) => Wants(p) \subseteq Locks(p)

TreeTypes ==
  /\ data \in [Dir -> Tree] /\ previous \in [Dir -> Tree] /\ temporary \in [Dir -> Tree]
  /\ staging \in [Dir -> {"absent", "parts"} \cup Version]
LockTypes == lock \in [Dir -> Proc \cup {Nobody}]
ProcTypes ==
  /\ proc \in [Proc -> Record]
  /\ \A p \in Proc : Shape(p)
  /\ \A d \in Dir : \A p \in Proc : lock[d] = p => d \in Wants(p)
Types == TreeTypes /\ LockTypes /\ ProcTypes

(* What p knows, where it is, of the directories it has locked.            *)
Knows(p) ==
  LET s == proc[p].source
      d == proc[p].dir
      w == proc[p].work
      at == proc[p].at
  IN /\ at \in Recovering \ {"recover"} => temporary[w] = "absent"
     /\ at = "dropPrevious" => data[w] \in Entire
     /\ at \in {"dropData", "restore"} => previous[w] # "absent"
     /\ at = "dropData" => data[w] \notin Entire
     /\ at = "restore" => data[w] = "absent"
     /\ at = "recovered" => previous[w] = "absent"
     /\ at \in Starting => previous[d] = "absent" /\ temporary[d] = "absent"
     /\ at = "initialize" => data[d] # "absent"
     /\ at \in {"make", "publish"} => data[d] = "empty"
     /\ at = "publish" => staging[d] \in Version
     /\ at = "open" => data[d] \in Entire /\ staging[d] = "absent"
     /\ at \in {"copy", "swap"} => previous[d] = "absent"
     /\ at \in Forking \ {"clean"} => data[s] \in Entire
     /\ at \in {"swap", "moved"} => temporary[d] = data[s]
     /\ at = "moved" => data[d] = "absent"
     /\ at = "synced" => data[d] = data[s]
     /\ at = "undo" => data[d] \in {"absent", data[s]} \cup Eroded
     /\ at \in {"moved", "synced", "undo"} => previous[d] \in {"empty"} \cup Entire

(* A directory holds a database nobody is removing, or its backup does, or *)
(* there has been none; a backup is eroded only beside such a database.    *)
Recoverable(d) ==
  /\ data[d] \notin Entire => previous[d] \in {"absent", "empty"} \cup Entire
  /\ data[d] \in Eroded => previous[d] # "absent"

(* What is eroded and has its PG_VERSION is being removed, by the fork     *)
(* that takes its publication back.                                        *)
Undoes(p, d) == lock[d] = p /\ proc[p].at = "undo" /\ proc[p].dir = d
Unfinished == \A d \in Dir : data[d] = "parts" => \E p \in Proc : Undoes(p, d)

Whole == (\A p \in Proc : Knows(p)) /\ (\A d \in Dir : Recoverable(d)) /\ Unfinished
IInv == Types /\ Whole
------------------------------------------------------------------------------
(* A process that is locking, or has its locks, moves on with them.        *)
LEMMA Moves ==
  ASSUME Types, NEW p \in Proc, NEW r \in Record,
         proc[p] # Idle, lock' = lock, proc' = [proc EXCEPT ![p] = r],
         r.source = proc[p].source /\ r.dir = proc[p].dir /\ r.at # "none" /\ r.kind # "none",
         r.kind \in {"fork", "published"} => proc[p].kind \in {"fork", "published"},
         r.at \in Starting => r.kind = "start",
         r.at \in Forking => r.kind \in {"fork", "published"},
         r.at \in Forking \ {"clean"} => r.kind = "fork",
         r.at \in Recovering => r.work \in Wants(p),
         r.at \in Recovering /\ r.kind # "fork" => r.work = r.dir,
         r.at \in Recovering \cup Starting \cup Forking => Wants(p) \subseteq Locks(p)
  PROVE  ProcTypes'
<1>1. /\ proc \in [Proc -> Record] /\ proc[p] \in Record /\ Shape(p)
      /\ \A q \in Proc : Shape(q)
      /\ \A d \in Dir : \A q \in Proc : lock[d] = q => d \in Wants(q)
  BY DEF Types, ProcTypes
<1>2. /\ proc'[p] = r /\ proc' \in [Proc -> Record]
      /\ \A q \in Proc \ {p} : proc'[q] = proc[q]
  BY <1>1
<1>3. \A q \in Proc : Wants(q)' = Wants(q) /\ Locks(q)' = Locks(q)
  BY <1>2 DEF Wants, Locks
<1>4. \A q \in Proc \ {p} : Shape(q)'
  BY <1>1, <1>2, <1>3 DEF Shape, Working
<1>5. Shape(p)'
  <2>1. r # Idle
    BY DEF Idle
  <2> QED BY <1>1, <1>2, <1>3, <2>1 DEF Shape, Working
<1> QED BY <1>1, <1>2, <1>3, <1>4, <1>5 DEF ProcTypes

(* The same where only the place changes.                                  *)
LEMMA Goes ==
  ASSUME Types, NEW p \in Proc, NEW at \in Places \ {"none"}, Go(p, at), lock' = lock,
         Working(p),
         at \in Starting => proc[p].kind = "start",
         at \in Forking => proc[p].kind \in {"fork", "published"},
         at \in Forking \ {"clean"} => proc[p].kind = "fork",
         at \in Recovering => proc[p].at \in Recovering
  PROVE  ProcTypes'
<1> DEFINE r == [proc[p] EXCEPT !.at = at]
<1>1. proc[p] \in Record /\ Shape(p)
  BY DEF Types, ProcTypes
<1>2. /\ r \in Record /\ r.at = at /\ r.kind = proc[p].kind /\ r.work = proc[p].work
      /\ r.source = proc[p].source /\ r.dir = proc[p].dir
  BY <1>1 DEF Record
<1>3. proc' = [proc EXCEPT ![p] = r]
  BY DEF Go
<1>4. proc[p] # Idle /\ proc[p].kind # "none" /\ Wants(p) \subseteq Locks(p)
  BY <1>1 DEF Shape, Working, Idle, Recovering, Starting, Forking
<1> HIDE DEF r
<1> QED BY <1>1, <1>2, <1>3, <1>4, Moves DEF Shape

(* The locks go with the process that had them, at its end or its death.   *)
LEMMA LetsGo ==
  ASSUME Types, NEW p \in Proc, Unlocked(p), proc' = [proc EXCEPT ![p] = Idle]
  PROVE  LockTypes' /\ ProcTypes'
<1>1. /\ proc \in [Proc -> Record] /\ lock \in [Dir -> Proc \cup {Nobody}]
      /\ \A q \in Proc : Shape(q)
      /\ \A d \in Dir : \A q \in Proc : lock[d] = q => d \in Wants(q)
  BY DEF Types, LockTypes, ProcTypes
<1>2. Idle \in Record
  BY DEF Idle, Record, Places
<1>3. /\ proc'[p] = Idle /\ proc' \in [Proc -> Record]
      /\ \A q \in Proc \ {p} : proc'[q] = proc[q]
  BY <1>1, <1>2
<1>4. /\ \A d \in Dir : lock'[d] = IF lock[d] = p THEN Nobody ELSE lock[d]
      /\ LockTypes'
  BY <1>1 DEF Unlocked, LockTypes
<1>5. \A q \in Proc \ {p} : Wants(q)' = Wants(q) /\ Locks(q)' = Locks(q)
  BY <1>3, <1>4, DataAssumption DEF Wants, Locks
<1>6. \A q \in Proc \ {p} : Shape(q)'
  BY <1>1, <1>3, <1>5 DEF Shape, Working
<1>7. Shape(p)'
  <2>1. Locks(p)' = {}
    BY <1>4, DataAssumption DEF Locks
  <2> QED BY <1>3, <2>1 DEF Shape, Working, Idle, Recovering, Starting, Forking
<1>8. \A d \in Dir : \A q \in Proc : lock'[d] = q => d \in Wants(q)'
  BY <1>1, <1>4, <1>5, DataAssumption
<1> QED BY <1>3, <1>4, <1>6, <1>7, <1>8 DEF ProcTypes

(* A call starts as a service or as a fork.                                *)
LEMMA Begins ==
  ASSUME NEW p \in Proc, Begin(p)
  PROVE  \E r \in Record :
         /\ proc' = [proc EXCEPT ![p] = r]
         /\ r.at = "lock" /\ r.dir \in Dir
         /\ \/ r.kind = "start" /\ r.source = 0
            \/ r.kind = "fork" /\ r.source \in Dir \ {r.dir}
<1>1. PICK e \in Dir :
        \/ proc' = [proc EXCEPT ![p] = [Idle EXCEPT !.kind = "start", !.at = "lock", !.dir = e]]
        \/ \E s \in Dir \ {e} :
             proc' = [proc EXCEPT ![p] = [kind |-> "fork", at |-> "lock", source |-> s,
                                          dir |-> e, work |-> 0]]
  BY DEF Begin
<1> DEFINE start == [Idle EXCEPT !.kind = "start", !.at = "lock", !.dir = e]
           fork(s) == [kind |-> "fork", at |-> "lock", source |-> s, dir |-> e, work |-> 0]
<1>2. start \in Record /\ \A s \in Dir : fork(s) \in Record
  BY DEF Record, Places, Idle
<1> QED BY <1>1, <1>2 DEF Idle

(* An operation that begins has the shape of its kind and holds no lock.   *)
LEMMA BeginTypes ==
  ASSUME Types, NEW p \in Proc, Begin(p)
  PROVE  ProcTypes'
<1>1. /\ proc \in [Proc -> Record] /\ \A q \in Proc : Shape(q)
      /\ \A d \in Dir : \A q \in Proc : lock[d] = q => d \in Wants(q)
  BY DEF Types, ProcTypes
<1>2. PICK r \in Record :
        /\ proc' = [proc EXCEPT ![p] = r]
        /\ r.at = "lock" /\ r.dir \in Dir
        /\ \/ r.kind = "start" /\ r.source = 0
           \/ r.kind = "fork" /\ r.source \in Dir \ {r.dir}
  BY Begins
<1>3. /\ proc'[p] = r /\ proc' \in [Proc -> Record] /\ lock' = lock
      /\ \A q \in Proc \ {p} : proc'[q] = proc[q]
  BY <1>1, <1>2 DEF Begin
<1>4. \A q \in Proc \ {p} : Wants(q)' = Wants(q) /\ Locks(q)' = Locks(q) /\ Shape(q)'
  BY <1>1, <1>3 DEF Wants, Locks, Shape, Working
<1>5. Shape(p)'
  <2>1. r # Idle
    BY <1>2 DEF Idle
  <2> QED BY <1>2, <1>3, <2>1 DEF Shape, Working, Recovering, Starting, Forking
<1>6. \A d \in Dir : lock[d] = p => d \in Wants(p)'
  BY <1>1 DEF Begin, Shape, Locks
<1> QED BY <1>1, <1>3, <1>4, <1>5, <1>6 DEF ProcTypes

(* The least of the directories still to lock is well defined.             *)
LEMMA NextLock ==
  ASSUME Types, NEW p \in Proc, NEW missing, missing \subseteq Wants(p), missing # {}
  PROVE  (CHOOSE d \in missing : \A e \in missing : d <= e) \in missing
<1>1. \A d \in missing : d \in Nat /\ (d = proc[p].source \/ d = proc[p].dir)
  BY DataAssumption DEF Wants
<1>2. \E d \in missing : \A e \in missing : d <= e
  <2>1. CASE proc[p].source \in missing /\ proc[p].dir \in missing
    <3>1. CASE proc[p].source <= proc[p].dir
      BY <1>1, <2>1, <3>1
    <3>2. CASE proc[p].dir <= proc[p].source
      BY <1>1, <2>1, <3>2
    <3> QED BY <1>1, <2>1, <3>1, <3>2
  <2>2. CASE ~(proc[p].source \in missing /\ proc[p].dir \in missing)
    BY <1>1, <2>2
  <2> QED BY <2>1, <2>2
<1> QED BY <1>2

(* Taking the next lock keeps what the holder says it wants.               *)
LEMMA LockNextTypes ==
  ASSUME Types, NEW p \in Proc, LockNext(p)
  PROVE  LockTypes' /\ ProcTypes'
<1>1. /\ proc \in [Proc -> Record] /\ lock \in [Dir -> Proc \cup {Nobody}] /\ proc[p] \in Record
      /\ \A q \in Proc : Shape(q)
      /\ \A d \in Dir : \A q \in Proc : lock[d] = q => d \in Wants(q)
  BY DEF Types, LockTypes, ProcTypes
<1>2. proc[p].at = "lock" /\ proc[p] # Idle /\ proc[p].kind # "none" /\ proc[p].dir \in Dir
  BY <1>1 DEF LockNext, Idle, Shape
<1> DEFINE missing == {d \in Wants(p) : lock[d] # p}
           next == CHOOSE d \in missing : \A e \in missing : d <= e
           work == IF proc[p].kind = "fork" THEN proc[p].source ELSE proc[p].dir
<1>3. CASE missing = {}
  <2> DEFINE r == [proc[p] EXCEPT !.at = "recover", !.work = work]
  <2>1. proc' = [proc EXCEPT ![p] = r] /\ lock' = lock
    BY <1>3 DEF LockNext
  <2>2. /\ r \in Record /\ r.at = "recover" /\ r.work = work /\ r.kind = proc[p].kind
        /\ r.source = proc[p].source /\ r.dir = proc[p].dir
    BY <1>1 DEF Record, Places
  <2>3. work \in Wants(p) /\ (r.kind # "fork" => work = r.dir)
    BY <1>1, <1>2, <2>2 DEF Wants, Shape
  <2>4. Wants(p) \subseteq Locks(p)
    BY <1>3 DEF Wants, Locks
  <2> HIDE DEF r, work
  <2>5. ProcTypes'
    BY <1>2, <2>1, <2>2, <2>3, <2>4, Moves DEF Recovering, Starting, Forking
  <2> QED BY <1>1, <2>1, <2>5 DEF LockTypes
<1>4. CASE missing # {} /\ lock[next] = Nobody
  <2>1. next \in missing
    BY <1>4, NextLock
  <2> HIDE DEF next
  <2>2. lock' = [lock EXCEPT ![next] = p] /\ proc' = proc /\ next \in Dir
    BY <1>4, <2>1 DEF LockNext, next, Wants
  <2>3. LockTypes'
    BY <1>1, <2>2 DEF LockTypes
  <2>4. \A q \in Proc : Wants(q)' = Wants(q) /\ Locks(q) \subseteq Locks(q)'
    BY <1>1, <1>4, <2>2, DataAssumption DEF Wants, Locks
  <2>5. \A q \in Proc : Shape(q)'
    <3>1. \A q \in Proc : Locks(q)' # Locks(q) => q = p
      BY <1>1, <1>4, <2>2, DataAssumption DEF Locks
    <3> QED BY <1>1, <1>2, <2>2, <2>4, <3>1 DEF Shape, Working
  <2>6. \A d \in Dir : \A q \in Proc : lock'[d] = q => d \in Wants(q)'
    BY <1>1, <2>1, <2>2, <2>4
  <2> QED BY <1>1, <2>2, <2>3, <2>5, <2>6 DEF ProcTypes
<1>5. CASE missing # {} /\ lock[next] # Nobody
  <2> DEFINE r == [proc[p] EXCEPT !.at = "release"]
  <2>1. proc' = [proc EXCEPT ![p] = r] /\ lock' = lock
    BY <1>5 DEF LockNext, Go
  <2>2. /\ r \in Record /\ r.at = "release" /\ r.kind = proc[p].kind
        /\ r.source = proc[p].source /\ r.dir = proc[p].dir
    BY <1>1 DEF Record, Places
  <2> HIDE DEF r
  <2>3. ProcTypes'
    BY <1>2, <2>1, <2>2, Moves DEF Recovering, Starting, Forking
  <2> QED BY <1>1, <2>1, <2>3 DEF LockTypes
<1> QED BY <1>3, <1>4, <1>5

(* The other steps: the process keeps its locks and acts on a directory it *)
(* has locked.                                                             *)
LEMMA RecoveringTypes ==
  ASSUME Types, NEW p \in Proc,
         \/ Recover(p) \/ DropPrevious(p) \/ DropData(p) \/ Restore(p) \/ Recovered(p)
  PROVE  TreeTypes' /\ lock' = lock /\ ProcTypes'
<1>1. /\ TreeTypes /\ ProcTypes /\ Working(p) /\ Shape(p) /\ proc[p] \in Record
      /\ proc[p].at \in Recovering /\ proc[p].work \in Dir /\ proc[p].dir \in Dir
  BY DEF Types, ProcTypes, Shape, Recover, DropPrevious, DropData, Restore, Recovered, Working,
         Recovering, Wants, Idle
<1>2. TreeTypes'
  BY <1>1 DEF TreeTypes, Tree, Entire, Eroded, Recover, DropPrevious, DropData, Restore,
      Recovered, Falls
<1>3. lock' = lock
  BY DEF Recover, DropPrevious, DropData, Restore, Recovered
<1>4. ASSUME NEW at \in Places \ {"none"}, Go(p, at),
             at \in Starting => proc[p].kind = "start",
             at \in Forking => proc[p].kind \in {"fork", "published"},
             at \in Forking \ {"clean"} => proc[p].kind = "fork"
      PROVE  ProcTypes'
  BY <1>1, <1>3, <1>4, Goes
<1>5. CASE proc' = proc
  <2>1. \A q \in Proc : Wants(q)' = Wants(q) /\ Locks(q)' = Locks(q)
    BY <1>3, <1>5 DEF Wants, Locks
  <2> QED BY <1>1, <1>2, <1>3, <1>5, <2>1 DEF ProcTypes, Shape, Working
<1>6. ASSUME NEW at \in Recovering, Go(p, at)
      PROVE  ProcTypes'
  <2>1. at \in Places \ {"none"} /\ at \notin Starting \cup Forking
    BY DEF Recovering, Starting, Forking, Places
  <2> QED BY <1>6, <1>4, <2>1
<1>7. CASE Recover(p)
  <2>1. \E at \in Recovering : Go(p, at)
    BY <1>7 DEF Recover, Recovering
  <2> QED BY <1>6, <1>2, <1>3, <2>1
<1>8. CASE DropPrevious(p) \/ DropData(p) \/ Restore(p)
  <2>1. proc' = proc \/ \E at \in Recovering : Go(p, at)
    BY <1>8 DEF DropPrevious, DropData, Restore, Recovering
  <2> QED BY <1>6, <1>2, <1>3, <1>5, <2>1
<1>9. CASE Recovered(p)
  <2>1. proc[p].kind # "none"
    BY <1>1, <1>9 DEF Shape, Recovered, Idle
  <2>2. CASE proc[p].kind = "start"
    <3>1. Go(p, "initialize")
      BY <1>9, <2>2 DEF Recovered
    <3> QED BY <1>2, <1>3, <1>4, <2>2, <3>1 DEF Starting, Forking, Places
  <2>3. CASE proc[p].kind # "start" /\ proc[p].work = proc[p].source
    <3> DEFINE r == [proc[p] EXCEPT !.at = "recover", !.work = proc[p].dir]
    <3>1. proc' = [proc EXCEPT ![p] = r]
      BY <1>9, <2>3 DEF Recovered
    <3>2. /\ r \in Record /\ r.at = "recover" /\ r.kind = proc[p].kind
          /\ r.source = proc[p].source /\ r.dir = proc[p].dir /\ r.work = proc[p].dir
      BY <1>1 DEF Record, Places
    <3>3. proc[p] # Idle /\ Wants(p) \subseteq Locks(p) /\ proc[p].dir \in Wants(p)
      BY <1>1, <2>1 DEF Idle, Shape, Wants
    <3> HIDE DEF r
    <3>4. ProcTypes'
      BY <1>1, <1>3, <2>1, <3>1, <3>2, <3>3, Moves DEF Recovering, Starting, Forking
    <3> QED BY <1>2, <1>3, <3>4
  <2>4. CASE proc[p].kind # "start" /\ proc[p].work # proc[p].source
    <3>1. \/ proc[p].kind = "published" /\ Go(p, "clean")
          \/ proc[p].kind # "published" /\ (Go(p, "copy") \/ Go(p, "release"))
      BY <1>9, <2>4 DEF Recovered, Go
    <3>2. proc[p].kind \in {"fork", "published"}
      BY <1>1, <2>1, <2>4 DEF Record
    <3> QED BY <1>2, <1>3, <1>4, <3>1, <3>2 DEF Starting, Forking, Places
  <2> QED BY <2>2, <2>3, <2>4
<1> QED BY <1>7, <1>8, <1>9

(* The steps of a start keep the shape of the tree and of the process, and *)
(* no lock moves.                                                          *)
LEMMA StartingTypes ==
  ASSUME Types, NEW p \in Proc,
         \/ Initialize(p) \/ Make(p) \/ PublishNew(p) \/ Write(p) \/ Close(p)
  PROVE  TreeTypes' /\ lock' = lock /\ ProcTypes'
<1>1. /\ TreeTypes /\ ProcTypes /\ Working(p) /\ Shape(p)
      /\ proc[p].at \in Starting /\ proc[p].kind = "start" /\ proc[p].dir \in Dir
  BY DEF Types, ProcTypes, Shape, Initialize, Make, PublishNew, Write, Close, Working, Starting,
      Idle
<1>2. TreeTypes'
  BY <1>1 DEF TreeTypes, Tree, Entire, Eroded, Initialize, Make, PublishNew, Write, Close, tree
<1>3. lock' = lock
  BY DEF Initialize, Make, PublishNew, Write, Close
<1>4. proc' = proc \/ \E at \in Starting \cup {"release"} : Go(p, at)
  BY DEF Initialize, Make, PublishNew, Write, Close, Starting
<1>5. CASE proc' = proc
  <2>1. \A q \in Proc : Wants(q)' = Wants(q) /\ Locks(q)' = Locks(q)
    BY <1>3, <1>5 DEF Wants, Locks
  <2> QED BY <1>1, <1>2, <1>3, <1>5, <2>1 DEF ProcTypes, Shape, Working
<1>6. CASE \E at \in Starting \cup {"release"} : Go(p, at)
  <2>1. PICK at \in Starting \cup {"release"} : Go(p, at)
    BY <1>6
  <2>2. at \in Places \ {"none"} /\ at \notin Forking \cup Recovering
    BY DEF Places, Starting, Forking, Recovering
  <2> QED BY <1>1, <1>2, <1>3, <2>1, <2>2, Goes
<1> QED BY <1>4, <1>5, <1>6

(* The steps of a fork keep the shape of the tree and of the process, and  *)
(* no lock moves.                                                          *)
LEMMA ForkingTypes ==
  ASSUME Types, NEW p \in Proc,
         \/ Copy(p) \/ Swap(p) \/ Moved(p) \/ Synced(p) \/ Undo(p) \/ Clean(p)
  PROVE  TreeTypes' /\ lock' = lock /\ ProcTypes'
<1>1. /\ TreeTypes /\ ProcTypes /\ Working(p) /\ Shape(p) /\ proc[p] \in Record
      /\ proc[p].at \in Forking /\ proc[p].kind \in {"fork", "published"} /\ Target(p) \in Dir
      /\ proc[p].source \in Dir
  BY DEF Types, ProcTypes, Shape, Copy, Swap, Moved, Synced, Undo, Clean, Working, Forking, Idle,
      Target
<1>2. TreeTypes'
  BY <1>1 DEF TreeTypes, Tree, Entire, Eroded, Copy, Swap, Moved, Synced, Undo, Clean, Falls, tree
<1>3. lock' = lock
  BY DEF Copy, Swap, Moved, Synced, Undo, Clean
<1>4. \/ proc' = proc
      \/ \E at \in {"clean", "release"} : Go(p, at)
      \/ proc[p].at # "clean" /\ \E at \in {"swap", "moved", "synced", "undo"} : Go(p, at)
      \/ proc[p].at # "clean" /\ \E at \in {"clean", "recover"} : Published(p, at)
  BY DEF Copy, Swap, Moved, Synced, Undo, Clean
<1>5. CASE proc' = proc
  <2>1. \A q \in Proc : Wants(q)' = Wants(q) /\ Locks(q)' = Locks(q)
    BY <1>3, <1>5 DEF Wants, Locks
  <2> QED BY <1>1, <1>2, <1>3, <1>5, <2>1 DEF ProcTypes, Shape, Working
<1>6. ASSUME NEW at \in {"clean", "release", "swap", "moved", "synced", "undo"}, Go(p, at),
             at \notin {"clean", "release"} => proc[p].at # "clean"
      PROVE  ProcTypes'
  <2>1. at \in Places \ {"none"} /\ at \notin Starting \cup Recovering
    BY DEF Places, Starting, Recovering
  <2>2. at \in Forking \ {"clean"} => proc[p].kind = "fork"
    BY <1>1, <1>6 DEF Shape, Forking
  <2> QED BY <1>1, <1>3, <1>6, <2>1, <2>2, Goes
<1>7. ASSUME NEW at \in {"clean", "recover"}, Published(p, at)
      PROVE  ProcTypes'
  <2> DEFINE r == [proc[p] EXCEPT !.at = at, !.kind = "published", !.work = Target(p)]
  <2>1. proc' = [proc EXCEPT ![p] = r]
    BY <1>7 DEF Published
  <2>2. /\ r \in Record /\ r.at = at /\ r.kind = "published"
        /\ r.source = proc[p].source /\ r.dir = proc[p].dir /\ r.work = proc[p].dir
    BY <1>1 DEF Record, Places, Target
  <2>3. /\ proc[p] # Idle /\ Wants(p) \subseteq Locks(p) /\ proc[p].dir \in Wants(p)
    BY <1>1 DEF Idle, Shape, Wants, Target
  <2> HIDE DEF r
  <2> QED BY <1>1, <1>3, <2>1, <2>2, <2>3, Moves DEF Starting, Forking
<1> QED BY <1>2, <1>3, <1>4, <1>5, <1>6, <1>7

(* Every step keeps the state well formed.                                 *)
LEMMA TypesStep == Types /\ [Next]_vars => Types'
<1> SUFFICES ASSUME Types, [Next]_vars PROVE Types'
  OBVIOUS
<1>1. lock' = lock => LockTypes'
  BY DEF Types, LockTypes
<1>2. UNCHANGED tree => TreeTypes'
  BY DEF Types, TreeTypes, tree
<1>3. UNCHANGED <<lock, proc>> => ProcTypes'
  <2> SUFFICES ASSUME UNCHANGED <<lock, proc>> PROVE ProcTypes'
    OBVIOUS
  <2>1. \A q \in Proc : Wants(q)' = Wants(q) /\ Locks(q)' = Locks(q)
    BY DEF Wants, Locks
  <2> QED BY <2>1 DEF Types, ProcTypes, Shape, Working
<1>4. ASSUME NEW p \in Proc, Begin(p)
      PROVE  Types'
  BY <1>1, <1>2, <1>4, BeginTypes DEF Begin, Types
<1>5. ASSUME NEW p \in Proc, LockNext(p)
      PROVE  Types'
  BY <1>2, <1>5, LockNextTypes DEF LockNext, Types
<1>6. ASSUME NEW p \in Proc, Release(p) \/ Die(p)
      PROVE  Types'
  <2>1. LockTypes' /\ ProcTypes'
    BY <1>6, LetsGo DEF Release, Die
  <2>2. TreeTypes'
    <3>1. UNCHANGED <<previous, temporary, staging>>
      BY <1>6 DEF Release, Die, tree
    <3>2. data' = data \/ \E d : data' = [data EXCEPT ![d] = "torn"]
      BY <1>6 DEF Release, Die, tree
    <3> QED BY <3>1, <3>2 DEF Types, TreeTypes, Tree, Entire
  <2> QED BY <2>1, <2>2 DEF Types
<1>7. ASSUME NEW d \in Dir, Precreate(d)
      PROVE  Types'
  <2>1. TreeTypes'
    BY <1>7 DEF Types, TreeTypes, Precreate, Tree
  <2> QED BY <1>1, <1>3, <1>7, <2>1 DEF Types, Precreate
<1>8. CASE UNCHANGED vars
  BY <1>1, <1>2, <1>3, <1>8 DEF vars, Types
<1> QED
  BY <1>1, <1>4, <1>5, <1>6, <1>7, <1>8, RecoveringTypes, StartingTypes, ForkingTypes
     DEF Next, Step, Types
------------------------------------------------------------------------------
SameTree(d) ==
  /\ data'[d] = data[d] /\ previous'[d] = previous[d]
  /\ temporary'[d] = temporary[d] /\ staging'[d] = staging[d]

(* Two processes never work on the same directory.                         *)
LEMMA Exclusive ==
  ASSUME Types, NEW p \in Proc, NEW q \in Proc, p # q, Working(p), Working(q)
  PROVE  Wants(p) \cap Wants(q) = {}
BY DEF Types, ProcTypes, Shape, Locks, Wants

(* What a process at work refers to, it has locked.                        *)
LEMMA Mentions ==
  ASSUME Types, NEW p \in Proc, Working(p)
  PROVE  /\ proc[p].dir \in Wants(p)
         /\ proc[p].at \in Recovering => proc[p].work \in Wants(p)
         /\ proc[p].at \in Forking => proc[p].source \in Wants(p)
BY DEF Types, ProcTypes, Shape, Wants, Working, Idle, Recovering, Starting, Forking

(* Nobody's knowledge goes stale while the directories it locked stay.     *)
LEMMA Frame ==
  ASSUME Types, NEW q \in Proc, Knows(q), proc'[q] = proc[q],
         Working(q) => \A d \in Wants(q) : SameTree(d)
  PROVE  Knows(q)'
<1>1. CASE ~Working(q)
  BY <1>1 DEF Knows, Working, Recovering, Starting, Forking
<1>2. CASE Working(q)
  BY <1>2, Mentions DEF Knows, Working, Recovering, Starting, Forking, SameTree
<1> QED BY <1>1, <1>2

(* Only the one that is taking its publication back meets an unfinished    *)
(* removal among the directories it has locked.                            *)
LEMMA MeetsNone ==
  ASSUME Types, Unfinished, NEW p \in Proc, NEW d \in Wants(p), Wants(p) \subseteq Locks(p),
         proc[p].at # "undo" \/ d # proc[p].dir
  PROVE  data[d] # "parts"
BY DEF Unfinished, Undoes, Locks, Wants

(* A step of p leaves everything that it has not locked as it was.         *)
LEMMA Others ==
  ASSUME Types, Whole, NEW p \in Proc, Working(p), lock' = lock,
         \A q \in Proc \ {p} : proc'[q] = proc[q],
         \A d \in Dir \ Wants(p) : SameTree(d),
         Knows(p)',
         \A d \in Wants(p) :
           Recoverable(d)' /\ (data'[d] = "parts" => proc'[p].at = "undo" /\ proc'[p].dir = d)
  PROVE  Whole'
<1>1. \A q \in Proc \ {p} : Knows(q)'
  <2> SUFFICES ASSUME NEW q \in Proc \ {p} PROVE Knows(q)'
    OBVIOUS
  <2>1. Working(q) => \A d \in Wants(q) : d \in Dir \ Wants(p)
    BY Exclusive DEF Wants
  <2> QED BY <2>1, Frame DEF Whole
<1>2. \A d \in Dir \ Wants(p) : Recoverable(d)'
  BY DEF Whole, Recoverable, SameTree
<1>3. Unfinished'
  <2> SUFFICES ASSUME NEW d \in Dir, data'[d] = "parts" PROVE \E q \in Proc : Undoes(q, d)'
    BY DEF Unfinished
  <2>1. CASE d \in Wants(p)
    <3>1. lock[d] = p
      BY <2>1 DEF Types, ProcTypes, Shape, Locks
    <3> QED BY <2>1, <3>1 DEF Undoes
  <2>2. CASE d \notin Wants(p)
    <3>1. PICK q \in Proc : Undoes(q, d)
      BY <2>2 DEF Whole, Unfinished, SameTree
    <3>2. q # p
      BY <2>2, <3>1 DEF Undoes, Wants
    <3> QED BY <3>1, <3>2 DEF Undoes
  <2> QED BY <2>1, <2>2
<1> QED BY <1>1, <1>2, <1>3 DEF Whole

(* The contents of directories, whatever a process does that is not at     *)
(* work yet or any more.                                                   *)
LEMMA Untouched ==
  ASSUME Types, Whole, NEW p \in Proc, UNCHANGED tree,
         \A q \in Proc \ {p} : proc'[q] = proc[q],
         proc'[p].at \in {"none", "lock", "recover", "release"}, proc[p].at # "undo",
         \A d \in Dir : \A q \in Proc \ {p} : lock[d] = q => lock'[d] = q
  PROVE  Whole'
<1>1. \A d \in Dir : SameTree(d) /\ Recoverable(d)'
  BY DEF SameTree, tree, Whole, Recoverable
<1>2. \A q \in Proc \ {p} : Knows(q)'
  BY <1>1, Frame DEF Whole, Wants
<1>3. Knows(p)'
  BY DEF Knows, Recovering, Starting, Forking
<1>4. Unfinished'
  <2> SUFFICES ASSUME NEW d \in Dir, data[d] = "parts" PROVE \E q \in Proc : Undoes(q, d)'
    BY DEF Unfinished, tree
  <2>1. PICK q \in Proc \ {p} : Undoes(q, d)
    BY DEF Whole, Unfinished, Undoes
  <2> QED BY <2>1 DEF Undoes
<1> QED BY <1>1, <1>2, <1>3, <1>4 DEF Whole

(* A process that goes on changes only where it is.                        *)
LEMMA GoFields ==
  ASSUME proc \in [Proc -> Record], NEW p \in Proc, NEW at, Go(p, at)
  PROVE  /\ proc'[p].at = at /\ proc'[p].kind = proc[p].kind /\ proc'[p].work = proc[p].work
         /\ proc'[p].source = proc[p].source /\ proc'[p].dir = proc[p].dir
BY DEF Go, Record

(* The steps of recoverPglitePublication lose nothing, wherever a crash    *)
(* left the directory.                                                     *)
LEMMA RecoveringWhole ==
  ASSUME Types, Whole, NEW p \in Proc,
         \/ Recover(p) \/ DropPrevious(p) \/ DropData(p) \/ Restore(p) \/ Recovered(p)
  PROVE  Whole'
<1>1. /\ TreeTypes /\ Shape(p) /\ proc \in [Proc -> Record] /\ Working(p) /\ Knows(p)
      /\ proc[p].at \in Recovering /\ proc[p].work \in Wants(p) /\ proc[p].dir \in Wants(p)
      /\ \A d \in Wants(p) : d \in Dir /\ Recoverable(d)
      /\ \A d \in Wants(p) : data[d] # "parts"
  <2>1. Working(p) /\ proc[p].at # "undo" /\ proc[p].at \in Recovering
    BY DEF Recover, DropPrevious, DropData, Restore, Recovered, Working, Recovering
  <2>2. /\ TreeTypes /\ Shape(p) /\ proc \in [Proc -> Record] /\ Knows(p)
        /\ proc[p].work \in Wants(p) /\ proc[p].dir \in Wants(p)
        /\ \A d \in Wants(p) : d \in Dir /\ Recoverable(d)
    BY <2>1, Mentions DEF Types, ProcTypes, Wants, Whole
  <2> QED BY <2>1, <2>2, MeetsNone DEF Shape, Whole
<1>2. /\ \A q \in Proc \ {p} : proc'[q] = proc[q]
      /\ \A d \in Dir \ Wants(p) : SameTree(d)
      /\ lock' = lock
  BY <1>1 DEF Recover, DropPrevious, DropData, Restore, Recovered, SameTree, Falls, Go, TreeTypes
<1>3. Knows(p)' /\ \A d \in Wants(p) : Recoverable(d)'
  <2>1. CASE Recover(p)
    <3> DEFINE w == proc[p].work
    <3>1. /\ data' = data /\ previous' = previous /\ temporary'[w] = "absent"
          /\ \E at \in {"recovered", "dropPrevious", "dropData", "restore"} :
               /\ Go(p, at)
               /\ at = "recovered" <=> previous[w] = "absent"
               /\ at = "dropPrevious" => Database(data[w])
               /\ at = "dropData" => ~Database(data[w])
               /\ at = "restore" => data[w] = "absent"
      BY <1>1, <2>1 DEF Recover, TreeTypes
    <3>2. Database(data[w]) <=> data[w] \in Entire
      BY <1>1 DEF Database
    <3> QED BY <1>1, <3>1, <3>2, GoFields DEF Knows, Recoverable, Recovering, Starting, Forking
  <2>2. CASE DropPrevious(p)
    <3> DEFINE w == proc[p].work
    <3>1. /\ proc[p].at = "dropPrevious" /\ w \in Wants(p) /\ data[w] \in Entire
          /\ data' = data /\ temporary' = temporary /\ staging' = staging
          /\ \A d \in Dir : d # w => previous'[d] = previous[d]
          /\ temporary[w] = "absent"
      BY <1>1, <2>2 DEF DropPrevious, Falls, TreeTypes, Knows, Recovering
    <3>2. \/ proc' = proc
          \/ Go(p, "recovered") /\ previous'[w] = "absent"
      BY <1>1, <2>2 DEF DropPrevious, TreeTypes
    <3>3. Knows(p)'
      BY <1>1, <3>1, <3>2, GoFields DEF Knows, Recovering, Starting, Forking
    <3>4. \A d \in Wants(p) : Recoverable(d)'
      BY <1>1, <3>1, DataAssumption DEF Recoverable, Entire, Eroded
    <3> QED BY <3>3, <3>4
  <2>3. CASE DropData(p)
    <3> DEFINE w == proc[p].work
    <3>1. /\ proc[p].at = "dropData" /\ w \in Wants(p) /\ previous[w] # "absent"
          /\ previous' = previous /\ temporary' = temporary /\ staging' = staging
          /\ \A d \in Dir : d # w => data'[d] = data[d]
          /\ temporary[w] = "absent" /\ data[w] \notin Entire
      BY <1>1, <2>3 DEF DropData, TreeTypes, Knows, Recovering
    <3>2. \/ proc' = proc /\ data'[w] = "shell"
          \/ Go(p, "restore") /\ data'[w] = "absent"
      BY <1>1, <2>3 DEF DropData, TreeTypes
    <3>3. Knows(p)'
      <4>1. data'[w] \notin Entire
        BY <3>2, DataAssumption DEF Entire
      <4> QED BY <1>1, <3>1, <3>2, <4>1, GoFields DEF Knows, Recovering, Starting, Forking
    <3>4. \A d \in Wants(p) : Recoverable(d)'
      BY <1>1, <3>1, <3>2, DataAssumption DEF Recoverable
    <3> QED BY <3>3, <3>4
  <2>4. CASE Restore(p)
    <3> DEFINE w == proc[p].work
    <3>1. /\ data[w] = "absent" /\ temporary[w] = "absent" /\ w \in Wants(p)
          /\ data'[w] = previous[w] /\ previous'[w] = "absent" /\ temporary' = temporary
          /\ \A d \in Dir : d # w => data'[d] = data[d] /\ previous'[d] = previous[d]
          /\ Go(p, "recovered")
      BY <1>1, <2>4 DEF Restore, Knows, TreeTypes, Recovering
    <3>2. previous[w] \in {"absent", "empty"} \cup Entire
      BY <1>1, <3>1, DataAssumption DEF Recoverable, Entire
    <3>3. \A d \in Wants(p) : Recoverable(d)'
      BY <1>1, <3>1, <3>2, DataAssumption DEF Recoverable, Entire, Eroded
    <3>4. Knows(p)'
      BY <1>1, <3>1, GoFields DEF Knows, Recovering, Starting, Forking
    <3> QED BY <3>3, <3>4
  <2>5. CASE Recovered(p)
    <3> DEFINE w == proc[p].work
    <3>1. /\ proc[p].at = "recovered" /\ w \in Wants(p) /\ previous[w] = "absent"
          /\ temporary[w] = "absent"
          /\ previous' = previous /\ temporary' = temporary /\ staging' = staging
      BY <1>1, <2>5 DEF Recovered, Knows, Recovering
    <3>2. CASE proc[p].kind = "start"
      <4>1. w = proc[p].dir /\ Go(p, "initialize")
        BY <1>1, <2>5, <3>2 DEF Recovered, Shape
      <4>2. /\ \A d \in Dir : d # w => data'[d] = data[d]
            /\ data'[w] = IF data[w] = "absent" THEN "empty" ELSE data[w]
        BY <1>1, <2>5, <3>2, <4>1 DEF Recovered, TreeTypes
      <4>3. Knows(p)'
        BY <1>1, <3>1, <4>1, <4>2, GoFields, DataAssumption DEF Knows, Recovering, Starting, Forking
      <4>4. \A d \in Wants(p) : Recoverable(d)'
        BY <1>1, <3>1, <4>2, DataAssumption DEF Recoverable, Entire, Eroded
      <4> QED BY <4>3, <4>4
    <3>3. CASE proc[p].kind # "start"
      <4>1. data' = data
        BY <2>5, <3>3 DEF Recovered
      <4>2. \A d \in Wants(p) : Recoverable(d)'
        BY <1>1, <3>1, <4>1 DEF Recoverable
      <4>3. \/ proc'[p].at \in {"recover", "clean", "release"}
            \/ /\ Go(p, "copy") /\ data[proc[p].source] \in Entire
               /\ proc[p].kind = "fork" /\ w # proc[p].source
        <5>1. proc[p] # Idle /\ proc[p] \in Record
          BY <1>1, <3>1 DEF Idle
        <5>2. proc[p].kind \in {"fork", "published"}
          BY <1>1, <3>3, <5>1 DEF Shape, Record
        <5>3. CASE w = proc[p].source
          <6>1. proc' = [proc EXCEPT ![p].at = "recover", ![p].work = proc[p].dir]
            BY <2>5, <3>3, <5>3 DEF Recovered
          <6> QED BY <1>1, <5>1, <6>1 DEF Record
        <5>4. CASE w # proc[p].source
          <6>1. \/ proc[p].kind = "published" /\ Go(p, "clean")
                \/ /\ proc[p].kind = "fork"
                   /\ Go(p, IF Database(data[proc[p].source]) THEN "copy" ELSE "release")
            BY <2>5, <3>3, <5>2, <5>4 DEF Recovered, Go
          <6>2. Database(data[proc[p].source]) => data[proc[p].source] \in Entire
            BY <1>1, <5>2, <3>1, Mentions DEF Database, Shape, Wants
          <6> QED BY <1>1, <5>4, <6>1, <6>2, GoFields
        <5> QED BY <5>3, <5>4
      <4>4. proc[p].kind = "fork" /\ w # proc[p].source => w = proc[p].dir
        BY <3>1 DEF Wants
      <4>5. Knows(p)'
        BY <1>1, <3>1, <4>1, <4>3, <4>4, GoFields DEF Knows, Recovering, Starting, Forking
      <4> QED BY <4>2, <4>5
    <3> QED BY <3>2, <3>3
  <2> QED BY <2>1, <2>2, <2>3, <2>4, <2>5
<1>4. \A d \in Wants(p) : data'[d] # "parts"
  <2>1. CASE DropData(p) \/ Restore(p)
    <3>1. /\ \A d \in Dir : d # proc[p].work => data'[d] = data[d]
          /\ data'[proc[p].work] \in {"shell", "absent", previous[proc[p].work]}
          /\ Restore(p) => data[proc[p].work] = "absent"
          /\ DropData(p) => data'[proc[p].work] # "parts"
      BY <1>1, <2>1 DEF DropData, Restore, TreeTypes, Knows, Recovering
    <3> QED BY <1>1, <2>1, <3>1, DataAssumption DEF Recoverable, Entire
  <2>2. CASE Recover(p) \/ DropPrevious(p) \/ Recovered(p)
    BY <1>1, <2>2 DEF Recover, DropPrevious, Recovered, TreeTypes
  <2> QED BY <2>1, <2>2
<1> QED BY <1>1, <1>2, <1>3, <1>4, Others

(* The steps of a start lose nothing: the new database is published by one *)
(* rename.                                                                 *)
LEMMA StartingWhole ==
  ASSUME Types, Whole, NEW p \in Proc,
         \/ Initialize(p) \/ Make(p) \/ PublishNew(p) \/ Write(p) \/ Close(p)
  PROVE  Whole'
<1>0. PICK d : d = proc[p].dir
  OBVIOUS
<1>1. /\ TreeTypes /\ proc \in [Proc -> Record] /\ Working(p)
      /\ proc[p].at \in Starting /\ d \in Wants(p) /\ d \in Dir
      /\ \A e \in Wants(p) : e \in Dir /\ Recoverable(e) /\ data[e] # "parts"
      /\ previous[d] = "absent" /\ temporary[d] = "absent"
      /\ proc[p].at = "initialize" => data[d] # "absent"
      /\ proc[p].at \in {"make", "publish"} => data[d] = "empty"
      /\ proc[p].at = "publish" => staging[d] \in Version
      /\ proc[p].at = "open" => data[d] \in Entire /\ staging[d] = "absent"
  <2>1. /\ Working(p) /\ proc[p].at \in Starting /\ proc[p].at # "undo"
    BY DEF Initialize, Make, PublishNew, Write, Close, Working, Starting
  <2>2. \A e \in Wants(p) : e \in Dir /\ Recoverable(e) /\ data[e] # "parts"
    BY <2>1, MeetsNone DEF Whole, Wants, Types, ProcTypes, Shape
  <2> QED BY <1>0, <2>1, <2>2, Mentions DEF Types, ProcTypes, Wants, Whole, Knows
<1>2. /\ \A q \in Proc \ {p} : proc'[q] = proc[q]
      /\ \A e \in Dir \ {d} : SameTree(e)
      /\ previous' = previous /\ temporary' = temporary /\ lock' = lock
  BY <1>0, <1>1 DEF Initialize, Make, PublishNew, Write, Close, SameTree, Go, TreeTypes, tree
<1>3. data[d] \in {"empty"} \cup Entire /\ data[d] \notin Eroded
  BY <1>1, DataAssumption DEF Recoverable, TreeTypes, Tree, Eroded, Starting, Entire
<1>4. /\ data'[d] \in {"empty"} \cup Entire
      /\ data[d] \in Entire => data'[d] \in Entire
  BY <1>0, <1>1, <1>3, DataAssumption DEF Initialize, Make, PublishNew, Write, Close, TreeTypes,
      tree, Entire
<1>5. Knows(p)'
  <2>1. CASE Initialize(p)
    <3>1. CASE data[d] # "empty"
      <4>1. data[d] \in Entire /\ data' = data /\ staging'[d] = "absent" /\ Go(p, "open")
        BY <1>0, <1>1, <1>3, <2>1, <3>1 DEF Initialize, Database, TreeTypes
      <4> QED BY <1>0, <1>1, <1>2, <4>1, GoFields DEF Knows, Recovering, Starting, Forking
    <3>2. CASE data[d] = "empty"
      <4>1. /\ data' = data
            /\ \/ Go(p, "make")
               \/ Go(p, "publish") /\ staging'[d] \in Version
        BY <1>0, <1>1, <2>1, <3>2 DEF Initialize, TreeTypes
      <4> QED BY <1>0, <1>1, <1>2, <3>2, <4>1, GoFields DEF Knows, Recovering, Starting, Forking
    <3> QED BY <3>1, <3>2
  <2>2. CASE Make(p)
    <3>1. /\ data' = data /\ data[d] = "empty"
          /\ \/ Go(p, "release")
             \/ Go(p, "publish") /\ staging'[d] \in Version
      BY <1>0, <1>1, <2>2 DEF Make, TreeTypes
    <3> QED BY <1>0, <1>1, <1>2, <3>1, GoFields DEF Knows, Recovering, Starting, Forking
  <2>3. CASE PublishNew(p)
    <3>1. data'[d] \in Entire /\ staging'[d] = "absent" /\ Go(p, "open")
      BY <1>0, <1>1, <2>3 DEF PublishNew, TreeTypes, Entire
    <3> QED BY <1>0, <1>1, <1>2, <3>1, GoFields DEF Knows, Recovering, Starting, Forking
  <2>4. CASE Write(p)
    <3>1. data'[d] \in Entire /\ staging' = staging /\ proc' = proc /\ proc[p].at = "open"
      BY <1>0, <1>1, <2>4 DEF Write, TreeTypes, Entire
    <3> QED BY <1>0, <1>1, <1>2, <3>1 DEF Knows, Recovering, Starting, Forking
  <2>5. CASE Close(p)
    BY <1>0, <1>1, <2>5, GoFields DEF Close, Knows, Recovering, Starting, Forking
  <2> QED BY <1>0, <2>1, <2>2, <2>3, <2>4, <2>5
<1>6. \A e \in Wants(p) : Recoverable(e)' /\ data'[e] # "parts"
  <2>1. Recoverable(d)' /\ data'[d] # "parts"
    BY <1>0, <1>1, <1>2, <1>4, DataAssumption DEF Recoverable, Entire, Eroded
  <2> QED BY <1>1, <1>2, <2>1 DEF Recoverable, SameTree
<1> QED BY <1>0, <1>1, <1>2, <1>5, <1>6, Others

(* The steps of a fork lose nothing: what a publication replaces is beside *)
(* it until nothing can take it back any more.                             *)
LEMMA ForkingWhole ==
  ASSUME Types, Whole, NEW p \in Proc,
         \/ Copy(p) \/ Swap(p) \/ Moved(p) \/ Synced(p) \/ Undo(p) \/ Clean(p)
  PROVE  Whole'
<1>0. PICK d, s : d = proc[p].dir /\ s = proc[p].source
  OBVIOUS
<1>1. /\ TreeTypes /\ proc \in [Proc -> Record] /\ Working(p) /\ proc[p] \in Record
      /\ proc[p].at \in Forking /\ d \in Wants(p) /\ d \in Dir /\ s \in Wants(p) /\ s \in Dir \ {d}
      /\ \A e \in Wants(p) : e \in Dir /\ Recoverable(e) /\ (e # d => data[e] # "parts")
      /\ proc[p].at # "undo" => data[d] # "parts"
      /\ Target(p) = d
  <2>1. Working(p) /\ proc[p].at \in Forking
    BY DEF Copy, Swap, Moved, Synced, Undo, Clean, Working, Forking
  <2>2. Shape(p) /\ Wants(p) \subseteq Locks(p) /\ d \in Wants(p) /\ s \in Wants(p)
    BY <1>0, <2>1, Mentions DEF Types, ProcTypes, Shape
  <2>3. /\ \A e \in Wants(p) : e \in Dir /\ Recoverable(e) /\ (e # d => data[e] # "parts")
        /\ proc[p].at # "undo" => data[d] # "parts"
    BY <1>0, <2>2, MeetsNone DEF Whole, Wants
  <2> QED BY <1>0, <2>1, <2>2, <2>3 DEF Types, ProcTypes, Shape, Forking, Wants, Target
<1>2. /\ proc[p].at \in {"copy", "swap"} => previous[d] = "absent"
      /\ proc[p].at \in Forking \ {"clean"} => data[s] \in Entire
      /\ proc[p].at \in {"swap", "moved"} => temporary[d] = data[s]
      /\ proc[p].at = "moved" => data[d] = "absent"
      /\ proc[p].at = "synced" => data[d] = data[s]
      /\ proc[p].at = "undo" => data[d] \in {"absent", data[s]} \cup Eroded
      /\ proc[p].at \in {"moved", "synced", "undo"} => previous[d] \in {"empty"} \cup Entire
  BY <1>0 DEF Whole, Knows
<1>3. /\ \A q \in Proc \ {p} : proc'[q] = proc[q]
      /\ \A e \in Dir \ {d} : SameTree(e)
      /\ staging' = staging /\ lock' = lock
  BY <1>0, <1>1 DEF Copy, Swap, Moved, Synced, Undo, Clean, SameTree, Falls, Go, Published,
      TreeTypes, tree
<1>4. data'[s] = data[s]
  BY <1>0, <1>1, <1>3 DEF SameTree
<1>5. ASSUME NEW at \in {"recover", "clean"}, Published(p, at)
      PROVE  proc'[p].at = at
  BY <1>0, <1>1, <1>5 DEF Published, Record
<1>6. Knows(p)' /\ Recoverable(d)' /\ (data'[d] = "parts" => proc'[p].at = "undo")
  <2>1. CASE Copy(p)
    <3>1. /\ data' = data /\ previous' = previous /\ proc[p].at = "copy"
          /\ \/ proc' = proc
             \/ Go(p, "swap") /\ temporary'[d] = data[s]
             \/ Go(p, "clean")
      BY <1>0, <1>1, <2>1 DEF Copy, TreeTypes
    <3>2. Recoverable(d)'
      BY <1>0, <1>1, <3>1 DEF Recoverable
    <3> QED BY <1>0, <1>1, <1>2, <3>1, <3>2, GoFields DEF Knows, Recovering, Starting, Forking
  <2>2. CASE Swap(p)
    <3>1. \/ /\ data'[d] = temporary[d] /\ previous' = previous
             /\ Published(p, "clean")
          \/ /\ data[d] # "absent" /\ data'[d] = "absent" /\ previous'[d] = data[d]
             /\ temporary' = temporary /\ Go(p, "moved")
          \/ Go(p, "clean") /\ UNCHANGED <<data, previous, temporary>>
      BY <1>0, <1>1, <2>2 DEF Swap, TreeTypes
    <3>2. proc[p].at = "swap" /\ data[s] \in Entire /\ data[d] # "parts"
      BY <1>0, <1>1, <1>2, <2>2 DEF Swap, Forking
    <3>3. data[d] \in {"absent", "empty"} \cup Entire
      BY <1>1, <1>2, <3>2, DataAssumption DEF Recoverable, TreeTypes, Tree, Eroded, Entire
    <3>4. Recoverable(d)' /\ data'[d] # "parts"
      BY <1>0, <1>1, <1>2, <3>1, <3>2, <3>3, DataAssumption DEF Recoverable, Entire, Eroded
    <3>5. Knows(p)'
      BY <1>0, <1>1, <1>2, <1>4, <1>5, <3>1, <3>2, <3>3, GoFields
         DEF Knows, Recovering, Starting, Forking
    <3> QED BY <3>4, <3>5
  <2>3. CASE Moved(p)
    <3>1. /\ previous' = previous /\ proc[p].at = "moved" /\ data[s] \in Entire
          /\ \/ data'[d] = temporary[d] /\ Go(p, "synced")
             \/ data' = data /\ Go(p, "undo")
      BY <1>0, <1>1, <1>2, <2>3 DEF Moved, TreeTypes, Forking
    <3>2. Recoverable(d)' /\ data'[d] # "parts"
      BY <1>0, <1>1, <1>2, <3>1, DataAssumption DEF Recoverable, Entire, Eroded
    <3> QED
      BY <1>0, <1>1, <1>2, <1>4, <3>1, <3>2, GoFields DEF Knows, Recovering, Starting, Forking
  <2>4. CASE Synced(p)
    <3>1. /\ data' = data /\ previous' = previous /\ proc[p].at = "synced"
          /\ Published(p, "recover") \/ Go(p, "undo")
      BY <1>0, <2>4 DEF Synced, tree
    <3>2. Recoverable(d)' /\ data'[d] # "parts"
      BY <1>0, <1>1, <3>1 DEF Recoverable
    <3> QED
      BY <1>0, <1>1, <1>2, <1>5, <3>1, <3>2, GoFields DEF Knows, Recovering, Starting, Forking
  <2>5. CASE Undo(p)
    <3>1. CASE Falls(data, d) /\ UNCHANGED <<previous, proc>>
      <4>1. proc[p].at = "undo" /\ data'[d] \in Eroded
        BY <1>1, <2>5, <3>1 DEF Undo, Falls, TreeTypes, Eroded
      <4>2. Recoverable(d)'
        BY <1>0, <1>2, <3>1, <4>1, DataAssumption DEF Recoverable, Entire
      <4> QED
        BY <1>0, <1>1, <1>2, <1>4, <3>1, <4>1, <4>2 DEF Knows, Recovering, Starting, Forking
    <3>2. CASE data'[d] = previous[d] /\ previous'[d] = "absent" /\ Go(p, "clean")
      <4>1. proc[p].at = "undo"
        BY <2>5 DEF Undo
      <4>2. Recoverable(d)' /\ data'[d] # "parts"
        BY <1>0, <1>1, <1>2, <3>2, <4>1, DataAssumption DEF Recoverable, Entire, Eroded
      <4> QED BY <1>0, <1>1, <3>2, <4>2, GoFields DEF Knows, Recovering, Starting, Forking
    <3> QED BY <1>1, <2>5, <3>1, <3>2 DEF Undo, TreeTypes
  <2>6. CASE Clean(p)
    <3>1. data' = data /\ previous' = previous /\ proc[p].at = "clean" /\ Go(p, "release")
      BY <2>6 DEF Clean
    <3>2. Recoverable(d)' /\ data'[d] # "parts"
      BY <1>0, <1>1, <3>1 DEF Recoverable
    <3> QED BY <1>0, <1>1, <3>1, <3>2, GoFields DEF Knows, Recovering, Starting, Forking
  <2> QED BY <1>0, <2>1, <2>2, <2>3, <2>4, <2>5, <2>6
<1>7. proc'[p].dir = d
  BY <1>0, <1>1, GoFields DEF Copy, Swap, Moved, Synced, Undo, Clean, Published, Record, Go
<1>8. \A e \in Wants(p) :
        Recoverable(e)' /\ (data'[e] = "parts" => proc'[p].at = "undo" /\ proc'[p].dir = e)
  BY <1>0, <1>1, <1>3, <1>6, <1>7 DEF Recoverable, SameTree
<1> QED BY <1>0, <1>1, <1>3, <1>6, <1>8, Others

(* A process that dies in the middle of a removal leaves what is torn.     *)
LEMMA DieWhole ==
  ASSUME Types, Whole, NEW p \in Proc, Die(p)
  PROVE  Whole'
<1>1. /\ proc \in [Proc -> Record] /\ TreeTypes /\ proc'[p] = Idle
      /\ \A q \in Proc \ {p} : proc'[q] = proc[q]
      /\ UNCHANGED <<previous, temporary, staging>>
      /\ \A d \in Dir : data'[d] = IF proc[p].at = "undo" /\ d = proc[p].dir /\ data[d] = "parts"
                                     THEN "torn" ELSE data[d]
      /\ \A d \in Dir : lock'[d] = IF lock[d] = p THEN Nobody ELSE lock[d]
  <2>1. \A d \in Dir : data'[d] = IF proc[p].at = "undo" /\ d = proc[p].dir /\ data[d] = "parts"
                                    THEN "torn" ELSE data[d]
    BY DEF Die, Target, Types, TreeTypes
  <2>2. Idle \in Record
    BY DEF Idle, Record, Places
  <2> QED BY <2>1, <2>2 DEF Die, Unlocked, Types, ProcTypes, TreeTypes
<1>2. \A q \in Proc \ {p} : Knows(q)'
  <2> SUFFICES ASSUME NEW q \in Proc \ {p} PROVE Knows(q)'
    OBVIOUS
  <2>1. Working(q) => \A d \in Wants(q) : d \in Dir /\ (proc[p].at = "undo" => d # proc[p].dir)
    BY Exclusive, Mentions DEF Working, Forking, Wants
  <2> QED BY <1>1, <2>1, Frame DEF Whole, SameTree
<1>3. Knows(p)'
  BY <1>1 DEF Knows, Idle, Recovering, Starting, Forking
<1>4. \A d \in Dir : Recoverable(d)'
  BY <1>1, DataAssumption DEF Whole, Recoverable, Entire, Eroded
<1>5. Unfinished'
  <2> SUFFICES ASSUME NEW d \in Dir, data'[d] = "parts" PROVE \E q \in Proc : Undoes(q, d)'
    BY DEF Unfinished
  <2>1. data[d] = "parts"
    BY <1>1
  <2>2. PICK q \in Proc : Undoes(q, d)
    BY <2>1 DEF Whole, Unfinished
  <2>3. q # p
    BY <1>1, <2>1, <2>2 DEF Undoes
  <2> QED BY <1>1, <2>2, <2>3 DEF Undoes
<1> QED BY <1>2, <1>3, <1>4, <1>5 DEF Whole

(* Every step keeps every directory recoverable, and what each process     *)
(* knows true.                                                             *)
LEMMA WholeStep == Types /\ Whole /\ [Next]_vars => Whole'
<1> SUFFICES ASSUME Types, Whole, [Next]_vars PROVE Whole'
  OBVIOUS
<1>0. proc \in [Proc -> Record] /\ lock \in [Dir -> Proc \cup {Nobody}]
  BY DEF Types, ProcTypes, LockTypes
<1>1. ASSUME NEW p \in Proc, Begin(p) \/ Release(p)
      PROVE  Whole'
  <2>1. proc'[p].at \in {"none", "lock"} /\ UNCHANGED tree /\ proc[p].at # "undo"
    <3>1. CASE Begin(p)
      <4>1. proc'[p].at = "lock"
        BY <1>0, <3>1, Begins
      <4> QED BY <3>1, <4>1 DEF Begin, Idle
    <3>2. CASE Release(p)
      BY <1>0, <3>2 DEF Release, Idle
    <3> QED BY <1>1, <3>1, <3>2
  <2>2. /\ \A q \in Proc \ {p} : proc'[q] = proc[q]
        /\ \A d \in Dir : \A q \in Proc \ {p} : lock[d] = q => lock'[d] = q
    BY <1>0, <1>1 DEF Begin, Release, Unlocked
  <2> QED BY <2>1, <2>2, Untouched
<1>2. ASSUME NEW p \in Proc, LockNext(p)
      PROVE  Whole'
  <2>1. /\ proc'[p].at \in {"lock", "recover", "release"} /\ UNCHANGED tree
        /\ proc[p].at # "undo"
    BY <1>0, <1>2 DEF LockNext, Go, Record
  <2>2. /\ \A q \in Proc \ {p} : proc'[q] = proc[q]
        /\ \A d \in Dir : \A q \in Proc \ {p} : lock[d] = q => lock'[d] = q
    BY <1>0, <1>2, DataAssumption DEF LockNext, Go
  <2> QED BY <2>1, <2>2, Untouched
<1>3. ASSUME NEW d \in Dir, Precreate(d)
      PROVE  Whole'
  <2>1. \A q \in Proc : Working(q) => d \notin Wants(q)
    BY <1>3, DataAssumption DEF Precreate, Types, ProcTypes, Shape, Locks
  <2>2. /\ proc' = proc /\ lock' = lock /\ \A e \in Dir \ {d} : SameTree(e)
        /\ data[d] = "absent" /\ data'[d] = "empty" /\ previous' = previous
    BY <1>3 DEF Precreate, SameTree, Types, TreeTypes
  <2>3. \A q \in Proc : Knows(q)'
    BY <2>1, <2>2, Frame DEF Whole, Wants
  <2>4. \A e \in Dir : Recoverable(e)'
    BY <2>2, DataAssumption DEF Whole, Recoverable, SameTree, Entire, Eroded
  <2>5. Unfinished'
    BY <2>2 DEF Whole, Unfinished, Undoes, SameTree
  <2> QED BY <2>3, <2>4, <2>5 DEF Whole
<1>4. CASE UNCHANGED vars
  BY <1>4 DEF vars, tree, Whole, Knows, Recoverable, Unfinished, Undoes
<1> QED
  BY <1>1, <1>2, <1>3, <1>4, RecoveringWhole, StartingWhole, ForkingWhole, DieWhole DEF Next, Step
------------------------------------------------------------------------------
(* Before anything has run the invariant holds.                            *)
LEMMA InitIInv == Init => IInv
<1> SUFFICES ASSUME Init PROVE IInv
  OBVIOUS
<1>1. Idle \in Record
  BY DEF Idle, Record, Places
<1>2. TreeTypes /\ LockTypes
  BY DEF Init, TreeTypes, LockTypes, Tree
<1>3. ProcTypes
  <2>1. \A p \in Proc : proc[p] = Idle /\ Locks(p) = {}
    BY DataAssumption DEF Init, Locks
  <2>2. \A p \in Proc : Shape(p)
    BY <2>1 DEF Shape, Idle, Working, Recovering, Starting, Forking
  <2> QED BY <1>1, <2>1, <2>2 DEF Init, ProcTypes, Locks
<1>4. Whole
  <2>1. \A p \in Proc : Knows(p)
    BY DEF Init, Knows, Idle, Recovering, Starting, Forking
  <2>2. \A d \in Dir : Recoverable(d)
    BY DEF Init, Recoverable, Eroded
  <2>3. Unfinished
    BY DEF Init, Unfinished
  <2> QED BY <2>1, <2>2, <2>3 DEF Whole
<1> QED BY <1>2, <1>3, <1>4 DEF IInv, Types

(* The state has the shape the code gives it, and whoever works on a       *)
(* directory has its lock, whatever fails and whoever dies.                *)
THEOREM TypeCorrect == Spec => []TypeOK
<1>1. Init => Types
  BY InitIInv DEF IInv
<1>2. Types /\ [Next]_vars => Types'
  BY TypesStep
<1>3. Types => TypeOK
  <2> SUFFICES ASSUME Types PROVE TypeOK
    OBVIOUS
  <2>1. ASSUME NEW p \in Proc
        PROVE  /\ proc[p].kind \in {"none", "start", "fork", "published"}
               /\ {proc[p].source, proc[p].dir, proc[p].work} \subseteq Dir \cup {0}
               /\ proc[p].at \notin {"none", "lock", "release"} => Wants(p) \subseteq Locks(p)
    <3>1. proc[p] \in Record /\ (Working(p) => Wants(p) \subseteq Locks(p))
      BY DEF Types, ProcTypes, Shape
    <3>2. proc[p].at \notin {"none", "lock", "release"} => Working(p)
      BY <3>1 DEF Record, Places, Working, Recovering, Starting, Forking
    <3> QED BY <3>1, <3>2 DEF Record
  <2> QED BY <2>1 DEF Types, TreeTypes, LockTypes, TypeOK
<1> QED BY <1>1, <1>2, <1>3, PTL DEF Spec

(* What is known of the directories, in every reachable state.             *)
THEOREM Inductive == Spec => []IInv
<1>1. Init => IInv
  BY InitIInv
<1>2. IInv /\ [Next]_vars => IInv'
  BY TypesStep, WholeStep DEF IInv
<1> QED BY <1>1, <1>2, PTL DEF Spec

(* A database that is opened is whole, and nothing is left beside it that  *)
(* a later recovery could bring back (pglite-data.ts:61-97).               *)
THEOREM AlwaysOpensWhole == Spec => []OpensWhole
<1>1. IInv => OpensWhole
  BY DEF IInv, Whole, Knows, OpensWhole, Starting
<1> QED BY <1>1, Inductive, PTL
------------------------------------------------------------------------------
(* What the abstract store sees: contents and open databases.              *)
contents == [d \in Dir |-> Content(d)]
opened == {proc[p].dir : p \in {q \in Proc : proc[q].at = "open"}}

(* The content of a directory one can recover, without the cases that      *)
(* cannot be.                                                              *)
Holds(d) == IF data[d] \in Entire /\ ~Publishing(d) THEN data[d]
            ELSE IF previous[d] \in Entire THEN previous[d] ELSE "missing"
(* Where nothing is lost, the content of a directory is what the tree holds*)
(* for it.                                                                 *)
LEMMA ContentIs ==
  ASSUME TreeTypes, Whole, NEW d \in Dir
  PROVE  Content(d) = Holds(d)
<1>1. CASE Publishing(d)
  <2>1. previous[d] \in {"empty"} \cup Entire
    BY <1>1 DEF Publishing, Whole, Knows
  <2> QED BY <1>1, <2>1, DataAssumption DEF Content, Holds, Value, Entire
<1>2. CASE ~Publishing(d)
  <2>1. data[d] # "parts"
    BY <1>2 DEF Publishing, Whole, Unfinished, Undoes
  <2>2. data[d] \in {"absent", "empty", "shell"} \cup Entire
    BY <2>1 DEF TreeTypes, Tree, Eroded
  <2>3. Database(data[d]) <=> data[d] \in Entire
    BY <2>1 DEF Database
  <2>4. CASE data[d] \in Entire
    BY <1>2, <2>3, <2>4, DataAssumption DEF Content, Found, Holds, Value, Entire
  <2>5. CASE data[d] \notin Entire
    <3>1. previous[d] \in {"absent", "empty"} \cup Entire /\ (data[d] = "shell" =>
            previous[d] # "absent")
      BY <2>5 DEF Whole, Recoverable, Eroded
    <3> QED BY <1>2, <2>2, <2>3, <2>5, <3>1, DataAssumption DEF Content, Found, Holds, Value, Entire
  <2> QED BY <2>4, <2>5
<1> QED BY <1>1, <1>2

(* The same of every directory at once, before and after a step.           *)
LEMMA ContentsAre ==
  /\ TreeTypes /\ Whole => contents = [d \in Dir |-> Holds(d)]
  /\ TreeTypes' /\ Whole' => contents' = [d \in Dir |-> Holds(d)']
<1>1. TreeTypes /\ Whole => contents = [d \in Dir |-> Holds(d)]
  BY ContentIs DEF contents
<1>2. (TreeTypes /\ Whole => contents = [d \in Dir |-> Holds(d)])'
  BY <1>1, PTL
<1> QED BY <1>1, <1>2

(* A step of a process at work changes nothing about the publications of   *)
(* others.                                                                 *)
LEMMA PublishingOthers ==
  ASSUME NEW p \in Proc, \A q \in Proc \ {p} : proc'[q] = proc[q],
         NEW d \in Dir,
         proc[p].at \notin {"synced", "undo"} \/ proc[p].dir # d,
         proc'[p].at \notin {"synced", "undo"} \/ proc'[p].dir # d
  PROVE  Publishing(d)' = Publishing(d)
BY DEF Publishing

(* A publication of a directory is its fork's, and nobody else's.          *)
LEMMA PublishingOwn ==
  ASSUME Types, NEW p \in Proc, Working(p)
  PROVE  Publishing(proc[p].dir) <=> proc[p].at \in {"synced", "undo"}
<1>1. ASSUME NEW q \in Proc, proc[q].at \in {"synced", "undo"}
      PROVE  Working(q) /\ proc[q].dir \in Wants(q)
  BY <1>1, Mentions DEF Working, Forking
<1>2. proc[p].dir \in Wants(p)
  BY Mentions
<1> QED BY <1>1, <1>2, Exclusive DEF Publishing

(* What is locked by one that publishes nothing is not being published.    *)
LEMMA NotPublishing ==
  ASSUME Types, NEW p \in Proc, Working(p), NEW d \in Wants(p),
         proc[p].at \notin {"synced", "undo"} \/ d # proc[p].dir
  PROVE  ~Publishing(d)
<1>1. ASSUME NEW q \in Proc, proc[q].at \in {"synced", "undo"}
      PROVE  Working(q) /\ proc[q].dir \in Wants(q)
  BY <1>1, Mentions DEF Working, Forking
<1> QED BY <1>1, Exclusive DEF Publishing

(* What a process does that publishes nothing leaves every publication as  *)
(* it was.                                                                 *)
LEMMA PublishingNone ==
  ASSUME NEW p \in Proc, \A q \in Proc \ {p} : proc'[q] = proc[q],
         proc[p].at \notin {"synced", "undo"}, proc'[p].at \notin {"synced", "undo"}
  PROVE  \A d \in Dir : Publishing(d)' = Publishing(d)
BY PublishingOthers

(* Steps that the store does not see.                                      *)
LEMMA Silent ==
  ASSUME Types, Whole, Types', Whole',
         \A d \in Dir : Holds(d)' = Holds(d), opened' = opened
  PROVE  UNCHANGED <<contents, opened>>
<1>1. contents = [d \in Dir |-> Holds(d)]
  BY ContentsAre DEF Types
<1>2. contents' = [d \in Dir |-> Holds(d)']
  BY ContentsAre DEF Types
<1> QED BY <1>1, <1>2

(* A step of a process that has nothing open, before and after, opens      *)
(* nothing.                                                                *)
LEMMA NothingOpened ==
  ASSUME proc \in [Proc -> Record], proc' \in [Proc -> Record], NEW p \in Proc,
         \A q \in Proc \ {p} : proc'[q] = proc[q],
         proc'[p].at # "open", proc[p].at # "open"
  PROVE  opened' = opened
BY DEF opened

(* A directory's service is the only one that has it open.                 *)
LEMMA OpenedByOne ==
  ASSUME Types, NEW p \in Proc, proc[p].at = "open"
  PROVE  \A q \in Proc \ {p} : proc[q].at = "open" => proc[q].dir # proc[p].dir
<1>1. \A q \in Proc : proc[q].at = "open" => Working(q) /\ proc[q].dir \in Wants(q)
  BY Mentions DEF Working, Starting
<1> QED BY <1>1, Exclusive

(* Recovery changes nothing the store can see.                             *)
LEMMA RecoveringSilent ==
  ASSUME Types, Whole, Types', Whole', NEW p \in Proc,
         \/ Recover(p) \/ DropPrevious(p) \/ DropData(p) \/ Restore(p) \/ Recovered(p)
  PROVE  UNCHANGED <<contents, opened>>
<1> PICK w : w = proc[p].work
  OBVIOUS
<1>1. /\ TreeTypes /\ proc \in [Proc -> Record] /\ proc' \in [Proc -> Record]
      /\ Knows(p) /\ proc[p].at \in Recovering /\ w \in Dir /\ proc[p].dir \in Dir
      /\ \A q \in Proc \ {p} : proc'[q] = proc[q]
      /\ proc[p] \in Record
      /\ \A d \in Dir : Publishing(d)' = Publishing(d)
      /\ ~Publishing(w)
  <2>1. /\ TreeTypes /\ proc \in [Proc -> Record] /\ proc' \in [Proc -> Record]
        /\ Knows(p) /\ proc[p].at \in Recovering /\ w \in Dir /\ proc[p].dir \in Dir
        /\ \A q \in Proc \ {p} : proc'[q] = proc[q]
        /\ proc[p] \in Record /\ Working(p) /\ w \in Wants(p)
    BY Mentions DEF Types, ProcTypes, Shape, Recover, DropPrevious, DropData, Restore, Recovered,
         Working, Recovering, Wants, Whole, Go
  <2>2. proc'[p].at \notin {"synced", "undo"}
    BY <2>1, GoFields DEF Recover, DropPrevious, DropData, Restore, Recovered, Go, Record
  <2>3. proc[p].at \notin {"synced", "undo"}
    BY <2>1 DEF Recovering
  <2> QED BY <2>1, <2>2, <2>3, PublishingNone, NotPublishing
<1>2. opened' = opened
  <2>1. proc[p].at # "open"
    BY <1>1 DEF Recovering
  <2>2. proc'[p].at # "open"
    BY <1>1, <2>1, GoFields DEF Recover, DropPrevious, DropData, Restore, Recovered, Go, Record
  <2> QED BY <1>1, <2>1, <2>2, NothingOpened
<1>3. \A d \in Dir : Holds(d)' = Holds(d)
  <2>1. CASE Recover(p)
    BY <1>1, <2>1 DEF Recover, Holds
  <2>2. CASE DropPrevious(p)
    <3>1. data[w] \in Entire /\ data' = data /\ \A d \in Dir \ {w} : previous'[d] = previous[d]
      BY <1>1, <2>2 DEF DropPrevious, Knows, Falls, TreeTypes
    <3> QED BY <1>1, <3>1 DEF Holds
  <2>3. CASE DropData(p)
    <3>1. /\ data[w] \notin Entire /\ data'[w] \notin Entire /\ previous' = previous
          /\ \A d \in Dir \ {w} : data'[d] = data[d]
      BY <1>1, <2>3, DataAssumption DEF DropData, Knows, TreeTypes, Entire
    <3> QED BY <1>1, <3>1 DEF Holds
  <2>4. CASE Restore(p)
    <3>1. /\ data[w] = "absent" /\ data'[w] = previous[w] /\ previous'[w] = "absent"
          /\ \A d \in Dir \ {w} : data'[d] = data[d] /\ previous'[d] = previous[d]
      BY <1>1, <2>4 DEF Restore, Knows, TreeTypes
    <3>2. ~Publishing(w)' /\ "absent" \notin Entire
      BY <1>1, DataAssumption DEF Entire
    <3> QED BY <1>1, <3>1, <3>2 DEF Holds
  <2>5. CASE Recovered(p)
    <3>1. /\ previous' = previous
          /\ \A d \in Dir : data'[d] = data[d] \/ (data[d] = "absent" /\ data'[d] = "empty")
      BY <1>1, <2>5 DEF Recovered, TreeTypes
    <3> QED BY <1>1, <3>1, DataAssumption DEF Holds, Entire
  <2> QED BY <2>1, <2>2, <2>3, <2>4, <2>5
<1> QED BY <1>2, <1>3, Silent

(* A process that goes to work opens its directory in the store.           *)
LEMMA ServiceOpens ==
  ASSUME proc \in [Proc -> Record], proc' \in [Proc -> Record], NEW p \in Proc,
         \A q \in Proc \ {p} : proc'[q] = proc[q],
         proc[p].at # "open", proc'[p].at = "open", proc'[p].dir = proc[p].dir
  PROVE  opened' = opened \cup {proc[p].dir}
BY DEF opened

(* A process that stops working closes its directory, and only that one.   *)
LEMMA ServiceCloses ==
  ASSUME Types, proc' \in [Proc -> Record], NEW p \in Proc,
         \A q \in Proc \ {p} : proc'[q] = proc[q],
         proc[p].at = "open", proc'[p].at # "open"
  PROVE  opened' = opened \ {proc[p].dir}
BY OpenedByOne DEF opened

(* A step that changes the content of one directory.                       *)
LEMMA Changes ==
  ASSUME Types, Whole, Types', Whole', NEW d \in Dir, \A e \in Dir \ {d} : Holds(e)' = Holds(e)
  PROVE  contents' = [contents EXCEPT ![d] = Holds(d)']
<1>1. contents = [e \in Dir |-> Holds(e)]
  BY ContentsAre DEF Types
<1>2. contents' = [e \in Dir |-> Holds(e)']
  BY ContentsAre DEF Types
<1> QED BY <1>1, <1>2

(* Every step of a start is a step of the store or is not seen by it.      *)
LEMMA StartingStore ==
  ASSUME Types, Whole, Types', Whole', NEW p \in Proc,
         \/ Initialize(p) \/ Make(p) \/ PublishNew(p) \/ Write(p) \/ Close(p)
  PROVE  [Store!Next]_<<contents, opened>>
<1>0. PICK d : d = proc[p].dir
  OBVIOUS
<1>1. /\ TreeTypes /\ proc \in [Proc -> Record] /\ proc' \in [Proc -> Record]
      /\ Knows(p) /\ proc[p].at \in Starting /\ d \in Dir
      /\ \A q \in Proc \ {p} : proc'[q] = proc[q]
      /\ \A e \in Dir : previous'[e] = previous[e]
      /\ \A e \in Dir \ {d} : data'[e] = data[e]
      /\ \A e \in Dir : Publishing(e)' = Publishing(e)
      /\ ~Publishing(d)
      /\ data[d] \in {"empty"} \cup Entire
  <2>1. /\ TreeTypes /\ proc \in [Proc -> Record] /\ proc' \in [Proc -> Record]
        /\ Knows(p) /\ proc[p].at \in Starting /\ Working(p) /\ d \in Wants(p) /\ d \in Dir
        /\ \A q \in Proc \ {p} : proc'[q] = proc[q]
        /\ \A e \in Dir : previous'[e] = previous[e]
        /\ \A e \in Dir \ {d} : data'[e] = data[e]
    BY <1>0, Mentions DEF Types, ProcTypes, Initialize, Make, PublishNew, Write, Close,
         Working, Starting, Wants, Whole, Go, TreeTypes, tree
  <2>2. proc'[p].at \notin {"synced", "undo"}
    BY <2>1, GoFields DEF Initialize, Make, PublishNew, Write, Close, Starting
  <2>3. proc[p].at \notin {"synced", "undo"}
    BY <2>1 DEF Starting
  <2>4. data[d] # "parts" /\ Recoverable(d) /\ previous[d] = "absent"
    BY <1>0, <2>1, <2>3, MeetsNone DEF Whole, Knows, Types, ProcTypes, Shape
  <2>5. data[d] # "absent"
    BY <1>0, <2>1, DataAssumption DEF Knows, Starting, Entire
  <2>6. data[d] \in {"empty"} \cup Entire
    BY <2>1, <2>4, <2>5 DEF Recoverable, TreeTypes, Tree, Eroded
  <2> QED BY <1>0, <2>1, <2>2, <2>3, <2>6, PublishingNone, NotPublishing
<1>2. contents = [e \in Dir |-> Holds(e)]
  BY ContentsAre DEF Types
<1>3. \A e \in Dir \ {d} : Holds(e)' = Holds(e)
  BY <1>1 DEF Holds
<1>4. (\A e \in Dir \ {d} : Holds(e)' = Holds(e)) => contents' = [contents EXCEPT ![d] = Holds(d)']
  BY <1>1, Changes
<1>5. ASSUME data' = data
      PROVE  contents' = contents
  BY <1>1, <1>2, <1>3, <1>4, <1>5 DEF Holds
<1>6. CASE Initialize(p) /\ data[d] # "empty"
  <2>1. data' = data /\ data[d] \in Entire /\ Go(p, "open") /\ proc[p].at # "open"
    BY <1>0, <1>1, <1>6 DEF Initialize, Database
  <2>2. opened' = opened \cup {d}
    BY <1>0, <1>1, <2>1, GoFields, ServiceOpens
  <2>3. contents[d] \in Entire /\ contents' = contents
    BY <1>1, <1>2, <1>5, <2>1 DEF Holds
  <2>4. Store!Open(d)
    BY <2>2, <2>3 DEF Store!Open, contents, opened, Entire
  <2> QED BY <1>1, <2>4 DEF Store!Next
<1>7. CASE (Initialize(p) /\ data[d] = "empty") \/ Make(p)
  <2>1. /\ data' = data /\ proc[p].at # "open"
        /\ \E at \in {"make", "publish", "release"} : Go(p, at)
    BY <1>0, <1>7 DEF Initialize, Make
  <2>2. opened' = opened
    BY <1>1, <2>1, GoFields, NothingOpened
  <2> QED BY <1>5, <2>1, <2>2
<1>8. CASE PublishNew(p)
  <2>1. /\ proc[p].at = "publish" /\ data[d] = "empty" /\ previous[d] = "absent"
        /\ data'[d] \in Version /\ Go(p, "open")
    BY <1>0, <1>1, <1>8 DEF PublishNew, Knows, Starting, TreeTypes
  <2>2. opened' = opened \cup {d}
    BY <1>0, <1>1, <2>1, GoFields, ServiceOpens
  <2>3. contents[d] = "missing" /\ Holds(d)' \in Version
    BY <1>1, <1>2, <2>1, DataAssumption DEF Holds, Entire
  <2>4. Store!Create(d)
    BY <1>3, <1>4, <2>2, <2>3 DEF Store!Create, contents, opened
  <2> QED BY <1>1, <2>4 DEF Store!Next
<1>9. CASE Write(p)
  <2>1. proc[p].at = "open" /\ data[d] \in Version /\ data'[d] \in Version /\ proc' = proc
    BY <1>0, <1>1, <1>9 DEF Write, TreeTypes
  <2>2. opened' = opened /\ d \in opened
    BY <1>0, <2>1 DEF opened
  <2>3. Holds(d)' \in Version /\ contents[d] \in Version
    BY <1>1, <1>2, <2>1 DEF Holds, Entire
  <2>4. Store!Write(d)
    BY <1>3, <1>4, <2>2, <2>3 DEF Store!Write, contents, opened
  <2> QED BY <1>1, <2>4 DEF Store!Next
<1>10. CASE Close(p)
  <2>1. proc[p].at = "open" /\ data' = data /\ Go(p, "release")
    BY <1>10 DEF Close, tree
  <2>2. opened' = opened \ {d}
    BY <1>0, <1>1, <2>1, GoFields, ServiceCloses
  <2>3. Store!Close(d)
    BY <1>5, <2>1, <2>2 DEF Store!Close, contents, opened
  <2> QED BY <1>1, <2>3 DEF Store!Next
<1> QED BY <1>6, <1>7, <1>8, <1>9, <1>10

(* A copy of another directory, while nobody has either open.              *)
LEMMA Copies ==
  ASSUME Types, Whole, NEW p \in Proc, Working(p), proc[p].at \in Forking \ {"clean"},
         NEW d \in Dir, NEW s \in Dir, d = proc[p].dir, s = proc[p].source,
         Holds(d)' = data[s], contents' = [contents EXCEPT ![d] = Holds(d)'], opened' = opened
  PROVE  Store!Next
<1>1. d \in Wants(p) /\ s \in Wants(p) /\ s # d /\ data[s] \in Entire
  BY Mentions DEF Types, ProcTypes, Shape, Whole, Knows, Forking
<1>2. contents[s] = data[s]
  <2>1. contents = [e \in Dir |-> Holds(e)]
    BY ContentsAre DEF Types
  <2> QED BY <1>1, <2>1, NotPublishing DEF Holds
<1>3. {s, d} \cap opened = {}
  <2>1. ASSUME NEW q \in Proc, proc[q].at = "open"
        PROVE  proc[q].dir \notin {s, d}
    <3>1. Working(q) /\ proc[q].dir \in Wants(q)
      BY <2>1, Mentions DEF Working, Starting
    <3>2. q # p
      BY <2>1 DEF Forking
    <3> QED BY <1>1, <3>1, <3>2, Exclusive
  <2> QED BY <2>1 DEF opened
<1>4. Store!Copy(s, d)
  BY <1>1, <1>2, <1>3 DEF Store!Copy, contents, opened, Entire
<1> QED BY <1>4 DEF Store!Next

(* Every step of a fork is a step of the store or is not seen by it: a     *)
(* publication is its one visible moment, when nothing can take it back.   *)
LEMMA ForkingStore ==
  ASSUME Types, Whole, Types', Whole', NEW p \in Proc,
         \/ Copy(p) \/ Swap(p) \/ Moved(p) \/ Synced(p) \/ Undo(p) \/ Clean(p)
  PROVE  [Store!Next]_<<contents, opened>>
<1>0. PICK d, s : d = proc[p].dir /\ s = proc[p].source
  OBVIOUS
<1>1. /\ TreeTypes /\ proc \in [Proc -> Record] /\ proc' \in [Proc -> Record]
      /\ Knows(p) /\ proc[p].at \in Forking /\ proc[p] \in Record
      /\ d \in Dir /\ s \in Dir /\ s # d /\ Target(p) = d
      /\ Working(p) /\ d \in Wants(p) /\ s \in Wants(p)
  BY <1>0, Mentions DEF Types, ProcTypes, Shape, Copy, Swap, Moved, Synced, Undo, Clean,
       Working, Forking, Wants, Whole, Target
<1>2. /\ \A q \in Proc \ {p} : proc'[q] = proc[q]
      /\ \A e \in Dir \ {d} : data'[e] = data[e] /\ previous'[e] = previous[e]
      /\ proc'[p].dir = d
  BY <1>0, <1>1, GoFields
     DEF Copy, Swap, Moved, Synced, Undo, Clean, Falls, Go, Published, TreeTypes, tree, Record
<1>3. contents = [e \in Dir |-> Holds(e)]
  BY ContentsAre DEF Types
<1>4. \A e \in Dir \ {d} : Publishing(e)' = Publishing(e)
  BY <1>0, <1>2, PublishingOthers
<1>5. contents' = [contents EXCEPT ![d] = Holds(d)']
  <2>1. \A e \in Dir \ {d} : Holds(e)' = Holds(e)
    BY <1>2, <1>4 DEF Holds
  <2> QED BY <1>1, <2>1, Changes
<1>6. opened' = opened
  <2>1. proc[p].at # "open"
    BY <1>1 DEF Forking
  <2>2. proc'[p].at # "open"
    BY <1>1, <2>1, GoFields DEF Copy, Swap, Moved, Synced, Undo, Clean, Published, Record
  <2> QED BY <1>1, <1>2, <2>1, <2>2, NothingOpened
<1>7. ASSUME Holds(d)' = Holds(d)
      PROVE  contents' = contents
  BY <1>1, <1>3, <1>5, <1>7
<1>8. ASSUME Holds(d)' = data[s], proc[p].at # "clean"
      PROVE  Store!Next
  BY <1>0, <1>1, <1>5, <1>6, <1>8, Copies
<1>9. Publishing(d) <=> proc[p].at \in {"synced", "undo"}
  BY <1>0, <1>1, PublishingOwn
<1>10. Publishing(d)' <=> proc'[p].at \in {"synced", "undo"}
  <2>1. \A q \in Proc \ {p} : ~(proc[q].at \in {"synced", "undo"} /\ proc[q].dir = d)
    <3> SUFFICES ASSUME NEW q \in Proc \ {p}, proc[q].at \in {"synced", "undo"}, proc[q].dir = d
                 PROVE  FALSE
      OBVIOUS
    <3>1. Working(q) /\ d \in Wants(q)
      BY Mentions DEF Working, Forking
    <3> QED BY <1>1, <3>1, Exclusive
  <2> QED BY <1>2, <2>1 DEF Publishing
<1>11. CASE Copy(p) \/ Clean(p)
  <2>1. /\ data' = data /\ previous' = previous
        /\ proc[p].at \notin {"synced", "undo"} /\ proc'[p].at \notin {"synced", "undo"}
    BY <1>1, <1>11, GoFields DEF Copy, Clean
  <2> QED BY <1>6, <1>7, <1>9, <1>10, <2>1 DEF Holds
<1>12. CASE Swap(p)
  <2>1. /\ proc[p].at = "swap" /\ proc'[p].at \notin {"synced", "undo"}
        /\ data[s] \in Entire /\ temporary[d] = data[s] /\ previous[d] = "absent"
        /\ \/ data'[d] = temporary[d]
           \/ data'[d] = "absent" /\ previous'[d] = data[d]
           \/ data' = data /\ previous' = previous
    BY <1>0, <1>1, <1>12, GoFields DEF Swap, Knows, TreeTypes, Forking, Published, Record
  <2>2. ~Publishing(d) /\ ~Publishing(d)'
    BY <1>9, <1>10, <2>1
  <2>3. \/ Holds(d)' = data[s]
        \/ Holds(d)' = Holds(d)
    BY <2>1, <2>2, DataAssumption DEF Holds, Entire
  <2> QED BY <1>6, <1>7, <1>8, <2>1, <2>3
<1>13. CASE Moved(p)
  <2>1. /\ proc[p].at = "moved" /\ proc'[p].at \in {"synced", "undo"}
        /\ data[d] = "absent" /\ previous' = previous
    BY <1>0, <1>1, <1>13, GoFields DEF Moved, Knows
  <2>2. Publishing(d)' /\ data[d] \notin Entire
    BY <1>10, <2>1, DataAssumption DEF Entire
  <2>3. Holds(d)' = Holds(d)
    BY <2>1, <2>2 DEF Holds
  <2> QED BY <1>6, <1>7, <2>3
<1>14. CASE Synced(p)
  <2>1. /\ proc[p].at = "synced" /\ data' = data /\ previous' = previous
        /\ data[d] = data[s] /\ data[s] \in Entire
        /\ proc'[p].at \in {"recover", "undo"}
    BY <1>0, <1>1, <1>14, GoFields DEF Synced, Knows, Forking, tree, Published, Record
  <2>2. CASE proc'[p].at = "undo"
    <3>1. Publishing(d) /\ Publishing(d)'
      BY <1>9, <1>10, <2>1, <2>2
    <3>2. Holds(d)' = Holds(d)
      BY <2>1, <3>1 DEF Holds
    <3> QED BY <1>6, <1>7, <3>2
  <2>3. CASE proc'[p].at = "recover"
    <3>1. ~Publishing(d)'
      BY <1>10, <2>3
    <3>2. Holds(d)' = data[s]
      BY <2>1, <3>1 DEF Holds
    <3> QED BY <1>8, <2>1, <3>2
  <2> QED BY <2>1, <2>2, <2>3
<1>15. CASE Undo(p)
  <2>1. /\ proc[p].at = "undo" /\ previous[d] \in {"empty"} \cup Entire
        /\ \/ previous' = previous /\ proc' = proc
           \/ /\ data'[d] = previous[d] /\ previous'[d] = "absent"
              /\ proc'[p].at = "clean"
    BY <1>0, <1>1, <1>15, GoFields DEF Undo, Knows, TreeTypes
  <2>2. Publishing(d) /\ (Publishing(d)' <=> proc'[p].at # "clean")
    BY <1>9, <1>10, <2>1
  <2>3. Holds(d)' = Holds(d)
    BY <2>1, <2>2, DataAssumption DEF Holds, Entire
  <2> QED BY <1>6, <1>7, <2>3
<1> QED BY <1>11, <1>12, <1>13, <1>14, <1>15

(* A process that dies in a publication leaves it as it is: its copy       *)
(* stands, or its backup does, or the directory is torn.                   *)
LEMMA PublisherDies ==
  ASSUME Types, Whole, Types', Whole', NEW p \in Proc, Die(p), proc[p].at \in {"synced", "undo"}
  PROVE  [Store!Next]_<<contents, opened>>
<1>0. PICK d, s : d = proc[p].dir /\ s = proc[p].source
  OBVIOUS
<1>1. /\ TreeTypes /\ proc \in [Proc -> Record] /\ proc' \in [Proc -> Record] /\ proc'[p] = Idle
      /\ Knows(p) /\ Working(p) /\ d \in Wants(p) /\ d \in Dir /\ s \in Dir /\ s # d
      /\ \A q \in Proc \ {p} : proc'[q] = proc[q]
  <2>1. Working(p)
    BY DEF Working, Forking
  <2>2. proc'[p] = Idle /\ \A q \in Proc \ {p} : proc'[q] = proc[q]
    BY DEF Die, Types, ProcTypes
  <2> QED BY <1>0, <2>1, <2>2, Mentions DEF Types, ProcTypes, Shape, Wants, Whole, Forking
<1>2. /\ previous' = previous
      /\ \A e \in Dir \ {d} : data'[e] = data[e]
      /\ \/ data'[d] = "torn"
         \/ data'[d] = data[d] /\ data[d] \in {"absent", "shell", data[s]}
      /\ data[s] \in Entire /\ previous[d] \in {"empty"} \cup Entire
  <2>1. data'[d] = IF proc[p].at = "undo" /\ data[d] = "parts" THEN "torn" ELSE data[d]
    BY <1>0, <1>1 DEF Die, Target, TreeTypes
  <2>2. data[d] \in {"absent", "shell", data[s]} \/ (proc[p].at = "undo" /\ data[d] = "parts")
    BY <1>0, <1>1 DEF Knows, Eroded
  <2> QED BY <1>0, <1>1, <2>1, <2>2 DEF Die, Target, TreeTypes, Knows, Forking
<1>3. Publishing(d) /\ ~Publishing(d)' /\ \A e \in Dir \ {d} : Publishing(e)' = Publishing(e)
  <2>1. proc'[p].at = "none"
    BY <1>1 DEF Idle
  <2>2. \A q \in Proc \ {p} : ~(proc[q].at \in {"synced", "undo"} /\ proc[q].dir = d)
    <3> SUFFICES ASSUME NEW q \in Proc \ {p}, proc[q].at \in {"synced", "undo"}, proc[q].dir = d
                 PROVE  FALSE
      OBVIOUS
    <3>1. Working(q) /\ d \in Wants(q)
      BY Mentions DEF Working, Forking
    <3> QED BY <1>1, <3>1, Exclusive
  <2> QED BY <1>0, <1>1, <2>1, <2>2, PublishingOthers DEF Publishing
<1>4. contents' = [contents EXCEPT ![d] = Holds(d)']
  <2>1. \A e \in Dir \ {d} : Holds(e)' = Holds(e)
    BY <1>2, <1>3 DEF Holds
  <2> QED BY <1>1, <2>1, Changes
<1>5. opened' = opened
  <2>1. proc'[p].at # "open" /\ proc[p].at # "open"
    BY <1>1 DEF Idle
  <2> QED BY <1>1, <2>1, NothingOpened
<1>6. contents = [e \in Dir |-> Holds(e)]
  BY ContentsAre DEF Types
<1>7. CASE data'[d] = "torn"
  <2>1. Holds(d)' = "torn"
    BY <1>3, <1>7 DEF Holds, Entire
  <2>2. d \notin opened
    <3> SUFFICES ASSUME NEW q \in Proc, proc[q].at = "open", proc[q].dir = d PROVE FALSE
      BY DEF opened
    <3>1. Working(q) /\ d \in Wants(q) /\ q # p
      BY Mentions DEF Working, Starting
    <3> QED BY <1>1, <3>1, Exclusive
  <2>3. Store!Tear(d)
    BY <1>4, <1>5, <2>1, <2>2 DEF Store!Tear, contents, opened
  <2> QED BY <1>1, <2>3 DEF Store!Next
<1>8. CASE data'[d] = data[d] /\ data[d] = data[s]
  <2>1. Holds(d)' = data[s]
    BY <1>2, <1>3, <1>8 DEF Holds
  <2>2. proc[p].at \in Forking \ {"clean"}
    BY DEF Forking
  <2> QED BY <1>0, <1>1, <1>4, <1>5, <2>1, <2>2, Copies
<1>9. CASE data'[d] = data[d] /\ data[d] \in {"absent", "shell"}
  <2>1. Holds(d)' = Holds(d)
    BY <1>2, <1>3, <1>9, DataAssumption DEF Holds, Entire
  <2> QED BY <1>1, <1>4, <1>5, <1>6, <2>1
<1> QED BY <1>2, <1>7, <1>8, <1>9

(* Every step is a step of the store or none that it sees.                 *)
LEMMA StoreStep ==
  ASSUME IInv, IInv', [Next]_vars
  PROVE  [Store!Next]_<<contents, opened>>
<1>1. /\ Types /\ Whole /\ Types' /\ Whole'
      /\ proc \in [Proc -> Record] /\ proc' \in [Proc -> Record]
  BY DEF IInv, Types, ProcTypes
<1>2. ASSUME NEW p \in Proc, UNCHANGED <<data, previous>>,
             \A q \in Proc \ {p} : proc'[q] = proc[q],
             proc[p].at \notin {"synced", "undo"}, proc'[p].at \notin {"synced", "undo"}
      PROVE  \A d \in Dir : Holds(d)' = Holds(d)
  BY <1>2, PublishingNone DEF Holds
<1>3. ASSUME NEW p \in Proc, Begin(p) \/ LockNext(p)
      PROVE  UNCHANGED <<contents, opened>>
  <2>1. /\ proc[p].at \notin {"open", "synced", "undo"} /\
             proc'[p].at \notin {"open", "synced", "undo"}
        /\ \A q \in Proc \ {p} : proc'[q] = proc[q]
    <3>1. CASE Begin(p)
      <4>1. proc[p].at = "none"
        BY <3>1 DEF Begin, Idle
      <4>2. PICK r \in Record : r.at = "lock" /\ proc' = [proc EXCEPT ![p] = r]
        BY <3>1, Begins
      <4> QED BY <1>1, <4>1, <4>2
    <3>2. CASE LockNext(p)
      BY <1>1, <3>2 DEF LockNext, Go, Record
    <3> QED BY <1>3, <3>1, <3>2
  <2>2. UNCHANGED <<data, previous>>
    BY <1>3 DEF Begin, LockNext, tree
  <2> QED BY <1>1, <1>2, <2>1, <2>2, NothingOpened, Silent
<1>4. ASSUME NEW p \in Proc, Release(p) \/ Die(p), proc[p].at \notin {"synced", "undo"}
      PROVE  [Store!Next]_<<contents, opened>>
  <2>1. /\ UNCHANGED <<data, previous>> /\ proc'[p].at = "none"
        /\ \A q \in Proc \ {p} : proc'[q] = proc[q]
    BY <1>1, <1>4 DEF Release, Die, tree, Idle
  <2>2. \A d \in Dir : Holds(d)' = Holds(d)
    BY <1>2, <1>4, <2>1
  <2>3. CASE proc[p].at # "open"
    BY <1>1, <2>1, <2>2, <2>3, NothingOpened, Silent
  <2>4. CASE proc[p].at = "open"
    <3>1. PICK d \in Dir : d = proc[p].dir
      BY <1>1, <2>4, Mentions DEF Working, Starting, Wants
    <3>2. opened' = opened \ {d}
      BY <1>1, <2>1, <2>4, <3>1, ServiceCloses
    <3>3. contents' = contents
      BY <1>1, <2>2, ContentsAre DEF Types
    <3>4. Store!Close(d)
      BY <3>2, <3>3 DEF Store!Close, contents, opened
    <3> QED BY <3>4 DEF Store!Next
  <2> QED BY <2>3, <2>4
<1>5. ASSUME NEW d \in Dir, Precreate(d)
      PROVE  UNCHANGED <<contents, opened>>
  <2>1. /\ data[d] = "absent" /\ data'[d] = "empty" /\ previous' = previous /\ proc' = proc
        /\ \A e \in Dir \ {d} : data'[e] = data[e]
    BY <1>1, <1>5 DEF Precreate, Types, TreeTypes
  <2>2. \A e \in Dir : Publishing(e)' = Publishing(e)
    BY <2>1 DEF Publishing
  <2>3. \A e \in Dir : Holds(e)' = Holds(e)
    BY <2>1, <2>2, DataAssumption DEF Holds, Entire
  <2>4. opened' = opened
    BY <2>1 DEF opened
  <2> QED BY <1>1, <2>3, <2>4, Silent
<1>6. CASE UNCHANGED vars
  BY <1>6 DEF vars, tree, contents, opened, Content, Publishing, Found
<1>7. ASSUME NEW p \in Proc, Die(p), proc[p].at \in {"synced", "undo"}
      PROVE  [Store!Next]_<<contents, opened>>
  BY <1>1, <1>7, PublisherDies
<1>8. ASSUME NEW p \in Proc, Release(p), proc[p].at \in {"synced", "undo"}
      PROVE  FALSE
  BY <1>8 DEF Release
<1> QED
  BY <1>1, <1>3, <1>4, <1>5, <1>6, <1>7, <1>8, RecoveringSilent, StartingStore, ForkingStore
     DEF Next, Step

(* Deaths, failures of every kind and any number of processes included, the*)
(* directories implement the abstract store: contents appear, are written  *)
(* by their one service and are replaced by a copy, each at once; torn is  *)
(* only what a publication taken back has left, and copies of it.          *)
THEOREM Refinement == Spec => ImplementsStore
<1>1. Init => Store!Init
  <2> SUFFICES ASSUME Init PROVE Store!Init
    OBVIOUS
  <2>1. \A d \in Dir : Content(d) = "missing"
    BY DEF Init, Content, Value, Database, Found, Publishing, Idle
  <2>2. opened = {}
    BY DEF Init, opened, Idle
  <2> QED BY <2>1, <2>2 DEF Store!Init, opened
<1>2. IInv /\ IInv' /\ [Next]_vars => [Store!Next]_<<contents, opened>>
  BY StoreStep
<1>3. [Store!Next]_<<contents, opened>>
        => [Store!Next]_<<[d \in Dir |-> Content(d)],
                          {proc[p].dir : p \in {q \in Proc : proc[q].at = "open"}}>>
  BY DEF contents, opened
<1> QED BY <1>1, <1>2, <1>3, Inductive, PTL DEF Spec, ImplementsStore, Store!Spec
------------------------------------------------------------------------------
(* Places of a job that works on a branch's journal.                       *)
Copying == {"quiesce", "stop", "databases", "start", "copy"}
Restoring == {"recover", "resume", "forget"}
Cloning == Copying \cup Restoring

CloneTypes ==
  /\ exits \in 0 .. MaxExits /\ pending \subseteq Branch /\ complete \subseteq Branch
  /\ status \in [Env -> Status] /\ journal \in [Branch -> Journal]
  /\ running \subseteq Services /\ removed \subseteq Piece
  /\ copied \in [Branch -> SUBSET Piece]
  /\ job.at \in Cloning \cup {"none", "complete", "apps", "deploy", "down", "delete", "remove",
                            "restart"}
  /\ job.target \in Env /\ job.todo \subseteq Services
  /\ job.cur \in Services \cup {"none", "files"}
CloneFlags ==
  /\ up \in BOOLEAN /\ ready \in BOOLEAN /\ network \in BOOLEAN /\ job.failed \in BOOLEAN

(* What a hub that starts has still to recover, and what a job is at.      *)
Hub ==
  /\ ready => up /\ pending = {}
  /\ ~up => job = NoJob
  /\ \A t \in pending : Pending(t)
  /\ job.at \in Copying \cup {"complete", "apps", "deploy", "down", "delete", "remove"} => ready
  /\ job.at = "restart" => up /\ ~ready /\ pending = {}

(* One journal at a time, with nothing in it that is not to be started, or *)
(* stopped, again.                                                         *)
Journals ==
  /\ \A t, u \in Branch : Pending(t) /\ Pending(u) => t = u
  /\ \A t \in Branch : /\ Pending(t) => journal[t].original # "absent"
                       /\ journal[t].writers \subseteq App \cup FileDb
                       /\ journal[t].temporary \subseteq Db \ FileDb

(* The job and the journal it works on.                                    *)
JobTarget ==
  /\ job.at \in Cloning => /\ job.target \in Branch /\ Pending(job.target)
                           /\ job.target \notin pending
  /\ job.at \in {"complete", "apps"} => job.target \in Branch
  /\ job.at \in {"complete", "apps", "deploy"} \/ (job.at = "restart" /\ job.todo # {}) =>
       \A t \in Branch : ~Pending(t)

(* The job and the status of main.                                         *)
JobStatus ==
  /\ job.at \in Cloning /\ ready => status[Main] = Original
  /\ job.at = "forget" => status[Main] = Original /\ Writers = {}
  /\ job.at = "deploy" => status[Main] = "deploying"
  /\ job.at \in {"down", "delete"} => status[Main] \in {"stopping", "deleting"}
  /\ job.at = "restart" /\ job.todo # {} => status[Main] = "running"

(* The job and what it has left.                                           *)
JobWork ==
  /\ job.at \in {"down", "delete"} /\ ~job.failed => running \subseteq job.todo
  /\ job.at = "quiesce" => job.todo \subseteq App /\ App \cap running \subseteq job.todo
  /\ job.at \in {"databases", "start", "copy"} => job.todo \subseteq Db
  /\ job.at = "stop" => job.cur \in Writers
  /\ job.at = "stop" /\ job.cur \in App =>
       job.cur \in job.todo /\ job.todo \subseteq App /\ App \cap running \subseteq job.todo
  /\ job.at = "stop" /\ job.cur \notin App => job.todo \subseteq Db
  /\ job.at = "copy" => job.cur \in Piece
  /\ job.at = "start" => job.cur \in Temporary
  /\ job.at = "restart" /\ ~job.failed /\ status[Main] = "running" /\ AssertRecovered(Main) =>
       Services \ running \subseteq job.todo

Jobs == JobTarget /\ JobStatus /\ JobWork

(* At rest while data is copied.                                           *)
AtRest ==
  /\ job.at \in {"databases", "start", "copy"} \/ (job.at = "stop" /\ job.cur \notin App) =>
       App \cap running = {}
  /\ job.at = "copy" /\ job.cur \in Db => (job.cur \in FileDb <=> job.cur \notin running)

(* A stopped main has no application running, nor one to be started.       *)
StaysStopped ==
  /\ status[Main] = "stopped" \/ (\E t \in Branch : journal[t].original = "stopped") =>
       App \cap running = {}
  /\ \A t \in Branch : journal[t].original = "stopped" => App \cap journal[t].writers = {}
  /\ job.at = "resume" /\ status[Main] = "stopped" => App \cap Writers = {}

(* Nobody who is not in a journal is missing.                              *)
Accounted ==
  /\ WritersAccounted
  /\ ready /\ job.at \in Cloning /\ status[Main] = "running" => Temporary = {}
  /\ \A t \in Branch \ pending : up /\ Pending(t) /\ ~(job.at \in Cloning /\ job.target = t) =>
       status[Main] # "running"

CloneIInv ==
  /\ CloneTypes /\ CloneFlags /\ Hub /\ Journals /\ Jobs
  /\ AtRest /\ StaysStopped /\ Accounted

(* The services and the environments.                                      *)
LEMMA CloneFacts ==
  /\ Main \in Env /\ Main \notin Branch /\ Branch \subseteq Env
  /\ \A e \in Env : e # Main => e \in Branch
  /\ App \subseteq Services /\ App \cap Db = {} /\ Services \subseteq App \cup Db
  /\ Db \subseteq Services /\ "files" \notin Db /\ FileDb \subseteq Db /\ Db \subseteq Piece
  /\ "files" \in Piece
<1>1. /\ Main \in Env /\ Branch \subseteq Env /\ (\A e \in Env : e # Main => e \in Branch)
      /\ Db \subseteq Piece /\ "files" \in Piece
  BY DEF Env, Piece
<1>2. FileDb \subseteq Db /\ Db \subseteq Services /\ "files" \notin Db
  BY CloneAssumption
<1>3. App \subseteq Services /\ App \cap Db = {} /\ Services \subseteq App \cup Db
  BY DEF App
<1>4. Main \notin Branch
  BY CloneAssumption
<1> QED BY <1>1, <1>2, <1>3, <1>4

(* What is noted in the journal is in it, and in no other.                  *)
LEMMA Noted ==
  ASSUME CloneTypes, job.target \in Branch, NEW W, NEW T, NEW o, Note(W, T, o)
  PROVE  /\ journal'[job.target].writers = W /\ journal'[job.target].temporary = T
         /\ journal'[job.target].original = o
         /\ \A t \in Branch \ {job.target} : journal'[t] = journal[t]
         /\ o # "absent" => journal'[job.target] # NoJournal
         /\ W \subseteq Services /\ T \subseteq Db /\ o \in Status =>
              journal' \in [Branch -> Journal]
<1> DEFINE r == [writers |-> W, temporary |-> T, original |-> o]
<1>1. journal' = [journal EXCEPT ![job.target] = r] /\ journal \in [Branch -> Journal]
  BY DEF Note, CloneTypes
<1>2. r.writers = W /\ r.temporary = T /\ r.original = o /\ NoJournal.original = "absent"
  BY DEF NoJournal
<1>3. W \subseteq Services /\ T \subseteq Db /\ o \in Status => r \in Journal
  BY DEF Journal
<1> HIDE DEF r
<1> QED BY <1>1, <1>2, <1>3

(* What looking at a running main, and starting one of its services again, *)
(* does.                                                                   *)
LEMMA InspectEffect ==
  ASSUME Inspect
  PROVE  /\ up /\ ~ready /\ pending = {} /\ job.at = "none"
         /\ job'.at = "restart" /\ job'.target = Main /\ job'.cur = "none"
         /\ job'.todo \subseteq Services
         /\ job'.todo # {} => status[Main] = "running" /\ AssertRecovered(Main)
         /\ ~job'.failed /\ status[Main] = "running" /\ AssertRecovered(Main) =>
              Services \ running \subseteq job'.todo
         /\ UNCHANGED <<up, ready, exits, pending, status, complete, journal, running, network,
              removed, copied>>
<1>1. up /\ ~ready /\ pending = {} /\ job.at = "none"
  BY DEF Inspect, NoJob, NewJob
<1>2. PICK failed \in BOOLEAN, todo \in SUBSET Services :
        /\ IF AssertRecovered(Main) /\ status[Main] = "running"
             THEN \/ Host \ running \subseteq todo /\ failed = ~(Services \ running \subseteq Host)
                  \/ MayFail /\ failed /\ todo = {}
             ELSE ~failed /\ todo = {}
        /\ job' = [NewJob("restart", Main, todo) EXCEPT !.failed = failed]
  BY DEF Inspect
<1>3. /\ job'.at = "restart" /\ job'.target = Main /\ job'.cur = "none" /\ job'.todo = todo
      /\ job'.failed = failed
  BY <1>2 DEF NewJob
<1>4. todo # {} => status[Main] = "running" /\ AssertRecovered(Main)
  BY <1>2
<1>5. ~failed /\ status[Main] = "running" /\ AssertRecovered(Main) =>
        Services \ running \subseteq todo
  <2>1. CASE Host \ running \subseteq todo /\ failed = ~(Services \ running \subseteq Host)
    BY <2>1
  <2>2. CASE failed
    BY <2>2
  <2> QED BY <1>2, <2>1, <2>2
<1>6. UNCHANGED <<up, ready, exits, pending, status, complete, journal, running, network, removed,
        copied>>
  BY DEF Inspect, hubVars, diskVars, mainVars, dataVars
<1> QED BY <1>1, <1>3, <1>4, <1>5, <1>6

LEMMA RestartEffect ==
  ASSUME NEW s \in Services, RestartService(s)
  PROVE  /\ job.at = "restart" /\ s \in job.todo
         /\ job'.at = "restart" /\ job'.target = job.target /\ job'.cur = job.cur
         /\ job'.todo \subseteq job.todo
         /\ ~job'.failed => ~job.failed
         /\ ~job'.failed /\ Services \ running \subseteq job.todo =>
              Services \ running' \subseteq job'.todo
         /\ running' \subseteq running \cup {s}
         /\ UNCHANGED <<up, ready, exits, pending, status, complete, journal, network, removed,
              copied>>
<1>1. job.at = "restart" /\ s \in job.todo
  BY DEF RestartService, At, First
<1>2. UNCHANGED <<up, ready, exits, pending, status, complete, journal, network, removed, copied>>
  BY DEF RestartService, hubVars, diskVars, dataVars
<1>3. CASE running' = running \ {s} /\ UNCHANGED job
  BY <1>1, <1>2, <1>3
<1>4. CASE running' = running \cup {s} /\ GoWith("restart", job.todo \ {s})
  BY <1>1, <1>2, <1>4 DEF GoWith, Now
<1>5. CASE StartFails(s) /\ Now("restart", {}, job.cur, TRUE)
  BY <1>1, <1>2, <1>5 DEF StartFails, Now
<1> QED BY <1>3, <1>4, <1>5 DEF RestartService

(* The types.                                                              *)
LEMMA CloneTypesStep == CloneTypes /\ Hub /\ Journals /\ Jobs /\ [CloneNext]_cloneVars =>
  CloneTypes'
<1> SUFFICES ASSUME CloneTypes, Hub, Journals, Jobs, [CloneNext]_cloneVars PROVE CloneTypes'
  OBVIOUS
<1>1. ASSUME NEW s \in Services, QuiesceApp(s) PROVE CloneTypes'
  BY <1>1, Noted DEF QuiesceApp, JournalWriter, GoFor, GoWith, Now, At, Writers, Temporary,
      Original, hubVars, diskVars, mainVars, dataVars, CloneTypes, Copying, Restoring, Cloning,
        Status, Journal, Jobs, JobTarget, JobStatus
<1>2. ASSUME NEW s \in Services, PrepareDatabase(s) PROVE CloneTypes'
  BY <1>2, Noted DEF PrepareDatabase, JournalWriter, GoFor, Now, At, Writers, Temporary, Original,
      hubVars, diskVars, mainVars, dataVars, CloneTypes, Copying, Cloning, Status, Journal, Jobs,
        JobTarget, JobStatus, JobWork
<1>3. ASSUME NEW s \in Services, ResumeWriter(s) PROVE CloneTypes'
  BY <1>3, CloneFacts, Noted DEF ResumeWriter, StartFails, RecoverThrows, Writers, Temporary,
      Original, At, NoJob, NewJob, hubVars, diskVars, dataVars, CloneTypes, Copying, Restoring,
        Cloning, Status, Journal, Jobs, JobTarget
<1>4. ASSUME NEW s \in Services, StopTemporary(s) PROVE CloneTypes'
  BY <1>4, CloneFacts, Noted DEF StopTemporary, StopFails, RecoverThrows, Temporary, Original, At,
      NoJob, NewJob, hubVars, dataVars, CloneTypes, Restoring, Cloning, Status, Journal, Jobs,
        JobTarget, JobStatus
<1>5. ASSUME NEW s \in Services, DownService(s) PROVE CloneTypes'
  BY <1>5 DEF DownService, StopFails, GoWith, Now, hubVars, diskVars, dataVars, CloneTypes
<1>6. CASE InspectThrows
  BY <1>6 DEF InspectThrows, CloneThrows, Now, hubVars, diskVars, mainVars, dataVars, CloneTypes,
      Restoring, Cloning
<1>7. CASE AppsQuiet
  BY <1>7, CloneFacts DEF AppsQuiet, GoWith, Now, hubVars, diskVars, dataVars, CloneTypes,
      Copying, Cloning
<1>8. CASE StopWriter
  BY <1>8 DEF StopWriter, StopFails, CloneThrows, GoWith, GoTo, Now, hubVars, diskVars, dataVars,
      CloneTypes, Copying, Restoring, Cloning, Status
<1>9. CASE StartTemporary
  BY <1>9, CloneFacts DEF StartTemporary, StartFails, CloneThrows, GoTo, Now, At, hubVars,
      diskVars, dataVars, CloneTypes, Copying, Restoring, Cloning, Jobs, JobTarget, JobStatus,
        JobWork, Journals, Temporary
<1>10. CASE FilesNext
  BY <1>10 DEF FilesNext, GoFor, Now, hubVars, diskVars, mainVars, dataVars, CloneTypes, Copying,
      Cloning
<1>11. CASE CopyPiece
  BY <1>11 DEF CopyPiece, CloneThrows, GoWith, GoTo, Now, At, hubVars, diskVars, mainVars,
      CloneTypes, Copying, Restoring, Cloning, Jobs, JobTarget, JobStatus, JobWork
<1>12. CASE Supersede
  BY <1>12, Noted DEF Supersede, GoTo, Now, At, Temporary, hubVars, mainVars, dataVars,
      CloneTypes, Copying, Restoring, Cloning, Status, Journal, Jobs, JobTarget, JobStatus
<1>13. CASE RestoreStatus
  BY <1>13 DEF RestoreStatus, GoTo, Now, Original, At, hubVars, mainVars, dataVars, CloneTypes,
      Restoring, Cloning, Status, Journal, Jobs, JobTarget, JobStatus
<1>14. CASE Forget
  BY <1>14, CloneFacts DEF Forget, GoTo, Now, At, NoJob, NewJob, NoJournal, hubVars, mainVars,
      dataVars, CloneTypes, Status, Journal, Jobs, JobTarget
<1>15. CASE MarkComplete
  BY <1>15 DEF MarkComplete, GoTo, Now, At, hubVars, mainVars, dataVars, CloneTypes, Jobs, JobTarget
<1>16. CASE StartApps
  BY <1>16, CloneFacts DEF StartApps, NoJob, NewJob, hubVars, mainVars, dataVars, CloneTypes, Status
<1>17. CASE EndDeployMain
  BY <1>17, CloneFacts DEF EndDeployMain, NoJob, NewJob, hubVars, dataVars, CloneTypes, Status
<1>18. CASE EndDown
  BY <1>18, CloneFacts DEF EndDown, NoJob, NewJob, hubVars, dataVars, CloneTypes, Status
<1>19. CASE RemoveData
  BY <1>19, CloneFacts DEF RemoveData, NoJob, NewJob, hubVars, mainVars, CloneTypes, Status
<1>20. CASE Startup
  BY <1>20 DEF Startup, diskVars, dataVars, CloneTypes
<1>21. CASE StartupEnds
  BY <1>21, CloneFacts DEF StartupEnds, NoJob, NewJob, mainVars, dataVars, CloneTypes, Status,
      Reconciled
<1>22. ASSUME NEW t \in Branch, RecoverNext(t) PROVE CloneTypes'
  BY <1>22, CloneFacts DEF RecoverNext, NewJob, diskVars, mainVars, dataVars, CloneTypes,
      Restoring, Cloning
<1>23. ASSUME NEW t \in Branch, SkipRecovery(t) PROVE CloneTypes'
  BY <1>23 DEF SkipRecovery, mainVars, dataVars, CloneTypes, Status
<1>24. ASSUME NEW t \in Branch, BeginClone(t) PROVE CloneTypes'
  BY <1>24, CloneFacts DEF BeginClone, NewJob, hubVars, mainVars, CloneTypes, Copying, Cloning,
      Status, Journal
<1>25. ASSUME NEW t \in Branch, Redeploy(t) PROVE CloneTypes'
  BY <1>25, CloneFacts DEF Redeploy, hubVars, mainVars, dataVars, CloneTypes, Status
<1>26. ASSUME NEW t \in Branch, DeleteTarget(t) PROVE CloneTypes'
  BY <1>26 DEF DeleteTarget, hubVars, mainVars, CloneTypes, Status
<1>27. CASE BeginDeployMain
  BY <1>27 DEF BeginDeployMain, NoJob, NewJob, hubVars, CloneTypes, Status
<1>28. ASSUME NEW delete \in BOOLEAN, BeginDown(delete) PROVE CloneTypes'
  BY <1>28 DEF BeginDown, NoJob, NewJob, hubVars, mainVars, dataVars, CloneTypes, Status
<1>29. CASE Exit
  BY <1>29, CloneFacts, CloneAssumption DEF Exit, NoJob, NewJob, diskVars, mainVars, dataVars,
      CloneTypes
<1>30. CASE Reboot
  BY <1>30 DEF Reboot, hubVars, diskVars, dataVars, CloneTypes
<1>31. CASE UNCHANGED cloneVars
  BY <1>31 DEF cloneVars, hubVars, diskVars, mainVars, dataVars, CloneTypes
<1>32. CASE Inspect
  BY <1>32, InspectEffect, CloneFacts DEF CloneTypes
<1>33. ASSUME NEW s \in Services, RestartService(s) PROVE CloneTypes'
  BY <1>33, RestartEffect, CloneFacts DEF CloneTypes
<1> QED
  BY <1>1, <1>2, <1>3, <1>4, <1>5, <1>6, <1>7, <1>8, <1>9, <1>10, <1>11, <1>12, <1>13, <1>14,
      <1>15, <1>16, <1>17, <1>18, <1>19, <1>20, <1>21, <1>22, <1>23, <1>24, <1>25, <1>26, <1>27,
        <1>28, <1>29, <1>30, <1>31, <1>32, <1>33
     DEF CloneNext, JobStep, StartupStep

(* A step of a job leaves a truth value of what has failed.                *)
LEMMA NowFlag ==
  ASSUME NEW a, NEW todo, NEW s, NEW f \in BOOLEAN, Now(a, todo, s, f)
  PROVE  job'.failed \in BOOLEAN
<1>1. job'.failed = f
  BY DEF Now
<1> QED BY <1>1, Zenon
LEMMA NewFlag ==
  ASSUME NEW a, NEW t, NEW todo, job' = NewJob(a, t, todo)
  PROVE  job'.failed \in BOOLEAN
<1>1. job'.failed = FALSE
  BY DEF NewJob
<1> QED BY <1>1, Zenon

(* The truth values.                                                       *)
LEMMA CloneFlagsStep == CloneFlags /\ [CloneNext]_cloneVars => CloneFlags'
<1> SUFFICES ASSUME CloneFlags, [CloneNext]_cloneVars PROVE CloneFlags'
  OBVIOUS
<1>1. ASSUME NEW s \in Services, QuiesceApp(s) PROVE CloneFlags'
  <2>1. up' \in {up, TRUE, FALSE} /\ ready' \in {ready, TRUE, FALSE}
    BY <1>1 DEF QuiesceApp, JournalWriter, hubVars
  <2>2. network' \in BOOLEAN
    BY <1>1, Zenon DEF QuiesceApp, JournalWriter, mainVars, CloneFlags
  <2>3. job'.failed \in BOOLEAN
    BY <1>1, NowFlag, Zenon DEF QuiesceApp, JournalWriter, GoFor, GoWith, CloneFlags
  <2> QED BY <2>1, <2>2, <2>3, Zenon DEF CloneFlags
<1>2. ASSUME NEW s \in Services, PrepareDatabase(s) PROVE CloneFlags'
  <2>1. up' \in {up, TRUE, FALSE} /\ ready' \in {ready, TRUE, FALSE}
    BY <1>2 DEF PrepareDatabase, JournalWriter, hubVars
  <2>2. network' \in BOOLEAN
    BY <1>2, Zenon DEF PrepareDatabase, JournalWriter, mainVars, CloneFlags
  <2>3. job'.failed \in BOOLEAN
    <3>1. GoFor("stop", s) \/ GoFor("start", s) \/ GoFor("copy", s)
      BY <1>2 DEF PrepareDatabase, JournalWriter
    <3> QED BY <3>1, NowFlag, Zenon DEF GoFor, CloneFlags
  <2> QED BY <2>1, <2>2, <2>3, Zenon DEF CloneFlags
<1>3. ASSUME NEW s \in Services, ResumeWriter(s) PROVE CloneFlags'
  <2>1. up' \in {up, TRUE, FALSE} /\ ready' \in {ready, TRUE, FALSE}
    BY <1>3 DEF ResumeWriter, hubVars
  <2>2. network' \in BOOLEAN
    BY <1>3, Zenon DEF ResumeWriter, mainVars, CloneFlags
  <2>3. job'.failed \in BOOLEAN
    BY <1>3, NewFlag, Zenon DEF ResumeWriter, RecoverThrows, NoJob, CloneFlags
  <2> QED BY <2>1, <2>2, <2>3, Zenon DEF CloneFlags
<1>4. ASSUME NEW s \in Services, StopTemporary(s) PROVE CloneFlags'
  <2>1. up' \in {up, TRUE, FALSE} /\ ready' \in {ready, TRUE, FALSE}
    BY <1>4 DEF StopTemporary, hubVars
  <2>2. network' \in BOOLEAN
    BY <1>4, Zenon DEF StopTemporary, mainVars, CloneFlags
  <2>3. job'.failed \in BOOLEAN
    BY <1>4, NewFlag, Zenon DEF StopTemporary, RecoverThrows, NoJob, CloneFlags
  <2> QED BY <2>1, <2>2, <2>3, Zenon DEF CloneFlags
<1>5. ASSUME NEW s \in Services, DownService(s) PROVE CloneFlags'
  <2>1. up' \in {up, TRUE, FALSE} /\ ready' \in {ready, TRUE, FALSE}
    BY <1>5 DEF DownService, hubVars
  <2>2. network' \in BOOLEAN
    BY <1>5, Zenon DEF DownService, mainVars, CloneFlags
  <2>3. job'.failed \in BOOLEAN
    BY <1>5, NowFlag, Zenon DEF DownService, GoWith, CloneFlags
  <2> QED BY <2>1, <2>2, <2>3, Zenon DEF CloneFlags
<1>6. CASE InspectThrows
  <2>1. up' \in {up, TRUE, FALSE} /\ ready' \in {ready, TRUE, FALSE}
    BY <1>6 DEF InspectThrows, hubVars
  <2>2. network' \in BOOLEAN
    BY <1>6, Zenon DEF InspectThrows, mainVars, CloneFlags
  <2>3. job'.failed \in BOOLEAN
    BY <1>6, NowFlag, Zenon DEF InspectThrows, CloneThrows
  <2> QED BY <2>1, <2>2, <2>3, Zenon DEF CloneFlags
<1>7. CASE AppsQuiet
  <2>1. up' \in {up, TRUE, FALSE} /\ ready' \in {ready, TRUE, FALSE}
    BY <1>7 DEF AppsQuiet, hubVars
  <2>2. network' \in BOOLEAN
    BY <1>7, Zenon DEF AppsQuiet, mainVars, CloneFlags
  <2>3. job'.failed \in BOOLEAN
    BY <1>7, NowFlag, Zenon DEF AppsQuiet, GoWith, CloneFlags
  <2> QED BY <2>1, <2>2, <2>3, Zenon DEF CloneFlags
<1>8. CASE StopWriter
  <2>1. up' \in {up, TRUE, FALSE} /\ ready' \in {ready, TRUE, FALSE}
    BY <1>8 DEF StopWriter, hubVars
  <2>2. network' \in BOOLEAN
    BY <1>8, Zenon DEF StopWriter, mainVars, CloneFlags
  <2>3. job'.failed \in BOOLEAN
    BY <1>8, NowFlag, Zenon DEF StopWriter, CloneThrows, GoWith, GoTo, CloneFlags
  <2> QED BY <2>1, <2>2, <2>3, Zenon DEF CloneFlags
<1>9. CASE StartTemporary
  <2>1. up' \in {up, TRUE, FALSE} /\ ready' \in {ready, TRUE, FALSE}
    BY <1>9 DEF StartTemporary, hubVars
  <2>2. network' \in BOOLEAN
    BY <1>9, Zenon DEF StartTemporary, mainVars, CloneFlags
  <2>3. job'.failed \in BOOLEAN
    BY <1>9, NowFlag, Zenon DEF StartTemporary, CloneThrows, GoTo, CloneFlags
  <2> QED BY <2>1, <2>2, <2>3, Zenon DEF CloneFlags
<1>10. CASE FilesNext
  <2>1. up' \in {up, TRUE, FALSE} /\ ready' \in {ready, TRUE, FALSE}
    BY <1>10 DEF FilesNext, hubVars
  <2>2. network' \in BOOLEAN
    BY <1>10, Zenon DEF FilesNext, mainVars, CloneFlags
  <2>3. job'.failed \in BOOLEAN
    BY <1>10, NowFlag, Zenon DEF FilesNext, GoFor, CloneFlags
  <2> QED BY <2>1, <2>2, <2>3, Zenon DEF CloneFlags
<1>11. CASE CopyPiece
  <2>1. up' \in {up, TRUE, FALSE} /\ ready' \in {ready, TRUE, FALSE}
    BY <1>11 DEF CopyPiece, hubVars
  <2>2. network' \in BOOLEAN
    BY <1>11, Zenon DEF CopyPiece, mainVars, CloneFlags
  <2>3. job'.failed \in BOOLEAN
    <3>1. GoTo("recover") \/ GoWith("databases", job.todo \ {job.cur}) \/ CloneThrows
      BY <1>11 DEF CopyPiece
    <3> QED BY <3>1, NowFlag, Zenon DEF CloneThrows, GoWith, GoTo, CloneFlags
  <2> QED BY <2>1, <2>2, <2>3, Zenon DEF CloneFlags
<1>12. CASE Supersede
  <2>1. up' \in {up, TRUE, FALSE} /\ ready' \in {ready, TRUE, FALSE}
    BY <1>12 DEF Supersede, hubVars
  <2>2. network' \in BOOLEAN
    BY <1>12, Zenon DEF Supersede, mainVars, CloneFlags
  <2>3. job'.failed \in BOOLEAN
    BY <1>12, NowFlag, Zenon DEF Supersede, GoTo, CloneFlags
  <2> QED BY <2>1, <2>2, <2>3, Zenon DEF CloneFlags
<1>13. CASE RestoreStatus
  <2>1. up' \in {up, TRUE, FALSE} /\ ready' \in {ready, TRUE, FALSE}
    BY <1>13 DEF RestoreStatus, hubVars
  <2>2. network' \in BOOLEAN
    BY <1>13, Zenon DEF RestoreStatus, mainVars, CloneFlags
  <2>3. job'.failed \in BOOLEAN
    BY <1>13, NowFlag, Zenon DEF RestoreStatus, GoTo, CloneFlags
  <2> QED BY <2>1, <2>2, <2>3, Zenon DEF CloneFlags
<1>14. CASE Forget
  <2>1. up' \in {up, TRUE, FALSE} /\ ready' \in {ready, TRUE, FALSE}
    BY <1>14 DEF Forget, hubVars
  <2>2. network' \in BOOLEAN
    BY <1>14, Zenon DEF Forget, mainVars, CloneFlags
  <2>3. job'.failed \in BOOLEAN
    BY <1>14, NowFlag, NewFlag, Zenon DEF Forget, GoTo, NoJob, CloneFlags
  <2> QED BY <2>1, <2>2, <2>3, Zenon DEF CloneFlags
<1>15. CASE MarkComplete
  <2>1. up' \in {up, TRUE, FALSE} /\ ready' \in {ready, TRUE, FALSE}
    BY <1>15 DEF MarkComplete, hubVars
  <2>2. network' \in BOOLEAN
    BY <1>15, Zenon DEF MarkComplete, mainVars, CloneFlags
  <2>3. job'.failed \in BOOLEAN
    BY <1>15, NowFlag, Zenon DEF MarkComplete, GoTo, CloneFlags
  <2> QED BY <2>1, <2>2, <2>3, Zenon DEF CloneFlags
<1>16. CASE StartApps
  <2>1. up' \in {up, TRUE, FALSE} /\ ready' \in {ready, TRUE, FALSE}
    BY <1>16 DEF StartApps, hubVars
  <2>2. network' \in BOOLEAN
    BY <1>16, Zenon DEF StartApps, mainVars, CloneFlags
  <2>3. job'.failed \in BOOLEAN
    BY <1>16, NewFlag, Zenon DEF StartApps, NoJob
  <2> QED BY <2>1, <2>2, <2>3, Zenon DEF CloneFlags
<1>17. CASE EndDeployMain
  <2>1. up' \in {up, TRUE, FALSE} /\ ready' \in {ready, TRUE, FALSE}
    BY <1>17 DEF EndDeployMain, hubVars
  <2>2. network' \in BOOLEAN
    BY <1>17, Zenon DEF EndDeployMain, mainVars, CloneFlags
  <2>3. job'.failed \in BOOLEAN
    BY <1>17, NewFlag, Zenon DEF EndDeployMain, NoJob
  <2> QED BY <2>1, <2>2, <2>3, Zenon DEF CloneFlags
<1>18. CASE EndDown
  <2>1. up' \in {up, TRUE, FALSE} /\ ready' \in {ready, TRUE, FALSE}
    BY <1>18 DEF EndDown, hubVars
  <2>2. network' \in BOOLEAN
    BY <1>18, Zenon DEF EndDown, mainVars, CloneFlags
  <2>3. job'.failed \in BOOLEAN
    BY <1>18, NewFlag, Zenon DEF EndDown, NoJob
  <2> QED BY <2>1, <2>2, <2>3, Zenon DEF CloneFlags
<1>19. CASE RemoveData
  <2>1. up' \in {up, TRUE, FALSE} /\ ready' \in {ready, TRUE, FALSE}
    BY <1>19 DEF RemoveData, hubVars
  <2>2. network' \in BOOLEAN
    BY <1>19, Zenon DEF RemoveData, mainVars, CloneFlags
  <2>3. job'.failed \in BOOLEAN
    BY <1>19, NewFlag, Zenon DEF RemoveData, NoJob, CloneFlags
  <2> QED BY <2>1, <2>2, <2>3, Zenon DEF CloneFlags
<1>20. CASE Startup
  <2>1. up' \in {up, TRUE, FALSE} /\ ready' \in {ready, TRUE, FALSE}
    BY <1>20 DEF Startup
  <2>2. network' \in BOOLEAN
    BY <1>20, Zenon DEF Startup, CloneFlags
  <2>3. job'.failed \in BOOLEAN
    BY <1>20, Zenon DEF Startup, hubVars, CloneFlags
  <2> QED BY <2>1, <2>2, <2>3, Zenon DEF CloneFlags
<1>21. CASE StartupEnds
  <2>1. up' \in {up, TRUE, FALSE} /\ ready' \in {ready, TRUE, FALSE}
    BY <1>21 DEF StartupEnds
  <2>2. network' \in BOOLEAN
    BY <1>21, Zenon DEF StartupEnds, mainVars, CloneFlags
  <2>3. job'.failed \in BOOLEAN
    BY <1>21, NewFlag, Zenon DEF StartupEnds, NoJob
  <2> QED BY <2>1, <2>2, <2>3, Zenon DEF CloneFlags
<1>22. ASSUME NEW t \in Branch, RecoverNext(t) PROVE CloneFlags'
  <2>1. up' \in {up, TRUE, FALSE} /\ ready' \in {ready, TRUE, FALSE}
    BY <1>22 DEF RecoverNext
  <2>2. network' \in BOOLEAN
    BY <1>22, Zenon DEF RecoverNext, mainVars, CloneFlags
  <2>3. job'.failed \in BOOLEAN
    BY <1>22, NewFlag, Zenon DEF RecoverNext
  <2> QED BY <2>1, <2>2, <2>3, Zenon DEF CloneFlags
<1>23. ASSUME NEW t \in Branch, SkipRecovery(t) PROVE CloneFlags'
  <2>1. up' \in {up, TRUE, FALSE} /\ ready' \in {ready, TRUE, FALSE}
    BY <1>23 DEF SkipRecovery
  <2>2. network' \in BOOLEAN
    BY <1>23, Zenon DEF SkipRecovery, mainVars, CloneFlags
  <2>3. job'.failed \in BOOLEAN
    BY <1>23, Zenon DEF SkipRecovery, hubVars, CloneFlags
  <2> QED BY <2>1, <2>2, <2>3, Zenon DEF CloneFlags
<1>24. ASSUME NEW t \in Branch, BeginClone(t) PROVE CloneFlags'
  <2>1. up' \in {up, TRUE, FALSE} /\ ready' \in {ready, TRUE, FALSE}
    BY <1>24 DEF BeginClone, hubVars
  <2>2. network' \in BOOLEAN
    BY <1>24, Zenon DEF BeginClone, mainVars, CloneFlags
  <2>3. job'.failed \in BOOLEAN
    BY <1>24, NewFlag, Zenon DEF BeginClone, CloneFlags
  <2> QED BY <2>1, <2>2, <2>3, Zenon DEF CloneFlags
<1>25. ASSUME NEW t \in Branch, Redeploy(t) PROVE CloneFlags'
  <2>1. up' \in {up, TRUE, FALSE} /\ ready' \in {ready, TRUE, FALSE}
    BY <1>25 DEF Redeploy, hubVars
  <2>2. network' \in BOOLEAN
    BY <1>25, Zenon DEF Redeploy, mainVars, CloneFlags
  <2>3. job'.failed \in BOOLEAN
    BY <1>25, Zenon DEF Redeploy, hubVars, CloneFlags
  <2> QED BY <2>1, <2>2, <2>3, Zenon DEF CloneFlags
<1>26. ASSUME NEW t \in Branch, DeleteTarget(t) PROVE CloneFlags'
  <2>1. up' \in {up, TRUE, FALSE} /\ ready' \in {ready, TRUE, FALSE}
    BY <1>26 DEF DeleteTarget, hubVars
  <2>2. network' \in BOOLEAN
    BY <1>26, Zenon DEF DeleteTarget, mainVars, CloneFlags
  <2>3. job'.failed \in BOOLEAN
    BY <1>26, Zenon DEF DeleteTarget, hubVars, CloneFlags
  <2> QED BY <2>1, <2>2, <2>3, Zenon DEF CloneFlags
<1>27. CASE BeginDeployMain
  <2>1. up' \in {up, TRUE, FALSE} /\ ready' \in {ready, TRUE, FALSE}
    BY <1>27 DEF BeginDeployMain, hubVars
  <2>2. network' \in BOOLEAN
    BY <1>27, Zenon DEF BeginDeployMain, mainVars, CloneFlags
  <2>3. job'.failed \in BOOLEAN
    BY <1>27, NewFlag, Zenon DEF BeginDeployMain
  <2> QED BY <2>1, <2>2, <2>3, Zenon DEF CloneFlags
<1>28. ASSUME NEW delete \in BOOLEAN, BeginDown(delete) PROVE CloneFlags'
  <2>1. up' \in {up, TRUE, FALSE} /\ ready' \in {ready, TRUE, FALSE}
    BY <1>28 DEF BeginDown, hubVars
  <2>2. network' \in BOOLEAN
    BY <1>28, Zenon DEF BeginDown, mainVars, CloneFlags
  <2>3. job'.failed \in BOOLEAN
    BY <1>28, NewFlag, Zenon DEF BeginDown
  <2> QED BY <2>1, <2>2, <2>3, Zenon DEF CloneFlags
<1>29. CASE Exit
  <2>1. up' \in {up, TRUE, FALSE} /\ ready' \in {ready, TRUE, FALSE}
    BY <1>29 DEF Exit
  <2>2. network' \in BOOLEAN
    BY <1>29, Zenon DEF Exit, mainVars, CloneFlags
  <2>3. job'.failed \in BOOLEAN
    BY <1>29, NewFlag, Zenon DEF Exit, NoJob
  <2> QED BY <2>1, <2>2, <2>3, Zenon DEF CloneFlags
<1>30. CASE Reboot
  <2>1. up' \in {up, TRUE, FALSE} /\ ready' \in {ready, TRUE, FALSE}
    BY <1>30 DEF Reboot, hubVars
  <2>2. network' \in BOOLEAN
    BY <1>30, Zenon DEF Reboot, mainVars, CloneFlags
  <2>3. job'.failed \in BOOLEAN
    BY <1>30, Zenon DEF Reboot, hubVars, CloneFlags
  <2> QED BY <2>1, <2>2, <2>3, Zenon DEF CloneFlags
<1>31. CASE UNCHANGED cloneVars
  BY <1>31 DEF cloneVars, hubVars, mainVars, CloneFlags
<1>32. CASE Inspect
  <2>1. up' \in {up, TRUE, FALSE} /\ ready' \in {ready, TRUE, FALSE}
    BY <1>32 DEF Inspect, hubVars
  <2>2. network' \in BOOLEAN
    BY <1>32, Zenon DEF Inspect, mainVars, CloneFlags
  <2>3. job'.failed \in BOOLEAN
    BY <1>32 DEF Inspect, NewJob
  <2> QED BY <2>1, <2>2, <2>3, Zenon DEF CloneFlags
<1>33. ASSUME NEW s \in Services, RestartService(s) PROVE CloneFlags'
  <2>1. up' \in {up, TRUE, FALSE} /\ ready' \in {ready, TRUE, FALSE}
    BY <1>33 DEF RestartService, hubVars
  <2>2. network' \in BOOLEAN
    BY <1>33, Zenon DEF RestartService, CloneFlags
  <2>3. job'.failed \in BOOLEAN
    BY <1>33, NowFlag, Zenon DEF RestartService, GoWith, CloneFlags
  <2> QED BY <2>1, <2>2, <2>3, Zenon DEF CloneFlags
<1> QED
  BY <1>1, <1>2, <1>3, <1>4, <1>5, <1>6, <1>7, <1>8, <1>9, <1>10, <1>11, <1>12, <1>13, <1>14,
      <1>15, <1>16, <1>17, <1>18, <1>19, <1>20, <1>21, <1>22, <1>23, <1>24, <1>25, <1>26, <1>27,
        <1>28, <1>29, <1>30, <1>31, <1>32, <1>33
     DEF CloneNext, JobStep, StartupStep

(* What the journal of a job holds.                                        *)
LEMMA JobsJournal ==
  ASSUME CloneTypes, Journals, job.target \in Branch, Pending(job.target)
  PROVE  /\ Writers \subseteq App \cup FileDb /\ Writers \subseteq Services
         /\ Temporary \subseteq Db \ FileDb
         /\ Original \in Status \ {"absent"}
<1>1. journal[job.target] \in Journal
  BY DEF CloneTypes
<1> QED BY <1>1 DEF Journals, Journal, Writers, Temporary, Original


(* What looking at an application, and at a database, does.                *)
LEMMA QuiesceEffect ==
  ASSUME CloneTypes, Journals, Jobs, NEW s \in Services, QuiesceApp(s)
  PROVE  /\ job.at = "quiesce" /\ s \in job.todo /\ job'.target = job.target
         /\ job'.failed = job.failed
         /\ UNCHANGED <<up, ready, exits, pending, status, complete, running, network, removed,
              copied>>
         /\ \A t \in Branch : Pending(t)' <=> Pending(t)
         /\ \A t \in Branch : journal'[t].original = journal[t].original
         /\ \A t \in Branch : journal[t].writers \subseteq journal'[t].writers
         /\ \A t \in Branch \ {job.target} : journal'[t] = journal[t]
         /\ \/ /\ s \in running /\ job'.at = "stop" /\ job'.cur = s /\ job'.todo = job.todo
               /\ Writers' = Writers \cup {s} /\ Temporary' = Temporary /\ Original' = Original
            \/ /\ s \notin running /\ job'.at = "quiesce" /\ job'.cur = job.cur
               /\ job'.todo = job.todo \ {s} /\ journal' = journal
               /\ Writers' = Writers /\ Temporary' = Temporary /\ Original' = Original
<1>1. job.target \in Branch /\ Pending(job.target) /\ Original # "absent"
  BY JobsJournal DEF QuiesceApp, At, Jobs, JobTarget, Cloning, Copying
<1>2. CASE s \in running
  <2>1. Note(Writers \cup {s}, Temporary, Original) /\ GoFor("stop", s)
    BY <1>2 DEF QuiesceApp, JournalWriter
  <2>2. /\ job'.at = "stop" /\ job'.cur = s /\ job'.todo = job.todo /\ job'.target = job.target
        /\ job'.failed = job.failed
    BY <2>1 DEF GoFor, Now
  <2>3. Writers' = Writers \cup {s} /\ Temporary' = Temporary /\ Original' = Original
    BY <2>1, <2>2, <1>1, Noted DEF Writers, Temporary, Original
  <2>4. \A t \in Branch : /\ Pending(t)' <=> Pending(t)
                          /\ journal'[t].original = journal[t].original
                          /\ journal[t].writers \subseteq journal'[t].writers
    BY <2>1, <1>1, Noted DEF Pending, Writers, Original
  <2> QED BY <1>2, <2>1, <2>2, <2>3, <2>4, <1>1, Noted DEF QuiesceApp, JournalWriter, At, hubVars,
      mainVars, dataVars
<1>3. CASE s \notin running
  BY <1>3 DEF QuiesceApp, At, hubVars, diskVars, mainVars, dataVars, GoWith, Now, Writers,
      Temporary, Original, Pending
<1> QED BY <1>2, <1>3

LEMMA PrepareEffect ==
  ASSUME CloneTypes, Journals, Jobs, NEW s \in Services, PrepareDatabase(s)
  PROVE  /\ job.at = "databases" /\ s \in job.todo /\ s \in Db
         /\ job'.target = job.target /\ job'.cur = s /\ job'.todo = job.todo
         /\ job'.failed = job.failed
         /\ UNCHANGED <<up, ready, exits, pending, status, complete, running, network, removed,
              copied>>
         /\ Original' = Original
         /\ \A t \in Branch : Pending(t)' <=> Pending(t)
         /\ \A t \in Branch : journal'[t].original = journal[t].original
         /\ \A t \in Branch : journal[t].writers \subseteq journal'[t].writers
         /\ \A t \in Branch \ {job.target} : journal'[t] = journal[t]
         /\ \/ /\ s \in FileDb /\ s \in running /\ job'.at = "stop"
               /\ Writers' = Writers \cup {s} /\ Temporary' = Temporary
            \/ /\ s \notin FileDb /\ s \notin running /\ job'.at = "start"
               /\ Writers' = Writers /\ Temporary' = Temporary \cup {s}
            \/ /\ s \in FileDb <=> s \notin running
               /\ job'.at = "copy" /\ journal' = journal
               /\ Writers' = Writers /\ Temporary' = Temporary
<1>1. /\ job.at = "databases" /\ s \in job.todo /\ s \in Db
      /\ job.target \in Branch /\ Pending(job.target) /\ Original # "absent"
  BY JobsJournal DEF PrepareDatabase, At, Jobs, JobTarget, JobWork, Cloning, Copying
<1>2. ASSUME NEW W, NEW T, NEW a, Writers \subseteq W, Note(W, T, Original), GoFor(a, s),
             UNCHANGED <<hubVars, status, complete, mainVars, dataVars>>
      PROVE  /\ job'.at = a /\ job'.cur = s /\ job'.todo = job.todo /\ job'.target = job.target
             /\ job'.failed = job.failed
             /\ Writers' = W /\ Temporary' = T /\ Original' = Original
             /\ \A t \in Branch : /\ Pending(t)' <=> Pending(t)
                                  /\ journal'[t].original = journal[t].original
                                  /\ journal[t].writers \subseteq journal'[t].writers
             /\ \A t \in Branch \ {job.target} : journal'[t] = journal[t]
             /\ UNCHANGED <<up, ready, exits, pending, status, complete, running, network,
                  removed, copied>>
  <2>1. /\ job'.at = a /\ job'.cur = s /\ job'.todo = job.todo /\ job'.target = job.target
        /\ job'.failed = job.failed
    BY <1>2 DEF GoFor, Now
  <2>2. Writers' = W /\ Temporary' = T /\ Original' = Original
    BY <2>1, <1>1, <1>2, Noted DEF Writers, Temporary, Original
  <2>3. \A t \in Branch : /\ Pending(t)' <=> Pending(t)
                          /\ journal'[t].original = journal[t].original
                          /\ journal[t].writers \subseteq journal'[t].writers
    BY <1>1, <1>2, Noted DEF Pending, Writers, Original
  <2> QED BY <2>1, <2>2, <2>3, <1>1, <1>2, Noted DEF hubVars, mainVars, dataVars
<1>3. CASE s \in FileDb /\ s \in running
  <2>1. /\ Note(Writers \cup {s}, Temporary, Original) /\ GoFor("stop", s)
        /\ UNCHANGED <<hubVars, status, complete, mainVars, dataVars>>
    BY <1>3 DEF PrepareDatabase, JournalWriter
  <2> QED BY <1>1, <1>3, <2>1, <1>2
<1>4. CASE s \notin FileDb /\ s \notin running
  <2>1. /\ Note(Writers, Temporary \cup {s}, Original) /\ GoFor("start", s)
        /\ UNCHANGED <<hubVars, status, complete, mainVars, dataVars>>
    BY <1>4 DEF PrepareDatabase
  <2> QED BY <1>1, <1>4, <2>1, <1>2
<1>5. CASE ~(s \in FileDb /\ s \in running) /\ ~(s \notin FileDb /\ s \notin running)
  <2>1. GoFor("copy", s) /\ UNCHANGED <<hubVars, diskVars, mainVars, dataVars>>
    BY <1>5 DEF PrepareDatabase
  <2> QED BY <1>1, <1>5, <2>1 DEF GoFor, Now, hubVars, diskVars, mainVars, dataVars, Writers,
      Temporary, Original, Pending
<1> QED BY <1>3, <1>4, <1>5


(* What is still to be recovered, and by whom.                             *)
LEMMA HubStep == CloneTypes /\ Hub /\ Journals /\ Jobs /\ [CloneNext]_cloneVars => Hub'
<1> SUFFICES ASSUME CloneTypes, Hub, Journals, Jobs, [CloneNext]_cloneVars PROVE Hub'
  OBVIOUS
<1>1. ASSUME NEW s \in Services, QuiesceApp(s) PROVE Hub'
  BY <1>1, QuiesceEffect DEF Hub, Copying
<1>2. ASSUME NEW s \in Services, PrepareDatabase(s) PROVE Hub'
  BY <1>2, PrepareEffect DEF Hub, Copying
<1>3. ASSUME NEW s \in Services, ResumeWriter(s) PROVE Hub'
  BY <1>3, Noted DEF ResumeWriter, RecoverThrows, At, NoJob, NewJob, hubVars, diskVars, Hub,
      CloneTypes, Copying, Restoring, Pending, Jobs, JobTarget
<1>4. ASSUME NEW s \in Services, StopTemporary(s) PROVE Hub'
  BY <1>4, Noted DEF StopTemporary, RecoverThrows, At, NoJob, NewJob, hubVars, Hub, CloneTypes,
      Copying, Pending, Jobs, JobTarget, JobStatus
<1>5. ASSUME NEW s \in Services, DownService(s) PROVE Hub'
  BY <1>5 DEF DownService, GoWith, Now, At, hubVars, Hub
<1>6. CASE InspectThrows
  BY <1>6 DEF InspectThrows, CloneThrows, Now, At, hubVars, Hub, Copying
<1>7. CASE AppsQuiet
  BY <1>7 DEF AppsQuiet, GoWith, Now, At, hubVars, Hub, Copying
<1>8. CASE StopWriter
  BY <1>8 DEF StopWriter, CloneThrows, GoWith, GoTo, Now, At, hubVars, Hub, Copying
<1>9. CASE StartTemporary
  BY <1>9 DEF StartTemporary, CloneThrows, GoTo, Now, At, hubVars, Hub, Copying
<1>10. CASE FilesNext
  BY <1>10 DEF FilesNext, GoFor, Now, At, hubVars, Hub, Copying
<1>11. CASE CopyPiece
  BY <1>11 DEF CopyPiece, CloneThrows, GoWith, GoTo, Now, At, hubVars, Hub, Copying
<1>12. CASE Supersede
  BY <1>12, Noted DEF Supersede, GoTo, Now, At, hubVars, Hub, CloneTypes, Copying, Pending, Jobs,
      JobTarget, NoJob, NewJob
<1>13. CASE RestoreStatus
  BY <1>13 DEF RestoreStatus, GoTo, Now, At, hubVars, Hub, Copying, Restoring, Pending, Jobs,
      JobTarget, NoJob, NewJob
<1>14. CASE Forget
  BY <1>14 DEF Forget, GoTo, Now, At, NoJob, NewJob, hubVars, Hub, Cloning, Copying, Restoring,
      Pending,
      Jobs, JobTarget, JobStatus
<1>15. CASE MarkComplete
  BY <1>15 DEF MarkComplete, GoTo, Now, At, hubVars, Hub
<1>16. CASE StartApps
  BY <1>16 DEF StartApps, NoJob, NewJob, At, hubVars, Hub
<1>17. CASE EndDeployMain
  BY <1>17 DEF EndDeployMain, NoJob, NewJob, At, hubVars, Hub
<1>18. CASE EndDown
  BY <1>18 DEF EndDown, NoJob, NewJob, At, hubVars, Hub
<1>19. CASE RemoveData
  BY <1>19 DEF RemoveData, NoJob, NewJob, At, hubVars, Hub
<1>20. CASE Startup
  BY <1>20 DEF Startup, diskVars, Hub, Pending
<1>21. CASE StartupEnds
  BY <1>21 DEF StartupEnds, NoJob, NewJob, At, Hub, Copying
<1>22. ASSUME NEW t \in Branch, RecoverNext(t) PROVE Hub'
  BY <1>22 DEF RecoverNext, NewJob, diskVars, Hub, Copying, Pending
<1>23. ASSUME NEW t \in Branch, SkipRecovery(t) PROVE Hub'
  BY <1>23 DEF SkipRecovery, Hub, Pending
<1>24. ASSUME NEW t \in Branch, BeginClone(t) PROVE Hub'
  BY <1>24 DEF BeginClone, NewJob, Pending, NoJournal, CloneTypes, Copying, hubVars, Hub
<1>25. ASSUME NEW t \in Branch, Redeploy(t) PROVE Hub'
  BY <1>25 DEF Redeploy, hubVars, Hub
<1>26. ASSUME NEW t \in Branch, DeleteTarget(t) PROVE Hub'
  BY <1>26 DEF DeleteTarget, hubVars, Hub
<1>27. CASE BeginDeployMain
  BY <1>27 DEF BeginDeployMain, NewJob, Pending, Copying, hubVars, Hub
<1>28. ASSUME NEW delete \in BOOLEAN, BeginDown(delete) PROVE Hub'
  BY <1>28 DEF BeginDown, NewJob, Pending, Copying, hubVars, Hub
<1>29. CASE Exit
  BY <1>29 DEF Exit, NoJob, NewJob, Hub, Copying
<1>30. CASE Reboot
  BY <1>30 DEF Reboot, hubVars, diskVars, Hub, Pending
<1>31. CASE UNCHANGED cloneVars
  BY <1>31 DEF cloneVars, hubVars, diskVars, Hub, Pending
<1>32. CASE Inspect
  BY <1>32, InspectEffect DEF Hub, Pending, Copying, NoJob, NewJob
<1>33. ASSUME NEW s \in Services, RestartService(s) PROVE Hub'
  BY <1>33, RestartEffect DEF Hub, Pending, Copying, NoJob, NewJob
<1> QED
  BY <1>1, <1>2, <1>3, <1>4, <1>5, <1>6, <1>7, <1>8, <1>9, <1>10, <1>11, <1>12, <1>13, <1>14,
      <1>15, <1>16, <1>17, <1>18, <1>19, <1>20, <1>21, <1>22, <1>23, <1>24, <1>25, <1>26, <1>27,
        <1>28, <1>29, <1>30, <1>31, <1>32, <1>33
     DEF CloneNext, JobStep, StartupStep

(* A note in the journal of a job keeps the journals in order.             *)
LEMMA KeepsJournals ==
  ASSUME CloneTypes, Journals, job.target \in Branch, Pending(job.target),
         NEW W \in SUBSET (App \cup FileDb), NEW T \in SUBSET (Db \ FileDb),
         NEW o \in Status \ {"absent"}, Note(W, T, o)
  PROVE  Journals'
<1>1. /\ journal'[job.target].writers = W /\ journal'[job.target].temporary = T
      /\ journal'[job.target].original = o
      /\ \A t \in Branch \ {job.target} : journal'[t] = journal[t]
  BY Noted
<1>2. \A t \in Branch : Pending(t)' => Pending(t)
  BY <1>1 DEF Pending
<1>3. \A t, u \in Branch : Pending(t)' /\ Pending(u)' => t = u
  BY <1>2 DEF Journals
<1>4. ASSUME NEW t \in Branch
      PROVE  /\ Pending(t)' => journal'[t].original # "absent"
             /\ journal'[t].writers \subseteq App \cup FileDb
             /\ journal'[t].temporary \subseteq Db \ FileDb
  <2>1. CASE t = job.target
    BY <1>1, <2>1
  <2>2. CASE t # job.target
    BY <1>1, <2>2 DEF Journals, Pending
  <2> QED BY <2>1, <2>2
<1> QED BY <1>3, <1>4 DEF Journals


(* The journals.                                                           *)
LEMMA JournalsStep == CloneTypes /\ Hub /\ Journals /\ Jobs /\ [CloneNext]_cloneVars => Journals'
<1> SUFFICES ASSUME CloneTypes, Hub, Journals, Jobs, [CloneNext]_cloneVars PROVE Journals'
  OBVIOUS
<1>1. ASSUME NEW s \in Services, QuiesceApp(s) PROVE Journals'
  <2>1. job.target \in Branch /\ Pending(job.target)
    BY <1>1 DEF QuiesceApp, At, Jobs, JobTarget, Cloning, Copying
  <2>2. CASE UNCHANGED journal
    BY <2>2 DEF Journals, Pending
  <2>3. CASE Note(Writers \cup {s}, Temporary, Original)
    <3>1. (Writers \cup {s}) \subseteq App \cup FileDb /\ (Temporary) \subseteq Db \ FileDb
      BY <1>1, <2>1, JobsJournal DEF QuiesceApp, At, Jobs, JobWork
    <3> QED BY <2>1, <2>3, <3>1, KeepsJournals, JobsJournal
  <2> QED BY <1>1, <2>2, <2>3 DEF QuiesceApp, diskVars, JournalWriter
<1>2. ASSUME NEW s \in Services, PrepareDatabase(s) PROVE Journals'
  <2>1. job.target \in Branch /\ Pending(job.target)
    BY <1>2 DEF PrepareDatabase, At, Jobs, JobTarget, Cloning, Copying
  <2>2. CASE UNCHANGED journal
    BY <2>2 DEF Journals, Pending
  <2>3. CASE s \in FileDb /\ Note(Writers \cup {s}, Temporary, Original)
    BY <2>1, <2>3, KeepsJournals, JobsJournal
  <2>4. CASE s \notin FileDb /\ Note(Writers, Temporary \cup {s}, Original)
    <3>1. s \in Db
      BY <1>2 DEF PrepareDatabase, At, Jobs, JobWork
    <3> QED BY <2>1, <2>4, <3>1, KeepsJournals, JobsJournal
  <2> QED BY <1>2, <2>2, <2>3, <2>4 DEF PrepareDatabase, JournalWriter, diskVars
<1>3. ASSUME NEW s \in Services, ResumeWriter(s) PROVE Journals'
  <2>1. job.target \in Branch /\ Pending(job.target)
    BY <1>3 DEF ResumeWriter, At, Jobs, JobTarget, Cloning, Restoring
  <2>2. CASE UNCHANGED journal
    BY <2>2 DEF Journals, Pending
  <2>3. CASE Note(Writers \ {s}, Temporary, Original)
    <3>1. (Writers \ {s}) \subseteq App \cup FileDb /\ (Temporary) \subseteq Db \ FileDb
      BY <1>3, <2>1, JobsJournal
    <3> QED BY <2>1, <2>3, <3>1, KeepsJournals, JobsJournal
  <2> QED BY <1>3, <2>2, <2>3 DEF ResumeWriter, diskVars
<1>4. ASSUME NEW s \in Services, StopTemporary(s) PROVE Journals'
  <2>1. job.target \in Branch /\ Pending(job.target)
    BY <1>4 DEF StopTemporary, At, Jobs, JobTarget, Cloning, Restoring
  <2>2. CASE UNCHANGED journal
    BY <2>2 DEF Journals, Pending
  <2>3. CASE Note(Writers, Temporary \ {s}, Original)
    <3>1. (Writers) \subseteq App \cup FileDb /\ (Temporary \ {s}) \subseteq Db \ FileDb
      BY <1>4, <2>1, JobsJournal
    <3> QED BY <2>1, <2>3, <3>1, KeepsJournals, JobsJournal
  <2> QED BY <1>4, <2>2, <2>3 DEF StopTemporary
<1>5. ASSUME NEW s \in Services, DownService(s) PROVE Journals'
  BY <1>5 DEF DownService, diskVars, Journals, Pending
<1>6. CASE InspectThrows
  BY <1>6 DEF InspectThrows, diskVars, Journals, Pending
<1>7. CASE AppsQuiet
  BY <1>7 DEF AppsQuiet, diskVars, Journals, Pending
<1>8. CASE StopWriter
  BY <1>8 DEF StopWriter, diskVars, Journals, Pending
<1>9. CASE StartTemporary
  BY <1>9 DEF StartTemporary, diskVars, Journals, Pending
<1>10. CASE FilesNext
  BY <1>10 DEF FilesNext, diskVars, Journals, Pending
<1>11. CASE CopyPiece
  BY <1>11 DEF CopyPiece, diskVars, Journals, Pending
<1>12. CASE Supersede
  <2>1. job.target \in Branch /\ Pending(job.target)
    BY <1>12 DEF Supersede, At, Jobs, JobTarget, Cloning, Restoring
  <2>2. CASE UNCHANGED journal
    BY <2>2 DEF Journals, Pending
  <2>3. CASE Note({}, Temporary, "stopped")
    <3>1. ({}) \subseteq App \cup FileDb /\ (Temporary) \subseteq Db \ FileDb
      BY <1>12, <2>1, JobsJournal
    <3> QED BY <2>1, <2>3, <3>1, KeepsJournals, JobsJournal DEF Status
  <2> QED BY <1>12, <2>2, <2>3 DEF Supersede
<1>13. CASE RestoreStatus
  BY <1>13 DEF RestoreStatus, Journals, Pending
<1>14. CASE Forget
  <2>1. job.target \in Branch /\ Pending(job.target)
    BY <1>14 DEF Forget, At, Jobs, JobTarget, Cloning, Restoring
  <2>2. \A t \in Branch : journal'[t] = NoJournal
    BY <1>14, <2>1 DEF Forget, Journals, CloneTypes, Pending
  <2> QED BY <2>2 DEF Journals, Pending, NoJournal
<1>15. CASE MarkComplete
  BY <1>15 DEF MarkComplete, Journals, Pending
<1>16. CASE StartApps
  BY <1>16 DEF StartApps, Journals, Pending
<1>17. CASE EndDeployMain
  BY <1>17 DEF EndDeployMain, Journals, Pending
<1>18. CASE EndDown
  BY <1>18 DEF EndDown, Journals, Pending
<1>19. CASE RemoveData
  BY <1>19 DEF RemoveData, Journals, Pending
<1>20. CASE Startup
  BY <1>20 DEF Startup, diskVars, Journals, Pending
<1>21. CASE StartupEnds
  BY <1>21 DEF StartupEnds, Journals, Pending
<1>22. ASSUME NEW t \in Branch, RecoverNext(t) PROVE Journals'
  BY <1>22 DEF RecoverNext, diskVars, Journals, Pending
<1>23. ASSUME NEW t \in Branch, SkipRecovery(t) PROVE Journals'
  BY <1>23 DEF SkipRecovery, Journals, Pending
<1>24. ASSUME NEW t \in Branch, BeginClone(t) PROVE Journals'
  <2>1. CASE UNCHANGED journal
    BY <2>1 DEF Journals, Pending
  <2>2. ASSUME NEW j, j = [writers |-> {}, temporary |-> {}, original |-> status[Main]],
               journal' = [journal EXCEPT ![t] = j]
        PROVE  Journals'
    <3>1. j.writers = {} /\ j.temporary = {} /\ j.original = status[Main]
      BY <2>2
    <3>2. \A u \in Branch \ {t} : journal'[u] = NoJournal
      BY <1>24, <2>2 DEF BeginClone, AssertRecovered, Pending
    <3>3. journal'[t] = j
      BY <2>2 DEF CloneTypes
    <3>4. status[Main] # "absent"
      BY <1>24 DEF BeginClone
    <3>5. NoJournal.writers = {} /\ NoJournal.temporary = {}
      BY DEF NoJournal
    <3> QED BY <3>1, <3>2, <3>3, <3>4, <3>5 DEF Journals, Pending
  <2> QED BY <1>24, <2>1, <2>2 DEF BeginClone
<1>25. ASSUME NEW t \in Branch, Redeploy(t) PROVE Journals'
  BY <1>25 DEF Redeploy, Journals, Pending
<1>26. ASSUME NEW t \in Branch, DeleteTarget(t) PROVE Journals'
  BY <1>26 DEF DeleteTarget, Journals, Pending
<1>27. CASE BeginDeployMain
  BY <1>27 DEF BeginDeployMain, Journals, Pending
<1>28. ASSUME NEW delete \in BOOLEAN, BeginDown(delete) PROVE Journals'
  BY <1>28 DEF BeginDown, Journals, Pending
<1>29. CASE Exit
  BY <1>29 DEF Exit, diskVars, Journals, Pending
<1>30. CASE Reboot
  BY <1>30 DEF Reboot, diskVars, Journals, Pending
<1>31. CASE UNCHANGED cloneVars
  BY <1>31 DEF cloneVars, diskVars, Journals, Pending
<1>32. CASE Inspect
  BY <1>32, InspectEffect DEF Journals, Pending
<1>33. ASSUME NEW s \in Services, RestartService(s) PROVE Journals'
  BY <1>33, RestartEffect DEF Journals, Pending
<1> QED
  BY <1>1, <1>2, <1>3, <1>4, <1>5, <1>6, <1>7, <1>8, <1>9, <1>10, <1>11, <1>12, <1>13, <1>14,
      <1>15, <1>16, <1>17, <1>18, <1>19, <1>20, <1>21, <1>22, <1>23, <1>24, <1>25, <1>26, <1>27,
        <1>28, <1>29, <1>30, <1>31, <1>32, <1>33
     DEF CloneNext, JobStep, StartupStep

(* The target of the job.                                                  *)
LEMMA JobTargetStep == CloneTypes /\ Hub /\ Journals /\ Jobs /\ [CloneNext]_cloneVars => JobTarget'
<1> SUFFICES ASSUME CloneTypes, Hub, Journals, Jobs, [CloneNext]_cloneVars PROVE JobTarget'
  OBVIOUS
<1>1. ASSUME NEW s \in Services, QuiesceApp(s) PROVE JobTarget'
  BY <1>1, QuiesceEffect DEF JobTarget, Jobs, Cloning, Copying
<1>2. ASSUME NEW s \in Services, PrepareDatabase(s) PROVE JobTarget'
  BY <1>2, PrepareEffect DEF JobTarget, Jobs, Cloning, Copying
<1>3. ASSUME NEW s \in Services, ResumeWriter(s) PROVE JobTarget'
  BY <1>3, Noted DEF ResumeWriter, RecoverThrows, Original, At, NoJob, NewJob, hubVars, diskVars,
      dataVars, Jobs, JobTarget, CloneTypes, Journals, Journal, Pending, Cloning, Copying, Restoring
<1>4. ASSUME NEW s \in Services, StopTemporary(s) PROVE JobTarget'
  BY <1>4, Noted DEF StopTemporary, RecoverThrows, Original, At, NoJob, NewJob, hubVars, Jobs,
      JobTarget, Journals, Journal, Pending, Cloning, Copying, Restoring
<1>5. ASSUME NEW s \in Services, DownService(s) PROVE JobTarget'
  BY <1>5 DEF DownService, GoWith, Now, At, JobTarget, Cloning, Copying, Restoring, NoJournal
<1>6. CASE InspectThrows
  BY <1>6 DEF InspectThrows, CloneThrows, Now, At, hubVars, diskVars, Jobs, JobTarget, Pending,
      Cloning, Copying
<1>7. CASE AppsQuiet
  BY <1>7 DEF AppsQuiet, GoWith, Now, At, hubVars, diskVars, Jobs, JobTarget, Pending, Cloning,
      Copying
<1>8. CASE StopWriter
  BY <1>8 DEF StopWriter, CloneThrows, GoWith, GoTo, Now, At, hubVars, diskVars, Jobs, JobTarget,
      Pending, Cloning, Copying
<1>9. CASE StartTemporary
  BY <1>9 DEF StartTemporary, CloneThrows, GoTo, Now, At, hubVars, diskVars, Jobs, JobTarget,
      CloneTypes, Journal, Pending
<1>10. CASE FilesNext
  BY <1>10 DEF FilesNext, GoFor, Now, At, hubVars, diskVars, Jobs, JobTarget, Pending, Cloning,
      Copying
<1>11. CASE CopyPiece
  BY <1>11 DEF CopyPiece, CloneThrows, GoWith, GoTo, Now, At, hubVars, diskVars, Jobs, JobTarget,
      CloneTypes, Journal, Pending
<1>12. CASE Supersede
  BY <1>12, Noted DEF Supersede, GoTo, Now, At, hubVars, Jobs, JobTarget, CloneTypes, Pending,
      Copying
<1>13. CASE RestoreStatus
  BY <1>13 DEF RestoreStatus, GoTo, Now, At, hubVars, Jobs, JobTarget, CloneTypes, Journal,
      Pending, Cloning, Copying
<1>14. CASE Forget
  <2>1. job.target \in Branch /\ Pending(job.target)
    BY <1>14 DEF Forget, At, Jobs, JobTarget, Cloning, Restoring
  <2>2. \A t \in Branch : journal'[t] = NoJournal
    BY <1>14, <2>1 DEF Forget, Journals, CloneTypes, Pending
  <2>3. job'.at \in {"complete", "none"} /\ (job'.at = "complete" => job'.target = job.target)
    BY <1>14 DEF Forget, GoTo, Now, NoJob, NewJob
  <2> QED BY <2>1, <2>2, <2>3 DEF JobTarget, Cloning, Copying, Restoring, Pending
<1>15. CASE MarkComplete
  BY <1>15 DEF MarkComplete, GoTo, Now, At, Jobs, JobTarget, Pending, Cloning, Copying, Restoring
<1>16. CASE StartApps
  BY <1>16 DEF StartApps, NoJob, NewJob, JobTarget, Cloning, Copying, Restoring
<1>17. CASE EndDeployMain
  BY <1>17 DEF EndDeployMain, NoJob, NewJob, JobTarget, Cloning, Copying, Restoring
<1>18. CASE EndDown
  BY <1>18 DEF EndDown, NoJob, NewJob, JobTarget, Cloning, Copying, Restoring
<1>19. CASE RemoveData
  BY <1>19 DEF RemoveData, At, NoJob, NewJob, JobTarget, Cloning, Copying, Restoring
<1>20. CASE Startup
  <2>1. job = NoJob /\ job' = job
    BY <1>20 DEF Startup, Hub
  <2> QED BY <2>1 DEF JobTarget, NoJob, NewJob, Cloning, Copying, Restoring
<1>21. CASE StartupEnds
  BY <1>21 DEF StartupEnds, NoJob, NewJob, JobTarget, Cloning, Copying, Restoring
<1>22. ASSUME NEW t \in Branch, RecoverNext(t) PROVE JobTarget'
  BY <1>22 DEF RecoverNext, NewJob, diskVars, JobTarget, Hub, Pending
<1>23. ASSUME NEW t \in Branch, SkipRecovery(t) PROVE JobTarget'
  BY <1>23 DEF SkipRecovery, Jobs, JobTarget, Pending
<1>24. ASSUME NEW t \in Branch, BeginClone(t) PROVE JobTarget'
  BY <1>24 DEF BeginClone, NoJob, NewJob, hubVars, Jobs, JobTarget, Hub, CloneTypes, Pending,
      NoJournal, Temporary
<1>25. ASSUME NEW t \in Branch, Redeploy(t) PROVE JobTarget'
  BY <1>25 DEF Redeploy, Hub, NoJob, NewJob, hubVars, Jobs, JobTarget, Pending
<1>26. ASSUME NEW t \in Branch, DeleteTarget(t) PROVE JobTarget'
  BY <1>26 DEF DeleteTarget, Hub, NoJob, NewJob, hubVars, Jobs, JobTarget, Pending
<1>27. CASE BeginDeployMain
  BY <1>27 DEF BeginDeployMain, NewJob, JobTarget, Pending, Cloning, Copying, Restoring,
      AssertRecovered
<1>28. ASSUME NEW delete \in BOOLEAN, BeginDown(delete) PROVE JobTarget'
  BY <1>28 DEF BeginDown, NewJob, JobTarget, Cloning, Copying, Restoring
<1>29. CASE Exit
  BY <1>29 DEF Exit, NoJob, NewJob, JobTarget, Cloning, Copying, Restoring
<1>30. CASE Reboot
  BY <1>30 DEF Reboot, Hub, NoJob, NewJob, hubVars, diskVars, Jobs, JobTarget, Pending
<1>31. CASE UNCHANGED cloneVars
  BY <1>31 DEF cloneVars, hubVars, diskVars, Jobs, JobTarget, Pending
<1>32. CASE Inspect
  BY <1>32, InspectEffect DEF JobTarget, Jobs, Pending, AssertRecovered, Cloning, Copying, Restoring
<1>33. ASSUME NEW s \in Services, RestartService(s) PROVE JobTarget'
  BY <1>33, RestartEffect DEF JobTarget, Jobs, Pending, AssertRecovered, Cloning, Copying, Restoring
<1> QED
  BY <1>1, <1>2, <1>3, <1>4, <1>5, <1>6, <1>7, <1>8, <1>9, <1>10, <1>11, <1>12, <1>13, <1>14,
      <1>15, <1>16, <1>17, <1>18, <1>19, <1>20, <1>21, <1>22, <1>23, <1>24, <1>25, <1>26, <1>27,
        <1>28, <1>29, <1>30, <1>31, <1>32, <1>33
     DEF CloneNext, JobStep, StartupStep

(* The status of main while the job is at it.                              *)
LEMMA JobStatusStep == CloneTypes /\ Hub /\ Journals /\ Jobs /\ [CloneNext]_cloneVars => JobStatus'
<1> SUFFICES ASSUME CloneTypes, Hub, Journals, Jobs, [CloneNext]_cloneVars PROVE JobStatus'
  OBVIOUS
<1>1. ASSUME NEW s \in Services, QuiesceApp(s) PROVE JobStatus'
  BY <1>1, QuiesceEffect DEF JobStatus, Jobs, Cloning, Copying
<1>2. ASSUME NEW s \in Services, PrepareDatabase(s) PROVE JobStatus'
  BY <1>2, PrepareEffect DEF JobStatus, Jobs, Cloning, Copying
<1>3. ASSUME NEW s \in Services, ResumeWriter(s) PROVE JobStatus'
  BY <1>3, Noted DEF ResumeWriter, RecoverThrows, Original, At, NoJob, NewJob, hubVars, diskVars,
      dataVars, Jobs, JobTarget, JobStatus, JobWork, Hub, Pending, Cloning, Copying, Restoring
<1>4. ASSUME NEW s \in Services, StopTemporary(s) PROVE JobStatus'
  BY <1>4, Noted DEF StopTemporary, RecoverThrows, Original, At, NoJob, NewJob, hubVars, Jobs,
      JobTarget, JobStatus, Cloning, Copying, Restoring
<1>5. ASSUME NEW s \in Services, DownService(s) PROVE JobStatus'
  BY <1>5 DEF DownService, GoWith, Now, hubVars, diskVars, Jobs, JobStatus, Writers, Original
<1>6. CASE InspectThrows
  BY <1>6 DEF InspectThrows, CloneThrows, Now, At, hubVars, diskVars, Jobs, JobStatus, CloneTypes,
      Temporary, Original
<1>7. CASE AppsQuiet
  BY <1>7 DEF AppsQuiet, GoWith, Now, At, hubVars, diskVars, Jobs, JobStatus, CloneTypes,
      Temporary, Original
<1>8. CASE StopWriter
  BY <1>8 DEF StopWriter, CloneThrows, GoWith, GoTo, Now, At, hubVars, diskVars, Jobs, JobStatus,
      Hub, CloneTypes, Journals, Journal, Original
<1>9. CASE StartTemporary
  BY <1>9 DEF StartTemporary, CloneThrows, GoTo, Now, At, hubVars, diskVars, Jobs, JobStatus,
      Cloning, Copying, Restoring, Original
<1>10. CASE FilesNext
  BY <1>10 DEF FilesNext, GoFor, Now, At, hubVars, diskVars, Jobs, JobStatus, CloneTypes,
      Temporary, Original
<1>11. CASE CopyPiece
  BY <1>11 DEF CopyPiece, CloneThrows, GoWith, GoTo, Now, At, hubVars, diskVars, Jobs, JobStatus,
      Cloning, Copying, Restoring, Original
<1>12. CASE Supersede
  BY <1>12, Noted DEF Supersede, GoTo, Now, At, Original, hubVars, Jobs, JobTarget, JobStatus,
      Hub, CloneTypes, Journals, Journal
<1>13. CASE RestoreStatus
  BY <1>13, CloneFacts DEF RestoreStatus, GoTo, Now, Writers, Original, JobStatus, CloneTypes
<1>14. CASE Forget
  <2>1. job'.at \in {"complete", "none"}
    BY <1>14 DEF Forget, GoTo, Now, NoJob, NewJob
  <2> QED BY <2>1 DEF JobStatus, Cloning, Copying, Restoring
<1>15. CASE MarkComplete
  BY <1>15 DEF MarkComplete, GoTo, Now, JobStatus, Cloning, Copying, Restoring
<1>16. CASE StartApps
  BY <1>16 DEF StartApps, NoJob, NewJob, JobStatus, Cloning, Copying, Restoring
<1>17. CASE EndDeployMain
  BY <1>17 DEF EndDeployMain, NoJob, NewJob, JobStatus, Cloning, Copying, Restoring
<1>18. CASE EndDown
  BY <1>18 DEF EndDown, NoJob, NewJob, JobStatus, Cloning, Copying, Restoring
<1>19. CASE RemoveData
  BY <1>19 DEF RemoveData, At, NoJob, NewJob, JobStatus, Cloning, Copying, Restoring
<1>20. CASE Startup
  <2>1. job.at \notin Cloning \cup {"deploy", "down", "delete"}
    BY <1>20 DEF Startup, Hub, NoJob, NewJob, Cloning, Restoring
  <2> QED BY <1>20, <2>1 DEF Startup, Hub, NoJob, NewJob, JobStatus, Cloning, Restoring
<1>21. CASE StartupEnds
  BY <1>21 DEF StartupEnds, NoJob, NewJob, JobStatus, Cloning, Copying, Restoring
<1>22. ASSUME NEW t \in Branch, RecoverNext(t) PROVE JobStatus'
  BY <1>22 DEF RecoverNext, NewJob, JobStatus
<1>23. ASSUME NEW t \in Branch, SkipRecovery(t) PROVE JobStatus'
  <2>1. job.at \notin Cloning \cup {"deploy", "down", "delete"}
    BY <1>23 DEF SkipRecovery, NoJob, NewJob, Cloning, Copying, Restoring
  <2> QED BY <1>23, <2>1 DEF SkipRecovery, NoJob, NewJob, JobStatus, Cloning, Restoring
<1>24. ASSUME NEW t \in Branch, BeginClone(t) PROVE JobStatus'
  BY <1>24, CloneFacts DEF BeginClone, NoJob, NewJob, Jobs, JobStatus, CloneTypes, Original
<1>25. ASSUME NEW t \in Branch, Redeploy(t) PROVE JobStatus'
  BY <1>25, CloneFacts DEF Redeploy, Hub, NoJob, NewJob, Jobs, JobStatus, Writers, Original
<1>26. ASSUME NEW t \in Branch, DeleteTarget(t) PROVE JobStatus'
  BY <1>26, CloneFacts DEF DeleteTarget, Hub, NoJob, NewJob, Jobs, JobStatus, Writers, Original
<1>27. CASE BeginDeployMain
  BY <1>27 DEF BeginDeployMain, NoJob, NewJob, JobStatus, CloneTypes, Cloning, Copying, Restoring
<1>28. ASSUME NEW delete \in BOOLEAN, BeginDown(delete) PROVE JobStatus'
  BY <1>28 DEF BeginDown, NoJob, NewJob, JobStatus, CloneTypes, Cloning, Copying, Restoring
<1>29. CASE Exit
  BY <1>29 DEF Exit, NoJob, NewJob, JobStatus
<1>30. CASE Reboot
  BY <1>30 DEF Reboot, Hub, NoJob, NewJob, hubVars, diskVars, Jobs, JobStatus, Writers, Original
<1>31. CASE UNCHANGED cloneVars
  BY <1>31 DEF cloneVars, hubVars, diskVars, Jobs, JobStatus, Writers, Original
<1>32. CASE Inspect
  BY <1>32, InspectEffect DEF JobStatus, Jobs, Cloning, Copying, Restoring
<1>33. ASSUME NEW s \in Services, RestartService(s) PROVE JobStatus'
  BY <1>33, RestartEffect DEF JobStatus, Jobs, Cloning, Copying, Restoring
<1> QED
  BY <1>1, <1>2, <1>3, <1>4, <1>5, <1>6, <1>7, <1>8, <1>9, <1>10, <1>11, <1>12, <1>13, <1>14,
      <1>15, <1>16, <1>17, <1>18, <1>19, <1>20, <1>21, <1>22, <1>23, <1>24, <1>25, <1>26, <1>27,
        <1>28, <1>29, <1>30, <1>31, <1>32, <1>33
     DEF CloneNext, JobStep, StartupStep

(* What the job has left.                                                  *)
LEMMA JobWorkStep == CloneTypes /\ Hub /\ Journals /\ Jobs /\ [CloneNext]_cloneVars => JobWork'
<1> SUFFICES ASSUME CloneTypes, Hub, Journals, Jobs, [CloneNext]_cloneVars PROVE JobWork'
  OBVIOUS
<1>1. ASSUME NEW s \in Services, QuiesceApp(s) PROVE JobWork'
  BY <1>1, QuiesceEffect DEF JobWork, Jobs
<1>2. ASSUME NEW s \in Services, PrepareDatabase(s) PROVE JobWork'
  BY <1>2, PrepareEffect, CloneFacts DEF JobWork, Jobs
<1>3. ASSUME NEW s \in Services, ResumeWriter(s) PROVE JobWork'
  BY <1>3 DEF ResumeWriter, RecoverThrows, At, NoJob, NewJob, JobWork
<1>4. ASSUME NEW s \in Services, StopTemporary(s) PROVE JobWork'
  BY <1>4 DEF StopTemporary, RecoverThrows, At, NoJob, NewJob, JobWork
<1>5. ASSUME NEW s \in Services, DownService(s) PROVE JobWork'
  BY <1>5 DEF DownService, GoWith, Now, At, Jobs, JobWork
<1>6. CASE InspectThrows
  BY <1>6 DEF InspectThrows, CloneThrows, Now, JobWork
<1>7. CASE AppsQuiet
  BY <1>7 DEF AppsQuiet, GoWith, Now, JobWork
<1>8. CASE StopWriter
  BY <1>8, CloneFacts DEF StopWriter, CloneThrows, GoWith, GoTo, Now, At, Jobs, JobTarget,
      JobWork, CloneTypes, Journals, Journal, Restoring, NoJournal, Writers
<1>9. CASE StartTemporary
  BY <1>9, CloneFacts DEF StartTemporary, CloneThrows, GoTo, Now, At, Jobs, JobTarget, JobWork,
      CloneTypes, Journal, Pending, NoJournal, Writers, Temporary
<1>10. CASE FilesNext
  BY <1>10, CloneFacts DEF FilesNext, GoFor, Now, JobWork
<1>11. CASE CopyPiece
  BY <1>11 DEF CopyPiece, CloneThrows, GoWith, GoTo, Now, At, Jobs, JobWork
<1>12. CASE Supersede
  BY <1>12 DEF Supersede, GoTo, Now, JobWork
<1>13. CASE RestoreStatus
  BY <1>13 DEF RestoreStatus, GoTo, Now, JobWork
<1>14. CASE Forget
  BY <1>14 DEF Forget, GoTo, Now, NoJob, NewJob, JobWork
<1>15. CASE MarkComplete
  BY <1>15 DEF MarkComplete, GoTo, Now, JobWork
<1>16. CASE StartApps
  BY <1>16 DEF StartApps, NoJob, NewJob, JobWork
<1>17. CASE EndDeployMain
  BY <1>17 DEF EndDeployMain, NoJob, NewJob, JobWork
<1>18. CASE EndDown
  BY <1>18 DEF EndDown, NoJob, NewJob, JobWork
<1>19. CASE RemoveData
  BY <1>19 DEF RemoveData, At, NoJob, NewJob, JobWork
<1>20. CASE Startup
  BY <1>20 DEF Startup, JobWork, Hub, Copying
<1>21. CASE StartupEnds
  BY <1>21 DEF StartupEnds, NoJob, NewJob, JobWork
<1>22. ASSUME NEW t \in Branch, RecoverNext(t) PROVE JobWork'
  BY <1>22 DEF RecoverNext, NewJob, JobWork
<1>23. ASSUME NEW t \in Branch, SkipRecovery(t) PROVE JobWork'
  BY <1>23 DEF SkipRecovery, JobWork, Hub, Copying
<1>24. ASSUME NEW t \in Branch, BeginClone(t) PROVE JobWork'
  BY <1>24 DEF BeginClone, NoJob, NewJob, JobWork
<1>25. ASSUME NEW t \in Branch, Redeploy(t) PROVE JobWork'
  BY <1>25 DEF Redeploy, Hub, NoJob, NewJob, mainVars, Jobs, JobWork, Writers, Temporary
<1>26. ASSUME NEW t \in Branch, DeleteTarget(t) PROVE JobWork'
  BY <1>26 DEF DeleteTarget, Hub, NoJob, NewJob, mainVars, Jobs, JobWork, Writers, Temporary
<1>27. CASE BeginDeployMain
  BY <1>27 DEF BeginDeployMain, NewJob, JobWork
<1>28. ASSUME NEW delete \in BOOLEAN, BeginDown(delete) PROVE JobWork'
  BY <1>28 DEF BeginDown, NewJob, mainVars, JobWork, CloneTypes
<1>29. CASE Exit
  BY <1>29 DEF Exit, NoJob, NewJob, JobWork
<1>30. CASE Reboot
  BY <1>30 DEF Reboot, NoJob, NewJob, JobWork, Hub, Copying
<1>31. CASE UNCHANGED cloneVars
  BY <1>31 DEF cloneVars, diskVars, mainVars, Jobs, JobWork, Writers, Temporary, AssertRecovered,
      Pending
<1>32. CASE Inspect
  BY <1>32, InspectEffect DEF JobWork, Jobs, AssertRecovered, Pending
<1>33. ASSUME NEW s \in Services, RestartService(s) PROVE JobWork'
  <2>1. AssertRecovered(Main)' <=> AssertRecovered(Main)
    BY <1>33, RestartEffect DEF AssertRecovered, Pending
  <2>2. /\ job.at = "restart" /\ job'.at = "restart" /\ UNCHANGED status
        /\ ~job'.failed => ~job.failed
        /\ ~job'.failed /\ Services \ running \subseteq job.todo =>
             Services \ running' \subseteq job'.todo
    BY <1>33, RestartEffect
  <2>3. ~job.failed /\ status[Main] = "running" /\ AssertRecovered(Main) =>
          Services \ running \subseteq job.todo
    BY <2>2 DEF JobWork, Jobs
  <2>4. ~job'.failed /\ status'[Main] = "running" /\ AssertRecovered(Main)' =>
          Services \ running' \subseteq job'.todo
    <3>1. UNCHANGED status
      BY <2>2
    <3> QED BY <2>1, <2>2, <2>3, <3>1, Zenon
  <2> QED BY <2>2, <2>4 DEF JobWork
<1> QED
  BY <1>1, <1>2, <1>3, <1>4, <1>5, <1>6, <1>7, <1>8, <1>9, <1>10, <1>11, <1>12, <1>13, <1>14,
      <1>15, <1>16, <1>17, <1>18, <1>19, <1>20, <1>21, <1>22, <1>23, <1>24, <1>25, <1>26, <1>27,
        <1>28, <1>29, <1>30, <1>31, <1>32, <1>33
     DEF CloneNext, JobStep, StartupStep

(* Main is at rest while data is copied.                                   *)
LEMMA AtRestStep == CloneTypes /\ Hub /\ Journals /\ Jobs /\ AtRest /\ [CloneNext]_cloneVars =>
  AtRest'
<1> SUFFICES ASSUME CloneTypes, Hub, Journals, Jobs, AtRest, [CloneNext]_cloneVars PROVE AtRest'
  OBVIOUS
<1>1. ASSUME NEW s \in Services, QuiesceApp(s) PROVE AtRest'
  BY <1>1, QuiesceEffect DEF AtRest, Jobs, JobWork
<1>2. ASSUME NEW s \in Services, PrepareDatabase(s) PROVE AtRest'
  BY <1>2, PrepareEffect DEF AtRest
<1>3. ASSUME NEW s \in Services, ResumeWriter(s) PROVE AtRest'
  BY <1>3 DEF ResumeWriter, RecoverThrows, At, NoJob, NewJob, AtRest
<1>4. ASSUME NEW s \in Services, StopTemporary(s) PROVE AtRest'
  BY <1>4 DEF StopTemporary, RecoverThrows, At, NoJob, NewJob, AtRest
<1>5. ASSUME NEW s \in Services, DownService(s) PROVE AtRest'
  BY <1>5 DEF DownService, GoWith, Now, At, AtRest
<1>6. CASE InspectThrows
  BY <1>6 DEF InspectThrows, CloneThrows, Now, AtRest
<1>7. CASE AppsQuiet
  BY <1>7 DEF AppsQuiet, GoWith, Now, At, AtRest, Jobs, JobWork
<1>8. CASE StopWriter
  BY <1>8 DEF StopWriter, CloneThrows, GoWith, GoTo, Now, At, AtRest, Jobs, JobTarget, JobWork,
      Hub, CloneTypes, Journals, Writers
<1>9. CASE StartTemporary
  BY <1>9, CloneFacts DEF StartTemporary, CloneThrows, GoTo, Now, At, AtRest, Jobs, JobTarget,
      JobWork, CloneTypes, Journals, Journal, Temporary
<1>10. CASE FilesNext
  BY <1>10, CloneFacts DEF FilesNext, GoFor, Now, At, mainVars, AtRest
<1>11. CASE CopyPiece
  BY <1>11 DEF CopyPiece, CloneThrows, GoWith, GoTo, Now, At, mainVars, AtRest
<1>12. CASE Supersede
  BY <1>12 DEF Supersede, GoTo, Now, AtRest
<1>13. CASE RestoreStatus
  BY <1>13 DEF RestoreStatus, GoTo, Now, AtRest
<1>14. CASE Forget
  BY <1>14 DEF Forget, GoTo, Now, NoJob, NewJob, AtRest
<1>15. CASE MarkComplete
  BY <1>15 DEF MarkComplete, GoTo, Now, AtRest
<1>16. CASE StartApps
  BY <1>16 DEF StartApps, NoJob, NewJob, AtRest
<1>17. CASE EndDeployMain
  BY <1>17 DEF EndDeployMain, NoJob, NewJob, AtRest
<1>18. CASE EndDown
  BY <1>18 DEF EndDown, NoJob, NewJob, AtRest
<1>19. CASE RemoveData
  BY <1>19 DEF RemoveData, At, NoJob, NewJob, AtRest
<1>20. CASE Startup
  BY <1>20 DEF Startup, AtRest, Hub, NoJob, NewJob
<1>21. CASE StartupEnds
  BY <1>21 DEF StartupEnds, NoJob, NewJob, mainVars, AtRest
<1>22. ASSUME NEW t \in Branch, RecoverNext(t) PROVE AtRest'
  BY <1>22 DEF RecoverNext, NewJob, AtRest
<1>23. ASSUME NEW t \in Branch, SkipRecovery(t) PROVE AtRest'
  BY <1>23 DEF SkipRecovery, mainVars, AtRest
<1>24. ASSUME NEW t \in Branch, BeginClone(t) PROVE AtRest'
  BY <1>24 DEF BeginClone, NoJob, NewJob, AtRest
<1>25. ASSUME NEW t \in Branch, Redeploy(t) PROVE AtRest'
  BY <1>25 DEF Redeploy, mainVars, AtRest
<1>26. ASSUME NEW t \in Branch, DeleteTarget(t) PROVE AtRest'
  BY <1>26 DEF DeleteTarget, mainVars, AtRest
<1>27. CASE BeginDeployMain
  BY <1>27 DEF BeginDeployMain, NewJob, AtRest
<1>28. ASSUME NEW delete \in BOOLEAN, BeginDown(delete) PROVE AtRest'
  BY <1>28 DEF BeginDown, NewJob, AtRest
<1>29. CASE Exit
  BY <1>29 DEF Exit, NoJob, NewJob, AtRest
<1>30. CASE Reboot
  BY <1>30 DEF Reboot, AtRest, Hub, Copying
<1>31. CASE UNCHANGED cloneVars
  BY <1>31 DEF cloneVars, mainVars, AtRest
<1>32. CASE Inspect
  BY <1>32, InspectEffect DEF AtRest
<1>33. ASSUME NEW s \in Services, RestartService(s) PROVE AtRest'
  BY <1>33, RestartEffect DEF AtRest
<1> QED
  BY <1>1, <1>2, <1>3, <1>4, <1>5, <1>6, <1>7, <1>8, <1>9, <1>10, <1>11, <1>12, <1>13, <1>14,
      <1>15, <1>16, <1>17, <1>18, <1>19, <1>20, <1>21, <1>22, <1>23, <1>24, <1>25, <1>26, <1>27,
        <1>28, <1>29, <1>30, <1>31, <1>32, <1>33
     DEF CloneNext, JobStep, StartupStep

(* A stopped main stays so.                                                *)
LEMMA StaysStoppedStep ==
  CloneTypes /\ Hub /\ Journals /\ Jobs /\ StaysStopped /\ [CloneNext]_cloneVars => StaysStopped'
<1> SUFFICES ASSUME CloneTypes, Hub, Journals, Jobs, StaysStopped,
                      [CloneNext]_cloneVars PROVE StaysStopped'
  OBVIOUS
<1>1. ASSUME NEW s \in Services, QuiesceApp(s) PROVE StaysStopped'
  BY <1>1, QuiesceEffect DEF StaysStopped, Jobs, JobWork
<1>2. ASSUME NEW s \in Services, PrepareDatabase(s) PROVE StaysStopped'
  <2>1. \A t \in Branch : /\ journal'[t].original = journal[t].original
                          /\ App \cap journal'[t].writers = App \cap journal[t].writers
    BY <1>2, PrepareEffect, CloneFacts DEF Writers
  <2> QED BY <1>2, <2>1, PrepareEffect DEF StaysStopped
<1>3. ASSUME NEW s \in Services, ResumeWriter(s) PROVE StaysStopped'
  BY <1>3, CloneFacts, Noted DEF ResumeWriter, StartFails, RecoverThrows, First, Writers,
      Original, At, diskVars, dataVars, StaysStopped, Jobs, JobTarget, JobStatus, JobWork, Hub,
        CloneTypes, Journals, Journal, Pending, Cloning, Copying, Restoring, NoJournal
<1>4. ASSUME NEW s \in Services, StopTemporary(s) PROVE StaysStopped'
  BY <1>4, CloneFacts, Noted DEF StopTemporary, StopFails, RecoverThrows, Writers, Original, At,
      StaysStopped, Jobs, JobTarget, CloneTypes
<1>5. ASSUME NEW s \in Services, DownService(s) PROVE StaysStopped'
  BY <1>5 DEF DownService, StopFails, GoWith, Now, At, diskVars, StaysStopped
<1>6. CASE InspectThrows
  BY <1>6 DEF InspectThrows, CloneThrows, Now, diskVars, mainVars, StaysStopped
<1>7. CASE AppsQuiet
  BY <1>7 DEF AppsQuiet, GoWith, Now, diskVars, StaysStopped
<1>8. CASE StopWriter
  BY <1>8 DEF StopWriter, StopFails, CloneThrows, GoWith, GoTo, Now, diskVars, StaysStopped
<1>9. CASE StartTemporary
  BY <1>9, CloneFacts DEF StartTemporary, StartFails, CloneThrows, GoTo, Now, At, diskVars,
      StaysStopped, Jobs, JobTarget, JobStatus, JobWork, Hub, CloneTypes, Journals, Journal,
        Temporary
<1>10. CASE FilesNext
  BY <1>10 DEF FilesNext, GoFor, Now, diskVars, mainVars, StaysStopped
<1>11. CASE CopyPiece
  BY <1>11 DEF CopyPiece, CloneThrows, GoWith, GoTo, Now, diskVars, mainVars, StaysStopped
<1>12. CASE Supersede
  BY <1>12, Noted DEF Supersede, GoTo, Now, At, Writers, mainVars, StaysStopped, Jobs, JobTarget,
      JobWork, Hub, CloneTypes, Journals
<1>13. CASE RestoreStatus
  BY <1>13 DEF RestoreStatus, GoTo, Now, Original, At, mainVars, StaysStopped, Jobs, JobTarget,
      JobWork, Hub, CloneTypes, Journals
<1>14. CASE Forget
  BY <1>14, CloneFacts DEF Forget, GoTo, Now, NoJob, NewJob, NoJournal, mainVars, StaysStopped,
      CloneTypes
<1>15. CASE MarkComplete
  BY <1>15 DEF MarkComplete, GoTo, Now, mainVars, StaysStopped
<1>16. CASE StartApps
  BY <1>16 DEF StartApps, NoJob, NewJob, mainVars, StaysStopped
<1>17. CASE EndDeployMain
  BY <1>17 DEF EndDeployMain, At, StaysStopped, Jobs, JobTarget, JobStatus, CloneTypes, Pending,
      Cloning, Copying, Restoring, NoJournal
<1>18. CASE EndDown
  <2>1. UNCHANGED <<journal, running>> /\ job'.at # "resume" /\ job.at \in {"down", "delete"}
    BY <1>18 DEF EndDown, At, NoJob, NewJob
  <2>4. status[Main] # "stopped"
    BY <2>1 DEF Jobs, JobStatus
  <2>5. status'[Main] = "stopped" => ~job.failed
    BY <1>18, <2>4, CloneFacts DEF EndDown, CloneTypes
  <2>2. status'[Main] = "stopped" => running = {}
    <3>1. job.todo = {}
      BY <1>18 DEF EndDown
    <3> QED BY <2>1, <2>5, <3>1 DEF Jobs, JobWork
  <2> QED BY <2>1, <2>2 DEF StaysStopped
<1>19. CASE RemoveData
  BY <1>19 DEF RemoveData, At, NoJob, NewJob, mainVars, StaysStopped, CloneTypes
<1>20. CASE Startup
  BY <1>20 DEF Startup, diskVars, StaysStopped, Writers
<1>21. CASE StartupEnds
  <2>1. status'[Main] = "stopped" => status[Main] = "stopped"
    BY <1>21, CloneFacts DEF StartupEnds, Reconciled
  <2>2. UNCHANGED <<journal, running>> /\ job'.at = "none"
    BY <1>21 DEF StartupEnds, mainVars, NoJob, NewJob
  <2> QED BY <2>1, <2>2 DEF StaysStopped
<1>22. ASSUME NEW t \in Branch, RecoverNext(t) PROVE StaysStopped'
  BY <1>22 DEF RecoverNext, NewJob, diskVars, mainVars, StaysStopped
<1>23. ASSUME NEW t \in Branch, SkipRecovery(t) PROVE StaysStopped'
  BY <1>23, CloneFacts DEF SkipRecovery, mainVars, StaysStopped, Writers
<1>24. ASSUME NEW t \in Branch, BeginClone(t) PROVE StaysStopped'
  BY <1>24, Noted DEF BeginClone, NoJob, NewJob, hubVars, mainVars, StaysStopped, CloneTypes
<1>25. ASSUME NEW t \in Branch, Redeploy(t) PROVE StaysStopped'
  BY <1>25 DEF Redeploy, mainVars, StaysStopped, Writers
<1>26. ASSUME NEW t \in Branch, DeleteTarget(t) PROVE StaysStopped'
  BY <1>26 DEF DeleteTarget, mainVars, StaysStopped, Writers
<1>27. CASE BeginDeployMain
  <2>1. \A t \in Branch : journal'[t] = NoJournal
    BY <1>27 DEF BeginDeployMain, AssertRecovered, Pending
  <2>2. status'[Main] = "deploying" /\ job'.at = "deploy"
    BY <1>27, CloneFacts DEF BeginDeployMain, CloneTypes, NewJob
  <2> QED BY <2>1, <2>2 DEF StaysStopped, NoJournal
<1>28. ASSUME NEW delete \in BOOLEAN, BeginDown(delete) PROVE StaysStopped'
  BY <1>28 DEF BeginDown, NewJob, mainVars, StaysStopped
<1>29. CASE Exit
  BY <1>29 DEF Exit, NoJob, NewJob, diskVars, mainVars, StaysStopped
<1>30. CASE Reboot
  BY <1>30 DEF Reboot, diskVars, StaysStopped, Writers
<1>31. CASE UNCHANGED cloneVars
  BY <1>31 DEF cloneVars, diskVars, mainVars, StaysStopped, Writers
<1>32. CASE Inspect
  BY <1>32, InspectEffect DEF StaysStopped, Jobs, JobTarget, JobStatus, Pending, NoJournal,
      Writers, AssertRecovered
<1>33. ASSUME NEW s \in Services, RestartService(s) PROVE StaysStopped'
  BY <1>33, RestartEffect DEF StaysStopped, Jobs, JobTarget, JobStatus, Pending, NoJournal,
      Writers, AssertRecovered
<1> QED
  BY <1>1, <1>2, <1>3, <1>4, <1>5, <1>6, <1>7, <1>8, <1>9, <1>10, <1>11, <1>12, <1>13, <1>14,
      <1>15, <1>16, <1>17, <1>18, <1>19, <1>20, <1>21, <1>22, <1>23, <1>24, <1>25, <1>26, <1>27,
        <1>28, <1>29, <1>30, <1>31, <1>32, <1>33
     DEF CloneNext, JobStep, StartupStep

(* No writer is lost.                                                      *)
LEMMA AccountedStep ==
  CloneTypes /\ Hub /\ Journals /\ Jobs /\ Accounted /\ [CloneNext]_cloneVars => Accounted'
<1> SUFFICES ASSUME CloneTypes, Hub, Journals, Jobs, Accounted,
                      [CloneNext]_cloneVars PROVE Accounted'
  OBVIOUS
<1>1. ASSUME NEW s \in Services, QuiesceApp(s) PROVE Accounted'
  <2>1. job.target \in Branch /\ Pending(job.target) /\ job.target # Main
    BY <1>1, CloneFacts DEF QuiesceApp, At, Jobs, JobTarget, Cloning, Copying
  <2>7. WritersAccounted'
    BY <1>1, <2>1, QuiesceEffect DEF Accounted, WritersAccounted
  <2>8. ready' /\ job'.at \in Cloning /\ status'[Main] = "running" => Temporary' = {}
    BY <1>1, <2>1, QuiesceEffect DEF Accounted, Cloning, Copying
  <2>9. \A t \in Branch \ pending' :
          up' /\ Pending(t)' /\ ~(job'.at \in Cloning /\ job'.target = t) =>
            status'[Main] # "running"
    BY <1>1, <2>1, QuiesceEffect DEF Accounted, Cloning, Copying
  <2> QED BY <2>7, <2>8, <2>9, Zenon DEF Accounted
<1>2. ASSUME NEW s \in Services, PrepareDatabase(s) PROVE Accounted'
  <2>1. job.target \in Branch /\ Pending(job.target) /\ job.target # Main
    BY <1>2, CloneFacts DEF PrepareDatabase, At, Jobs, JobTarget, Cloning, Copying
  <2>7. WritersAccounted'
    BY <1>2, <2>1, PrepareEffect DEF Accounted, WritersAccounted
  <2>8. ready' /\ job'.at \in Cloning /\ status'[Main] = "running" => Temporary' = {}
    BY <1>2, <2>1, PrepareEffect, CloneFacts DEF Accounted, WritersAccounted, Journals, Cloning,
        Copying
  <2>9. \A t \in Branch \ pending' :
          up' /\ Pending(t)' /\ ~(job'.at \in Cloning /\ job'.target = t) =>
            status'[Main] # "running"
    BY <1>2, <2>1, PrepareEffect DEF Accounted, Cloning, Copying
  <2> QED BY <2>7, <2>8, <2>9, Zenon DEF Accounted
<1>3. ASSUME NEW s \in Services, ResumeWriter(s) PROVE Accounted'
  <2>1. job.target \in Branch /\ Pending(job.target) /\ job.target # Main
    BY <1>3, CloneFacts DEF ResumeWriter, At, Jobs, JobTarget, Cloning, Restoring
  <2>2. CASE UNCHANGED <<journal, status, job>> /\ s \in Writers /\ running' = running \ {s}
    BY <1>3, <2>1, <2>2 DEF ResumeWriter, hubVars, Accounted, WritersAccounted, Writers,
        Temporary, Pending
  <2>3. CASE /\ Note(Writers \ {s}, Temporary, Original) /\ UNCHANGED <<status, job>>
             /\ running' = running \cup {s}
    <3>1. /\ \A t \in Branch : journal[t].writers \subseteq journal'[t].writers \cup {s}
          /\ \A t \in Branch \ {job.target} : journal'[t] = journal[t]
          /\ Temporary' = Temporary
      BY <2>1, <2>3, Noted DEF Writers, Temporary
    <3>2. WritersAccounted'
      BY <1>3, <2>3, <3>1 DEF ResumeWriter, hubVars, Accounted, WritersAccounted
    <3>3. UNCHANGED <<ready, up, pending, status, job>>
      BY <1>3, <2>3 DEF ResumeWriter, hubVars
    <3>4. job.at \in Cloning
      BY <1>3 DEF ResumeWriter, At, Cloning, Restoring
    <3> QED BY <3>1, <3>2, <3>3, <3>4 DEF Accounted, Pending
  <2>4. CASE RecoverThrows
    <3>1. status'[Main] = "failed"
      BY <2>1, <2>4, CloneFacts DEF RecoverThrows, CloneTypes
    <3> QED BY <3>1 DEF Accounted, WritersAccounted
  <2> QED BY <1>3, <2>2, <2>3, <2>4 DEF ResumeWriter, diskVars, First
<1>4. ASSUME NEW s \in Services, StopTemporary(s) PROVE Accounted'
  <2>1. job.target \in Branch /\ Pending(job.target) /\ job.target # Main
    BY <1>4, CloneFacts DEF StopTemporary, At, Jobs, JobTarget, Cloning, Restoring
  <2>2. CASE Note(Writers, Temporary \ {s}, Original) /\ UNCHANGED <<status, job>>
    <3>1. UNCHANGED <<ready, up, pending, status, job>> /\ job.at \in Cloning /\ s \in Temporary
      BY <1>4, <2>2 DEF StopTemporary, hubVars, At, Cloning, Restoring
    <3>2. \A t \in Branch \ {job.target} : journal'[t] = journal[t]
      BY <2>1, <2>2, Noted
    <3>3. ~(ready /\ status[Main] = "running")
      BY <3>1 DEF Accounted
    <3> QED BY <3>1, <3>2, <3>3 DEF Accounted, WritersAccounted, Pending
  <2>4. CASE RecoverThrows
    <3>1. status'[Main] = "failed"
      BY <2>1, <2>4, CloneFacts DEF RecoverThrows, CloneTypes
    <3> QED BY <3>1 DEF Accounted, WritersAccounted
  <2> QED BY <1>4, <2>2, <2>4 DEF StopTemporary, diskVars
<1>5. ASSUME NEW s \in Services, DownService(s) PROVE Accounted'
  BY <1>5 DEF DownService, At, diskVars, Accounted, WritersAccounted, Jobs, JobStatus
<1>6. CASE InspectThrows
  BY <1>6 DEF InspectThrows, CloneThrows, Now, At, hubVars, diskVars, mainVars, Accounted,
      WritersAccounted, Pending, Cloning, Copying, Restoring, NoJournal, Writers, Temporary
<1>7. CASE AppsQuiet
  BY <1>7 DEF AppsQuiet, GoWith, Now, At, hubVars, diskVars, Accounted, WritersAccounted, Pending,
      Cloning, Copying, Restoring, NoJournal, Writers, Temporary
<1>8. CASE StopWriter
  BY <1>8 DEF StopWriter, StopFails, CloneThrows, GoWith, GoTo, Now, At, diskVars, Accounted,
      WritersAccounted, Jobs, JobTarget, JobStatus, JobWork, Hub, CloneTypes, Journals, Journal,
        Pending, Cloning, Copying, Restoring, NoJournal, Writers, Temporary
<1>9. CASE StartTemporary
  BY <1>9 DEF StartTemporary, At, diskVars, Accounted, WritersAccounted, Jobs, JobWork, Hub,
      CloneTypes, Journals, Copying, Restoring, NoJournal
<1>10. CASE FilesNext
  BY <1>10 DEF FilesNext, GoFor, Now, At, hubVars, diskVars, mainVars, Accounted,
      WritersAccounted, Pending, Cloning, Copying, Restoring, NoJournal, Writers, Temporary
<1>11. CASE CopyPiece
  BY <1>11 DEF CopyPiece, CloneThrows, GoWith, GoTo, Now, At, hubVars, diskVars, mainVars,
      Accounted, WritersAccounted, Pending, Cloning, Copying, Restoring, NoJournal, Writers,
        Temporary, Original
<1>12. CASE Supersede
  BY <1>12 DEF Supersede, GoTo, Now, At, Temporary, hubVars, mainVars, Accounted,
      WritersAccounted, Journal, Pending, Cloning, Copying, Restoring
<1>13. CASE RestoreStatus
  BY <1>13 DEF RestoreStatus, GoTo, Now, Temporary, At, hubVars, mainVars, Accounted,
      WritersAccounted, Jobs, JobTarget, JobStatus, Journals, Journal, Pending, Cloning, Copying,
        Restoring
<1>14. CASE Forget
  <2>1. job.target \in Branch /\ Pending(job.target) /\ job.target # Main
    BY <1>14, CloneFacts DEF Forget, At, Jobs, JobTarget, Cloning, Restoring
  <2>2. /\ \A t \in Branch : journal'[t] = NoJournal
        /\ \A t \in Branch : journal[t].writers = {}
    <3>1. NoJournal.writers = {}
      BY DEF NoJournal
    <3>2. Writers = {}
      BY <1>14 DEF Forget, Jobs, JobStatus, At
    <3> QED BY <1>14, <2>1, <3>1, <3>2 DEF Forget, Journals, CloneTypes, Pending, Writers
  <2>3. status'[Main] = status[Main] /\ UNCHANGED <<ready, running>>
    BY <1>14, <2>1, CloneFacts DEF Forget, CloneTypes, hubVars, mainVars
  <2>4. job'.at \in {"complete", "none"}
    BY <1>14 DEF Forget, GoTo, Now, NoJob, NewJob
  <2>5. WritersAccounted'
    BY <2>2, <2>3 DEF Accounted, WritersAccounted
  <2> QED BY <2>2, <2>4, <2>5 DEF Accounted, Pending, Cloning, Copying, Restoring
<1>15. CASE MarkComplete
  BY <1>15 DEF MarkComplete, GoTo, Now, At, hubVars, mainVars, Accounted, WritersAccounted,
      Pending, Cloning, Copying, Restoring
<1>16. CASE StartApps
  BY <1>16, CloneFacts DEF StartApps, At, NoJob, NewJob, hubVars, mainVars, Accounted,
      WritersAccounted, Jobs, JobTarget, Journal, Pending, Cloning, Copying, Restoring
<1>17. CASE EndDeployMain
  BY <1>17 DEF EndDeployMain, At, NoJob, NewJob, Accounted, WritersAccounted, Jobs, JobTarget,
      JobStatus, CloneTypes, Journal, Pending, Cloning, Copying, Restoring
<1>18. CASE EndDown
  BY <1>18, CloneFacts DEF EndDown, Accounted, WritersAccounted, CloneTypes
<1>19. CASE RemoveData
  BY <1>19 DEF RemoveData, At, NoJob, NewJob, mainVars, Accounted, WritersAccounted, Hub,
      CloneTypes, Journal, Pending, Cloning, Copying, Restoring
<1>20. CASE Startup
  BY <1>20 DEF Startup, diskVars, Accounted, WritersAccounted, Hub, Pending
<1>21. CASE StartupEnds
  <2>1. /\ UNCHANGED <<up, pending, journal, running>>
        /\ up /\ pending = {} /\ job.at = "restart" /\ job.todo = {} /\ job'.at = "none"
    BY <1>21 DEF StartupEnds, At, Hub, mainVars, NoJob, NewJob
  <2>2. status'[Main] = Reconciled(Main)
    BY <1>21, CloneFacts DEF StartupEnds
  <2>3. status'[Main] = "running" => status[Main] = "running" /\ (AssertRecovered(Main) =>
          Services \ running = {})
    BY <2>1, <2>2 DEF Reconciled, Jobs, JobWork
  <2>4. status[Main] = "running" => AssertRecovered(Main)
    BY <2>1 DEF Accounted, AssertRecovered, Cloning, Copying, Restoring
  <2>5. WritersAccounted'
    BY <2>1, <2>3, <2>4 DEF WritersAccounted
  <2>6. \A t \in Branch : Pending(t)' => status'[Main] # "running"
    BY <2>1, <2>3, <2>4 DEF AssertRecovered, Pending
  <2> QED BY <2>1, <2>5, <2>6 DEF Accounted, Cloning, Copying, Restoring
<1>22. ASSUME NEW t \in Branch, RecoverNext(t) PROVE Accounted'
  BY <1>22 DEF RecoverNext, NoJob, NewJob, diskVars, Accounted, WritersAccounted, Pending,
      Cloning, Copying, Restoring
<1>23. ASSUME NEW t \in Branch, SkipRecovery(t) PROVE Accounted'
  BY <1>23, CloneFacts DEF SkipRecovery, Accounted, WritersAccounted
<1>24. ASSUME NEW t \in Branch, BeginClone(t) PROVE Accounted'
  <2>1. status'[Main] = status[Main] /\ UNCHANGED <<up, ready, pending, running>>
    BY <1>24, CloneFacts DEF BeginClone, CloneTypes, hubVars, mainVars
  <2>2. \A u \in Branch : journal[u] = NoJournal
    BY <1>24 DEF BeginClone, AssertRecovered, Pending
  <2>3. WritersAccounted'
    BY <2>1, <2>2 DEF Accounted, WritersAccounted, NoJournal
  <2>4. CASE UNCHANGED <<journal, job>>
    BY <2>1, <2>3, <2>4 DEF Accounted, Temporary, Pending
  <2>5. ASSUME NEW j, j = [writers |-> {}, temporary |-> {}, original |-> status[Main]],
               journal' = [journal EXCEPT ![t] = j], job' = NewJob("quiesce", t, App)
        PROVE  Accounted'
    <3>1. j.temporary = {} /\ job'.target = t /\ job'.at = "quiesce"
      BY <2>5 DEF NewJob
    <3>2. journal'[t] = j /\ \A u \in Branch \ {t} : journal'[u] = NoJournal
      BY <2>2, <2>5 DEF CloneTypes
    <3> QED BY <2>3, <3>1, <3>2 DEF Accounted, Temporary, Pending, Cloning, Copying
  <2> QED BY <1>24, <2>4, <2>5 DEF BeginClone
<1>25. ASSUME NEW t \in Branch, Redeploy(t) PROVE Accounted'
  BY <1>25, CloneFacts DEF Redeploy, hubVars, mainVars, Accounted, WritersAccounted, Pending,
      Temporary
<1>26. ASSUME NEW t \in Branch, DeleteTarget(t) PROVE Accounted'
  BY <1>26 DEF DeleteTarget, hubVars, mainVars, Accounted, WritersAccounted, Pending, Temporary
<1>27. CASE BeginDeployMain
  BY <1>27, CloneFacts DEF BeginDeployMain, Accounted, WritersAccounted, CloneTypes
<1>28. ASSUME NEW delete \in BOOLEAN, BeginDown(delete) PROVE Accounted'
  BY <1>28 DEF BeginDown, NoJob, NewJob, hubVars, mainVars, Accounted, WritersAccounted, Pending,
      Cloning, Copying, Restoring
<1>29. CASE Exit
  BY <1>29 DEF Exit, Accounted, WritersAccounted
<1>30. CASE Reboot
  BY <1>30 DEF Reboot, hubVars, Accounted, WritersAccounted, Hub
<1>31. CASE UNCHANGED cloneVars
  BY <1>31 DEF cloneVars, hubVars, diskVars, mainVars, Accounted, WritersAccounted, Pending,
      Temporary
<1>32. CASE Inspect
  BY <1>32, InspectEffect DEF Accounted, WritersAccounted, Hub, Pending, Cloning, Copying, Restoring
<1>33. ASSUME NEW s \in Services, RestartService(s) PROVE Accounted'
  BY <1>33, RestartEffect DEF Accounted, WritersAccounted, Hub, Pending, Cloning, Copying, Restoring
<1> QED
  BY <1>1, <1>2, <1>3, <1>4, <1>5, <1>6, <1>7, <1>8, <1>9, <1>10, <1>11, <1>12, <1>13, <1>14,
      <1>15, <1>16, <1>17, <1>18, <1>19, <1>20, <1>21, <1>22, <1>23, <1>24, <1>25, <1>26, <1>27,
        <1>28, <1>29, <1>30, <1>31, <1>32, <1>33
     DEF CloneNext, JobStep, StartupStep

(* What a step adds to a copy, and to what runs of a main that is stopped. *)
CopiesAtRest ==
  \A t \in Branch : \A p \in copied'[t] \ copied[t] :
    /\ App \cap running = {}
    /\ p \in Db => (p \in FileDb <=> p \notin running)
StartsNothing ==
  /\ status[Main] = "stopped" \/ \E t \in Branch : journal[t].original = "stopped"
  /\ status'[Main] # "deploying"
  => App \cap running' \subseteq running

(* Data is copied at rest.                                                 *)
LEMMA CopyStep ==
  ASSUME CloneIInv, CloneNext
  PROVE  CopiesAtRest
<1>1. ASSUME NEW s \in Services, QuiesceApp(s) PROVE CopiesAtRest
  BY <1>1, QuiesceEffect DEF CloneIInv, CopiesAtRest
<1>2. ASSUME NEW s \in Services, PrepareDatabase(s) PROVE CopiesAtRest
  BY <1>2, PrepareEffect DEF CloneIInv, CopiesAtRest
<1>3. ASSUME NEW s \in Services, ResumeWriter(s) PROVE CopiesAtRest
  BY <1>3 DEF ResumeWriter, dataVars, CopiesAtRest
<1>4. ASSUME NEW s \in Services, StopTemporary(s) PROVE CopiesAtRest
  BY <1>4 DEF StopTemporary, dataVars, CopiesAtRest
<1>5. ASSUME NEW s \in Services, DownService(s) PROVE CopiesAtRest
  BY <1>5 DEF DownService, dataVars, CopiesAtRest
<1>6. CASE InspectThrows
  BY <1>6 DEF InspectThrows, dataVars, CopiesAtRest
<1>7. CASE AppsQuiet
  BY <1>7 DEF AppsQuiet, dataVars, CopiesAtRest
<1>8. CASE StopWriter
  BY <1>8 DEF StopWriter, dataVars, CopiesAtRest
<1>9. CASE StartTemporary
  BY <1>9 DEF StartTemporary, dataVars, CopiesAtRest
<1>10. CASE FilesNext
  BY <1>10 DEF FilesNext, dataVars, CopiesAtRest
<1>11. CASE CopyPiece
  <2>1. \A t \in Branch : copied'[t] \ copied[t] \subseteq {job.cur}
    BY <1>11 DEF CopyPiece, CloneIInv, CloneTypes
  <2>2. job.at = "copy"
    BY <1>11 DEF CopyPiece, At
  <2> QED BY <2>1, <2>2 DEF CloneIInv, AtRest, CopiesAtRest
<1>12. CASE Supersede
  BY <1>12 DEF Supersede, dataVars, CopiesAtRest
<1>13. CASE RestoreStatus
  BY <1>13 DEF RestoreStatus, dataVars, CopiesAtRest
<1>14. CASE Forget
  BY <1>14 DEF Forget, dataVars, CopiesAtRest
<1>15. CASE MarkComplete
  BY <1>15 DEF MarkComplete, dataVars, CopiesAtRest
<1>16. CASE StartApps
  BY <1>16 DEF StartApps, dataVars, CopiesAtRest
<1>17. CASE EndDeployMain
  BY <1>17 DEF EndDeployMain, dataVars, CopiesAtRest
<1>18. CASE EndDown
  BY <1>18 DEF EndDown, dataVars, CopiesAtRest
<1>19. CASE RemoveData
  BY <1>19 DEF RemoveData, CopiesAtRest
<1>20. CASE Startup
  BY <1>20 DEF Startup, dataVars, CopiesAtRest
<1>21. CASE StartupEnds
  BY <1>21 DEF StartupEnds, dataVars, CopiesAtRest
<1>22. ASSUME NEW t \in Branch, RecoverNext(t) PROVE CopiesAtRest
  BY <1>22 DEF RecoverNext, dataVars, CopiesAtRest
<1>23. ASSUME NEW t \in Branch, SkipRecovery(t) PROVE CopiesAtRest
  BY <1>23 DEF SkipRecovery, dataVars, CopiesAtRest
<1>24. ASSUME NEW t \in Branch, BeginClone(t) PROVE CopiesAtRest
  BY <1>24 DEF BeginClone, CloneIInv, CloneTypes, CopiesAtRest
<1>25. ASSUME NEW t \in Branch, Redeploy(t) PROVE CopiesAtRest
  BY <1>25 DEF Redeploy, dataVars, CopiesAtRest
<1>26. ASSUME NEW t \in Branch, DeleteTarget(t) PROVE CopiesAtRest
  BY <1>26 DEF DeleteTarget, CloneTypes, CopiesAtRest
<1>27. CASE BeginDeployMain
  BY <1>27 DEF BeginDeployMain, CopiesAtRest
<1>28. ASSUME NEW delete \in BOOLEAN, BeginDown(delete) PROVE CopiesAtRest
  BY <1>28 DEF BeginDown, dataVars, CopiesAtRest
<1>29. CASE Exit
  BY <1>29 DEF Exit, dataVars, CopiesAtRest
<1>30. CASE Reboot
  BY <1>30 DEF Reboot, dataVars, CopiesAtRest
<1>32. CASE Inspect
  BY <1>32, InspectEffect DEF CopiesAtRest
<1>33. ASSUME NEW s \in Services, RestartService(s) PROVE CopiesAtRest
  BY <1>33, RestartEffect DEF CopiesAtRest
<1> QED
  BY <1>1, <1>2, <1>3, <1>4, <1>5, <1>6, <1>7, <1>8, <1>9, <1>10, <1>11, <1>12, <1>13, <1>14,
      <1>15, <1>16, <1>17, <1>18, <1>19, <1>20, <1>21, <1>22, <1>23, <1>24, <1>25, <1>26, <1>27,
        <1>28, <1>29, <1>30, <1>32, <1>33
     DEF CloneNext, JobStep, StartupStep

(* A stopped main is left stopped.                                         *)
LEMMA StopStep ==
  ASSUME CloneIInv, CloneNext
  PROVE  StartsNothing
<1>1. ASSUME NEW s \in Services, QuiesceApp(s) PROVE StartsNothing
  BY <1>1, QuiesceEffect DEF CloneIInv, StartsNothing
<1>2. ASSUME NEW s \in Services, PrepareDatabase(s) PROVE StartsNothing
  BY <1>2, PrepareEffect DEF CloneIInv, StartsNothing
<1>3. ASSUME NEW s \in Services, ResumeWriter(s) PROVE StartsNothing
  <2>1. CASE s \in App /\ (status[Main] = "stopped" \/
               \E t \in Branch : journal[t].original = "stopped")
    <3>1. job.at = "resume" /\ s \in Writers /\ job.target \in Branch /\ Pending(job.target)
      BY <1>3 DEF ResumeWriter, First, At, CloneIInv, Jobs, JobTarget, Cloning, Restoring
    <3>2. \A t \in Branch : journal[t].original = "stopped" => t = job.target
      BY <3>1 DEF CloneIInv, Journals, Pending, NoJournal
    <3> QED BY <2>1, <3>1, <3>2 DEF CloneIInv, StaysStopped, Writers
  <2>2. CASE ~(s \in App /\ (status[Main] = "stopped" \/
               \E t \in Branch : journal[t].original = "stopped"))
    BY <1>3, <2>2 DEF ResumeWriter, StartFails, StartsNothing
  <2> QED BY <2>1, <2>2
<1>4. ASSUME NEW s \in Services, StopTemporary(s) PROVE StartsNothing
  BY <1>4 DEF StopTemporary, StopFails, StartsNothing
<1>5. ASSUME NEW s \in Services, DownService(s) PROVE StartsNothing
  BY <1>5 DEF DownService, StopFails, StartsNothing
<1>6. CASE InspectThrows
  BY <1>6 DEF InspectThrows, mainVars, StartsNothing
<1>7. CASE AppsQuiet
  BY <1>7 DEF AppsQuiet, StartsNothing
<1>8. CASE StopWriter
  BY <1>8 DEF StopWriter, StopFails, StartsNothing
<1>9. CASE StartTemporary
  <2>1. job.cur \notin App
    BY <1>9, CloneFacts, JobsJournal DEF StartTemporary, At, CloneIInv, Jobs, JobTarget, JobWork,
        Cloning, Copying
  <2> QED BY <1>9, <2>1 DEF StartTemporary, StartFails, StartsNothing
<1>10. CASE FilesNext
  BY <1>10 DEF FilesNext, mainVars, StartsNothing
<1>11. CASE CopyPiece
  BY <1>11 DEF CopyPiece, mainVars, StartsNothing
<1>12. CASE Supersede
  BY <1>12 DEF Supersede, mainVars, StartsNothing
<1>13. CASE RestoreStatus
  BY <1>13 DEF RestoreStatus, mainVars, StartsNothing
<1>14. CASE Forget
  BY <1>14 DEF Forget, mainVars, StartsNothing
<1>15. CASE MarkComplete
  BY <1>15 DEF MarkComplete, mainVars, StartsNothing
<1>16. CASE StartApps
  BY <1>16 DEF StartApps, mainVars, StartsNothing
<1>17. CASE EndDeployMain
  <2>1. status[Main] = "deploying" /\ \A t \in Branch : journal[t] = NoJournal
    BY <1>17 DEF EndDeployMain, At, CloneIInv, Jobs, JobTarget, JobStatus, Pending
  <2> QED BY <2>1 DEF StartsNothing, NoJournal
<1>18. CASE EndDown
  BY <1>18 DEF EndDown, StartsNothing
<1>19. CASE RemoveData
  BY <1>19 DEF RemoveData, mainVars, StartsNothing
<1>20. CASE Startup
  BY <1>20 DEF Startup, StartsNothing
<1>21. CASE StartupEnds
  BY <1>21 DEF StartupEnds, mainVars, StartsNothing
<1>22. ASSUME NEW t \in Branch, RecoverNext(t) PROVE StartsNothing
  BY <1>22 DEF RecoverNext, mainVars, StartsNothing
<1>23. ASSUME NEW t \in Branch, SkipRecovery(t) PROVE StartsNothing
  BY <1>23 DEF SkipRecovery, mainVars, StartsNothing
<1>24. ASSUME NEW t \in Branch, BeginClone(t) PROVE StartsNothing
  BY <1>24 DEF BeginClone, mainVars, StartsNothing
<1>25. ASSUME NEW t \in Branch, Redeploy(t) PROVE StartsNothing
  BY <1>25 DEF Redeploy, mainVars, StartsNothing
<1>26. ASSUME NEW t \in Branch, DeleteTarget(t) PROVE StartsNothing
  BY <1>26 DEF DeleteTarget, mainVars, StartsNothing
<1>27. CASE BeginDeployMain
  BY <1>27, CloneFacts DEF BeginDeployMain, CloneIInv, CloneTypes, StartsNothing
<1>28. ASSUME NEW delete \in BOOLEAN, BeginDown(delete) PROVE StartsNothing
  BY <1>28 DEF BeginDown, mainVars, StartsNothing
<1>29. CASE Exit
  BY <1>29 DEF Exit, mainVars, StartsNothing
<1>30. CASE Reboot
  BY <1>30 DEF Reboot, StartsNothing
<1>32. CASE Inspect
  BY <1>32, InspectEffect DEF StartsNothing, CloneIInv, Jobs, JobTarget, JobStatus, Pending,
      NoJournal
<1>33. ASSUME NEW s \in Services, RestartService(s) PROVE StartsNothing
  BY <1>33, RestartEffect DEF StartsNothing, CloneIInv, Jobs, JobTarget, JobStatus, Pending,
      NoJournal
<1> QED
  BY <1>1, <1>2, <1>3, <1>4, <1>5, <1>6, <1>7, <1>8, <1>9, <1>10, <1>11, <1>12, <1>13, <1>14,
      <1>15, <1>16, <1>17, <1>18, <1>19, <1>20, <1>21, <1>22, <1>23, <1>24, <1>25, <1>26, <1>27,
        <1>28, <1>29, <1>30, <1>32, <1>33
     DEF CloneNext, JobStep, StartupStep

(* The first state is in order.                                            *)
LEMMA CloneFirst == CloneInit => CloneIInv
<1> SUFFICES ASSUME CloneInit PROVE CloneIInv
  OBVIOUS
<1>1. status[Main] = "running" /\ \A t \in Branch : status[t] = "absent" /\ journal[t] = NoJournal
  BY CloneFacts DEF CloneInit
<1>2. NoJournal.writers = {} /\ NoJournal.temporary = {} /\ NoJournal.original = "absent"
  BY DEF NoJournal
<1>3. NoJournal \in Journal
  BY DEF NoJournal, Journal, Status
<1>4. /\ job.at = "none" /\ job.target = Main /\ job.todo = {} /\ job.cur = "none"
      /\ job.failed = FALSE
  BY DEF CloneInit, NoJob, NewJob
<1>5. CloneTypes
  BY <1>3, <1>4, CloneFacts, CloneAssumption DEF CloneInit, CloneTypes, Status
<1>6. CloneFlags
  BY <1>4, Zenon DEF CloneInit, CloneFlags
<1>7. Hub /\ Journals
  BY <1>1, <1>2, <1>4 DEF CloneInit, Hub, Journals, Pending
<1>8. Jobs /\ AtRest /\ StaysStopped
  BY <1>1, <1>2, <1>4 DEF Jobs, JobTarget, JobStatus, JobWork, AtRest, StaysStopped, Cloning,
      Copying, Restoring
<1>9. Accounted
  BY <1>1, <1>4 DEF CloneInit, Accounted, WritersAccounted, Pending, Cloning, Copying, Restoring
<1> QED BY <1>5, <1>6, <1>7, <1>8, <1>9 DEF CloneIInv

(* The invariant of clones, downs, deploys and recoveries is inductive.    *)
THEOREM CloneInductive == CloneSpec => []CloneIInv
<1>1. CloneInit => CloneIInv
  BY CloneFirst
<1>2. CloneIInv /\ [CloneNext]_cloneVars => CloneIInv'
  BY CloneTypesStep, CloneFlagsStep, HubStep, JournalsStep, JobTargetStep, JobStatusStep,
      JobWorkStep,
     AtRestStep, StaysStoppedStep, AccountedStep DEF CloneIInv, Jobs, JobTarget, JobStatus, JobWork
<1> QED BY <1>1, <1>2, PTL DEF CloneSpec

(* The state has the shape the code gives it.                              *)
THEOREM CloneTypeCorrect == CloneSpec => []CloneTypeOK
<1>1. CloneIInv => CloneTypeOK
  <2> SUFFICES ASSUME CloneIInv PROVE CloneTypeOK
    OBVIOUS
  <2>1. up \in BOOLEAN /\ ready \in BOOLEAN /\ network \in BOOLEAN /\ job.failed \in BOOLEAN
    BY Zenon DEF CloneIInv, CloneFlags
  <2>2. CloneTypes
    BY DEF CloneIInv
  <2>3. /\ exits \in 0 .. MaxExits /\ pending \subseteq Branch /\ complete \subseteq Branch
        /\ status \in [Env -> Status] /\ journal \in [Branch -> Journal]
        /\ running \subseteq Services /\ removed \subseteq Piece
        /\ copied \in [Branch -> SUBSET Piece]
        /\ job.at \in {"none", "quiesce", "stop", "databases", "start", "copy", "recover",
                       "resume", "forget", "complete", "apps", "deploy", "down", "delete",
                       "remove", "restart"}
        /\ job.target \in Env /\ job.todo \subseteq Services
        /\ job.cur \in Services \cup {"none", "files"}
    BY <2>2 DEF CloneTypes, Cloning, Copying, Restoring
  <2> QED BY <2>1, <2>3, Zenon DEF CloneTypeOK
<1> QED BY <1>1, CloneInductive, PTL

(* No crash and no failure loses a writer of main.                         *)
THEOREM NoWriterLost == CloneSpec => []WritersAccounted
<1>1. CloneIInv => WritersAccounted
  BY DEF CloneIInv, Accounted
<1> QED BY <1>1, CloneInductive, PTL

(* Data is copied while main is at rest.                                   *)
THEOREM CopiesConsistent == CloneSpec => CopiedAtRest
<1>1. CloneIInv /\ [CloneNext]_cloneVars => [CopiesAtRest]_cloneVars
  BY CopyStep
<1> QED BY <1>1, CloneInductive, PTL DEF CloneSpec, CopiedAtRest, CopiesAtRest

(* A main that was stopped is not started by a recovery.                   *)
THEOREM StopWins == CloneSpec => StopSupersedes
<1>1. CloneIInv /\ [CloneNext]_cloneVars => [StartsNothing]_cloneVars
  BY StopStep
<1> QED BY <1>1, CloneInductive, PTL DEF CloneSpec, StopSupersedes, StartsNothing
==============================================================================
