---------------------------- MODULE CloneRecovery ----------------------------
(***************************************************************************)
(* How a branch environment gets a copy of main's data, and how main gets  *)
(* its writers back: packages/environments/src/clone.ts with the parts of  *)
(* manager.ts that call it or share its journal (deploy, down, recover,    *)
(* assertRecovered).                                                       *)
(*                                                                         *)
(* Everything that touches main holds main's lock (EnvironmentLocks), so   *)
(* one `job` at a time has it: a clone, a down or a deploy of main, or the *)
(* recovery a starting hub runs.  Redeploying a branch that already has    *)
(* its data holds only the branch's lock and interleaves with the job.     *)
(* A step is the code between two awaits.  The hub may exit between any    *)
(* two; the container runtime may fail any call and leave the container    *)
(* either way.                                                             *)
(***************************************************************************)
EXTENDS Naturals, Sequences

CONSTANTS
  Service,    \* main's services in dependency order, a sequence
  Db, FileDb, \* its databases, and those of them copied as files
  Host,       \* its services that run on the host, outside main's network
  Branch,     \* branch environments; their string order is the order of Nat
  MayFail,    \* whether runtime calls may fail
  MaxExits    \* BOUND on how often the hub exits

Services == {Service[i] : i \in DOMAIN Service}
App == Services \ Db
Piece == Db \cup {"files"}
Main == 0
Env == Branch \cup {Main}

ASSUME CloneAssumption ==
  /\ FileDb \subseteq Db \cap Host /\ Db \cup Host \subseteq Services
  /\ "files" \notin Services
  /\ Branch \subseteq Nat \ {Main}
  /\ MayFail \in BOOLEAN /\ MaxExits \in Nat

VARIABLES
  up,        \* a hub process exists
  ready,     \* its startup recovery is over and it accepts requests
  exits,     \* exits so far
  pending,   \* journals startup recovery has still to look at
  status,    \* status[e]: Status of environment e, "absent" without a record
  complete,  \* targets with CloneComplete
  journal,   \* journal[t]: the recovery journal of target t
  running,   \* services of main whose container runs
  network,   \* main's private network exists
  removed,   \* pieces of main's data an interrupted deletion has removed
  copied,    \* copied[t]: pieces copied into t
  job        \* what holds main's lock

diskVars == <<status, complete, journal>>
dataVars == <<removed, copied>>
hubVars == <<up, ready, exits, pending>>
mainVars == <<running, network>>
cloneVars == <<hubVars, diskVars, mainVars, dataVars, job>>

Status == {"absent", "deploying", "running", "failed", "stopping", "stopped", "deleting"}

(* A journal without an original status is no journal.                     *)
NoJournal == [writers |-> {}, temporary |-> {}, original |-> "absent"]
Journal == [writers : SUBSET Services, temporary : SUBSET Db, original : Status]
Pending(t) == journal[t] # NoJournal

(* A job is at `at`, working on `target`, with `todo` left and `cur` in    *)
(* hand; `failed` once a step of it has thrown.                            *)
NewJob(a, t, todo) == [at |-> a, target |-> t, todo |-> todo, cur |-> "none", failed |-> FALSE]
NoJob == NewJob("none", Main, {})
At(a) == job.at = a
Now(a, todo, s, failed) ==
  job' = [at |-> a, target |-> job.target, todo |-> todo, cur |-> s, failed |-> failed]
GoTo(a) == Now(a, job.todo, job.cur, job.failed)
GoWith(a, todo) == Now(a, todo, job.cur, job.failed)
GoFor(a, s) == Now(a, job.todo, s, job.failed)

(* The journal that the job works on, and what is written to it.           *)
Writers == journal[job.target].writers
Temporary == journal[job.target].temporary
Original == journal[job.target].original
Note(writers, temporary, original) ==
  journal' = [journal EXCEPT ![job.target] =
                [writers |-> writers, temporary |-> temporary, original |-> original]]

(* A runtime call that throws may have taken effect or not.                *)
StopFails(s) == MayFail /\ running' \in {running, running \ {s}}
(* A container starts only while its network exists.                       *)
CanStart(s) == network \/ s \in Host
StartFails(s) ==
  /\ MayFail
  /\ running' \in {running \ {s}} \cup (IF CanStart(s) THEN {running \cup {s}} ELSE {})

CloneInit ==
  /\ up = TRUE /\ ready = TRUE /\ exits = 0 /\ pending = {}
  /\ status = [e \in Env |-> IF e = Main THEN "running" ELSE "absent"]
  /\ complete = {}
  /\ journal = [t \in Branch |-> NoJournal]
  /\ running = Services /\ network = TRUE
  /\ removed = {}
  /\ copied = [t \in Branch |-> {}]
  /\ job = NoJob

(* assertRecovered: no journal names e as source or target.                *)
AssertRecovered(e) == \A t \in Branch : Pending(t) => e # Main /\ e # t
------------------------------------------------------------------------------
(* A deploy of a branch without data, with both locks: the journal is      *)
(* saved before anything in main is touched (withRecovery), unless the     *)
(* branch's own databases did not start.  What an earlier attempt copied   *)
(* is overwritten.  Without a main there is nothing to clone.              *)
BeginClone(t) ==
  /\ ready /\ job = NoJob
  /\ t \notin complete
  /\ status[Main] # "absent"
  /\ AssertRecovered(t) /\ AssertRecovered(Main)
  /\ \/ /\ MayFail /\ status' = [status EXCEPT ![t] = "failed"]
        /\ UNCHANGED <<journal, job, copied>>
     \/ /\ status' = [status EXCEPT ![t] = "deploying"]
        /\ journal' = [journal EXCEPT ![t] =
                        [writers |-> {}, temporary |-> {}, original |-> status[Main]]]
        /\ job' = NewJob("quiesce", t, App)
        /\ copied' = [copied EXCEPT ![t] = {}]
  /\ UNCHANGED <<hubVars, complete, mainVars, removed>>

(* A step of the clone throws: recovery runs next, whatever the reason.    *)
CloneThrows == Now("recover", job.todo, job.cur, TRUE)

(* quiesce(name): a running writer is journaled before it is stopped.      *)
JournalNobody(s) ==                      \* mutant of JournalWriter
  /\ GoFor("stop", s)
  /\ UNCHANGED <<hubVars, diskVars, mainVars, dataVars>>
JournalWriter(s) ==
  /\ Note(Writers \cup {s}, Temporary, Original)
  /\ GoFor("stop", s)
  /\ UNCHANGED <<hubVars, status, complete, mainVars, dataVars>>

QuiesceApp(s) ==
  /\ At("quiesce") /\ s \in job.todo
  /\ IF s \in running
       THEN JournalWriter(s)
       ELSE /\ GoWith("quiesce", job.todo \ {s})
            /\ UNCHANGED <<hubVars, diskVars, mainVars, dataVars>>

InspectThrows ==
  /\ MayFail /\ (At("quiesce") \/ At("databases"))
  /\ CloneThrows
  /\ UNCHANGED <<hubVars, diskVars, mainVars, dataVars>>

(* The network that down removed is made again for a main that is stopped. *)
AppsUnawaited ==                         \* mutant of AppsQuiet
  /\ At("quiesce")
  /\ GoWith("databases", Db)
  /\ UNCHANGED <<hubVars, diskVars, mainVars, dataVars>>
AppsQuiet ==
  /\ At("quiesce") /\ job.todo = {}
  /\ GoWith("databases", Db)
  /\ network' = (network \/ status[Main] = "stopped")
  /\ UNCHANGED <<hubVars, diskVars, running, dataVars>>

StopWriter ==
  /\ At("stop")
  /\ \/ /\ running' = running \ {job.cur}
        /\ IF job.cur \in App THEN GoWith("quiesce", job.todo \ {job.cur}) ELSE GoTo("copy")
     \/ StopFails(job.cur) /\ CloneThrows
  /\ UNCHANGED <<hubVars, diskVars, network, dataVars>>

(* A database copied as files is stopped, one that is dumped must run: it  *)
(* is started for the copy, journaled before it is.                        *)
PrepareDatabase(d) ==
  /\ At("databases") /\ d \in job.todo
  /\ CASE d \in FileDb /\ d \in running -> JournalWriter(d)
       [] d \notin FileDb /\ d \notin running ->
            /\ Note(Writers, Temporary \cup {d}, Original)
            /\ GoFor("start", d)
            /\ UNCHANGED <<hubVars, status, complete, mainVars, dataVars>>
       [] OTHER -> /\ GoFor("copy", d)
                   /\ UNCHANGED <<hubVars, diskVars, mainVars, dataVars>>

(* The start makes a volume that is gone anew, empty.                      *)
StartTemporary ==
  /\ At("start")
  /\ \/ CanStart(job.cur) /\ running' = running \cup {job.cur} /\ GoTo("copy")
     \/ StartFails(job.cur) /\ CloneThrows
     \/ ~CanStart(job.cur) /\ CloneThrows /\ UNCHANGED running
  /\ UNCHANGED <<hubVars, diskVars, network, dataVars>>

(* The databases one by one, then the declared file volumes.               *)
FilesNext ==
  /\ At("databases") /\ job.todo = {}
  /\ GoFor("copy", "files")
  /\ UNCHANGED <<hubVars, diskVars, mainVars, dataVars>>

(* A directory of files that is gone is passed over, a database in files   *)
(* that is gone is an error.                                               *)
CopyPiece ==
  LET p == job.cur IN
  /\ At("copy")
  /\ \/ /\ p \notin FileDb \cap removed
        /\ copied' = [copied EXCEPT ![job.target] = @ \cup {p}]
        /\ IF p = "files" THEN GoTo("recover") ELSE GoWith("databases", job.todo \ {p})
     \/ /\ MayFail \/ p \in FileDb \cap removed
        /\ CloneThrows
        /\ UNCHANGED copied
  /\ UNCHANGED <<hubVars, diskVars, mainVars, removed>>
------------------------------------------------------------------------------
(* recover(), after a clone and for each journal a starting hub finds.  A  *)
(* main that was stopped in between stays stopped.                         *)
SupersedeNothing ==                      \* mutant of Supersede
  /\ At("recover") /\ GoTo("resume")
  /\ UNCHANGED <<hubVars, diskVars, mainVars, dataVars>>
Supersede ==
  /\ At("recover")
  /\ IF status[Main] = "stopped" THEN Note({}, Temporary, "stopped") ELSE UNCHANGED journal
  /\ GoTo("resume")
  /\ UNCHANGED <<hubVars, status, complete, mainVars, dataVars>>

(* A step of recovery throws: main is failed and the journal stays.  The   *)
(* target is marked failed by the deploy, or by recoverClones unless it is *)
(* stopped.                                                                *)
RecoverThrows ==
  /\ status' = [status EXCEPT ![Main] = "failed",
                              ![job.target] = IF ~ready /\ @ = "stopped" THEN @ ELSE "failed"]
  /\ job' = NoJob

(* The first of some services in dependency order.                         *)
First(some, s) == s \in some /\ \A i, j \in DOMAIN Service :
                    Service[i] = s /\ Service[j] \in some => i <= j

(* The old container is removed, a new one started, and only then is the   *)
(* writer struck off the journal.                                          *)
ResumeWriter(s) ==
  /\ At("resume") /\ First(Writers, s)
  /\ \/ /\ s \in running /\ running' = running \ {s}
        /\ UNCHANGED <<diskVars, job>>
     \/ /\ s \notin running /\ CanStart(s) /\ running' = running \cup {s}
        /\ Note(Writers \ {s}, Temporary, Original)
        /\ UNCHANGED <<status, complete, job>>
     \/ /\ StartFails(s) /\ RecoverThrows
        /\ UNCHANGED <<complete, journal>>
  /\ UNCHANGED <<hubVars, network, dataVars>>

StopTemporary(d) ==
  /\ At("resume") /\ Writers = {} /\ d \in Temporary
  /\ \/ /\ running' = running \ {d}
        /\ Note(Writers, Temporary \ {d}, Original)
        /\ UNCHANGED <<status, complete, job>>
     \/ /\ StopFails(d) /\ RecoverThrows
        /\ UNCHANGED <<complete, journal>>
  /\ UNCHANGED <<hubVars, network, dataVars>>

RestoreStatus ==
  /\ At("resume") /\ Writers = {} /\ Temporary = {}
  /\ status' = [status EXCEPT ![Main] = Original]
  /\ GoTo("forget")
  /\ UNCHANGED <<hubVars, complete, journal, mainVars, dataVars>>

(* The journal goes; a failed clone then fails the deploy.                 *)
Forget ==
  /\ At("forget")
  /\ journal' = [journal EXCEPT ![job.target] = NoJournal]
  /\ IF ready /\ job.failed
       THEN status' = [status EXCEPT ![job.target] = "failed"]
       ELSE UNCHANGED status
  /\ IF ready /\ ~job.failed THEN GoTo("complete") ELSE job' = NoJob
  /\ UNCHANGED <<hubVars, complete, mainVars, dataVars>>

(* CloneComplete is saved, then the branch's own applications start.       *)
MarkComplete ==
  /\ At("complete")
  /\ complete' = complete \cup {job.target}
  /\ GoTo("apps")
  /\ UNCHANGED <<hubVars, status, journal, mainVars, dataVars>>

StartApps ==
  /\ At("apps")
  /\ \E s \in {"running"} \cup (IF MayFail THEN {"failed"} ELSE {}) :
       status' = [status EXCEPT ![job.target] = s]
  /\ job' = NoJob
  /\ UNCHANGED <<hubVars, complete, journal, mainVars, dataVars>>
------------------------------------------------------------------------------
(* A deploy of a branch that has its data: only its own lock is held.      *)
Redeploy(t) ==
  /\ ready /\ t \in complete /\ job.target # t
  /\ AssertRecovered(t) /\ (status[Main] # "absent" => AssertRecovered(Main))
  /\ \E s \in {"deploying", "running", "failed"} : status' = [status EXCEPT ![t] = s]
  /\ UNCHANGED <<hubVars, complete, journal, mainVars, dataVars, job>>

(* down --delete-data of a branch.                                         *)
DeleteTarget(t) ==
  /\ ready /\ job.target # t
  /\ status[t] # "absent" /\ AssertRecovered(t)
  /\ status' = [status EXCEPT ![t] = "absent"]
  /\ complete' = complete \ {t}
  /\ copied' = [copied EXCEPT ![t] = {}]
  /\ UNCHANGED <<hubVars, journal, mainVars, removed, job>>

(* A deploy of main replaces the containers that changed and makes what is *)
(* missing anew.  One that fails before it changed anything restores the   *)
(* status and is no step at all.                                           *)
BeginDeployMain ==
  /\ ready /\ job = NoJob
  /\ AssertRecovered(Main) /\ status[Main] # "deleting"
  /\ status' = [status EXCEPT ![Main] = "deploying"]
  /\ running' \in SUBSET Services /\ network' = TRUE
  /\ removed' = {}
  /\ job' = NewJob("deploy", Main, {})
  /\ UNCHANGED <<hubVars, complete, journal, copied>>

EndDeployMain ==
  /\ At("deploy")
  /\ \/ /\ status' = [status EXCEPT ![Main] = "running"]
        /\ running' = Services
     \/ /\ MayFail /\ status' = [status EXCEPT ![Main] = "failed"]
        /\ running' \in SUBSET Services
  /\ job' = NoJob
  /\ UNCHANGED <<hubVars, complete, journal, network, dataVars>>

(* down of main; a deletion, asked for or resumed, needs it recovered.     *)
BeginDown(delete) ==
  /\ ready /\ job = NoJob /\ status[Main] # "absent"
  /\ delete \/ status[Main] = "deleting" => AssertRecovered(Main)
  /\ status' = [status EXCEPT ![Main] =
                  IF delete \/ @ = "deleting" THEN "deleting" ELSE "stopping"]
  /\ job' = NewJob(IF delete THEN "delete" ELSE "down", Main, Services)
  /\ UNCHANGED <<hubVars, complete, journal, mainVars, dataVars>>

(* Every service is attempted even when another could not be stopped; the  *)
(* network goes when all are.                                              *)
DownService(s) ==
  /\ At("down") \/ At("delete")
  /\ s \in job.todo
  /\ \/ /\ running' = running \ {s}
        /\ GoWith(job.at, job.todo \ {s})
     \/ /\ StopFails(s)
        /\ Now(job.at, job.todo \ {s}, job.cur, TRUE)
  /\ UNCHANGED <<hubVars, diskVars, network, dataVars>>

EndDown ==
  /\ At("down") \/ At("delete")
  /\ job.todo = {}
  /\ \E failed \in {job.failed, MayFail \/ job.failed} :   \* removeNetwork may throw as well
       /\ status' = [status EXCEPT ![Main] = IF @ = "deleting" THEN @
                                             ELSE IF failed THEN "stopping" ELSE "stopped"]
       /\ job' = IF At("delete") /\ ~failed THEN NewJob("remove", Main, {}) ELSE NoJob
       /\ network' \in IF job.failed THEN {network}
                       ELSE IF failed THEN {network, FALSE} ELSE {FALSE}
  /\ UNCHANGED <<hubVars, complete, journal, running, dataVars>>

(* The data goes volume by volume, the directory of files next, the record *)
(* last.                                                                   *)
RemoveData ==
  /\ At("remove")
  /\ \/ \E p \in Piece \ removed :
          /\ p \in FileDb \cup {"files"} => Db \ FileDb \subseteq removed
          /\ removed' = removed \cup {p}
          /\ UNCHANGED <<status, job>>
     \/ /\ removed = Piece
        /\ removed' = {} /\ job' = NoJob
        /\ status' = [status EXCEPT ![Main] = "absent"]
     \/ /\ MayFail /\ job' = NoJob
        /\ UNCHANGED <<status, removed>>
  /\ UNCHANGED <<hubVars, complete, journal, mainVars, copied>>
------------------------------------------------------------------------------
(* The hub exits anywhere: the job is forgotten, containers stay.          *)
Exit ==
  /\ up /\ exits < MaxExits
  /\ exits' = exits + 1
  /\ up' = FALSE /\ ready' = FALSE /\ pending' = {}
  /\ job' = NoJob
  /\ UNCHANGED <<diskVars, mainVars, dataVars>>

(* The machine reboots while no hub runs: containers are gone.             *)
Reboot ==
  /\ ~up /\ running' = {}
  /\ UNCHANGED <<hubVars, diskVars, network, dataVars, job>>

(* A new hub reaps the host processes of the last one that it finds, and   *)
(* starts with the journals it finds, in file name order.                  *)
Startup ==
  /\ ~up /\ up' = TRUE
  /\ \E reaped \in SUBSET (Host \cap running) : running' = running \ reaped
  /\ pending' = {t \in Branch : Pending(t)}
  /\ UNCHANGED <<ready, exits, diskVars, network, dataVars, job>>

RecoverNext(t) ==
  /\ up /\ ~ready /\ job = NoJob
  /\ t \in pending /\ \A u \in pending : t <= u
  /\ pending' = pending \ {t}
  /\ job' = NewJob("recover", t, {})
  /\ UNCHANGED <<up, ready, exits, diskVars, mainVars, dataVars>>

(* The two-minute budget is spent: the journal is not even tried.          *)
SkipRecovery(t) ==
  /\ MayFail /\ up /\ ~ready /\ job = NoJob
  /\ t \in pending /\ \A u \in pending : t <= u
  /\ pending' = pending \ {t}
  /\ status' = [e \in Env |-> IF e \in {Main, t} /\ status[e] # "stopped"
                              THEN "failed" ELSE status[e]]
  /\ UNCHANGED <<up, ready, exits, complete, journal, mainVars, dataVars, job>>

(* The rest of Manager.recover, which leaves blocked environments alone: a *)
(* running main is inspected.  Its host services that are down start again *)
(* and so do services whose dependency moved; a container that is down, or *)
(* an inspection that throws, fails it.                                    *)
Inspect ==
  /\ up /\ ~ready /\ job = NoJob /\ pending = {}
  /\ \E failed \in BOOLEAN, todo \in SUBSET Services :
       /\ IF AssertRecovered(Main) /\ status[Main] = "running"
            THEN \/ Host \ running \subseteq todo /\ failed = ~(Services \ running \subseteq Host)
                 \/ MayFail /\ failed /\ todo = {}
            ELSE ~failed /\ todo = {}
       /\ job' = [NewJob("restart", Main, todo) EXCEPT !.failed = failed]
  /\ UNCHANGED <<hubVars, diskVars, mainVars, dataVars>>

(* One after the other in dependency order, until one fails.               *)
RestartService(s) ==
  /\ At("restart") /\ First(job.todo, s)
  /\ \/ /\ s \in running /\ running' = running \ {s}
        /\ UNCHANGED job
     \/ /\ s \notin running /\ CanStart(s) /\ running' = running \cup {s}
        /\ GoWith("restart", job.todo \ {s})
     \/ /\ StartFails(s)
        /\ Now("restart", {}, job.cur, TRUE)
  /\ UNCHANGED <<hubVars, diskVars, network, dataVars>>

(* An interrupted environment is failed.                                   *)
Reconciled(e) ==
  CASE ~AssertRecovered(e) -> status[e]
    [] status[e] \in {"deploying", "stopping"} \/ (e = Main /\ job.failed) -> "failed"
    [] OTHER -> status[e]
StartupEnds ==
  /\ At("restart") /\ job.todo = {}
  /\ status' = [e \in Env |-> Reconciled(e)]
  /\ ready' = TRUE /\ job' = NoJob
  /\ UNCHANGED <<up, exits, pending, complete, journal, mainVars, dataVars>>
------------------------------------------------------------------------------
JobStep ==
  \/ \E s \in Services : QuiesceApp(s) \/ PrepareDatabase(s) \/ ResumeWriter(s)
                         \/ StopTemporary(s) \/ DownService(s) \/ RestartService(s)
  \/ InspectThrows \/ AppsQuiet \/ StopWriter \/ StartTemporary \/ FilesNext \/ CopyPiece
  \/ Supersede \/ RestoreStatus \/ Forget \/ MarkComplete \/ StartApps
  \/ EndDeployMain \/ EndDown \/ RemoveData

StartupStep ==
  \/ Startup \/ Inspect \/ StartupEnds
  \/ \E t \in Branch : RecoverNext(t) \/ SkipRecovery(t)

CloneNext ==
  \/ JobStep \/ StartupStep
  \/ \E t \in Branch : BeginClone(t) \/ Redeploy(t) \/ DeleteTarget(t)
  \/ BeginDeployMain
  \/ \E delete \in BOOLEAN : BeginDown(delete)
  \/ Exit \/ Reboot

CloneSpec == CloneInit /\ [][CloneNext]_cloneVars
------------------------------------------------------------------------------
(* The state has the shape the code gives it.                              *)
CloneTypeOK ==
  /\ up \in BOOLEAN /\ ready \in BOOLEAN /\ exits \in 0 .. MaxExits
  /\ pending \subseteq Branch /\ complete \subseteq Branch
  /\ status \in [Env -> Status]
  /\ journal \in [Branch -> Journal]
  /\ running \subseteq Services /\ network \in BOOLEAN /\ removed \subseteq Piece
  /\ copied \in [Branch -> SUBSET Piece]
  /\ job.at \in {"none", "quiesce", "stop", "databases", "start", "copy", "recover",
                 "resume", "forget", "complete", "apps", "deploy", "down", "delete", "remove",
                 "restart"}
  /\ job.target \in Env /\ job.todo \subseteq Services
  /\ job.cur \in Services \cup {"none", "files"} /\ job.failed \in BOOLEAN

(* A service of a main that is reported running either runs or is in a     *)
(* journal that will bring it back: no crash or failure loses a writer.    *)
WritersAccounted ==
  ready /\ status[Main] = "running" =>
    \A s \in Services \ running : \E t \in Branch : s \in journal[t].writers

(* Data is copied while no application of main runs, a database copied as  *)
(* files is down, and one that is dumped is up.                            *)
CopiedAtRest ==
  [][\A t \in Branch : \A p \in copied'[t] \ copied[t] :
       /\ App \cap running = {}
       /\ p \in Db => (p \in FileDb <=> p \notin running)]_cloneVars

(* A confirmed stop of main supersedes the journal (reference.md:451): no  *)
(* recovery starts one of its applications again, only a deploy does.      *)
StopSupersedes ==
  [][/\ status[Main] = "stopped" \/ \E t \in Branch : journal[t].original = "stopped"
     /\ status'[Main] # "deploying"
     => App \cap running' \subseteq running]_cloneVars
==============================================================================
