----------------------------- MODULE Deployment -----------------------------
(***************************************************************************)
(* The deployment of one environment (Manager.deploy and startService of   *)
(* packages/environments/src/manager.ts) and the recovery of its services  *)
(* after the hub died (Manager.recover).  Builds, inspections, removals    *)
(* and starts of the services each run side by side; a service is kept as  *)
(* it is when the record says that nothing about it has changed.           *)
(*                                                                         *)
(* An address is what others reach a service at: the container's, or the   *)
(* loopback port reserved for a service that runs on the host.  What is    *)
(* assigned is taken to be saved at once: every save writes all of it.     *)
(***************************************************************************)
EXTENDS Naturals, FiniteSets

CONSTANTS
  Service, Infra, Job,     \* names; the infrastructure, and the jobs, among them
  OnHost,                  \* services that run on the host
  DependsOn,               \* DependsOn[s]: depends_on
  Version, Manifests,      \* what a manifest says of a service; the manifests
  Address,
  MaxDeploys, MaxFaults    \* BOUNDS on deployments; on deaths of the hub or a process, and bindings

ASSUME DeploymentAssumption ==
  /\ Infra \cup Job \cup OnHost \subseteq Service /\ Infra \cap Job = {} /\ OnHost \cap Job = {}
  /\ DependsOn \in [Service -> SUBSET Service]
  /\ \A s \in Infra : DependsOn[s] \subseteq Infra
  /\ \A s \in Service \ (OnHost \cup Job) : DependsOn[s] \cap OnHost = {}   \* no relays
  /\ "absent" \notin Version /\ Manifests \subseteq [Service -> Version \cup {"absent"}]
  /\ Address \subseteq Nat \ {0} /\ {MaxDeploys, MaxFaults} \subseteq Nat

VARIABLES
  status, cloned,          \* of the environment: Status and CloneComplete
  rec,                     \* its Services
  proc,                    \* proc[s]: what runs as s
  outside,                 \* an address some other program of the host has bound
  pc, wanted, rebuild, before,  \* the deployment's step and manifest, the status it found
  aborted, mutated, retained,
  task,                    \* task[s]: where the service's part of the step is
  conf,                    \* conf[s]: the addresses in the environment file of s
  answered,                \* HISTORY of this deployment: <<s, address>> where s was found ready,
                           \* <<s, 0>> for a job that succeeded
  todo, moved,             \* a recovery's: the services to come, those whose port moved
  deploys, faults

told == <<conf, answered>>
deployment == <<pc, wanted, rebuild, before, aborted, mutated, retained, task, told>>
recovery == <<todo, moved>>
counts == <<deploys, faults>>
deploymentVars == <<status, cloned, rec, proc, outside, deployment, recovery, counts>>

(* A field of a record of the environment, assigned.                       *)
SetVer(r, ver) == [r EXCEPT !.ver = ver]
SetHost(r, host) == [r EXCEPT !.host = host]
SetPort(r, port) == [r EXCEPT !.port = port]
SetPrint(r, print) == [r EXCEPT !.print = print]
SetJob(r, job) == [r EXCEPT !.job = job]

NoFingerprint == [ver |-> "absent"]
NoRec == [ver |-> "absent", host |-> 0, port |-> 0, print |-> NoFingerprint, job |-> "none"]
NoProc == [ver |-> "absent", address |-> 0, peers |-> <<>>]
Names == {s \in Service : wanted[s] # "absent"}
Recorded == {s \in Service : rec[s] # NoRec}
(* What a service depends on, and what that depends on in turn: order()    *)
(* refuses a manifest with a cycle.                                        *)
Transitive(S) == \A s \in S : DependsOn[s] \subseteq S
Upstream == [s \in Service |->
  {u \in Service : \A S \in SUBSET Service : DependsOn[s] \subseteq S /\ Transitive(S) => u \in S}]
ASSUME Acyclic == \A s \in Service : s \notin Upstream[s]

Resting == pc \in {"none", "deployed"}

(* serviceEnv: the addresses of the services it depends on.                *)
Reach(r, s) == IF r.host = 0 THEN 0 ELSE IF s \in OnHost THEN r.port ELSE r.host
Peers(r, s) == [d \in DependsOn[s] \ Job |-> Reach(r[d], d)]
Fingerprint(r, s) ==
  [ver |-> r[s].ver, peers |-> Peers(r, s), jobs |-> [d \in DependsOn[s] \cap Job |-> r[d].print]]

DeploymentInit ==
  /\ status = "none" /\ cloned = FALSE /\ outside = 0
  /\ rec = [s \in Service |-> NoRec] /\ proc = [s \in Service |-> NoProc]
  /\ pc = "none" /\ wanted = [s \in Service |-> "absent"] /\ rebuild = FALSE /\ before = "none"
  /\ aborted = FALSE /\ mutated = FALSE /\ retained = {}
  /\ task = [s \in Service |-> "none"] /\ conf = [s \in Service |-> <<>>]
  /\ answered = {} /\ todo = {} /\ moved = {}
  /\ deploys = 0 /\ faults = 0
------------------------------------------------------------------------------
To(s, place) == task' = [task EXCEPT ![s] = place]
All(S, place) == [s \in Service |-> IF s \in S THEN place ELSE "none"]
Among(place) == \E s \in Service : task[s] = place
Broke(as) == status' = as /\ pc' = "none"
Fail == Broke(IF mutated THEN "failed" ELSE before)

Deploy(m, again) ==
  /\ Resting /\ deploys < MaxDeploys /\ deploys' = deploys + 1
  /\ wanted' = m /\ rebuild' = again /\ pc' = "build"
  /\ status' = IF status = "none" THEN "pending" ELSE status
  /\ before' = status'
  /\ aborted' = FALSE /\ mutated' = FALSE /\ retained' = {}
  /\ task' = All({s \in Service : m[s] # "absent"}, "build") /\ answered' = {}
  /\ UNCHANGED <<cloned, rec, proc, outside, conf, recovery, faults>>

Built(s) ==                    \* preflight and build
  /\ task[s] = "build" /\ (To(s, "built") \/ To(s, "failed"))
  /\ UNCHANGED <<status, cloned, rec, proc, outside, pc, wanted, rebuild, before, aborted, mutated,
                 retained, told, recovery, counts>>

(* The image of infrastructure may not change, whatever else of it may.    *)
BuildsDone ==
  /\ pc = "build" /\ ~Among("build")
  /\ \/ /\ \/ aborted \/ Among("failed")
           \/ \E s \in Names \cap Infra \cap Recorded : rec[s].ver # wanted[s]
        /\ Fail /\ UNCHANGED task
     \/ /\ ~aborted /\ ~Among("failed")
        /\ pc' = "inspect" /\ task' = All(Names, "inspect") /\ UNCHANGED status
  /\ UNCHANGED <<cloned, rec, proc, outside, wanted, rebuild, before, aborted, mutated, retained,
                 told, recovery, counts>>
------------------------------------------------------------------------------
(* A service whose record has the fingerprint it would have now is kept, if *)
(* it runs where the record says; a job, if it succeeded.                  *)
Candidate == [s \in Service |-> IF s \in Names THEN SetVer(rec[s], wanted[s]) ELSE NoRec]
Unchanged(s) ==
  /\ rec[s].print # NoFingerprint /\ ~rebuild /\ cloned
  /\ \A d \in (Upstream[s] \cup {s}) \ Job : rec[d].host # 0
  /\ rec[s].print = Fingerprint(Candidate, s)
Inspect(s) ==
  /\ task[s] = "inspect"
  /\ LET kept == IF s \in Job THEN rec[s].job = "succeeded"
                 ELSE proc[s] # NoProc /\ proc[s].address = Reach(rec[s], s)
     IN \/ To(s, IF Unchanged(s) /\ kept THEN "kept" ELSE "changed")
        \/ Unchanged(s) /\ s \notin Job /\ To(s, "failed")
  /\ UNCHANGED <<status, cloned, rec, proc, outside, pc, wanted, rebuild, before, aborted, mutated,
                 retained, told, recovery, counts>>

KeepsAlone == {s \in Names : task[s] = "kept"}   \* mutant of Keeps: whatever it depends on
Keeps == {s \in Names : \A d \in Upstream[s] \cup {s} : task[d] = "kept"}
Choose ==
  /\ pc = "inspect" /\ ~Among("inspect")
  /\ IF aborted \/ Among("failed") THEN Fail /\ UNCHANGED <<task, mutated, retained>>
     ELSE /\ retained' = Keeps /\ mutated' = (Names \cup Recorded # Keeps)
          /\ status' = "deploying" /\ pc' = "remove" /\ task' = All(Recorded \ Keeps, "remove")
  /\ UNCHANGED <<cloned, rec, proc, outside, wanted, rebuild, before, aborted, told,
                 recovery, counts>>

RemoveService(s) ==
  /\ task[s] = "remove"
  /\ \/ To(s, "removed") /\ proc' = [proc EXCEPT ![s] = NoProc]
     \/ To(s, "failed") /\ (UNCHANGED proc \/ proc' = [proc EXCEPT ![s] = NoProc])
  /\ UNCHANGED <<status, cloned, rec, outside, pc, wanted, rebuild, before, aborted, mutated,
                 retained, told, recovery, counts>>

Replaced(s) ==                 \* the new record of s, before it is started
  IF s \notin Names THEN NoRec
  ELSE IF s \in retained THEN rec[s]
  ELSE SetHost(SetVer(rec[s], wanted[s]), 0)
RemovedLoose ==                \* mutant of Removed: a failed removal is let pass
  /\ pc = "remove" /\ ~Among("remove")
  /\ rec' = [s \in Service |-> Replaced(s)]
  /\ pc' = "infra" /\ task' = All(Names, "waiting") /\ UNCHANGED status
  /\ UNCHANGED <<cloned, proc, outside, wanted, rebuild, before, aborted, mutated, retained, told,
                 recovery, counts>>
Removed ==                     \* the network and bridges may still fail
  /\ pc = "remove" /\ ~Among("remove")
  /\ \/ Among("failed") /\ Fail /\ UNCHANGED <<rec, task>>
     \/ /\ ~Among("failed") /\ rec' = [s \in Service |-> Replaced(s)]
        /\ \/ pc' = "infra" /\ task' = All(Names, "waiting") /\ UNCHANGED status
           \/ Fail /\ UNCHANGED task
  /\ UNCHANGED <<cloned, proc, outside, wanted, rebuild, before, aborted, mutated, retained, told,
                 recovery, counts>>
------------------------------------------------------------------------------
(* Each service's task waits for those of its dependencies: infrastructure *)
(* first, then the applications.                                           *)
Group == IF pc = "infra" THEN Names \cap Infra ELSE Names \ Infra
SettledUnblocked(s) == task[s] \in {"done", "failed"}   \* mutant of Settled: not if it was blocked
SettledRuns(s) ==              \* mutant of Settled: what runs is taken to be ready
  task[s] \in {"wait", "ends", "done", "failed", "blocked"}
Settled(s) == task[s] \in {"done", "failed", "blocked"}
Begin(s) ==
  /\ pc \in {"infra", "apps"} /\ task[s] = "waiting" /\ s \in Group
  /\ \A d \in DependsOn[s] : Settled(d)
  /\ To(s, IF \E d \in DependsOn[s] : task[d] \in {"failed", "blocked"} THEN "blocked"
           ELSE IF aborted THEN "failed"
           ELSE IF s \notin retained THEN "prepare"
           ELSE IF s \in Job THEN "done" ELSE "wait")
  /\ UNCHANGED <<status, cloned, rec, proc, outside, pc, wanted, rebuild, before, aborted, mutated,
                 retained, told, recovery, counts>>

(* startService.  The port it had is kept if it is free; only the start    *)
(* itself binds it.                                                        *)
Bound(s) == {outside} \cup {proc[t].address : t \in Service \ {s}}
Taken(s) == {rec[t].port : t \in Service \ {s}}
Ports(s) ==
  IF s \notin OnHost THEN {rec[s].port}
  ELSE IF rec[s].port \in Address \ (Bound(s) \cup Taken(s)) THEN {rec[s].port}
  ELSE Address \ (Bound(s) \cup Taken(s))
Prepare(s) ==                  \* and volumes, source and migrations
  /\ task[s] = "prepare"
  /\ \/ \E p \in Ports(s) :
          /\ rec' = [rec EXCEPT ![s] = SetPort(@, p)]
          /\ conf' = [conf EXCEPT ![s] = Peers(rec, s)]
          /\ To(s, IF s \in Job THEN "job" ELSE "run") \/ To(s, "failed")
     \/ To(s, "failed") /\ UNCHANGED <<rec, conf>>
  /\ UNCHANGED <<status, cloned, proc, outside, pc, wanted, rebuild, before, aborted, mutated,
                 retained, answered, recovery, counts>>

Places(s) == IF s \in OnHost THEN {rec[s].port} \ Bound(s) ELSE Address \ Bound(s)
Process(s, a, peers) == [ver |-> rec[s].ver, address |-> a, peers |-> peers]
Run(s) ==                      \* an abort may leave what was started
  /\ task[s] = "run"
  /\ \/ \E a \in Places(s) :
          /\ proc' = [proc EXCEPT ![s] = Process(s, a, conf[s])]
          /\ To(s, "wait") \/ (aborted /\ To(s, "failed"))
     \/ To(s, "failed") /\ UNCHANGED proc
  /\ UNCHANGED <<status, cloned, rec, outside, pc, wanted, rebuild, before, aborted, mutated,
                 retained, told, recovery, counts>>

Wait(s) ==                     \* waitReady: the host is recorded as soon as it runs
  /\ task[s] = "wait"
  /\ \/ /\ proc[s] # NoProc
        /\ LET r == [rec EXCEPT ![s] = SetHost(@, proc[s].address)]
           IN \/ To(s, "failed") /\ rec' = r /\ UNCHANGED answered
              \/ /\ To(s, "done") /\ answered' = answered \cup {<<s, Reach(r[s], s)>>}
                 /\ rec' = IF s \in retained THEN r
                           ELSE [r EXCEPT ![s] = SetPrint(@, Fingerprint(r, s))]
     \/ To(s, "failed") /\ UNCHANGED <<rec, answered>>
  /\ UNCHANGED <<status, cloned, proc, outside, pc, wanted, rebuild, before, aborted, mutated,
                 retained, conf, recovery, counts>>

RunJob(s) ==
  /\ task[s] = "job" /\ To(s, "ends")
  /\ rec' = [rec EXCEPT ![s] = SetJob(@, "running")]
  /\ proc' = [proc EXCEPT ![s] = Process(s, 0, conf[s])]
  /\ UNCHANGED <<status, cloned, outside, pc, wanted, rebuild, before, aborted, mutated, retained,
                 told, recovery, counts>>
JobEnds(s) ==
  /\ task[s] = "ends" /\ To(s, "clean")
  /\ \E end \in {"succeeded", IF aborted THEN "interrupted" ELSE "failed"} :
       /\ rec' = [rec EXCEPT ![s] = SetJob(@, end)]
       /\ answered' = IF end = "succeeded" THEN answered \cup {<<s, 0>>} ELSE answered
  /\ UNCHANGED <<status, cloned, proc, outside, pc, wanted, rebuild, before, aborted, mutated,
                 retained, conf, recovery, counts>>
JobCleaned(s) ==               \* its container is removed, however it ended
  /\ task[s] = "clean"
  /\ \/ /\ proc' = [proc EXCEPT ![s] = NoProc]
        /\ IF rec[s].job = "succeeded"
             THEN To(s, "done") /\ rec' = [rec EXCEPT ![s] = SetPrint(@, Fingerprint(rec, s))]
             ELSE To(s, "failed") /\ UNCHANGED rec
     \/ To(s, "failed") /\ UNCHANGED <<rec, proc>>
  /\ UNCHANGED <<status, cloned, outside, pc, wanted, rebuild, before, aborted, mutated, retained,
                 told, recovery, counts>>

Starting(s) ==
  Begin(s) \/ Prepare(s) \/ Run(s) \/ Wait(s) \/ RunJob(s) \/ JobEnds(s) \/ JobCleaned(s)

InfraDone ==                   \* then main's data is forked, which may fail
  /\ pc = "infra" /\ \A s \in Group : Settled(s)
  /\ \/ (aborted \/ ~cloned) /\ Fail /\ UNCHANGED cloned
     \/ ~aborted /\ cloned' = TRUE /\ pc' = "apps" /\ UNCHANGED status
  /\ UNCHANGED <<rec, proc, outside, wanted, rebuild, before, aborted, mutated, retained, task,
                 told, recovery, counts>>
AppsDone ==
  /\ pc = "apps" /\ \A s \in Group : Settled(s)
  /\ IF aborted \/ Among("failed") THEN Fail ELSE status' = "running" /\ pc' = "deployed"
  /\ UNCHANGED <<cloned, rec, proc, outside, wanted, rebuild, before, aborted, mutated, retained,
                 task, told, recovery, counts>>
------------------------------------------------------------------------------
Cancel ==
  /\ ~Resting /\ pc \notin {"down", "recover"} /\ ~aborted /\ aborted' = TRUE
  /\ UNCHANGED <<status, cloned, rec, proc, outside, pc, wanted, rebuild, before, mutated, retained,
                 task, told, recovery, counts>>
ProcessExits(s) ==             \* a process ends by itself
  /\ faults < MaxFaults /\ faults' = faults + 1 /\ proc[s] # NoProc
  /\ proc' = [proc EXCEPT ![s] = NoProc]
  /\ UNCHANGED <<status, cloned, rec, outside, deployment, recovery, deploys>>
Outside ==                     \* another program binds an address that is free
  /\ faults < MaxFaults /\ faults' = faults + 1
  /\ outside' \in (Address \cup {0}) \ {outside}
  /\ outside' \notin {proc[s].address : s \in OnHost} \ {0}
  /\ UNCHANGED <<status, cloned, rec, proc, deployment, recovery, deploys>>
HubDies ==                     \* the hub dies; what runs on the host may die with it
  /\ faults < MaxFaults /\ faults' = faults + 1 /\ pc' = "down"
  /\ \E dead \in SUBSET OnHost :
       proc' = [s \in Service |-> IF s \in dead THEN NoProc ELSE proc[s]]
  /\ aborted' = FALSE /\ mutated' = FALSE /\ retained' = {} /\ rebuild' = FALSE
  /\ wanted' = [s \in Service |-> "absent"] /\ before' = "none"
  /\ task' = [s \in Service |-> "none"] /\ conf' = [s \in Service |-> <<>>]
  /\ answered' = {} /\ todo' = {} /\ moved' = {}
  /\ UNCHANGED <<status, cloned, rec, outside, deploys>>

(* A job that was running is ended.  Of an environment that was running,   *)
(* each service is inspected, and those of the host are started again.     *)
Interrupted == {s \in Job : rec[s].job = "running"}
Recover ==
  /\ pc = "down"
  /\ \E left \in SUBSET Interrupted :             \* those that could not be removed
       LET gone == Interrupted \ left
           was == IF left = {} THEN status ELSE "failed"
           host(s) == IF was = "running" /\ s \notin Job THEN proc[s].address ELSE rec[s].host
           ok == /\ \A s \in Recorded \cap Job : s \notin Interrupted /\ rec[s].job = "succeeded"
                 /\ \A s \in (Recorded \ Job) \ OnHost : proc[s] # NoProc
       IN /\ proc' = [s \in Service |-> IF s \in gone THEN NoProc ELSE proc[s]]
          /\ rec' = [s \in Service |->
                       SetHost(IF s \in gone THEN SetJob(rec[s], "interrupted") ELSE rec[s],
                               host(s))]
          /\ status' = IF was = "running" THEN (IF ok THEN "running" ELSE "failed")
                       ELSE IF was = "deploying" THEN "failed" ELSE was
          /\ pc' = IF was = "running" THEN "recover" ELSE "none"
          /\ todo' = IF was = "running" THEN Recorded \ Job ELSE {}
  /\ moved' = {}
  /\ UNCHANGED <<cloned, outside, wanted, rebuild, before, aborted, mutated, retained, task,
                 told, counts>>
RecoverBlind ==                \* a service could not be inspected
  /\ pc = "down" /\ status = "running" /\ Broke("failed")
  /\ rec' = [s \in Service |-> SetHost(rec[s], 0)]
  /\ UNCHANGED <<cloned, proc, outside, wanted, rebuild, before, aborted, mutated, retained, task,
                 told, recovery, counts>>

(* In the order of the dependencies.                                       *)
Restarts(s) ==
  \/ s \in OnHost /\ rec[s].host = 0
  \/ DependsOn[s] \cap moved # {}
Restart(s) ==                  \* stopped, and started with the addresses of now
  /\ pc = "recover" /\ s \in todo /\ todo \cap Upstream[s] = {} /\ Restarts(s)
  /\ \/ /\ Broke("failed") /\ todo' = {} /\ moved' = {}    \* not stopped, or not started
        /\ rec' = [rec EXCEPT ![s] = SetHost(@, 0)]
        /\ proc' \in {proc, [proc EXCEPT ![s] = NoProc]}
     \/ \E p \in Ports(s) : \E a \in IF s \in OnHost THEN {p} ELSE Address \ Bound(s) :
          LET r == [rec EXCEPT ![s] = SetHost(SetPort(@, p), a)]
          IN /\ proc' = [proc EXCEPT ![s] = Process(s, a, Peers(rec, s))]
             /\ \/ /\ rec' = [r EXCEPT ![s] = SetPrint(@, Fingerprint(r, s))]
                   /\ moved' = IF p # rec[s].port THEN moved \cup {s} ELSE moved
                   /\ todo' = todo \ {s} /\ UNCHANGED <<status, pc>>
                \/ /\ Broke("failed") /\ todo' = {} /\ moved' = {}     \* not ready
                   /\ rec' = [r EXCEPT ![s] = SetHost(@, 0)]
  /\ UNCHANGED <<cloned, outside, wanted, rebuild, before, aborted, mutated, retained, task,
                 told, counts>>
LeaveAlone(s) ==
  /\ pc = "recover" /\ s \in todo /\ todo \cap Upstream[s] = {} /\ ~Restarts(s)
  /\ todo' = todo \ {s}
  /\ UNCHANGED <<status, cloned, rec, proc, outside, deployment, moved, counts>>
Recovered ==
  /\ pc = "recover" /\ todo = {} /\ pc' = "none" /\ moved' = {}
  /\ UNCHANGED <<status, cloned, rec, proc, outside, wanted, rebuild, before, aborted, mutated,
                 retained, task, told, todo, counts>>

Progress ==
  \/ \E s \in Service : Built(s) \/ Inspect(s) \/ RemoveService(s) \/ Starting(s) \/ Restart(s)
                          \/ LeaveAlone(s)
  \/ BuildsDone \/ Choose \/ Removed \/ InfraDone \/ AppsDone
  \/ Recover \/ RecoverBlind \/ Recovered
World ==
  \/ \E m \in Manifests, again \in BOOLEAN : Deploy(m, again)
  \/ Cancel \/ Outside \/ HubDies \/ \E s \in Service : ProcessExits(s)
DeploymentNext == Progress \/ World

DeploymentSpec == DeploymentInit /\ [][DeploymentNext]_deploymentVars
------------------------------------------------------------------------------
(* The state has the shape the code gives it.                              *)
DeploymentTypeOK ==
  /\ status \in {"none", "pending", "deploying", "running", "failed"} /\ cloned \in BOOLEAN
  /\ \A s \in Service :
       /\ rec[s].host \in Address \cup {0} /\ rec[s].port \in Address \cup {0}
       /\ rec[s].job \in {"none", "running", "succeeded", "failed", "interrupted"}
       /\ proc[s].address \in Address \cup {0}
  /\ pc \in {"none", "deployed", "build", "inspect", "remove", "infra", "apps", "down", "recover"}

(* Whatever runs is recorded, so that the next deployment, or a deletion,  *)
(* ends it: a service leaves the record only once it has been removed.     *)
NoOrphans == \A s \in Service : proc[s] # NoProc => s \in Recorded

(* After a deployment every service is configured with the addresses that  *)
(* those it depends on have, those that were kept included, whatever       *)
(* failed, moved or died before.                                           *)
Configured(s) == \A d \in DependsOn[s] \ Job : proc[s].peers[d] = Reach(rec[d], d)
PeersCurrent ==
  pc = "deployed" => \A s \in Service : proc[s] # NoProc => Configured(s)

(* A service is started only once every job before it has succeeded in     *)
(* this deployment, or is kept, and with no address but one at which this  *)
(* deployment found the service it depends on ready.                       *)
Starts(s) == pc \in {"infra", "apps"} /\ proc[s] = NoProc /\ proc'[s] # NoProc
Met(s, d) ==
  IF d \in Job THEN d \in retained \/ <<d, 0>> \in answered
  ELSE <<d, proc'[s].peers[d]>> \in answered
DependenciesFirst ==
  [][\A s \in Service : Starts(s) => \A d \in DependsOn[s] : Met(s, d)]_deploymentVars

(* No deployment and no recovery is ever stuck, whatever failed or was     *)
(* blocked: there is always a step of the hub's own to take.               *)
NeverStuck == Resting \/ ENABLED Progress
=============================================================================
