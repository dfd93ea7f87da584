---------------------------- MODULE TunnelSessions ----------------------------
(***************************************************************************)
(* Sharing one environment publicly: the sessions of                       *)
(* packages/environments/src/tunnel-session.ts, the connectors of          *)
(* tunnel.ts, and Manager.configureTunnel with the parts of deploy, down,  *)
(* recover and cloneData that share its journal, tunnel_configuration.     *)
(*                                                                         *)
(* A session holds the environment's lock while it starts and while it     *)
(* cleans up, and not while it shares.  One step is the code between two   *)
(* awaits.  `env` is the record in memory and `disk` what the last save    *)
(* wrote; the hub may exit between any two steps.  Which URLs an           *)
(* application was started with is kept in `runs`; reservations, requests  *)
(* to the provider and log files are left out.                             *)
(***************************************************************************)
EXTENDS Naturals

CONSTANTS
  App,          \* applications whose environment mentions a browser URL
  Name,         \* names an HTTP endpoint may have
  ServiceName,  \* those which are also the name of their service
  Lease,        \* ticks of a fresh lease
  MayFail,      \* whether runtime calls may fail
  Clones,       \* whether branches clone this environment's data
  MaxExits      \* BOUND on how often the hub exits

ASSUME TunnelAssumption ==
  /\ Name # {} /\ ServiceName \subseteq Name
  /\ Lease \in Nat \ {0} /\ MaxExits \in Nat
  /\ {MayFail, Clones} \subseteq BOOLEAN

VARIABLES
  hub,       \* "up", "down", or what recover is doing
  closing,   \* TunnelSessions.shutdown was called
  exits,     \* exits so far
  env, disk, \* the environment's record in memory and on disk
  journal,   \* a clone's journal: the original status and the writers
  runs,      \* runs[a]: "down", or the URLs application a was started with
  conn,      \* conn[n]: the connector of endpoint n
  failures,  \* endpoints with a permanent failure recorded
  at,        \* where the session's async function is, "none" without one
  names,     \* the endpoints the session shares
  enabled, aborted, lease,   \* the session's own fields
  moved,     \* the workspace is no longer on the session's branch
  cancel,    \* the scope of the tasks now running is aborted
  conf,      \* conf[a]: where configureTunnel is with application a
  owner      \* the operation that has the environment's lock

recordVars == <<env, disk>>
hubVars == <<hub, closing, exits>>
sessionVars == <<at, names, enabled, aborted, lease, moved>>
taskVars == <<cancel, conf>>
connVars == <<conn, failures>>
tunnelVars == <<hubVars, recordVars, journal, runs, connVars, sessionVars, taskVars, owner>>

Status == {"running", "deploying", "stopping", "stopped", "deleting", "failed", "removed"}
(* Error is empty, begins with "Tunnel ", or says anything else.  urls is  *)
(* "none" without a tunnel_configuration, "local" when it has no URLs.     *)
Entry == [status : Status, error : {"", "tunnel", "other"},
           urls : {"none", "local", "public"}, pending : SUBSET App,
           endpoints : SUBSET Name]

Starting == {"reserving", "preparing", "checking"}
Sharing == {"sharing", "reconnecting"}
Ending == {"cleanup", "stopping", "restoring"}
Stages == {"none", "opened", "locking"} \cup Starting \cup Sharing \cup Ending
LockFree == owner = "none" /\ at \notin Starting \cup {"stopping", "restoring"}

Journal(original, writers) == [original |-> original, writers |-> writers]
NoJournal == Journal("none", {})
Journals == [original : Status, writers : SUBSET App] \cup {NoJournal}

(* What an application started now would be given.                         *)
Value(e) == IF e.urls = "public" THEN "public" ELSE "local"

(* A field of the record, assigned.                                        *)
SetStatus(e, status) == [e EXCEPT !.status = status]
SetError(e, text) == [e EXCEPT !.error = text]
SetUrls(e, urls) == [e EXCEPT !.urls = urls]
SetPending(e, pending) == [e EXCEPT !.pending = pending]
SetEndpoints(e, endpoints) == [e EXCEPT !.endpoints = endpoints]

Saved(e) == env' = e /\ disk' = e
UpTo(e) == env' = e /\ UNCHANGED disk
Failed(e, text) == SetStatus(SetError(e, text), "failed")

NoSession ==
  /\ at' = "none" /\ names' = {} /\ enabled' = FALSE /\ aborted' = FALSE
  /\ lease' = 0 /\ moved' = FALSE
NoTasks == cancel' = FALSE /\ conf' = [a \in App |-> "done"]
Go(s) == at' = s /\ UNCHANGED <<names, lease, moved>>
Up == hub = "up"

TunnelInit ==
  /\ hub = "up" /\ closing = FALSE /\ exits = 0
  /\ env \in [status : {"running"}, error : {""}, urls : {"none"},
              pending : {{}}, endpoints : {Name}]
  /\ disk = env /\ journal = NoJournal
  /\ runs = [a \in App |-> "local"]
  /\ conn = [n \in Name |-> "none"] /\ failures = {}
  /\ at = "none" /\ names = {} /\ enabled = FALSE /\ aborted = FALSE
  /\ lease = 0 /\ moved = FALSE
  /\ cancel = FALSE /\ conf = [a \in App |-> "done"]
  /\ owner = "none"
------------------------------------------------------------------------------
(* configureTunnel(urls), up to its first await: the URLs and the          *)
(* applications to restart are saved before any process is touched.        *)
MarkedUnchanged(e, urls) ==              \* mutant of Marked: keeps only old intent
  SetUrls(e, urls)
Marked(e, urls) ==
  LET c == SetUrls(e, urls) IN IF Value(c) # Value(e) THEN SetPending(c, App) ELSE c
Configure(urls) ==
  LET e == Marked(env, urls) IN
  /\ Saved(e)
  /\ conf' = [a \in App |-> IF a \in e.pending THEN "todo" ELSE "done"]

(* One application: stopped and removed, then started with the new URLs.   *)
(* A call that throws may have taken effect, and aborts the siblings.      *)
ConfSkip(a) ==
  /\ conf[a] = "todo" /\ cancel
  /\ conf' = [conf EXCEPT ![a] = "failed"]
  /\ UNCHANGED <<hubVars, recordVars, journal, runs, connVars, sessionVars, cancel, owner>>

ConfStop(a) ==
  /\ conf[a] = "todo" /\ ~cancel
  /\ \/ /\ conf' = [conf EXCEPT ![a] = "stopped"]
        /\ runs' = [runs EXCEPT ![a] = "down"]
        /\ UNCHANGED cancel
     \/ /\ MayFail
        /\ conf' = [conf EXCEPT ![a] = "failed"] /\ cancel' = TRUE
        /\ runs' \in {runs, [runs EXCEPT ![a] = "down"]}
  /\ UNCHANGED <<hubVars, recordVars, journal, connVars, sessionVars, owner>>

ConfStarted(a) ==
  /\ conf' = [conf EXCEPT ![a] = "done"]
  /\ runs' = [runs EXCEPT ![a] = Value(env)]
  /\ Saved(SetPending(env, env.pending \ {a}))
  /\ UNCHANGED cancel
ConfStart(a) ==
  /\ conf[a] = "stopped"
  /\ \/ /\ ~cancel
        /\ ConfStarted(a)
     \/ /\ cancel \/ MayFail
        /\ conf' = [conf EXCEPT ![a] = "failed"] /\ cancel' = TRUE
        /\ runs' \in {runs, [runs EXCEPT ![a] = Value(env)]}
        /\ UNCHANGED recordVars
  /\ UNCHANGED <<hubVars, journal, connVars, sessionVars, owner>>

ConfSettled == \A a \in App : conf[a] \in {"done", "failed"}
ConfFailed == cancel \/ \E a \in App : conf[a] = "failed"
(* Once local URLs are restored everywhere there is no configuration.      *)
Restored(e) == IF e.urls = "local" THEN SetUrls(e, "none") ELSE e
------------------------------------------------------------------------------
(* The end of the session's try block: sharing stops at once.              *)
Cleanup ==
  /\ at' = "cleanup" /\ enabled' = FALSE /\ aborted' = TRUE
  /\ NoTasks
  /\ UNCHANGED <<names, lease, moved>>

(* open(): what it checks and does before its first await.                 *)
Reset == failures \ ServiceName
Open ==
  /\ Up /\ ~closing /\ at = "none"
  /\ env.status = "running" /\ env.urls = "none"
  /\ env.endpoints # {}
  /\ failures' = Reset
  /\ at' = "opened" /\ names' = env.endpoints
  /\ enabled' = FALSE /\ aborted' = FALSE /\ lease' = Lease /\ moved' = FALSE
  /\ UNCHANGED <<hubVars, recordVars, journal, runs, conn, taskVars, owner>>

(* detectIdentity gives the baseline, then the lock is asked for.          *)
AskLock ==
  /\ at = "opened"
  /\ \/ /\ ~aborted /\ Go("locking") /\ UNCHANGED <<enabled, aborted, taskVars>>
     \/ Cleanup
  /\ UNCHANGED <<hubVars, recordVars, journal, runs, connVars, owner>>

Enter ==
  /\ at = "locking"
  /\ \/ /\ aborted /\ Cleanup
     \/ /\ ~aborted /\ LockFree /\ env.status # "running" /\ Cleanup
     \/ /\ ~aborted /\ LockFree /\ env.status = "running"
        /\ Go("reserving") /\ UNCHANGED <<enabled, aborted, taskVars>>
  /\ UNCHANGED <<hubVars, recordVars, journal, runs, connVars, owner>>

(* Every endpoint is reserved (one that is gone is refused), then the      *)
(* restart of the applications and all the connectors begin together.      *)
Reserve ==
  /\ at = "reserving"
  /\ \/ /\ ~aborted /\ names \subseteq env.endpoints
        /\ Configure("public")
        /\ conn' = [n \in Name |-> IF n \in names THEN "starting" ELSE conn[n]]
        /\ Go("preparing") /\ UNCHANGED <<enabled, aborted, cancel>>
     \/ /\ Cleanup
        /\ UNCHANGED <<recordVars, conn>>
  /\ UNCHANGED <<hubVars, journal, runs, failures, owner>>

(* prepareTogether waits for every task; any error aborts the others.      *)
TasksOver == ConfSettled /\ \A n \in Name : conn[n] # "starting"
Prepared ==
  /\ at = "preparing" /\ TasksOver
  /\ \/ /\ ~ConfFailed /\ Saved(Restored(env))
        /\ Go("checking") /\ NoTasks /\ UNCHANGED <<enabled, aborted>>
     \/ /\ ConfFailed /\ Cleanup /\ UNCHANGED recordVars
  /\ UNCHANGED <<hubVars, journal, runs, connVars, owner>>

(* enable(): aborted, lease, failures and connectors are looked at again.  *)
CanEnable ==
  /\ ~aborted
  /\ lease > 0
  /\ names \cap failures = {}
  /\ \A n \in names : conn[n] = "ready"

(* The branch is looked up again; the lock goes back either way.           *)
Enable ==
  /\ at = "checking"
  /\ \/ /\ CanEnable /\ ~moved
        /\ Go("sharing") /\ enabled' = TRUE /\ UNCHANGED <<aborted, taskVars>>
     \/ Cleanup
  /\ UNCHANGED <<hubVars, recordVars, journal, runs, connVars, owner>>

(* One round of the loop, which runs every second.                         *)
MustEnd == moved \/ env.status # "running" \/ names \cap failures # {}
Missing == {n \in names : conn[n] # "ready"}
Watch ==
  /\ at = "sharing"
  /\ \/ /\ aborted \/ MustEnd
        /\ Cleanup /\ UNCHANGED conn
     \/ /\ ~aborted /\ ~MustEnd /\ Missing # {}
        /\ enabled' = FALSE /\ UNCHANGED aborted
        /\ \/ /\ Go("sharing") /\ UNCHANGED <<conn, taskVars>>   \* before retryAt
           \/ /\ Go("reconnecting") /\ NoTasks
              /\ conn' = [n \in Name |-> IF n \in Missing THEN "starting" ELSE conn[n]]
  /\ UNCHANGED <<hubVars, recordVars, journal, runs, failures, owner>>

(* The reconnection ends: shared again, another round, or the end (also    *)
(* when identity detection or an answer of the provider is a permanent     *)
(* error).                                                                 *)
Reconnected ==
  /\ at = "reconnecting" /\ TasksOver
  /\ \/ /\ ~cancel /\ CanEnable
        /\ Go("sharing") /\ enabled' = TRUE /\ UNCHANGED <<aborted, taskVars>>
     \/ /\ ~aborted /\ (cancel \/ (lease > 0 /\ Missing # {}))
        /\ Go("sharing") /\ NoTasks /\ UNCHANGED <<enabled, aborted>>
     \/ /\ aborted \/ cancel \/ lease = 0 \/ names \cap failures # {}
        /\ Cleanup
  /\ UNCHANGED <<hubVars, recordVars, journal, runs, connVars, owner>>
------------------------------------------------------------------------------
(* transport.start of one endpoint, once its process reports: ready, an    *)
(* exit (77 and 78 are remembered as permanent), or the scope's abort,     *)
(* which it waits out.  A prepared connector may exit at any time.         *)
ConnReady(n) ==
  /\ conn[n] = "starting" /\ ~cancel
  /\ conn' = [conn EXCEPT ![n] = "ready"]
  /\ UNCHANGED <<hubVars, recordVars, journal, runs, failures, sessionVars, taskVars, owner>>

ConnExit(n) ==
  /\ conn[n] # "none"
  /\ conn' = [conn EXCEPT ![n] = "none"]
  /\ cancel' = (cancel \/ conn[n] = "starting")
  /\ failures' \in {failures, failures \cup {n}}
  /\ UNCHANGED <<hubVars, recordVars, journal, runs, sessionVars, conf, owner>>

(* end(), a cancelled request, and shutdown() abort the session; so does   *)
(* the watchdog when the lease is over.  Whatever the session is waiting   *)
(* for sees the abort.                                                     *)
InTasks == at \in {"preparing", "reconnecting"}
Live == at \notin {"none"} \cup Ending
Abort ==
  /\ aborted' = TRUE
  /\ cancel' = (cancel \/ InTasks)
End ==
  /\ Live /\ ~aborted
  /\ Abort /\ enabled' = FALSE
  /\ UNCHANGED <<hubVars, recordVars, journal, runs, connVars, at, names, lease, moved,
                 conf, owner>>
WatchdogStartup ==                       \* mutant of Watchdog: cleared once ready
  /\ at \in Starting /\ ~aborted /\ lease = 0
  /\ Abort /\ UNCHANGED enabled
  /\ UNCHANGED <<hubVars, recordVars, journal, runs, connVars, at, names, lease, moved,
                 conf, owner>>
Watchdog ==
  /\ Live /\ ~aborted /\ lease = 0
  /\ Abort /\ UNCHANGED enabled
  /\ UNCHANGED <<hubVars, recordVars, journal, runs, connVars, at, names, lease, moved,
                 conf, owner>>
Shutdown ==
  /\ Up /\ ~closing
  /\ closing' = TRUE
  /\ IF Live THEN Abort /\ enabled' = FALSE ELSE UNCHANGED <<aborted, cancel, enabled>>
  /\ UNCHANGED <<hub, exits, recordVars, journal, runs, connVars, at, names, lease, moved,
                 conf, owner>>

Renew ==
  /\ Live /\ ~aborted /\ lease > 0 /\ lease < Lease
  /\ lease' = Lease
  /\ UNCHANGED <<hubVars, recordVars, journal, runs, connVars, at, names, enabled, aborted, moved,
                 taskVars, owner>>

Tick ==                                  \* 15 s pass in Lease ticks
  /\ Live /\ lease > 0
  /\ lease' = lease - 1
  /\ UNCHANGED <<hubVars, recordVars, journal, runs, connVars, at, names, enabled, aborted, moved,
                 taskVars, owner>>
Checkout ==                              \* the user moves the workspace
  /\ Live /\ ~moved
  /\ moved' = TRUE
  /\ UNCHANGED <<hubVars, recordVars, journal, runs, connVars, at, names, enabled, aborted, lease,
                 taskVars, owner>>
------------------------------------------------------------------------------
(* The finally block.  It has 120 seconds, the wait for the lock included; *)
(* any error leaves the environment failed.                                *)
CleanupFailed == Saved(Failed(env, "tunnel")) /\ NoSession /\ NoTasks

LockForCleanup ==
  /\ at = "cleanup"
  /\ \/ /\ LockFree /\ Go("stopping") /\ UNCHANGED <<enabled, aborted, recordVars, taskVars>>
     \/ /\ ~LockFree /\ CleanupFailed
  /\ UNCHANGED <<hubVars, journal, runs, connVars, owner>>

(* Every connector is stopped, the errors of which are only logged; local  *)
(* URLs are restored when there is a configuration.                        *)
StopConnectors ==
  /\ at = "stopping"
  /\ conn' = [n \in Name |-> IF n \in names THEN "none" ELSE conn[n]]
  /\ \/ /\ env.urls # "none" /\ Configure("local")
        /\ Go("restoring") /\ UNCHANGED <<enabled, aborted, cancel>>
     \/ /\ env.urls = "none" /\ NoSession /\ UNCHANGED <<recordVars, taskVars>>
  /\ UNCHANGED <<hubVars, journal, runs, failures, owner>>

CleanupTimeout ==
  /\ MayFail /\ at = "restoring" /\ ~cancel /\ ~ConfSettled
  /\ cancel' = TRUE
  /\ UNCHANGED <<hubVars, recordVars, journal, runs, connVars, sessionVars, conf, owner>>

RestoreEnds ==
  /\ at = "restoring" /\ ConfSettled
  /\ \/ /\ ~ConfFailed /\ Saved(Restored(env)) /\ NoSession /\ NoTasks
     \/ /\ ConfFailed /\ CleanupFailed
  /\ UNCHANGED <<hubVars, journal, runs, connVars, owner>>
------------------------------------------------------------------------------
(* The other operations on the environment, each with its lock.  A deploy  *)
(* is refused while a session or a configuration exists; until it replaces *)
(* the services (after its builds) it leaves Status as it was.             *)
others == <<hubVars, journal, connVars, sessionVars, taskVars>>
Idle == Up /\ LockFree
Settled == runs' = [a \in App |-> Value(env)]

RefuseUnrecovered ==                     \* mutant of DeployRefusal: ignores tunnels
  journal # NoJournal \/ env.status = "deleting"
DeployRefusal ==
  \/ journal # NoJournal \/ env.status = "deleting"
  \/ at # "none" \/ env.urls # "none"
BeginDeploy ==
  /\ Idle /\ ~closing /\ ~DeployRefusal
  /\ owner' = "building"
  /\ UNCHANGED <<others, recordVars, runs>>
DeployStops ==                           \* the builds are done, everything stops
  /\ owner = "building"
  /\ Saved(SetStatus(SetError(env, ""), "deploying"))
  /\ runs' \in {runs, [a \in App |-> "down"]}
  /\ owner' = "deploying"
  /\ UNCHANGED others
DeployStarts(endpoints) ==               \* the new services take over
  /\ owner = "deploying"
  /\ Saved(SetEndpoints(env, endpoints))
  /\ Settled
  /\ owner' = "starting"
  /\ UNCHANGED others
DeployEnds ==
  /\ owner \in {"building", "deploying", "starting"}
  /\ \/ owner = "starting" /\ Saved(SetStatus(SetError(env, ""), "running"))
     \/ owner = "building" /\ Saved(SetError(env, "other"))
     \/ owner # "building" /\ Saved(Failed(env, "other"))
  /\ owner' = "none"
  /\ UNCHANGED <<others, runs>>

(* down: what it sets is saved before anything stops.  Local processes     *)
(* first and the configuration with them; deletion wants the provider's    *)
(* release before it and ends in the removal of the record.                *)
Down(s) ==
  /\ Idle /\ at = "none" /\ env.status # "removed"
  /\ "deleting" \in {s, env.status} => journal = NoJournal
  /\ Saved(SetStatus(env, IF env.status = "deleting" THEN "deleting" ELSE s))
  /\ owner' = "down"
  /\ UNCHANGED <<others, runs>>
StoppedLocally(e) ==                     \* once no service runs
  SetStatus(SetPending(SetUrls(e, "none"), {}),
            IF e.status = "deleting" THEN "deleting" ELSE "stopped")
DownStops ==
  /\ owner = "down"
  /\ runs' = [a \in App |-> "down"]
  /\ \E text \in {"", "other"} : Saved(SetError(StoppedLocally(env), text))
  /\ owner' = IF env.status = "deleting" THEN "deleting" ELSE "none"
  /\ UNCHANGED others
DownFails ==
  /\ owner = "down"
  /\ runs' \in [App -> {"down", Value(env)}] /\ \A a \in App : runs'[a] \in {"down", runs[a]}
  /\ Saved(SetError(env, "other"))
  /\ owner' = "none"
  /\ UNCHANGED others
DownDeletes ==
  /\ owner = "deleting"
  /\ \/ /\ env.error = ""
        /\ Saved(SetStatus(SetEndpoints(env, {}), "removed"))
     \/ UNCHANGED recordVars
  /\ owner' = "none"
  /\ UNCHANGED <<others, runs>>

(* Operations that only hold the lock: an image prune, a verification.     *)
Hold ==
  /\ Idle /\ env.status # "removed"
  /\ owner' = "hold"
  /\ UNCHANGED <<others, recordVars, runs>>
Leave ==
  /\ owner = "hold"
  /\ owner' = "none"
  /\ UNCHANGED <<others, recordVars, runs>>

(* A branch clones this environment's data: a journal of its status and    *)
(* of the applications stopped, and recover() of clone.ts at the end.      *)
Clone ==
  /\ Clones /\ Idle /\ journal = NoJournal /\ env.status # "removed"
  /\ journal' = Journal(env.status, {a \in App : runs[a] # "down"})
  /\ runs' = [a \in App |-> "down"]
  /\ owner' = "clone"
  /\ UNCHANGED <<hubVars, recordVars, connVars, sessionVars, taskVars>>
Resumed(W) == runs' = [a \in App |-> IF a \in W THEN Value(env) ELSE runs[a]]
RecoverSource ==
  \/ /\ env.status = "stopped"
     /\ Saved(SetError(env, "")) /\ journal' = NoJournal /\ UNCHANGED runs
  \/ /\ env.status # "stopped"
     /\ Saved(SetStatus(SetError(env, ""), journal.original))
     /\ journal' = NoJournal /\ Resumed(journal.writers)
  \/ /\ MayFail /\ Saved(Failed(env, "other"))
     /\ \E W \in SUBSET journal.writers :
          /\ Resumed(W)
          /\ \E V \in SUBSET W : journal' = Journal(journal.original, journal.writers \ V)
CloneEnds ==
  /\ owner = "clone"
  /\ RecoverSource
  /\ owner' = "none"
  /\ UNCHANGED <<hubVars, connVars, sessionVars, taskVars>>
------------------------------------------------------------------------------
(* The hub exits, or is closed: containers may outlive it.                 *)
HubExits ==
  /\ hub # "down" /\ exits < MaxExits
  /\ hub' = "down" /\ closing' = FALSE /\ exits' = exits + 1
  /\ env' = disk
  /\ \/ UNCHANGED runs
     \/ runs' = [a \in App |-> "down"]
  /\ conn' = [n \in Name |-> "none"] /\ failures' = {}
  /\ NoSession /\ NoTasks /\ owner' = "none"
  /\ UNCHANGED <<disk, journal>>

Start ==
  /\ hub = "down"
  /\ hub' = "cloning"
  /\ UNCHANGED <<closing, exits, recordVars, journal, runs, connVars, sessionVars, taskVars, owner>>

(* Manager.recover: the clone journal first; when that fails the rest of   *)
(* the recovery leaves the environment alone.                              *)
RecoverClone ==
  /\ hub = "cloning"
  /\ \/ /\ journal = NoJournal /\ hub' = "tunnels" /\ UNCHANGED <<recordVars, journal, runs>>
     \/ /\ journal # NoJournal /\ RecoverSource
        /\ hub' = IF journal' = NoJournal THEN "tunnels" ELSE "up"
     \/ /\ journal # NoJournal /\ MayFail      \* out of the 120 s for all journals
        /\ Saved(SetStatus(SetError(env, "other"),
                           IF env.status = "stopped" THEN "stopped" ELSE "failed"))
        /\ hub' = "up" /\ UNCHANGED <<journal, runs>>
  /\ UNCHANGED <<closing, exits, connVars, sessionVars, taskVars, owner>>

(* Then the configuration: none is needed by a stopped environment.        *)
RecoverTunnel ==
  /\ hub = "tunnels"
  /\ \/ /\ env.status # "stopped" /\ env.urls # "none"
        /\ Configure("local")
        /\ hub' = "configuring"
     \/ /\ env.status = "stopped" \/ env.urls = "none"
        /\ UpTo(SetPending(SetUrls(env, "none"), {}))
        /\ hub' = "inspecting"
        /\ UNCHANGED conf
  /\ UNCHANGED <<closing, exits, journal, runs, connVars, sessionVars, cancel, owner>>
RecoverConfigured ==
  /\ hub = "configuring" /\ ConfSettled
  /\ LET e == Restored(env) IN
     \/ /\ ~ConfFailed
        /\ disk' = e
        /\ env' = IF e.error = "tunnel" THEN SetStatus(SetError(e, ""), "running") ELSE e
     \/ /\ ConfFailed
        /\ UpTo(Failed(env, "tunnel"))
  /\ NoTasks
  /\ hub' = "inspecting"
  /\ UNCHANGED <<closing, exits, journal, runs, connVars, sessionVars, owner>>

(* Last, running environments are inspected (processes of the host start   *)
(* again) and interrupted ones fail.                                       *)
RecoverStatus ==
  /\ hub = "inspecting"
  /\ \/ /\ env.status = "running"
        /\ Saved(env)
        /\ runs' = [a \in App |-> IF runs[a] = "down" THEN Value(env) ELSE runs[a]]
     \/ /\ env.status = "running" /\ MayFail
        /\ Saved(Failed(env, "other"))
        /\ UNCHANGED runs
     \/ /\ env.status \in {"deploying", "stopping"}
        /\ Saved(Failed(env, "other"))
        /\ UNCHANGED runs
     \/ /\ env.status \notin {"running", "deploying", "stopping"}
        /\ Saved(env)
        /\ UNCHANGED runs
  /\ hub' = "up"
  /\ UNCHANGED <<closing, exits, journal, connVars, sessionVars, taskVars, owner>>
------------------------------------------------------------------------------
Session ==
  \/ AskLock \/ Enter \/ Reserve \/ Prepared \/ Enable \/ Watch \/ Reconnected
  \/ LockForCleanup \/ StopConnectors \/ RestoreEnds
Configuring == \E a \in App : ConfSkip(a) \/ ConfStop(a) \/ ConfStart(a)
Connecting == \E n \in Name : conn[n] = "starting" /\ (ConnReady(n) \/ ConnExit(n))
Working ==
  \/ DeployStops \/ DeployEnds \/ (\E e \in SUBSET Name : DeployStarts(e))
  \/ DownStops \/ DownFails \/ DownDeletes \/ Leave \/ CloneEnds
Recovering == RecoverClone \/ RecoverTunnel \/ RecoverConfigured \/ RecoverStatus
TunnelNext ==
  \/ Session \/ Configuring \/ Working \/ Recovering
  \/ \E n \in Name : ConnReady(n) \/ ConnExit(n)
  \/ Open \/ End \/ Watchdog \/ Shutdown \/ Renew \/ Tick \/ Checkout \/ CleanupTimeout
  \/ BeginDeploy \/ (\E s \in {"stopping", "deleting"} : Down(s)) \/ Hold \/ Clone
  \/ HubExits \/ Start

TunnelSpec == TunnelInit /\ [][TunnelNext]_tunnelVars
(* The hub's own functions go on, an operation ends, a connector reports   *)
(* within its 30 seconds, and the watchdog's timer fires.  A session that  *)
(* waits for the lock gets its turn because the queue is first come, first *)
(* served (EnvironmentLocks).  The user owes nothing, nor does anyone make *)
(* the hub start again.                                                    *)
Fairness ==
  /\ WF_tunnelVars(Session) /\ SF_tunnelVars(Enter)
  /\ WF_tunnelVars(Configuring) /\ WF_tunnelVars(Connecting)
  /\ WF_tunnelVars(Working) /\ WF_tunnelVars(Recovering) /\ WF_tunnelVars(Watchdog)
FairTunnelSpec == TunnelSpec /\ Fairness
------------------------------------------------------------------------------
(* The state has the shape the code gives it. *)
TunnelTypeOK ==
  /\ hub \in {"up", "down", "cloning", "tunnels", "configuring", "inspecting"}
  /\ closing \in BOOLEAN /\ exits \in 0 .. MaxExits
  /\ env \in Entry /\ disk \in Entry
  /\ journal \in Journals
  /\ runs \in [App -> {"down", "local", "public"}]
  /\ conn \in [Name -> {"none", "starting", "ready"}]
  /\ failures \subseteq Name
  /\ at \in Stages /\ names \subseteq Name
  /\ {enabled, aborted, moved, cancel} \subseteq BOOLEAN
  /\ lease \in 0 .. Lease
  /\ conf \in [App -> {"done", "todo", "stopped", "failed"}]
  /\ owner \in {"none", "building", "deploying", "starting", "down", "deleting", "hold", "clone"}

(* Restart intent is on disk before any process is replaced, rollbacks     *)
(* included (the comment at manager.ts:830): an application that runs with *)
(* other URLs than the saved record says is one the record marks pending,  *)
(* whenever the hub exits.                                                 *)
IntentJournaled ==
  \A a \in App : runs[a] \in {"down", Value(disk)} \/ a \in disk.pending

(* While a session lives no deploy replaces services and no down stops     *)
(* them behind it, except a deploy or a hold that had the lock before the  *)
(* session asked for it.                                                   *)
SessionOwnsServices ==
  at \in Starting \cup Sharing => owner \in {"none", "hold", "clone"}

(* Every lease that runs out, every abort and every checkout ends in the   *)
(* session being gone, the lock waited for, the connectors stopped and the *)
(* configuration restored or the failure recorded (the watchdog, the loop  *)
(* of open and its finally block).                                         *)
SessionEnds == (aborted \/ (at # "none" /\ lease = 0)) ~> at = "none"
===============================================================================
