# Contremaitre, verified

TLA+ models of the hub of Contremaitre, the TLC runs that check them on small
instances, and TLAPS proofs about the parts everything else stands on.
Paths are relative to the repository; `locks.ts:40` is line 40 of the file of
that name under `packages/*/src`.

Contremaitre runs one *environment* (databases and applications) per branch of
a project. A long-lived hub process owns all of them: it deploys, stops,
deletes, clones main's data into new branches, shares an environment publicly
through tunnels, and verifies it. The hub is one JavaScript event loop, so the
code between two awaits is atomic; everything hard happens between awaits,
between the hub and the processes it starts, and between one hub process and
the next after a crash.

## How to run

    tlc -workers 2 -config Operations.cfg MCOperations.tla
    tlapm EnvironmentLocksProofs.tla

`PROJECT.json` lists every run with its module and configuration, the lines of
code each definition stands for, the hazards each property is aimed at, and one
plausible bug per property (a *mutant*: an operator defined just before the one
it would replace, and marked so) that makes the property fail.

## Inventory

| Component | Code | State it keeps | Operations | What is hard | What makes it correct |
|---|---|---|---|---|---|
| Environment locks | `execution/locks.ts` | one semaphore per environment: a permit, a queue | `use(ids, signal, work)` | abort racing the hand-off, several locks per call | no permit lost or duplicated, no overtaking, no deadlock, everyone served |
| Operations | `operations/operations.ts` | a record file per operation; in memory the active ones, per-environment index, reservations, slots | submit, cancel, shutdown, trim, restart | crash between any two steps, cancel racing completion, retention | one per environment, work alone on all it locks, a terminal status is final, every operation ends |
| Clone and recovery | `environments/clone.ts`, parts of `manager.ts` | the recovery journal of each branch, `Status`, `CloneComplete` | clone, recover, deploy, down, delete, hub start | main is stopped for the copy; a crash or failure must bring back exactly what ran | no writer lost, no stopped main revived, a branch is marked cloned only with complete data |
| Tunnel sessions | `environments/tunnel-session.ts`, `tunnel.ts`, `Manager.configureTunnel` | `tunnel_configuration` (URLs, pending applications), the session and its lease | open, renew, end, watch, reconnect, cleanup, recovery | ends at any moment, also during start and cleanup; applications restart one by one | nothing half configured is shared, local configuration comes back |
| Idle shutdown | `hub/idle.ts` | connections, retries, last activity | touch, begin, sweep, close | activity during the wait for the lock, failing stops | an environment is stopped only after a whole window without use, and then it is |
| Hub server, handlers | `hub/server.ts`, `application.ts` | readiness, open requests | startup, requests, stop, close | stop and a signal at once | everything is joined before the state lock is released |
| Environment manager | `environments/manager.ts` | `state.json`: all environments and the record of each service | prepare, deploy, down, recover, views | services build, stop and start side by side; what is kept was configured earlier | dependencies first, nothing unrecorded runs, whoever runs has the addresses of what it depends on |
| PGlite pool | `environments/pglite-pool.ts`, `pglite-copy.ts`, `-output`, `-protocol` | clients, their statements, queues and deadlines; the owner of one backend | admission, transactions, reset | disconnects and timeouts inside transactions, wakeups | one owner, clean between owners, nobody forgotten |
| PGlite server, worker, runtime | `environments/pglite-server.ts`, `-worker`, `-runtime` | a handle per launch, the worker's session | run, start, stop, remove, clone | a worker that fails, hangs or outlives its grace period | one writer, a restart that works, a reset that ends |
| PGlite data | `environments/pglite-data.ts`, `-fork`, `-initialize` | data directories, their backups, copies and locks | initialise, fork, recover | a crash between two renames | the old or the new database, whole, unless undoing a publication is cut short |
| Wasmtime runtime | `environments/wasmtime.ts` | service records, snapshots, watchers and their epochs | run, start, stop, remove, inspect, rebuild | a rebuild racing a stop; failing spawns | one process, none behind a stop, a snapshot to go back to |
| Hub processes and their children | `hub/server.ts`, `cli/src/client.ts`, `execution/process*.ts`, `files.ts` | the home's lock and socket, a journal of child processes | launch, startup, close, crash; spawn, kill, reap | several launches at once, hub exit with children alive, pid reuse | one hub serves, what an earlier one recorded and left is ended, a failed launch leaves nothing |
| Verification | `verification/*.ts` | the stamp of an environment, records of evidence | ensure, verify, report | the source changes during the work | a stamp, a passed check and a fresh report are about the source that ran, as far as contents can tell |
| Projects, routing, CLI, container engines, drivers | see `PROJECT.json` | files, sockets | parsing, forwarding, presentation | mostly sequential or I/O | - |

Interaction. A control request resolves an environment and submits an
operation (`application.ts`); the operation waits for the locks of its
environments, then for a slot, and calls the manager, which calls runtimes,
`clone.ts` and the tunnels, and saves `state.json` as it goes. Tunnel sessions,
idle shutdown and the sharing handlers take the same locks without an
operation. A starting hub marks unfinished operations interrupted, then runs
`Manager.recover`: clone journals first, tunnel configurations next, then the
status of every environment.

`PROJECT.json` names every component with its status, and every hazard the
survey found, with the properties that cover it or the reason none does yet.

## Modules

    Semaphore                operators: a semaphore as a value
      EnvironmentLocks       actions of one call of use; implements LockService
        EnvironmentLocksProofs
      Operations             INSTANCEs EnvironmentLocks; the slots are a Semaphore too
        OperationsProofs     cites EnvironmentLocksProofs
    LockService              what callers of the locks may rely on
    IdleShutdown             the idle sweep, the stop request, close
    HubLife                  hub processes on one home, launches, child processes
      HubProofs              both
    TunnelSessions           one environment, its session, the journal, hub exits
    Verification             ensure, verify, report beside a changing source
      SessionProofs          both
    DataStore                what a data directory is to those who use it
    PgliteData               directories across crashes; implements DataStore
    CloneRecovery            one main, its branches, the journal, hub exits
      DataProofs             both
    BackendLease             what a client of a PGlite database may rely on
    PglitePool               many clients, transactions; implements BackendLease
      PglitePoolProofs
    PgliteServer             launches, worker, sessions; implements BackendLease
    Deployment               the services of one environment: deploy, recover
      ServiceProofs          both
    Wasmtime                 one service: record, snapshots, process, watcher
      WasmtimeProofs
    MC*                      values of constants TLC needs as definitions

Each component's module has a type invariant, `TypeOK`, proved of its specification; configurations name the
properties listed below. Where one module of proofs extends two components, one of the two prefixes what
both would call the same: `HubInit`, `CloneNext`, `DeploymentSpec`, `TunnelTypeOK`.

### Semaphore, EnvironmentLocks, LockService

`Semaphore` is the class of `locks.ts:2-55` as values: `Take`, `Enqueue`,
`Withdraw` (the abort listener) and `Release` (hand over to the head of the
queue, or free the permit) are its synchronous pieces. `EnvironmentLocks` is
`use` (`locks.ts:58-73`): a call sorts its ids and acquires them one by one
(`Grant`, `Queue`), is rejected (`Throw`, `Leave`) or enters and finishes, and its
finally block (`ReleaseAll`) releases all it holds in one step. `Abort` may come
at any moment. Ids are naturals, standing for their string order.

`LockService` is the promise: a caller asks for a set of environments, and its
work runs only while no other caller's work touches any of them.

### Operations

One step per piece of `submit` between awaits: `Submit` (checks, record,
indexes), `Begin` (the microtask), the lock steps of `EnvironmentLocks`
(INSTANCE, with operations as clients), `TakeSlot`, `Start` (status running saved
before work), `WorkEnds`, `Unlock`, `Finish` (final status, indexes, retention).
`Cancel`, `Shutdown` with its synchronous loop (`AbortNext`), `Exit` at any moment
and `Restart`, which interrupts what the previous hub left unfinished. `record`
is file and map in one, because `save` writes both; all else is lost at `Exit`.

### CloneRecovery

Main, with databases (dumped, or copied as files), applications, and services
on the host; and branches that clone it. One `job` holds main's lock. The steps
follow `clone.ts`: stop the applications, each journalled before it is stopped
(`JournalWriter`, `StopWriter`), prepare and copy each database and the file volumes,
`recover` (start writers again in dependency order, stop databases started only
for the copy, restore `Status`, forget the journal). `Startup` is the
same recovery at the next hub start, then what `Manager.recover` does about main: `Inspect`
finds out what is down or has to follow something that moved, `RestartService` starts the host's
services and those again one after the other, `StartupEnds` sets `Status`. Every
runtime call may throw, with its effect done or not; so may the removal of the network (`EndDown`).

### TunnelSessions

One environment and at most one session. `at` is where `open` is: the wait for the
lock, reserving, preparing (applications restart and connectors start
together), sharing (without the lock), reconnecting, and the cleanup with its
120 seconds. `env` and `disk` are the record in memory and as last saved, because
part of recovery changes only memory until its end (`manager.ts:1551-1561`).
`runs[a]` is the configuration application `a` runs with. A deploy, a
down, a deletion, a branch that clones this environment, and operations that only
hold the lock run beside the session.

### IdleShutdown

`idle.ts` with the stop request and `close` of `server.ts`. `status[e]` is an
environment's, `age[e]` the ticks since the activity it records; `quiet[e]`, for the property only,
the ticks since it was really used, which no `touch` resets; `sweep` says what the
sweep does, to which environment, and which it has still to visit; `stale` are
those of them deleted meanwhile, because the sweep goes on with the records it
began with. `SweepVisit` is one turn of the loop, `SweepLock` the second look and the
beginning of `down` in the step that gets the lock, `SweepTimeout` and `SweepStopped`
the ways it ends. `stop` and `close` go through their awaits one by one:
idle shutdown, sharing, operations, environments.

Three components appear here as what the hub sees of them, each checked in its
own module: operations as the environments in their hands (`BusyCoversHands` of
`Operations`), sessions as where they are (`TunnelSessions`), and the locks as
`LockService`. Requests, connections and sharing handlers come at any moment.

### Deployment

`attemptDeploy` and what it calls: builds side by side (`Built`), the decision which
services stay as they are (`Inspect`, `Choose`: the fingerprint recorded for a
service is that of its configuration and of the addresses and jobs it depends on),
removals (`RemoveService`), the new records (`Removed`), then infrastructure and
applications, each service's task waiting for those of its dependencies
(`Begin`, `Prepare`, `Run`, `Wait`; `RunJob`, `JobEnds`, `JobCleaned`). A service's host is recorded
before it is ready, and the record of a job that changed still says how it ended before, as in the code; so
`answered`, for the
property only, notes what was found ready, at which address, and which job succeeded in this deployment. `rec` is the
record as saved, `proc` what really runs and what it was configured with, `conf`
the environment file in between. Each step can fail; the operation can be
cancelled. A death of the hub or of a process, or another program that binds a
port, is a fault, and `Recover`, `Restart` and `LeaveAlone` are what the next hub does about
the services. `Acyclic` assumes what `order` makes sure of (`projects/config.ts:66-84`): no service depends on itself,
directly or through others (`Upstream`).

### PglitePool

The pool of `pglite-pool.ts` is one loop, `drain`; `at` says at which await it is, and
socket events, timers and flushes happen at any of them (`Quiet`). What the backend
holds is modelled beside what the pool believes of it: `prepared[n]` is who prepared
the statement known as `n`, `loaded` the names the pool thinks are there; `session` is
whose messages the backend has seen since it was last reset. A message is any
statement until it runs; `Query`, `Parse`, `Bind`, `Close`, `Sync`, `CopyInput` and `Skipped` are
what the wire protocol and the relay of `pglite-copy.ts` make of it.

### PgliteServer

The runtime's calls (`call`, `at`), one handle per launch (`ended`, `term`), and
the newest worker with its session and its waiters. Parent and worker talk over
`chan`, in order. `Crash`, `Breaks`, `ResetFails`, `GraceOver`, `StartTimeout` and `StopTimeout` are
the failures, and a cleanup that throws between the worker's end and the lock (`Unlock`, which then leaves
the termination `spoilt`); nothing is assumed of the database, so a reset may never end.

`BackendLease` is what both promise to applications: the work of two clients is
never mixed in the one session the backend has.

### PgliteData, DataStore

A directory, the backup beside it, a copy on its way and a database being made
are trees that are absent, empty, whole, or partly removed with or without
`PG_VERSION`. Two processes take the kernel's locks, recover, initialise or fork, with and without
an exchange of names, and die at any step. Each rename and each sync of a publication may throw (`Moved`,
`Synced`), and `Undo` is the catch block, which removes the target and moves the backup back; what it
leaves when its removal does not end is `torn`. The code cannot tell such a tree from a whole one, so in
the model it is opened and copied like one; `torn` is there to say which databases those are.

`DataStore` has one whole database or none
per directory, and says in so many words that a replacement taken back may leave it torn. The refinement maps a directory
to what a recovery would make of it and, until its publication is through (`Publishing`), to what it held before.

### Wasmtime

The manager's call and the watcher's rebuild both spawn, so there are two
`thread`s; an inspection (`look`) reads the record, and the epoch decides whether what it
read may still be used. A spawn that failed reads the record (`Reread`) and puts the earlier one
back (`Restore`) in two steps, between which a rebuild can record its own process; a removal unlinks one
file at a time (`Remove`), and the hub can die in between. `record`, `owner` and `files` survive the hub.

Two history variables say what the properties exempt, and exempt nothing else: `leaked` are the processes
no record names any more, started by a hub that died before it recorded them or written over by
`Restore`; `lapsed` are the pids whose record was put back over a newer one or whose files a removal had
begun to unlink.

### Verification

A fingerprint, and a build, read one file after another (`Read`) while the source is
edited (`Edit`) and development source is synced into what runs (`Sync`). `running[f]` is the
content of `f` that runs, `stamp` the fingerprint the environment is said to have, `records`
the evidence. An edit gives a file any content, one it had before included. For the properties only,
`tainted` has each record and file of which a check met another content than the record names, at its
end or at any sync before it, and `undone` the files that were brought back to an earlier content since the operation that
built what runs began (`lately`: since the operation under way began). Crash and restart mark running records interrupted.

### HubLife

`launch` of the command line, `startServer` from the lock to readiness, `close` with its
cleanups in order, and the children of a hub with the journal of their pids. A
start can fail at each step, a hub can crash, stop or be killed by the launch that
spawned it; a pid can be given to another program once nobody waits for it. `who[t]` is what a child has
become: the program that was recorded, another one it replaced itself by (`Replaces`), members of its group
without their leader, nobody, or a stranger with its pid. Reaping knows a child by its start and the name of its program
(`ReapFirst`, `ReapAgain`): what it does not recognise it leaves alone, and removes its file.

## Runs

| Run | Instance | States | Shows |
|---|---|---|---|
| `EnvironmentLocks` | 3 calls, 3 environments | 167k | `OnePermit`, `NoBarging`, `Served` (liveness), refinement of `LockService` |
| `Operations` | main and two more environments, one that clones, 3 operations, 2 slots, retention 1 | 510k | `WorkExclusive`, `BusyCoversHands`; `CancelWins`: who was told "cancelled" never reads "succeeded"; `OperationsEnd` (liveness) |
| `CloneRecovery` | a dumped database, one in files on the host, 2 applications (one on the host), 2 branches, failures, 2 exits | 5.36M | `WritersAccounted`, `CopiedAtRest`, `StopSupersedes` |
| `TunnelSessions` | 2 applications, 1 endpoint, clones, failures, 1 exit | 168k | `IntentJournaled`, `SessionOwnsServices`, `SessionEnds` (liveness) |
| `IdleShutdown` | main, which is used, and a branch that never idles; a window of 2 ticks, 1 failing stop, 1 deletion | 5.80M | `StopsOnlyIdle`, `StopsAlone`, `ReleasedQuiet` |
| `Deployment` | a database and an application on the host, a job between them; 2 deployments, 3 manifests, 2 faults | 3.60M | `NoOrphans`, `PeersCurrent`, `DependenciesFirst`, `NeverStuck` |
| `PglitePool` | 2 clients, 2 statement names, 1 queued message each | 1.91M | `LoadedIsOwners`, `Deadlines`, `NothingForgotten`, refinement of `BackendLease` |
| `PgliteServer` | 2 launches, 2 clients | 681k | `OneWriter`, `RestartFindsLock`, refinement of `BackendLease`, `ResetEnds` (liveness) |
| `PgliteData` | 2 processes, 2 directories, 2 contents, renames and syncs that may fail | 933k | `OpensWhole`, refinement of `DataStore` |
| `Wasmtime` | 3 components (symmetric), 3 processes, 1 death of the hub, 1 spoilt record | 2.13M | `OneProcess`, `StoppedIsDead`, `SnapshotKept` |
| `Verification` | 2 files, one of them synced, 2 checks, 2 edits, 3 operations, 1 crash | 3.88M | `StampTrue`, `PassedTrue`, `ReportTrue` |
| `HubLife` | 3 hubs, 2 launching commands, 1 child, 1 crash | 1.02M | `SocketServes`, `NothingLeft`, `FailedLaunchEnds` (liveness) |

Why the bounds are enough. Three calls are the least with two waiters behind a
holder, one of which is aborted, and three environments the least for a cycle
of acquisition. With three operations and two slots two may work at once, so that it is the locks
that keep them apart, and a third waits; there is one record more than retention keeps. Two branches are the
least that can disagree about one main. Two exits cover a crash of
each step and one of the recovery after it; sharing has one. Two applications are the
least that can be configured differently. For idle shutdown two environments are
the least where an operation on one holds the lock of the other; a window of two ticks
has environments that were used within it and are not in use, one failing
stop reaches the retry, and one deletion a stale record.

A database, a job and an application make a chain in which something is
kept, something replaced and something waits; the second deployment is the one
that finds what the first left; with two faults a port is taken while the
hub is down. Two clients are the least that can be mixed, two launches the least where a
worker outlives its successor's start; of statements one is unnamed and one named, because the
protocol treats them apart. Two processes on two directories cover a fork that
meets a start on either side, and a death of one with the other's recovery
after it; there is no bound on how often they die. Three processes let a service be started, and rebuilt
while what it replaced is put back; the third component is the one whose snapshot is deleted by then. Two files are
the least a
fingerprint can read around an edit, two edits the least where one undoes the other. Three hubs let two launches race
while the
hub before them closes; one child is enough, because children do not meet.

The counters bounded are named `Max...`, with `Lease`, `Checks`, `Retain`, `Retention`
and `Timeout`; `Used` bounds who does more with an environment than ask for it and deploy it.

Deadlock is checked where the system never stops: locks, operations, clones and
data directories. In the other runs it legitimately may: a hub that has released its lock is gone, a pool
or worker that failed serves no more, and bounds on exits, launches, processes,
operations and edits are used up. `NeverStuck` says for deployments what deadlock
checking would: whatever failed, the hub has a step of its own to take.

### Fairness

Safety properties need none, and the runs without liveness are checked without.
The others assume what the event loop gives: a continuation whose await
has settled runs (weak fairness of each call's, operation's or session's
steps), and work passed to an operation settles. Nobody has to submit, abort,
renew or restart. `TunnelSessions` also has connectors report
(the 30 seconds of `tunnel.ts:320`), the watchdog's timer fire, and strong fairness
of the session's lock: it is enabled again and again, and the queue is first
come, first served, which is what `EnvironmentLocks` proves (`NoBarging`) and
checks (`Served`). `PgliteServer` has messages delivered, sockets close, the reset's
timer fire, and a worker that is terminated end; nothing about the database, so
that `ResetEnds` holds when a reset hangs. `HubLife` has a hub go on with what it has begun,
and the timer that kills a child which was told to end (`process.ts:63`); a launch need
not be polled nor give up.

## Proofs

A module of proofs extends its component, or two, and proves about their specifications, for every value of the
constants that the assumptions allow. Each proof has the same plan: an invariant `IInv`, the
conjunction of named parts, which TLC first checked on the run's instance; that the initial states satisfy it
and every step keeps it, the latter from one lemma per part with one step per action; `Inductive`, that
`Spec => []IInv`; and from it the type invariant (`TypeCorrect`) and the properties of the
runs. `PROJECT.json` lists the theorems with the property each states. Every invariant, action property and refinement
of the runs is a theorem, but for `NeverStuck`.

| Module | Properties of the runs that are theorems |
|---|---|
| EnvironmentLocksProofs | OnePermit, NoBarging, ImplementsService |
| OperationsProofs | WorkExclusive, BusyCoversHands, CancelWins |
| HubProofs | StopsAlone, ReleasedQuiet, StopsOnlyIdle; SocketServes, NothingLeft |
| DataProofs | OpensWhole, ImplementsStore; WritersAccounted, CopiedAtRest, StopSupersedes |
| ServiceProofs | OneWriter, RestartFindsLock, ImplementsLease; NoOrphans, PeersCurrent, DependenciesFirst |
| PglitePoolProofs | LoadedIsOwners, Deadlines, NothingForgotten, ImplementsLease |
| WasmtimeProofs | OneProcess, StoppedIsDead, SnapshotKept |
| SessionProofs | StampTrue, PassedTrue, ReportTrue; IntentJournaled, SessionOwnsServices |

The proofs rest on no induction over data: what a recursive definition computes for every input is out of the prover's
reach. `Upstream` is therefore the least set that is closed under dependencies, and the proof takes from it what
being least gives. Where something is chosen by a `CHOOSE` of the least, as by the loop of the pool, that there is a
least one comes from the library (`NatLessThanWellFounded`).

### EnvironmentLocks

From `LockAssumption` alone: besides the properties above, `QueuesAccurate` and `NoDeadlockOrder`
(`AscendingOrder`). `IInv` adds that a call's phase agrees with what it holds and wants
(`PhaseAgrees`). None of its parts is inductive alone. A release hands the permit
to the head of the queue, so that permits are conserved needs the queue to
hold only calls that wait, each once (`QueueAccurate`); that a waiter left the right queue when
it is aborted needs it to wait for the least id it has left; and the order of
ids held and wanted is kept by the hand-off only because that id is the one
waited for. The step of `ReleaseAll`, shared by `Throw`, `Finish` and `Leave`, is one
lemma. The first lemmas say what the proofs need of queues as sequences: what
`RemoveFirst`, `Tail` and `Append` do to the set of elements and to being without
duplicates.

The refinement maps a call to `in` while its work runs and to its ids, held
and wanted; a work step of the abstract service is `Enter`, and mutual exclusion there is
`OnePermit` here, because a call that works holds all it asked for.

### Operations

Every step of an operation is a step of its call of the locks, or none. `OperationsProofs`
therefore takes over the invariant and the step lemma of `EnvironmentLocksProofs`
instead of proving anything about queues of locks again; what it adds is that the step an
operation is at agrees with the stage of its call (`Stages`), that the call has asked for
what the operation was given, which it has also reserved (`Asked`), what the registry says of
an active operation (`Registered`), and that slots free and slots taken add up to the
concurrency (`SlotQueue`, `SlotsConserved`, a count, by the theorems on cardinalities). A hub's exit and
restart renews locks, slots and registry together, so the invariant survives both.
`WorksAlone` is then the exclusion of the locks; `BusyIsHonest` holds because reservations outlast the
lock; `SlotsLimit` is that never more work than the concurrency allows. `CancelIsFinal`, an action
property, needs in addition that an operation whose abort came first can only throw, and stays
so through a restart (`Doomed`).

### IdleShutdown

Nobody keeps the stop request from environments by a lock. What does is the order in which it, and
`close`, shut and join the others: `Joined` says, for each place either can be at, what is
shut and who is gone, and it is inductive with `SweepsAlone` (the sweep that stops an environment has its
lock, so that nobody works on it or shares it) and the bound on deletions. `OnlyIdle` is an action
property about `quiet`, which counts from the uses themselves: whatever uses an environment touches it, so that
its recorded age is never more than its quiet time while nobody uses it (`Noted`); what the sweep knows of deleted
environments (`SweepKnows`) and that deletions do not overlap (`DeletesAlone`) are needed because a record
that is gone is not touched any more.

### HubLife

The home's lock decides everything: a hub from `boot` to the last but one of its cleanups is the
one that holds it (`OwnersLocked`), so no other touches socket or journal meanwhile. `SocketServes`
needs in addition that from listening on the socket leads to that hub (`Leads`); `NothingLeft` that
what runs as it was recorded is journalled (`Journaled`) and that the reaping hub has not passed over any of
those (`StillToReap`). It says nothing of children that replaced their program or lost their leader.

### PgliteData

Whoever works on a directory has its lock. So what a process has found out about it (`Knows`, place
by place) stays true until it acts on it, and nobody else's knowledge is touched by what it does: the
lemma for one step of one process gives the step of all. A directory nobody knows anything
about is one that a recovery can still make whole (`Recoverable`): it has a database, or its
backup does, or there never was one. A database that is half removed while its `PG_VERSION` is there is in the hands
of the process
that undoes a publication (`Unfinished`), and is `torn` when that one dies. The refinement maps a directory to its
database, or else to its
backup, and while a publication may still be undone to the backup; copying, swapping and recovering are stutters, or
the step in which the store changes, and the death of a process in `Undo` is a `Tear`.

No theorem has a hypothesis on what may throw.

### CloneRecovery

Everything is in the journal. At most one is pending, because a clone needs that none is and a recovery works on the
one it finds (`Journals`); a job at any place of a clone works on it (`Jobs`). `Accounted` is `WritersAccounted` with
its reason: a writer is stopped only after the journal names it, leaves the journal only once it runs again, and as long as
a journal is pending that nobody works on main is not `running`. `AtRest` says what is stopped at which place of
the copy, from which `CopiedAtRest` follows for each piece at the step that copies it. `StaysStopped`, that a stopped
main has no
application running and no journal that would start one, is what makes `StopSupersedes` inductive: `Supersede`
takes the applications out of the journal in the same step in which it finds main stopped. A startup's restarts
(`JobWork`) work on a main that no journal names, and what they have not brought up when one fails makes main `failed`.

The assumption that `"files"` is no service only keeps the tag of the file volumes apart from names.

### PgliteServer

The data lock passes from hand to hand. `Holds` says for each await of a call whose it is, and that a launch that
lives has it; `Released` that a launch whose stop succeeded has let it go; `Handover` that a call which is past
stopping its predecessor has it out of the way; a cleanup that throws gives the lock up all the same. `OneWriter` and
`RestartFindsLock` follow. `Clean` follows the one
session a worker has through the three messages of a reset: it is its client's, or nobody's, and it is nobody's before the
next is served. The refinement of `BackendLease` maps the session to the work done in it; `Admission` is the lemma about
who comes next.

### PglitePool

`Owned` is about the session, the statements loaded and who answers for them, at each await of the loop;
`Waiting` about who has a deadline, which depends on where the loop is: a client that is being served has none while
the backend works for it, and has one again before the loop is off. `NothingForgotten` is inductive once these are
known: whatever is done
to the pool while the loop is off switches it on, the loop looks again before it goes off, and what it chooses is
the first that is ready. `Order` says that the list of clients repeats none.

### Deployment

That what runs is recorded (`NoOrphans`) is part of `Recording`; the new records, which forget the services that are
not wanted any more,
are saved only once those are removed (`Removing`).

In a wave a step of a service changes that service and no other, and who is past waiting has only dependencies that
are done (`Waves`). So nothing changes a service once somebody was given its address, and the addresses a
process was given are still those of its peers (`Started`, by the lemmas about one step: `StepOf`, `RecordOf`,
`StartOf`). `Acyclic` enters here: a service is not its own dependency, so what its own step writes is not what it was
given. What is kept depends only on what is kept (`Retaining`), and its record is true of it because the
comparison of fingerprints said so (`Fits`, `TrueRecords`). The two make `PeersCurrent`. A deployment that fails before it
has changed anything (`mutated`) has kept everything, which is why its failure may restore `running`. `DependenciesFirst`
follows from `Waves` and from what a task that is done has left in `answered`: the address its service was found ready at,
or that its job succeeded; neither changes while others are given that address.

### TunnelSessions

`IntentJournaled` speaks of the disk, the steps of the record in memory. They are the same but at the end of a
recovery, and then
nothing is pending and nothing runs, or both say the same about URLs (`Synced`). What is pending is so
only while somebody configures, and an application that is done is not pending (`Tasks`). An environment that is
stopped, or that a
clone's journal will say is stopped, has no application running and no session (`StoppedDown`): this is why a
recovery may forget the configuration of a stopped environment without looking. A clone's journal that an exit left
behind blocks deploys, and the rest of the recovery (`Blocked`). `SessionOwnsServices` needs only who has the lock
(`Locked`): a deploy
begins with no session there and holds the lock until it ends, and so does a down.

### Wasmtime

`Control` is about who is where: from the moment a stop reads the record until a new process is
recorded no rebuild works and no inspection may start one (`Quiet`). `Processes` follows from
it: what is alive and not `leaked` is the recorded process or, until that is
recorded, the one a spawn has just started; where a call has ended what ran and not yet started
anything (`Dead`), nothing is. A call cannot be between its read and its `Restore` unnoticed: what a rebuild recorded in
between becomes `leaked` in the step that writes over it. `Snapshots` says what a spawn may put back if it fails: its
snapshots are on disk
or its pid has `lapsed` (`Safe`), or its record has been displaced by a rebuild's (`Displaced`): then either it
puts nothing back, or it does so over the newer record, and the pid it puts back has `lapsed`.

### Verification

An edit that does not bring a file back raises what it holds. So for the files not in `lately` or `undone` scans are
ordered: what was
read is no newer than the file, and what was read first is no newer than what is read later (`Scans`). What runs lies
between its stamp, or what will be stamped, and the source (`Between`), so that where these agree it
is the same too: `StampTrue`. While a verification runs, what runs lies between its first scan and
the source. A check that met another content of such a file therefore met a newer one, and the second scan
will find that, or has (`Recorded`): `PassedTrue`. What passed on the deployment there is therefore met what it names
(`Sounds`), a report under way holds a
record that is over (`Reported`), and `ReportTrue` follows, because only `Answer` makes a
report fresh. Of files that were brought back the theorems say nothing, and could not.

### Only model-checked

Liveness and `ENABLED`, which the prover does not reach: `Served`, `OperationsEnd`, `SessionEnds`,
`ResetEnds`, `FailedLaunchEnds`, and `NeverStuck`, an invariant about what is enabled.

## Seen while modelling

No run expects a violation. These are observations made on the way, several of
them with a counterexample of TLC at the time; where one limits a property, the
model has the behaviour and the property says what holds in spite of it.

Clones and deletion

- A branch deployed while main's deletion is half done (its files gone) clones
  nothing, because a missing directory is taken for a volume never written
  (`clone.ts:246`), and is marked `CloneComplete`, against `docs/reference.md:316`.
- The only mark of an interrupted deletion is `Status`; a failed clone recovery
  overwrites it on the source (`clone.ts:83`), after which main can be deployed with part
  of its data gone (`docs/reference.md:322` says an environment mid-deletion cannot be).
  `down` also keeps `Error`: after a failed session and a hub exit in the middle of a
  deletion, startup restores the environment and sets it running (`manager.ts:1549-1555`).
- `docs/reference.md:432` says startup fails when recovery fails; the hub starts
  (`clone.ts:109`), as line 449 of the same document says. Line 449 says a pending
  recovery blocks the affected pair; it also blocks every other branch of the
  same main (`manager.ts:299`, `327`).

Sharing

- A clone that outlasts a session's cleanup writes back Status running over the
  failure the session recorded (`clone.ts:76-79`); the public configuration
  stays, unannounced, until the hub restarts (`docs/reference.md:363`).
- A session that configured nothing and cannot get the lock for its cleanup
  marks the environment failed and says a restart will recover it
  (`tunnel-session.ts:220`); there is nothing to recover.
- `open` reads the endpoint names before it has the lock
  (`tunnel-session.ts:100`), so a deploy in between leaves new ones unshared.
- `reset` forgets permanent failures by service name, and failures are kept by
  endpoint name (`tunnel.ts:48-51`, `293`): that of an endpoint named otherwise ends
  every later session until the hub restarts.

Deployment

- The new record of a changed service keeps the old fingerprint (`manager.ts:504`), and its
  host is set when it runs, before it is ready. If v2 never gets ready and v1 is deployed again, the
  process of v2 passes for an unchanged v1. `PeersCurrent` therefore speaks of addresses and not of versions.
- Recovery assigns a new port to a service whose port was taken; if the hub dies
  again before it has restarted those that depend on it, they keep the old address
  (the comment at `manager.ts:1647`). `PeersCurrent` therefore speaks of deployments.

PGlite

- A `stop()` that threw, or whose termination took more than five seconds, is remembered
  (`pglite-server.ts:153-184`): every later stop of that handle throws. A client that leaves
  as a stop arrives arms the reset timer, which then fails a stop that is merely slow.
- Where names cannot be exchanged, a publication whose rename or directory sync throws removes the new
  database and moves the backup back (`pglite-fork.ts:139-144`). A death during that removal, or a removal that fails, while
  `PG_VERSION` is still there, leaves a tree that the next recovery takes for published: it drops the
  backup, and the service opens what is left, against `docs/wasm-postgres.md:92` ("Failure restores the old
  target"). The model has it (`torn`); `OpensWhole` and `ImplementsStore` say that this is the only way.

Idle shutdown

- A clone does not touch the environment it copies from, nor does a session that is renewed or ended by
  its lease: when they end, an idle window that passed meanwhile is not started afresh
  (`idle.ts:28`; `docs/compact-config.md:33` says so of connections, which do).

Wasmtime, verification

- When a spawn fails after the record was saved, the record is read and put back in two
  steps (`wasmtime.ts:386-387`). A rebuild that records its process in between is written over: that process goes on behind
  every later stop, a service without a port is then started beside it, and the record put back may name a snapshot
  that is gone. A death of the hub while a removal unlinks files one by one (`wasmtime.ts:444-457`) leaves a record
  without its snapshot, too.
- An edit that is undone cannot be seen by comparing fingerprints (`workflow.ts:102`, `168`, `250`, `419`): what was built or
  synced from it runs under the stamp of the source as it is now, a verification whose checks met it passes, and a report
  calls that fresh. The properties say for which files this may be so.
- An `ensure` that joins one under way joins it whatever its rebuild flag. A death
  between making a record's directory and writing it makes the next start throw
  (`records.ts:56-72`).

Hub

- A launch whose hub loses the race for the lock reports "Hub failed to start" unless the
  winner is ready by then; and a launch that is cancelled ends its hub although
  another launch may have been told that it runs.
- The identity of a child includes the name of its program, so a child that replaces
  itself by another program is not reaped and its journal file is removed; members of a
  group whose leader is gone are not reaped either (`process-journal.ts:16`, `41-51`). The model has both, and
  `NothingLeft` is about the children that are as they were recorded.
- The commands a stop request runs to take environments down are not journalled
  (`server.ts:525` has no process directory), and a signal that comes meanwhile lets `close`
  release the lock without waiting for them. `ReleasedQuiet` speaks of operations, sharing
  and idle shutdown only.
- A log write that fails after `finish("succeeded")` turns the operation into
  a failed one (`operations.ts:225-231`); nobody can have read the first status.

## Not modelled

Runtime engines, drivers and providers are processes outside the repository: a
call to one is a step that may fail with or without effect. File contents,
log wording, HTTP forwarding and argument parsing have no protocol; manifests are parsed and
checked by sequential code without state. A save is
one step, as `files.ts` replaces files atomically; a disk that refuses a write
is not modelled. `CloneRecovery` leaves out clones through a project driver,
`TunnelSessions` the reservations kept with a provider, `Operations` the paging of logs
and the per-service progress, `Deployment` dependency caches, development watches and relays for
containers that reach the host, `PgliteServer` the readiness checks, `PgliteData` power
failures, `Verification` diagnosis and artifacts. `PROJECT.json` says so for each component.

Three liveness properties were given up for the size of their runs: that an environment left alone is
stopped although its stop fails once, that a clone's recovery ends, and that a recovery of a
tunnel's configuration ends. Each would need an instance of its own.

## Plan

1. Abstract specifications: the life of an operation as its callers see it, implemented by
   `Operations`.
2. The replacement and rollback of `update.ts`, the project lock's refresh, certificate renewal.
