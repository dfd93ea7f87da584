---------------------------- MODULE Verification ----------------------------
(***************************************************************************)
(* What agents ask of one environment (packages/verification/src): ensure, *)
(* which deploys the source and stamps the environment with its            *)
(* fingerprint, verify, which runs the checks and keeps the evidence, and  *)
(* report, which says what that evidence is worth.  Meanwhile the source is *)
(* edited, and development source is synced into what runs.                *)
(*                                                                         *)
(* A fingerprint, and a build, read one file after another.  Operations on *)
(* the environment exclude each other (Operations.tla); a report does not  *)
(* wait for them.                                                          *)
(*                                                                         *)
(* Two scans compare contents, so they cannot see an edit that was undone  *)
(* between them, whatever was built or synced from it; nor can a later     *)
(* operation.  The history variable undone names those files, and what is  *)
(* claimed is claimed of all others.                                       *)
(***************************************************************************)
EXTENDS Naturals, Sequences

CONSTANTS
  File, Dev,               \* the source's files; those synced as they change
  Checks,                  \* how many checks the profile has
  Retain,                  \* records of finished runs that are kept
  MaxEdits, MaxOps, MaxCrashes   \* BOUNDS

ASSUME VerificationAssumption ==
  /\ Dev \subseteq File /\ {Checks, Retain} \subseteq Nat \ {0}
  /\ {MaxEdits, MaxOps, MaxCrashes} \subseteq Nat

VARIABLES
  src,                     \* src[f]: the content of a file
  running, up, status,     \* what was started, whether it still runs, and Status
  stamp, generation,       \* env.source and env.generation
  kind, pc,                \* the operation on the environment and its step
  unread, seen, first,     \* a fingerprint or build under way, and the one before
  checked,                 \* checks of the verification that have ended
  records,                 \* the evidence, newest first
  tainted,                 \* HISTORY <<id, file>>: a check met other content than its record names
  undone,                  \* HISTORY: files brought back to older content since the operation
                           \* that began to build what runs began
  lately,                  \* HISTORY: the same, since the operation under way began
  report,                  \* a report under way
  down, edits, ops, crashes

deployed == <<running, up, status, stamp, generation>>
op == <<kind, pc, unread, seen, first, checked>>
evidence == <<records, tainted>>
history == <<undone, lately>>
counts == <<edits, ops, crashes>>
vars == <<src, deployed, op, evidence, history, report, down, counts>>

Source == [File -> 0 .. MaxEdits]
Nothing == [f \in File |-> MaxEdits + 1]
NoReport == [pc |-> "none", record |-> <<>>, unread |-> {}, seen |-> Nothing]
Running(r) == r.status = "running"

Init ==
  /\ src = [f \in File |-> 0]
  /\ running = Nothing /\ up = FALSE /\ status = "none" /\ stamp = Nothing /\ generation = 0
  /\ kind = "none" /\ pc = "none" /\ unread = {} /\ seen = Nothing /\ first = Nothing /\ checked = 0
  /\ records = <<>> /\ tainted = {} /\ undone = {} /\ lately = {} /\ report = NoReport
  /\ down = FALSE /\ edits = 0 /\ ops = 0 /\ crashes = 0
------------------------------------------------------------------------------
(* The new content may be one that was there before.                       *)
Edit(f) ==
  /\ edits < MaxEdits /\ edits' = edits + 1
  /\ \E c \in 0 .. edits + 1 :
       LET old == IF c <= edits THEN {f} ELSE {}
       IN /\ c # src[f] /\ src' = [src EXCEPT ![f] = c]
          /\ undone' = undone \cup old /\ lately' = lately \cup old
  /\ UNCHANGED <<deployed, op, evidence, report, down, ops, crashes>>

(* What the checks of r meet in what runs, however briefly.                *)
Current == records[1]
Met(r, now) == tainted \cup {<<r.id, f>> : f \in {g \in File : now[g] # r.source[g]}}
Sync(f) ==                     \* the development watcher
  /\ ~down /\ up /\ f \in Dev /\ running' = [running EXCEPT ![f] = src[f]]
  /\ tainted' = IF pc = "checks" THEN Met(Current, running') ELSE tainted
  /\ UNCHANGED <<src, up, status, stamp, generation, op, records, history, report, down, counts>>
Exit ==                        \* a service ends by itself
  /\ up /\ up' = FALSE
  /\ UNCHANGED <<src, running, status, stamp, generation, op, evidence, history, report, down, counts>>
------------------------------------------------------------------------------
Goes(place) == pc' = place /\ UNCHANGED kind
Done == kind' = "none" /\ pc' = "none"
Scan == unread' = File /\ seen' = Nothing
Fresh == unread' = {} /\ seen' = Nothing /\ first' = Nothing /\ checked' = 0

(* Those that began longest ago go; none is running when this is called.   *)
Trim(rs) == SubSeq(rs, 1, IF Len(rs) < Retain THEN Len(rs) ELSE Retain)
Save(r) == [i \in 1 .. Len(records) |-> IF records[i].id = r.id THEN r ELSE records[i]]

Call(k) ==
  /\ ~down /\ kind = "none" /\ ops < MaxOps /\ ops' = ops + 1 /\ kind' = k
  /\ pc' = CASE k = "deploy" -> "deploy" [] k = "down" -> "down" [] OTHER -> "before"
  /\ unread' = (IF k \in {"ensure", "verify"} THEN File ELSE {}) /\ UNCHANGED <<seen, first, checked>>
  /\ lately' = {}
  /\ UNCHANGED <<src, deployed, evidence, undone, report, down, edits, crashes>>

Read(f) ==                     \* sourceIdentity, and what a build copies
  /\ f \in unread /\ unread' = unread \ {f} /\ seen' = [seen EXCEPT ![f] = src[f]]
  /\ UNCHANGED <<src, deployed, kind, pc, first, checked, evidence, history, report, down, counts>>

(* A reused environment is not deployed again.  What is stamped and up may *)
(* still be found not ready.                                               *)
Ready == status = "running" /\ up /\ stamp = seen
Before ==
  /\ pc = "before" /\ unread = {} /\ first' = seen
  /\ \/ Ready /\ kind = "ensure" /\ Goes("after") /\ Scan
     \/ Ready /\ kind = "verify" /\ Goes("select") /\ UNCHANGED <<unread, seen>>
     \/ kind = "ensure" /\ Goes("deploy") /\ UNCHANGED <<unread, seen>>
  /\ UNCHANGED <<src, deployed, checked, evidence, history, report, down, counts>>

Deploy ==
  /\ pc = "deploy" /\ Goes("build") /\ Scan
  /\ stamp' = Nothing /\ generation' = generation + 1 /\ undone' = lately
  /\ UNCHANGED <<src, running, up, status, first, checked, evidence, lately, report, down, counts>>
Deployed ==
  /\ pc = "build" /\ unread = {}
  /\ running' = seen /\ up' = TRUE /\ status' = "running"
  /\ IF kind = "ensure" THEN Goes("after") /\ Scan /\ UNCHANGED <<first, checked>> ELSE Done /\ Fresh
  /\ UNCHANGED <<src, stamp, generation, evidence, history, report, down, counts>>
Spoilt ==                      \* the deployment fails, having ended something
  /\ pc = "build" /\ up' = FALSE /\ status' = "failed" /\ Done /\ Fresh
  /\ UNCHANGED <<src, running, stamp, generation, evidence, history, report, down, counts>>
Stop ==
  /\ pc = "down" /\ up' = FALSE /\ status' = "stopped" /\ Done /\ Fresh
  /\ UNCHANGED <<src, running, stamp, generation, evidence, history, report, down, counts>>

StampLast ==                   \* mutant of Stamp: whatever was read last is taken
  /\ pc = "after" /\ kind = "ensure" /\ unread = {} /\ Done /\ Fresh
  /\ stamp' = seen
  /\ UNCHANGED <<src, running, up, status, generation, evidence, history, report, down, counts>>
Stamp ==                       \* refused when the source changed meanwhile
  /\ pc = "after" /\ kind = "ensure" /\ unread = {} /\ Done /\ Fresh
  /\ stamp' = IF seen = first THEN seen ELSE stamp
  /\ UNCHANGED <<src, running, up, status, generation, evidence, history, report, down, counts>>
------------------------------------------------------------------------------
Select ==                      \* the checks, all of them skipped so far
  /\ pc = "select" /\ Goes("checks")
  /\ LET r == [id |-> ops, source |-> first, generation |-> generation, status |-> "running",
                passed |-> 0]
     IN records' = <<r>> \o records /\ tainted' = Met(r, running)
  /\ UNCHANGED <<src, deployed, unread, seen, first, checked, history, report, down, counts>>
Check ==                       \* a check ends, its artifacts and cleanup included
  /\ pc = "checks" /\ checked < Checks /\ checked' = checked + 1
  /\ \E ok \in {0, 1} : records' = Save([Current EXCEPT !.passed = @ + ok])
  /\ tainted' = Met(Current, running)
  /\ UNCHANGED <<src, deployed, kind, pc, unread, seen, first, history, report, down, counts>>
Checked ==
  /\ pc = "checks" /\ checked = Checks /\ Goes("after") /\ Scan
  /\ UNCHANGED <<src, deployed, first, checked, evidence, history, report, down, counts>>

VerdictHasty ==                \* mutant of Verdict: the source is not looked at again
  IF Current.passed = Checks THEN "passed" ELSE "failed"
Verdict ==
  IF Current.passed = Checks /\ seen = first /\ Current.generation = generation THEN "passed"
  ELSE "failed"
Verified ==
  /\ pc = "after" /\ kind = "verify" /\ unread = {} /\ Done /\ Fresh
  /\ records' = Trim(Save([Current EXCEPT !.status = Verdict]))
  /\ UNCHANGED <<src, deployed, tainted, history, report, down, counts>>

(* Refused, cancelled, timed out, or an error: a deployment that had not    *)
(* ended anything leaves what runs; a verification's record says how far   *)
(* it came.                                                                *)
Fails ==
  /\ kind # "none" /\ pc # "down" /\ Done /\ Fresh
  /\ IF kind = "verify" /\ pc \in {"checks", "after"}
       THEN \E end \in {"failed", "interrupted"} : records' = Trim(Save([Current EXCEPT !.status = end]))
       ELSE UNCHANGED records
  /\ UNCHANGED <<src, deployed, tainted, history, report, down, counts>>
------------------------------------------------------------------------------
(* A report: the latest record, the source, and then what is deployed.     *)
Report ==
  /\ ~down /\ report.pc = "none" /\ records # <<>>
  /\ report' = [pc |-> "reading", record |-> Current, unread |-> File, seen |-> Nothing]
  /\ UNCHANGED <<src, deployed, op, evidence, history, down, counts>>
ReportRead(f) ==
  /\ f \in report.unread
  /\ report' = [pc |-> report.pc, record |-> report.record, unread |-> report.unread \ {f},
                seen |-> [report.seen EXCEPT ![f] = src[f]]]
  /\ UNCHANGED <<src, deployed, op, evidence, history, down, counts>>
StaleOnce(r) == r.status # "passed"    \* mutant of Stale: what the record says, as it was made
Stale(r) ==
  r.status # "passed" \/ r.source # report.seen \/ r.generation # generation
Answer ==                      \* passed, not stale, and the source current; or not
  /\ report.pc = "reading" /\ report.unread = {}
  /\ report' = IF ~Stale(report.record) /\ stamp = report.seen
                 THEN [report EXCEPT !.pc = "fresh"] ELSE NoReport
  /\ UNCHANGED <<src, deployed, op, evidence, history, down, counts>>
Answered ==
  /\ report.pc = "fresh" /\ report' = NoReport
  /\ UNCHANGED <<src, deployed, op, evidence, history, down, counts>>

Crash ==                       \* what runs on the host may die with the hub
  /\ ~down /\ crashes < MaxCrashes /\ crashes' = crashes + 1 /\ down' = TRUE
  /\ Done /\ Fresh /\ report' = NoReport
  /\ up' \in {up, FALSE} /\ status' \in {status, IF pc = "build" THEN "failed" ELSE status}
  /\ UNCHANGED <<src, running, stamp, generation, evidence, history, edits, ops>>
Interrupted(rs) ==
  [i \in 1 .. Len(rs) |-> IF Running(rs[i]) THEN [rs[i] EXCEPT !.status = "interrupted"] ELSE rs[i]]
Restart ==
  /\ down /\ down' = FALSE /\ records' = Trim(Interrupted(records))
  /\ UNCHANGED <<src, deployed, op, tainted, history, report, counts>>

Progress ==
  \/ \E f \in File : Read(f) \/ ReportRead(f)
  \/ Before \/ Deploy \/ Deployed \/ Spoilt \/ Stop \/ Stamp
  \/ Select \/ Check \/ Checked \/ Verified \/ Fails
  \/ Answer \/ Answered \/ Restart
World ==
  \/ \E k \in {"ensure", "verify", "deploy", "down"} : Call(k)
  \/ \E f \in File : Edit(f) \/ Sync(f)
  \/ Exit \/ Report \/ Crash
Next == Progress \/ World

Spec == Init /\ [][Next]_vars
------------------------------------------------------------------------------
(* The state has the shape the code gives it; no more records of finished  *)
(* runs are kept than are to be.                                           *)
TypeOK ==
  /\ src \in Source /\ {running, stamp, seen, first, report.seen} \subseteq [File -> 0 .. MaxEdits + 1]
  /\ status \in {"none", "running", "failed", "stopped"} /\ generation \in Nat
  /\ kind \in {"none", "ensure", "verify", "deploy", "down"} /\ unread \subseteq File
  /\ pc \in {"none", "before", "deploy", "build", "after", "select", "checks", "down"}
  /\ undone \subseteq File /\ lately \subseteq File
  /\ checked \in 0 .. Checks /\ (kind # "verify" /\ ~down => Len(records) <= Retain)
  /\ \A i \in 1 .. Len(records) :
       records[i].status \in {"running", "passed", "failed", "interrupted"}

(* While a file is as it was stamped, it is also what runs, unless it was  *)
(* brought back meanwhile.                                                 *)
StampTrue ==
  \A f \in File \ undone : up /\ stamp[f] = src[f] => running[f] = src[f]

(* A verification passes only if every file was, at every moment of every  *)
(* check, the one its record names, or was brought back: what is edited,   *)
(* synced and not undone is found out by the second scan.                  *)
PassedTrue ==
  [][\A f \in File \ undone :
       pc = "after" /\ kind = "verify" /\ records' # records /\ records'[1].status = "passed"
         => <<Current.id, f>> \notin tainted]_vars

(* A report that calls passed evidence fresh speaks of the deployment that  *)
(* was verified, and, file by file, of the source as it is if that has not *)
(* changed since it was read, of what ran while the checks did, and of what*)
(* runs; all but the files brought back since that was built.              *)
ReportTrue ==
  [][report.pc = "reading" /\ report'.pc = "fresh" =>
       /\ report.record.generation = generation
       /\ \A f \in File \ undone :
            /\ <<report.record.id, f>> \notin tainted
            /\ src[f] = report.seen[f] => report.record.source[f] = src[f]
                                          /\ (up => running[f] = src[f])]_vars
=============================================================================
