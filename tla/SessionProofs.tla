---------------------------- MODULE SessionProofs ----------------------------
(***************************************************************************)
(* The two long conversations with an environment, in two halves.          *)
(*                                                                         *)
(* First verification: what a stamp, a passed verification and a fresh     *)
(* report are worth, for any files, checks, edits and crashes.  The        *)
(* argument is an order: the contents of a file that nobody brought back   *)
(* only grow, so two scans that agree had nothing else between them.       *)
(*                                                                         *)
(* Then, from RecordTypes on, public sharing: for any applications,        *)
(* endpoints and leases, whatever fails and however often the hub exits.   *)
(* The argument is the lock's for SessionOwnsServices, and for             *)
(* IntentJournaled the record's: outside of the end of a recovery what is  *)
(* in memory is what is on disk, only a configuration has applications     *)
(* pending, and nothing of a stopped environment runs.                     *)
(***************************************************************************)
EXTENDS Verification, TunnelSessions, TLAPS

(* The types of everything, of the records and the report too.             *)
Scanned == [File -> 0 .. MaxEdits + 1]
Record ==
  [id : Nat, source : Scanned, generation : Nat, passed : Nat,
   status : {"running", "passed", "failed", "interrupted"}]
ReportState ==
  [pc : {"none", "reading", "fresh"}, record : Record \cup {<<>>}, unread : SUBSET File,
    seen : Scanned]
Texts ==
  /\ src \in Source /\ edits \in 0 .. MaxEdits /\ \A f \in File : src[f] <= edits
  /\ running \in Scanned /\ stamp \in Scanned /\ seen \in Scanned /\ first \in Scanned
  /\ unread \in SUBSET File /\ undone \in SUBSET File /\ lately \in SUBSET undone
Counts ==
  /\ generation \in Nat /\ ops \in Nat /\ checked \in 0 .. Checks
  /\ status \in {"none", "running", "failed", "stopped"}
Kept == records \in Seq(Record) /\ tainted \in SUBSET (Nat \X File) /\ report \in ReportState
Places ==
  \/ kind = "none" /\ pc = "none"
  \/ kind = "ensure" /\ pc \in {"before", "deploy", "build", "after"}
  \/ kind = "verify" /\ pc \in {"before", "select", "checks", "after"}
  \/ kind = "deploy" /\ pc \in {"deploy", "build"}
  \/ kind = "down" /\ pc = "down"

(* An edit that does not bring a file back raises what it holds.  So what  *)
(* was read of the others is no newer than the file, and what was read     *)
(* before is no newer than what is read later.                             *)
Scans ==
  /\ pc \in {"before", "build", "after"} =>
       \A f \in File \ (unread \cup lately) : seen[f] <= src[f]
  /\ kind \in {"ensure", "verify"} /\ pc # "before" => \A f \in File \ lately : first[f] <= src[f]
  /\ kind = "ensure" /\ pc = "build" =>
       \A f \in File \ (unread \cup lately) : first[f] <= seen[f]

(* What runs lies between what it is stamped with, or will be, and the     *)
(* source; and so it does for all of a verification.                       *)
Between ==
  /\ up => \A f \in File \ undone :
             stamp[f] <= MaxEdits => stamp[f] <= running[f] /\ running[f] <= src[f]
  /\ pc = "build" => \A f \in File : stamp[f] = MaxEdits + 1
  /\ up /\ kind = "ensure" /\ pc = "after" =>
       \A f \in File \ undone : first[f] <= running[f] /\ running[f] <= src[f]
  /\ kind = "verify" /\ pc \in {"select", "checks", "after"} =>
       \A f \in File \ undone : first[f] <= running[f] /\ running[f] <= src[f]

(* The records: each operation has one at most, the verification under way *)
(* the newest.  A check of it that met another content than the first scan *)
(* met a newer one, so the second one finds, or has found, that too.       *)
Verifying == kind = "verify" /\ pc \in {"checks", "after"}
Edited(f) == first[f] < (IF pc = "after" /\ f \notin unread THEN seen[f] ELSE src[f])
Indices == 1 .. Len(records)
Recorded ==
  /\ \A i \in Indices : records[i].id <= ops /\ records[i].generation <= generation
  /\ \A i, j \in Indices : records[i].id = records[j].id => i = j
  /\ \A t \in tainted : t[1] <= ops
  /\ kind = "verify" /\ pc \in {"before", "select"} =>
       (\A i \in Indices : records[i].id < ops) /\ (\A t \in tainted : t[1] < ops)
  /\ Verifying => /\ Len(records) >= 1
                  /\ Current.id = ops /\ Current.source = first /\ Current.status = "running"
                  /\ \A f \in File \ undone : <<ops, f>> \in tainted => Edited(f)

(* What passed on the deployment there is met what it names, but for the   *)
(* files brought back.                                                     *)
Sound(r) ==
  r.status = "passed" /\ r.generation = generation =>
    \A f \in File \ undone : <<r.id, f>> \notin tainted
Sounds == \A i \in Indices : Sound(records[i])

(* A report speaks of a verification that is over.                         *)
Reported ==
  report.pc # "none" =>
    /\ report.record \in Record /\ Sound(report.record)
    /\ report.record.generation <= generation
    /\ report.record.status = "passed" =>
         report.record.id <= ops /\ (kind = "verify" => report.record.id < ops)

(* Only a verification under way, or a hub that went down in one, has kept *)
(* a record too many.                                                      *)
Bounded == Verifying \/ down \/ Len(records) <= Retain

(* A hub that is down works on nothing.                                    *)
Asleep == down => kind = "none"

Shape == Texts /\ Counts /\ Kept /\ Places
IInv == Shape /\ Scans /\ Between /\ Recorded /\ Sounds /\ Reported /\ Bounded /\ Asleep
------------------------------------------------------------------------------
(* Every step keeps the types of the texts read and of what runs.          *)
LEMMA TextsStep == Shape /\ [Next]_vars => Texts'
<1> SUFFICES ASSUME Shape, [Next]_vars PROVE Texts'
  OBVIOUS
<1>n. Nothing \in Scanned /\ MaxEdits \in Nat
  BY VerificationAssumption DEF Nothing, Scanned
<1>s. src \in Scanned
  BY <1>n DEF Shape, Texts, Source, Scanned
<1> USE <1>n, <1>s DEF Shape, Texts, Source, Scanned, deployed, op, counts, history
<1>1. ASSUME NEW f \in File, Read(f) PROVE Texts'
  BY <1>1 DEF Read
<1>2. ASSUME NEW f \in File, ReportRead(f) PROVE Texts'
  BY <1>2 DEF ReportRead
<1>3. CASE Before
  BY <1>3 DEF Before, Ready, Goes, Scan
<1>4. CASE Deploy
  BY <1>4 DEF Deploy, Goes, Scan
<1>5. CASE Deployed
  BY <1>5 DEF Deployed, Goes, Scan, Done, Fresh
<1>6. CASE Spoilt
  BY <1>6 DEF Spoilt, Done, Fresh
<1>7. CASE Stop
  BY <1>7 DEF Stop, Done, Fresh
<1>8. CASE Stamp
  BY <1>8 DEF Stamp, Done, Fresh
<1>9. CASE Select
  BY <1>9 DEF Select, Goes
<1>10. CASE Check
  BY <1>10 DEF Check
<1>11. CASE Checked
  BY <1>11 DEF Checked, Goes, Scan
<1>12. CASE Verified
  BY <1>12 DEF Verified, Done, Fresh
<1>13. CASE Fails
  BY <1>13 DEF Fails, Done, Fresh
<1>14. CASE Answer
  BY <1>14 DEF Answer
<1>15. CASE Answered
  BY <1>15 DEF Answered
<1>16. CASE Restart
  BY <1>16 DEF Restart
<1>17. ASSUME NEW k \in {"ensure", "verify", "deploy", "down"}, Call(k) PROVE Texts'
  BY <1>17 DEF Call
<1>18. ASSUME NEW f \in File, Edit(f) PROVE Texts'
  <2>1. PICK c \in 0 .. edits + 1 : src' = [src EXCEPT ![f] = c]
    BY <1>18 DEF Edit
  <2>2. edits' = edits + 1 /\ edits < MaxEdits
    BY <1>18 DEF Edit
  <2>3. edits' \in 0 .. MaxEdits /\ src' \in Source /\ \A g \in File : src'[g] <= edits'
    BY <2>1, <2>2
  <2>4. undone' \in SUBSET File /\ lately' \in SUBSET undone'
    BY <1>18 DEF Edit
  <2> QED
    BY <1>18, <2>3, <2>4 DEF Edit
<1>19. ASSUME NEW f \in File, Sync(f) PROVE Texts'
  BY <1>19 DEF Sync
<1>20. CASE Exit
  BY <1>20 DEF Exit
<1>21. CASE Report
  BY <1>21 DEF Report
<1>22. CASE Crash
  BY <1>22 DEF Crash, Done, Fresh
<1>23. CASE UNCHANGED vars
  BY <1>23 DEF vars
<1> QED
  BY <1>1, <1>2, <1>3, <1>4, <1>5, <1>6, <1>7, <1>8, <1>9, <1>10, <1>11, <1>12, <1>13, <1>14,
      <1>15, <1>16, <1>17, <1>18, <1>19, <1>20, <1>21, <1>22, <1>23
     DEF Next, Progress, World

(* Every step keeps the counts of their type.                              *)
LEMMA CountsStep == Shape /\ [Next]_vars => Counts'
<1> SUFFICES ASSUME Shape, [Next]_vars PROVE Counts'
  OBVIOUS
<1>n. Checks \in Nat
  BY VerificationAssumption
<1> USE <1>n DEF Shape, Counts, deployed, op, counts, history
<1>1. ASSUME NEW f \in File, Read(f) PROVE Counts'
  BY <1>1 DEF Read
<1>2. ASSUME NEW f \in File, ReportRead(f) PROVE Counts'
  BY <1>2 DEF ReportRead
<1>3. CASE Before
  BY <1>3 DEF Before, Ready, Goes, Scan
<1>4. CASE Deploy
  BY <1>4 DEF Deploy, Goes, Scan
<1>5. CASE Deployed
  BY <1>5 DEF Deployed, Goes, Scan, Done, Fresh
<1>6. CASE Spoilt
  BY <1>6 DEF Spoilt, Done, Fresh
<1>7. CASE Stop
  BY <1>7 DEF Stop, Done, Fresh
<1>8. CASE Stamp
  BY <1>8 DEF Stamp, Done, Fresh
<1>9. CASE Select
  BY <1>9 DEF Select, Goes
<1>10. CASE Check
  BY <1>10 DEF Check
<1>11. CASE Checked
  BY <1>11 DEF Checked, Goes, Scan
<1>12. CASE Verified
  BY <1>12 DEF Verified, Done, Fresh
<1>13. CASE Fails
  BY <1>13 DEF Fails, Done, Fresh
<1>14. CASE Answer
  BY <1>14 DEF Answer
<1>15. CASE Answered
  BY <1>15 DEF Answered
<1>16. CASE Restart
  BY <1>16 DEF Restart
<1>17. ASSUME NEW k \in {"ensure", "verify", "deploy", "down"}, Call(k) PROVE Counts'
  BY <1>17 DEF Call
<1>18. ASSUME NEW f \in File, Edit(f) PROVE Counts'
  BY <1>18 DEF Edit
<1>19. ASSUME NEW f \in File, Sync(f) PROVE Counts'
  BY <1>19 DEF Sync
<1>20. CASE Exit
  BY <1>20 DEF Exit
<1>21. CASE Report
  BY <1>21 DEF Report
<1>22. CASE Crash
  <2>1. status' = status \/ status' = "failed"
    BY <1>22 DEF Crash
  <2> QED
    BY <1>22, <2>1 DEF Crash, Fresh
<1>23. CASE UNCHANGED vars
  BY <1>23 DEF vars
<1> QED
  BY <1>1, <1>2, <1>3, <1>4, <1>5, <1>6, <1>7, <1>8, <1>9, <1>10, <1>11, <1>12, <1>13, <1>14,
      <1>15, <1>16, <1>17, <1>18, <1>19, <1>20, <1>21, <1>22, <1>23
     DEF Next, Progress, World

(* An operation is only where its kind takes it.                           *)
LEMMA PlacesStep == Shape /\ [Next]_vars => Places'
<1> SUFFICES ASSUME Shape, [Next]_vars PROVE Places'
  OBVIOUS
<1> USE DEF Shape, Places, op, history
<1>1. ASSUME NEW f \in File, Read(f) PROVE Places'
  BY <1>1 DEF Read
<1>2. ASSUME NEW f \in File, ReportRead(f) PROVE Places'
  BY <1>2 DEF ReportRead
<1>3. CASE Before
  BY <1>3 DEF Before, Ready, Goes, Scan
<1>4. CASE Deploy
  BY <1>4 DEF Deploy, Goes, Scan
<1>5. CASE Deployed
  BY <1>5 DEF Deployed, Goes, Scan, Done, Fresh
<1>6. CASE Spoilt
  BY <1>6 DEF Spoilt, Done, Fresh
<1>7. CASE Stop
  BY <1>7 DEF Stop, Done, Fresh
<1>8. CASE Stamp
  BY <1>8 DEF Stamp, Done, Fresh
<1>9. CASE Select
  BY <1>9 DEF Select, Goes
<1>10. CASE Check
  BY <1>10 DEF Check
<1>11. CASE Checked
  BY <1>11 DEF Checked, Goes, Scan
<1>12. CASE Verified
  BY <1>12 DEF Verified, Done, Fresh
<1>13. CASE Fails
  BY <1>13 DEF Fails, Done, Fresh
<1>14. CASE Answer
  BY <1>14 DEF Answer
<1>15. CASE Answered
  BY <1>15 DEF Answered
<1>16. CASE Restart
  BY <1>16 DEF Restart
<1>17. ASSUME NEW k \in {"ensure", "verify", "deploy", "down"}, Call(k) PROVE Places'
  BY <1>17 DEF Call
<1>18. ASSUME NEW f \in File, Edit(f) PROVE Places'
  BY <1>18 DEF Edit
<1>19. ASSUME NEW f \in File, Sync(f) PROVE Places'
  BY <1>19 DEF Sync
<1>20. CASE Exit
  BY <1>20 DEF Exit
<1>21. CASE Report
  BY <1>21 DEF Report
<1>22. CASE Crash
  BY <1>22 DEF Crash, Done, Fresh
<1>23. CASE UNCHANGED vars
  BY <1>23 DEF vars
<1> QED
  BY <1>1, <1>2, <1>3, <1>4, <1>5, <1>6, <1>7, <1>8, <1>9, <1>10, <1>11, <1>12, <1>13, <1>14,
      <1>15, <1>16, <1>17, <1>18, <1>19, <1>20, <1>21, <1>22, <1>23
     DEF Next, Progress, World

(* An edit raises what a file holds, or names it as brought back.          *)
LEMMA EditRaises ==
  ASSUME Shape, NEW f \in File, Edit(f)
  PROVE  /\ lately \subseteq lately' /\ undone \subseteq undone'
         /\ \A g \in File \ lately' : src[g] <= src'[g] /\ src'[g] \in Nat
         /\ \A g \in File \ undone' : src[g] <= src'[g] /\ src'[g] \in Nat
<1>1. PICK c \in 0 .. edits + 1 :
        LET old == IF c <= edits THEN {f} ELSE {}
        IN /\ c # src[f] /\ src' = [src EXCEPT ![f] = c]
           /\ undone' = undone \cup old /\ lately' = lately \cup old
  BY DEF Edit
<1>2. edits \in Nat /\ src \in Source /\ \A g \in File : src[g] \in Nat /\ src[g] <= edits
  BY VerificationAssumption DEF Shape, Texts, Source
<1>3. c <= edits => f \in undone' /\ f \in lately'
  BY <1>1
<1>4. c > edits => src[f] <= c
  BY <1>2
<1>5. \A g \in File : g # f => src'[g] = src[g]
  BY <1>1, <1>2 DEF Source
<1>6. src'[f] = c /\ c \in Nat
  BY <1>1, <1>2 DEF Source
<1> QED
  BY <1>1, <1>2, <1>3, <1>4, <1>5, <1>6

(* What was read stays no newer than what is read later.                   *)
LEMMA ScansStep == Shape /\ Scans /\ [Next]_vars => Scans'
<1> SUFFICES ASSUME Shape, Scans, [Next]_vars PROVE Scans'
  OBVIOUS
<1> USE VerificationAssumption DEF Shape, Texts, Source, Scanned, Places, Scans, op, history
<1>1. ASSUME NEW f \in File, Read(f) PROVE Scans'
  BY <1>1 DEF Read
<1>2. ASSUME NEW f \in File, ReportRead(f) PROVE Scans'
  BY <1>2 DEF ReportRead
<1>3. CASE Before
  BY <1>3 DEF Before, Ready, Goes, Scan
<1>4. CASE Deploy
  BY <1>4 DEF Deploy, Goes, Scan
<1>5. CASE Deployed
  BY <1>5 DEF Deployed, Goes, Scan, Done, Fresh
<1>6. CASE Spoilt
  BY <1>6 DEF Spoilt, Done, Fresh
<1>7. CASE Stop
  BY <1>7 DEF Stop, Done, Fresh
<1>8. CASE Stamp
  BY <1>8 DEF Stamp, Done, Fresh
<1>9. CASE Select
  BY <1>9 DEF Select, Goes
<1>10. CASE Check
  BY <1>10 DEF Check
<1>11. CASE Checked
  BY <1>11 DEF Checked, Goes, Scan
<1>12. CASE Verified
  BY <1>12 DEF Verified, Done, Fresh
<1>13. CASE Fails
  BY <1>13 DEF Fails, Done, Fresh
<1>14. CASE Answer
  BY <1>14 DEF Answer
<1>15. CASE Answered
  BY <1>15 DEF Answered
<1>16. CASE Restart
  BY <1>16 DEF Restart
<1>17. ASSUME NEW k \in {"ensure", "verify", "deploy", "down"}, Call(k) PROVE Scans'
  BY <1>17 DEF Call
<1>18. ASSUME NEW f \in File, Edit(f) PROVE Scans'
  <2>1. /\ lately \subseteq lately' /\ undone \subseteq undone'
        /\ \A g \in File \ lately' : src[g] <= src'[g]
        /\ \A g \in File \ undone' : src[g] <= src'[g]
    BY <1>18, EditRaises
  <2> QED
    BY <1>18, <2>1 DEF Edit
<1>19. ASSUME NEW f \in File, Sync(f) PROVE Scans'
  BY <1>19 DEF Sync
<1>20. CASE Exit
  BY <1>20 DEF Exit
<1>21. CASE Report
  BY <1>21 DEF Report
<1>22. CASE Crash
  BY <1>22 DEF Crash, Done, Fresh
<1>23. CASE UNCHANGED vars
  BY <1>23 DEF vars
<1> QED
  BY <1>1, <1>2, <1>3, <1>4, <1>5, <1>6, <1>7, <1>8, <1>9, <1>10, <1>11, <1>12, <1>13, <1>14,
      <1>15, <1>16, <1>17, <1>18, <1>19, <1>20, <1>21, <1>22, <1>23
     DEF Next, Progress, World

(* What runs stays between what it is stamped with and the source.         *)
LEMMA BetweenStep == Shape /\ Scans /\ Between /\ [Next]_vars => Between'
<1> SUFFICES ASSUME Shape, Scans, Between, [Next]_vars PROVE Between'
  OBVIOUS
<1> USE VerificationAssumption DEF Shape, Texts, Source, Scanned, Places, Scans, Between, Nothing,
      op, deployed, history
<1>1. ASSUME NEW f \in File, Read(f) PROVE Between'
  BY <1>1 DEF Read
<1>2. ASSUME NEW f \in File, ReportRead(f) PROVE Between'
  BY <1>2 DEF ReportRead
<1>3. CASE Before
  BY <1>3 DEF Before, Ready, Goes, Scan
<1>4. CASE Deploy
  BY <1>4 DEF Deploy, Goes, Scan
<1>5. CASE Deployed
  BY <1>5 DEF Deployed, Goes, Scan, Done, Fresh
<1>6. CASE Spoilt
  BY <1>6 DEF Spoilt, Done, Fresh
<1>7. CASE Stop
  BY <1>7 DEF Stop, Done, Fresh
<1>8. CASE Stamp
  BY <1>8 DEF Stamp, Done, Fresh
<1>9. CASE Select
  BY <1>9 DEF Select, Goes
<1>10. CASE Check
  BY <1>10 DEF Check
<1>11. CASE Checked
  BY <1>11 DEF Checked, Goes, Scan
<1>12. CASE Verified
  BY <1>12 DEF Verified, Done, Fresh
<1>13. CASE Fails
  BY <1>13 DEF Fails, Done, Fresh
<1>14. CASE Answer
  BY <1>14 DEF Answer
<1>15. CASE Answered
  BY <1>15 DEF Answered
<1>16. CASE Restart
  BY <1>16 DEF Restart
<1>17. ASSUME NEW k \in {"ensure", "verify", "deploy", "down"}, Call(k) PROVE Between'
  BY <1>17 DEF Call
<1>18. ASSUME NEW f \in File, Edit(f) PROVE Between'
  <2>1. /\ lately \subseteq lately' /\ undone \subseteq undone'
        /\ \A g \in File \ lately' : src[g] <= src'[g]
        /\ \A g \in File \ undone' : src[g] <= src'[g]
    BY <1>18, EditRaises
  <2> QED
    BY <1>18, <2>1 DEF Edit
<1>19. ASSUME NEW f \in File, Sync(f) PROVE Between'
  BY <1>19 DEF Sync
<1>20. CASE Exit
  BY <1>20 DEF Exit
<1>21. CASE Report
  BY <1>21 DEF Report
<1>22. CASE Crash
  <2>1. up' => up
    BY <1>22, Zenon DEF Crash
  <2>2. UNCHANGED <<src, running, stamp, undone>> /\ pc' = "none" /\ kind' = "none"
    BY <1>22 DEF Crash, Done
  <2> QED
    BY <2>1, <2>2
<1>23. CASE UNCHANGED vars
  BY <1>23 DEF vars
<1> QED
  BY <1>1, <1>2, <1>3, <1>4, <1>5, <1>6, <1>7, <1>8, <1>9, <1>10, <1>11, <1>12, <1>13, <1>14,
      <1>15, <1>16, <1>17, <1>18, <1>19, <1>20, <1>21, <1>22, <1>23
     DEF Next, Progress, World

(* Save replaces the record of the verification under way, and no other.   *)
LEMMA RecordSaved ==
  ASSUME Shape, Recorded, Len(records) >= 1, NEW r \in Record, r.id = Current.id
  PROVE  /\ Save(r) \in Seq(Record) /\ Len(Save(r)) = Len(records) /\ Save(r)[1] = r
         /\ \A i \in Indices \ {1} : Save(r)[i] = records[i] /\ records[i].id # r.id
<1>1. records \in Seq(Record) /\ Len(records) \in Nat /\ 1 \in Indices
  BY DEF Shape, Kept, Indices
<1>2. \A i \in Indices : records[i] \in Record
  BY <1>1 DEF Indices
<1>3. \A i \in Indices \ {1} : records[i].id # r.id
  BY <1>1 DEF Recorded, Current
<1> QED
  BY <1>1, <1>2, <1>3 DEF Save, Current, Indices

(* Trim keeps the newest as they are, and no more than are to be kept.     *)
LEMMA Trimmed ==
  ASSUME NEW rs \in Seq(Record)
  PROVE  /\ Trim(rs) \in Seq(Record) /\ Len(Trim(rs)) <= Len(rs) /\ Len(Trim(rs)) <= Retain
         /\ Len(rs) >= 1 => Len(Trim(rs)) >= 1
         /\ \A i \in 1 .. Len(Trim(rs)) : Trim(rs)[i] = rs[i]
<1> DEFINE n == IF Len(rs) < Retain THEN Len(rs) ELSE Retain
<1>1. n \in Nat /\ n <= Len(rs) /\ n <= Retain /\ (Len(rs) >= 1 => n >= 1)
  BY VerificationAssumption
<1>2. SubSeq(rs, 1, n) \in Seq(Record) /\ Len(SubSeq(rs, 1, n)) = n
      /\ \A i \in 1 .. n : SubSeq(rs, 1, n)[i] = rs[i]
  BY <1>1
<1> QED
  BY <1>1, <1>2 DEF Trim

(* The end of a verification, whatever it is: only its own record changes. *)
LEMMA Ended ==
  ASSUME Shape, Recorded, Verifying, NEW end \in {"passed", "failed", "interrupted"},
         records' = Trim(Save([Current EXCEPT !.status = end]))
  PROVE  /\ records' \in Seq(Record) /\ Len(records') <= Retain /\ Len(records') >= 1
         /\ \A i \in 1 .. Len(records') :
              /\ i \in Indices /\ records'[i].id = records[i].id
              /\ records'[i].generation = records[i].generation
              /\ IF i = 1 THEN records'[i].status = end ELSE records'[i].status = records[i].status
<1> DEFINE r == [Current EXCEPT !.status = end]
<1>1. Len(records) >= 1 /\ Current \in Record
  BY DEF Recorded, Shape, Kept, Current
<1>2. r \in Record /\ r.id = Current.id /\ r.status = end /\ r.generation = Current.generation
  BY <1>1 DEF Record
<1> HIDE DEF r
<1>3. /\ Save(r) \in Seq(Record) /\ Len(Save(r)) = Len(records) /\ Save(r)[1] = r
      /\ \A i \in Indices \ {1} : Save(r)[i] = records[i]
  BY <1>1, <1>2, RecordSaved
<1>4. /\ Trim(Save(r)) \in Seq(Record) /\ Len(Trim(Save(r))) <= Len(Save(r))
      /\ Len(Trim(Save(r))) <= Retain /\ Len(Trim(Save(r))) >= 1
      /\ \A i \in 1 .. Len(Trim(Save(r))) : Trim(Save(r))[i] = Save(r)[i]
  BY <1>1, <1>3, Trimmed
<1>5. records' = Trim(Save(r))
  BY DEF r
<1>6. Len(records') \in Nat /\ Len(records) \in Nat
  BY <1>4, <1>5 DEF Shape, Kept
<1>7. \A i \in 1 .. Len(records') : i \in Indices /\ records'[i] = Save(r)[i]
  BY <1>3, <1>4, <1>5, <1>6 DEF Indices
<1> QED
  BY <1>2, <1>3, <1>4, <1>5, <1>7 DEF Current

(* A check of the verification under way: its record says the same but for *)
(* what passed.                                                            *)
LEMMA CheckedOne ==
  ASSUME Shape, Recorded, Verifying, Check
  PROVE  /\ records' \in Seq(Record) /\ Len(records') = Len(records)
         /\ \A i \in Indices : /\ records'[i].id = records[i].id
                               /\ records'[i].status = records[i].status
                               /\ records'[i].source = records[i].source
                               /\ records'[i].generation = records[i].generation
<1>1. PICK ok \in {0, 1} : records' = Save([Current EXCEPT !.passed = @ + ok])
  BY DEF Check
<1> DEFINE r == [Current EXCEPT !.passed = @ + ok]
<1>2. Len(records) >= 1 /\ Current \in Record
  BY DEF Recorded, Shape, Kept, Current
<1>3. /\ r \in Record /\ r.id = Current.id /\ r.status = Current.status
      /\ r.source = Current.source /\ r.generation = Current.generation
  BY <1>2 DEF Record
<1> HIDE DEF r
<1>4. /\ Save(r) \in Seq(Record) /\ Len(Save(r)) = Len(records) /\ Save(r)[1] = r
      /\ \A i \in Indices \ {1} : Save(r)[i] = records[i]
  BY <1>2, <1>3, RecordSaved
<1>5. records' = Save(r)
  BY <1>1 DEF r
<1> QED
  BY <1>3, <1>4, <1>5 DEF Current

(* The record of a verification that begins its checks comes first.        *)
LEMMA Selected ==
  ASSUME Shape, Select
  PROVE  /\ records' \in Seq(Record) /\ Len(records') = Len(records) + 1
         /\ records'[1].id = ops /\ records'[1].source = first /\ records'[1].status = "running"
         /\ records'[1].generation = generation
         /\ \A i \in 1 .. Len(records') : i # 1 => i - 1 \in Indices /\ records'[i] = records[i - 1]
<1> DEFINE r == [id |-> ops, source |-> first, generation |-> generation, status |-> "running",
      passed |-> 0]
<1>1. /\ r \in Record /\ r.id = ops /\ r.source = first /\ r.status = "running"
      /\ r.generation = generation
  BY DEF Shape, Texts, Counts, Record
<1>2. records' = <<r>> \o records /\ records \in Seq(Record)
  BY DEF Select, Shape, Kept
<1> HIDE DEF r
<1>3. records' \in Seq(Record) /\ Len(records') = Len(records) + 1 /\ records'[1] = r
  BY <1>1, <1>2
<1>4. \A i \in 1 .. Len(records') : i # 1 => i - 1 \in Indices /\ records'[i] = records[i - 1]
  BY <1>1, <1>2, <1>3 DEF Indices
<1> QED
  BY <1>1, <1>3, <1>4

(* A hub that starts again: what was under way is interrupted.             *)
LEMMA Restarted ==
  ASSUME Shape, Restart
  PROVE  /\ records' \in Seq(Record) /\ Len(records') <= Retain
         /\ \A i \in 1 .. Len(records') :
              /\ i \in Indices /\ records'[i].id = records[i].id
              /\ records'[i].generation = records[i].generation
              /\ records'[i].status \in {records[i].status, "interrupted"}
<1> DEFINE rs == Interrupted(records)
<1>1. records \in Seq(Record) /\ Len(records) \in Nat
  BY DEF Shape, Kept
<1>2. \A i \in Indices : records[i] \in Record /\
        [records[i] EXCEPT !.status = "interrupted"] \in Record
                        /\ [records[i] EXCEPT !.status = "interrupted"].id = records[i].id
                        /\ [records[i] EXCEPT !.status = "interrupted"].status = "interrupted"
                        /\ [records[i] EXCEPT !.status = "interrupted"].generation =
                             records[i].generation
  <2> SUFFICES ASSUME NEW x \in Record
               PROVE  LET y == [x EXCEPT !.status = "interrupted"]
                      IN  /\ y \in Record /\ y.id = x.id /\ y.status = "interrupted"
                          /\ y.generation = x.generation
    BY <1>1 DEF Indices
  <2> QED
    BY DEF Record
<1>3. rs \in Seq(Record) /\ Len(rs) = Len(records)
      /\ \A i \in Indices : /\ rs[i].id = records[i].id /\ rs[i].generation = records[i].generation
                            /\ rs[i].status \in {records[i].status, "interrupted"}
  BY <1>1, <1>2 DEF Interrupted, Indices
<1> HIDE DEF rs
<1>4. records' = Trim(rs)
  BY DEF Restart, rs
<1>5. /\ Trim(rs) \in Seq(Record) /\ Len(Trim(rs)) <= Len(rs) /\ Len(Trim(rs)) <= Retain
      /\ \A i \in 1 .. Len(Trim(rs)) : Trim(rs)[i] = rs[i]
  BY <1>3, Trimmed
<1>6. Len(records') \in Nat
  BY <1>4, <1>5
<1>7. \A i \in 1 .. Len(records') : i \in Indices /\ records'[i] = rs[i]
  BY <1>1, <1>3, <1>4, <1>5, <1>6 DEF Indices
<1> QED
  BY <1>3, <1>4, <1>5, <1>7

(* Every step keeps the records and the report of their type.              *)
LEMMA KeptStep == Shape /\ Recorded /\ Reported /\ [Next]_vars => Kept'
<1> SUFFICES ASSUME Shape, Recorded, Reported, [Next]_vars PROVE Kept'
  OBVIOUS
<1>n. Nothing \in Scanned
  BY VerificationAssumption DEF Nothing, Scanned
<1>r. NoReport \in ReportState
  BY <1>n DEF NoReport, ReportState
<1>s. src \in Scanned
  BY VerificationAssumption DEF Shape, Texts, Source, Scanned
<1>k. records \in Seq(Record) /\ tainted \in SUBSET (Nat \X File) /\ report \in ReportState
  BY DEF Shape, Kept
<1> USE <1>k DEF Kept, evidence, history
<1>1. ASSUME NEW f \in File, Read(f) PROVE Kept'
  BY <1>1 DEF Read
<1>2. ASSUME NEW f \in File, ReportRead(f) PROVE Kept'
  <2>1. [report.seen EXCEPT ![f] = src[f]] \in Scanned
    BY <1>s DEF ReportState, Scanned
  <2>2. report' \in ReportState
    BY <1>2, <2>1 DEF ReportRead, ReportState
  <2> QED
    BY <1>2, <2>2 DEF ReportRead
<1>3. CASE Before
  BY <1>3 DEF Before, Ready, Goes, Scan
<1>4. CASE Deploy
  BY <1>4 DEF Deploy, Goes, Scan
<1>5. CASE Deployed
  BY <1>5 DEF Deployed, Goes, Scan, Done, Fresh
<1>6. CASE Spoilt
  BY <1>6 DEF Spoilt, Done, Fresh
<1>7. CASE Stop
  BY <1>7 DEF Stop, Done, Fresh
<1>8. CASE Stamp
  BY <1>8 DEF Stamp, Done, Fresh
<1>9. CASE Select
  <2>1. records' \in Seq(Record)
    BY <1>9, Selected
  <2>2. ops \in Nat
    BY DEF Shape, Counts
  <2> QED
    BY <1>9, <2>1, <2>2 DEF Select, Met
<1>10. CASE Check
  <2>1. Verifying /\ ops \in Nat
    BY <1>10 DEF Check, Verifying, Shape, Places, Counts
  <2>2. records' \in Seq(Record)
    BY <1>10, <2>1, CheckedOne
  <2>3. Current.id = ops
    BY <2>1 DEF Recorded
  <2> QED
    BY <1>10, <2>1, <2>2, <2>3 DEF Check, Met
<1>11. CASE Checked
  BY <1>11 DEF Checked, Goes, Scan
<1>12. CASE Verified
  <2>1. Verifying /\ Verdict \in {"passed", "failed", "interrupted"}
    BY <1>12 DEF Verified, Verifying, Verdict
  <2>2. records' \in Seq(Record)
    BY <1>12, <2>1, Ended DEF Verified
  <2> QED
    BY <1>12, <2>2 DEF Verified
<1>13. CASE Fails
  <2>1. CASE Verifying
    <3>1. PICK end \in {"failed", "interrupted"} : records' =
            Trim(Save([Current EXCEPT !.status = end]))
      BY <1>13, <2>1 DEF Fails, Verifying
    <3>2. records' \in Seq(Record)
      BY <2>1, <3>1, Ended
    <3> QED
      BY <1>13, <3>2 DEF Fails
  <2>2. CASE ~Verifying
    BY <1>13, <2>2 DEF Fails, Verifying
  <2> QED
    BY <2>1, <2>2
<1>14. CASE Answer
  <2>1. [report EXCEPT !.pc = "fresh"] \in ReportState
    BY DEF ReportState
  <2> QED
    BY <1>14, <2>1, <1>r DEF Answer
<1>15. CASE Answered
  BY <1>15, <1>r DEF Answered
<1>16. CASE Restart
  <2>1. records' \in Seq(Record)
    BY <1>16, Restarted
  <2> QED
    BY <1>16, <2>1 DEF Restart
<1>17. ASSUME NEW k \in {"ensure", "verify", "deploy", "down"}, Call(k) PROVE Kept'
  BY <1>17 DEF Call
<1>18. ASSUME NEW f \in File, Edit(f) PROVE Kept'
  BY <1>18 DEF Edit
<1>19. ASSUME NEW f \in File, Sync(f) PROVE Kept'
  <2>1. pc = "checks" => Verifying /\ ops \in Nat
    BY DEF Verifying, Shape, Places, Counts
  <2>2. pc = "checks" => Current.id = ops
    BY <2>1 DEF Recorded
  <2> QED
    BY <1>19, <2>1, <2>2 DEF Sync, Met
<1>20. CASE Exit
  BY <1>20 DEF Exit
<1>21. CASE Report
  <2>1. Current \in Record
    BY <1>21 DEF Report, Current
  <2>2. report' \in ReportState
    BY <1>21, <1>n, <2>1 DEF Report, ReportState
  <2> QED
    BY <1>21, <2>2 DEF Report
<1>22. CASE Crash
  BY <1>22, <1>r DEF Crash
<1>23. CASE UNCHANGED vars
  BY <1>23 DEF vars
<1> QED
  BY <1>1, <1>2, <1>3, <1>4, <1>5, <1>6, <1>7, <1>8, <1>9, <1>10, <1>11, <1>12, <1>13, <1>14,
      <1>15, <1>16, <1>17, <1>18, <1>19, <1>20, <1>21, <1>22, <1>23
     DEF Next, Progress, World

(* Every step keeps a hub that is down idle.                               *)
LEMMA AsleepStep == Shape /\ Asleep /\ [Next]_vars => Asleep'
<1> SUFFICES ASSUME Shape, Asleep, [Next]_vars PROVE Asleep'
  OBVIOUS
<1> USE DEF Shape, Places, Asleep, op, history
<1>1. ASSUME NEW f \in File, Read(f) PROVE Asleep'
  BY <1>1 DEF Read
<1>2. ASSUME NEW f \in File, ReportRead(f) PROVE Asleep'
  BY <1>2 DEF ReportRead
<1>3. CASE Before
  BY <1>3 DEF Before, Ready, Goes, Scan
<1>4. CASE Deploy
  BY <1>4 DEF Deploy, Goes, Scan
<1>5. CASE Deployed
  BY <1>5 DEF Deployed, Goes, Scan, Done, Fresh
<1>6. CASE Spoilt
  BY <1>6 DEF Spoilt, Done, Fresh
<1>7. CASE Stop
  BY <1>7 DEF Stop, Done, Fresh
<1>8. CASE Stamp
  BY <1>8 DEF Stamp, Done, Fresh
<1>9. CASE Select
  BY <1>9 DEF Select, Goes
<1>10. CASE Check
  BY <1>10 DEF Check
<1>11. CASE Checked
  BY <1>11 DEF Checked, Goes, Scan
<1>12. CASE Verified
  BY <1>12 DEF Verified, Done, Fresh
<1>13. CASE Fails
  BY <1>13 DEF Fails, Done, Fresh
<1>14. CASE Answer
  BY <1>14 DEF Answer
<1>15. CASE Answered
  BY <1>15 DEF Answered
<1>16. CASE Restart
  BY <1>16 DEF Restart
<1>17. ASSUME NEW k \in {"ensure", "verify", "deploy", "down"}, Call(k) PROVE Asleep'
  BY <1>17 DEF Call
<1>18. ASSUME NEW f \in File, Edit(f) PROVE Asleep'
  BY <1>18 DEF Edit
<1>19. ASSUME NEW f \in File, Sync(f) PROVE Asleep'
  BY <1>19 DEF Sync
<1>20. CASE Exit
  BY <1>20 DEF Exit
<1>21. CASE Report
  BY <1>21 DEF Report
<1>22. CASE Crash
  BY <1>22 DEF Crash, Done, Fresh
<1>23. CASE UNCHANGED vars
  BY <1>23 DEF vars
<1> QED
  BY <1>1, <1>2, <1>3, <1>4, <1>5, <1>6, <1>7, <1>8, <1>9, <1>10, <1>11, <1>12, <1>13, <1>14,
      <1>15, <1>16, <1>17, <1>18, <1>19, <1>20, <1>21, <1>22, <1>23
     DEF Next, Progress, World

(* Every step keeps no more records than are to be kept.                   *)
LEMMA BoundedStep == Shape /\ Asleep /\ Recorded /\ Bounded /\ [Next]_vars => Bounded'
<1> SUFFICES ASSUME Shape, Asleep, Recorded, Bounded, [Next]_vars PROVE Bounded'
  OBVIOUS
<1> USE DEF Shape, Places, Asleep, Bounded, Verifying, op, evidence, history
<1>1. ASSUME NEW f \in File, Read(f) PROVE Bounded'
  BY <1>1 DEF Read
<1>2. ASSUME NEW f \in File, ReportRead(f) PROVE Bounded'
  BY <1>2 DEF ReportRead
<1>3. CASE Before
  BY <1>3 DEF Before, Ready, Goes, Scan
<1>4. CASE Deploy
  BY <1>4 DEF Deploy, Goes, Scan
<1>5. CASE Deployed
  BY <1>5 DEF Deployed, Goes, Scan, Done, Fresh
<1>6. CASE Spoilt
  BY <1>6 DEF Spoilt, Done, Fresh
<1>7. CASE Stop
  BY <1>7 DEF Stop, Done, Fresh
<1>8. CASE Stamp
  BY <1>8 DEF Stamp, Done, Fresh
<1>9. CASE Select
  BY <1>9 DEF Select, Goes
<1>10. CASE Check
  BY <1>10 DEF Check
<1>11. CASE Checked
  BY <1>11 DEF Checked, Goes, Scan
<1>12. CASE Verified
  <2>1. Verifying /\ Verdict \in {"passed", "failed", "interrupted"}
    BY <1>12 DEF Verified, Verdict
  <2> QED
    BY <1>12, <2>1, Ended DEF Verified
<1>13. CASE Fails
  <2>1. CASE Verifying
    <3>1. PICK end \in {"failed", "interrupted"} : records' =
            Trim(Save([Current EXCEPT !.status = end]))
      BY <1>13, <2>1 DEF Fails
    <3> QED
      BY <2>1, <3>1, Ended
  <2>2. CASE ~Verifying
    <3>1. UNCHANGED <<records, down>>
      BY <1>13, <2>2 DEF Fails
    <3> QED
      BY <2>2, <3>1
  <2> QED
    BY <2>1, <2>2
<1>14. CASE Answer
  BY <1>14 DEF Answer
<1>15. CASE Answered
  BY <1>15 DEF Answered
<1>16. CASE Restart
  BY <1>16, Restarted
<1>17. ASSUME NEW k \in {"ensure", "verify", "deploy", "down"}, Call(k) PROVE Bounded'
  BY <1>17 DEF Call
<1>18. ASSUME NEW f \in File, Edit(f) PROVE Bounded'
  BY <1>18 DEF Edit
<1>19. ASSUME NEW f \in File, Sync(f) PROVE Bounded'
  BY <1>19 DEF Sync
<1>20. CASE Exit
  BY <1>20 DEF Exit
<1>21. CASE Report
  BY <1>21 DEF Report
<1>22. CASE Crash
  BY <1>22 DEF Crash, Done, Fresh
<1>23. CASE UNCHANGED vars
  BY <1>23 DEF vars
<1> QED
  BY <1>1, <1>2, <1>3, <1>4, <1>5, <1>6, <1>7, <1>8, <1>9, <1>10, <1>11, <1>12, <1>13, <1>14,
      <1>15, <1>16, <1>17, <1>18, <1>19, <1>20, <1>21, <1>22, <1>23
     DEF Next, Progress, World

(* Every step keeps the records of the operations apart, and what a        *)
(* tainted verification finds, or has found.                               *)
LEMMA RecordedStep == Shape /\ Scans /\ Between /\ Asleep /\ Recorded /\ [Next]_vars => Recorded'
<1> SUFFICES ASSUME Shape, Scans, Between, Asleep, Recorded, [Next]_vars PROVE Recorded'
  OBVIOUS
<1>k. /\ ops \in Nat /\ Len(records) \in Nat /\ tainted \in SUBSET (Nat \X File)
      /\ generation \in Nat
  BY DEF Shape, Counts, Kept
<1>i. \A i \in Indices : records[i] \in Record /\ records[i].id \in Nat /\
        records[i].generation \in Nat
  <2>1. \A i \in Indices : records[i] \in Record
    BY DEF Indices, Shape, Kept
  <2> QED
    BY <2>1 DEF Record
<1>x. \A f \in File : src[f] \in Nat /\ first[f] \in Nat /\ seen[f] \in Nat /\ running[f] \in Nat
  BY VerificationAssumption DEF Shape, Texts, Source, Scanned
<1>t. \A t \in tainted : t[1] \in Nat
  BY <1>k
<1> USE <1>k, <1>i, <1>t DEF Recorded, Places, Shape, Verifying, Indices, Current, Edited,
      deployed, op, evidence, counts, history
<1>1. ASSUME NEW f \in File, Read(f) PROVE Recorded'
  <2>1. \A g \in File : pc \in {"checks", "after"} /\ Edited(g) => Edited(g)'
    <3> SUFFICES ASSUME NEW g \in File, pc \in {"checks", "after"}, Edited(g) PROVE Edited(g)'
      OBVIOUS
    <3>1. CASE g = f
      BY <1>1, <1>x, <3>1 DEF Read, Texts, Scanned
    <3>2. CASE g # f
      BY <1>1, <3>2 DEF Read, Texts, Scanned
    <3> QED
      BY <3>1, <3>2
  <2>2. UNCHANGED <<records, tainted, ops, kind, pc, first, undone, generation>>
    BY <1>1 DEF Read
  <2> HIDE DEF Edited
  <2> QED
    BY <2>1, <2>2
<1>2. ASSUME NEW f \in File, ReportRead(f) PROVE Recorded'
  BY <1>2 DEF ReportRead
<1>3. CASE Before
  BY <1>3 DEF Before, Ready, Goes, Scan
<1>4. CASE Deploy
  BY <1>4 DEF Deploy, Goes, Scan
<1>5. CASE Deployed
  BY <1>5 DEF Deployed, Goes, Scan, Done, Fresh
<1>6. CASE Spoilt
  BY <1>6 DEF Spoilt, Done, Fresh
<1>7. CASE Stop
  BY <1>7 DEF Stop, Done, Fresh
<1>8. CASE Stamp
  BY <1>8 DEF Stamp, Done, Fresh
<1>9. CASE Select
  <2>1. kind = "verify" /\ pc = "select" /\
          UNCHANGED <<ops, kind, first, seen, src, undone, generation>>
    BY <1>9 DEF Select, Goes
  <2>2. /\ Len(records') = Len(records) + 1
        /\ records'[1].id = ops /\ records'[1].source = first /\ records'[1].status = "running"
        /\ records'[1].generation = generation
        /\ \A i \in 1 .. Len(records') : i # 1 => i - 1 \in Indices /\ records'[i] = records[i - 1]
    BY <1>9, Selected
  <2>3. /\ \A t \in tainted : t[1] < ops
        /\ \A t \in tainted' : t \in tainted \/ \E f \in File : t = <<ops, f>> /\
             running[f] # first[f]
    BY <1>9, <2>1 DEF Select, Met
  <2>4. \A f \in File \ undone : <<ops, f>> \in tainted' => Edited(f)'
    <3> SUFFICES ASSUME NEW f \in File \ undone, <<ops, f>> \in tainted' PROVE Edited(f)'
      OBVIOUS
    <3>1. running[f] # first[f]
      BY <2>3
    <3>2. first[f] < src[f] /\ pc' = "checks"
      BY <1>9, <2>1, <3>1, <1>x DEF Between, Select, Goes
    <3> QED
      BY <2>1, <3>2
  <2>5. \A t \in tainted' : t[1] <= ops
    BY <2>3
  <2>6. \A i, j \in 1 .. Len(records') : records'[i].id = records'[j].id => i = j
    <3>1. \A i \in 1 .. Len(records') : i # 1 => records'[i].id < ops /\ records'[i].id \in Nat
      BY <2>1, <2>2
    <3> SUFFICES ASSUME NEW i \in 1 .. Len(records'), NEW j \in 1 .. Len(records'),
                        records'[i].id = records'[j].id
                 PROVE  i = j
      OBVIOUS
    <3>2. CASE i = 1 \/ j = 1
      <4>1. ~(ops < ops)
        OBVIOUS
      <4> HIDE DEF Recorded, Shape, Places, Edited
      <4> QED
        BY <2>2, <3>1, <3>2, <4>1
    <3>3. CASE i # 1 /\ j # 1
      <4>1. i - 1 \in Indices /\ j - 1 \in Indices /\ records[i - 1].id = records[j - 1].id
        BY <2>2, <3>3
      <4> QED
        BY <4>1
    <3> QED
      BY <3>2, <3>3
  <2>7. \A i \in 1 .. Len(records') : records'[i].id <= ops /\ records'[i].generation <= generation
    BY <2>2
  <2> HIDE DEF Edited
  <2> QED
    BY <2>1, <2>2, <2>4, <2>5, <2>6, <2>7, <1>9 DEF Select, Goes
<1>10. CASE Check
  <2>1. Verifying /\ pc = "checks" /\
          UNCHANGED <<ops, kind, pc, first, seen, src, unread, undone, generation>>
    BY <1>10 DEF Check
  <2>2. /\ Len(records') = Len(records)
        /\ \A i \in Indices : /\ records'[i].id = records[i].id
                              /\ records'[i].status = records[i].status
                              /\ records'[i].source = records[i].source
                              /\ records'[i].generation = records[i].generation
    BY <1>10, <2>1, CheckedOne
  <2>3. \A t \in tainted' : t \in tainted \/ \E f \in File : t = <<ops, f>> /\ running[f] # first[f]
    BY <1>10, <2>1 DEF Check, Met
  <2>4. \A f \in File \ undone : <<ops, f>> \in tainted' => Edited(f)'
    <3> SUFFICES ASSUME NEW f \in File \ undone, <<ops, f>> \in tainted' PROVE Edited(f)'
      OBVIOUS
    <3>1. CASE <<ops, f>> \in tainted
      BY <2>1, <3>1
    <3>2. CASE running[f] # first[f]
      BY <2>1, <3>2, <1>x DEF Between
    <3> QED
      BY <2>3, <3>1, <3>2
  <2>5. \A t \in tainted' : t[1] <= ops
    BY <2>3
  <2> HIDE DEF Edited
  <2> QED
    BY <2>1, <2>2, <2>4, <2>5
<1>11. CASE Checked
  BY <1>11 DEF Checked, Goes, Scan
<1>12. CASE Verified
  <2>1. Verifying /\ Verdict \in {"passed", "failed", "interrupted"}
    BY <1>12 DEF Verified, Verifying, Verdict
  <2>2. \A i \in 1 .. Len(records') : i \in Indices /\ records'[i].id = records[i].id
          /\ records'[i].generation = records[i].generation
    BY <1>12, <2>1, Ended DEF Verified
  <2>3. kind' = "none" /\ UNCHANGED <<ops, tainted, generation>>
    BY <1>12 DEF Verified, Done
  <2> QED
    BY <2>2, <2>3
<1>13. CASE Fails
  <2>1. \A i \in 1 .. Len(records') : i \in Indices /\ records'[i].id = records[i].id
          /\ records'[i].generation = records[i].generation
    <3>1. CASE Verifying
      <4>1. PICK end \in {"failed", "interrupted"} : records' =
              Trim(Save([Current EXCEPT !.status = end]))
        BY <1>13, <3>1 DEF Fails
      <4> QED
        BY <3>1, <4>1, Ended
    <3>2. CASE ~Verifying
      BY <1>13, <3>2 DEF Fails
    <3> QED
      BY <3>1, <3>2
  <2>2. kind' = "none" /\ UNCHANGED <<ops, tainted, generation>>
    BY <1>13 DEF Fails, Done
  <2> QED
    BY <2>1, <2>2
<1>14. CASE Answer
  BY <1>14 DEF Answer
<1>15. CASE Answered
  BY <1>15 DEF Answered
<1>16. CASE Restart
  <2>1. \A i \in 1 .. Len(records') : i \in Indices /\ records'[i].id = records[i].id
          /\ records'[i].generation = records[i].generation
    BY <1>16, Restarted
  <2>2. kind' = "none" /\ UNCHANGED <<ops, tainted, generation>>
    BY <1>16 DEF Restart, Asleep
  <2> QED
    BY <2>1, <2>2
<1>17. ASSUME NEW k \in {"ensure", "verify", "deploy", "down"}, Call(k) PROVE Recorded'
  BY <1>17 DEF Call
<1>18. ASSUME NEW f \in File, Edit(f) PROVE Recorded'
  <2>1. UNCHANGED <<records, tainted, ops, kind, pc, first, seen, unread, generation>>
    BY <1>18 DEF Edit
  <2>2. undone \subseteq undone' /\ \A g \in File \ undone' : src[g] <= src'[g] /\ src'[g] \in Nat
    BY <1>18, EditRaises
  <2>3. \A g \in File \ undone' : Edited(g) => Edited(g)'
    BY <1>x, <2>1, <2>2
  <2> HIDE DEF Edited
  <2> QED
    BY <2>1, <2>2, <2>3
<1>19. ASSUME NEW f \in File, Sync(f) PROVE Recorded'
  <2>1. /\ UNCHANGED <<records, ops, kind, pc, first, seen, src, unread, undone, generation>>
        /\ running' = [running EXCEPT ![f] = src[f]]
    BY <1>19 DEF Sync
  <2>2. CASE pc # "checks"
    BY <1>19, <2>1, <2>2 DEF Sync
  <2>3. CASE pc = "checks"
    <3>1. Verifying
      BY <2>3
    <3>2. \A t \in tainted' : t \in tainted \/ \E g \in File : t = <<ops, g>> /\
            running'[g] # first[g]
      BY <1>19, <2>3, <3>1 DEF Sync, Met
    <3>3. \A g \in File \ undone : <<ops, g>> \in tainted' => Edited(g)'
      <4> SUFFICES ASSUME NEW g \in File \ undone, <<ops, g>> \in tainted' PROVE Edited(g)'
        OBVIOUS
      <4>1. CASE <<ops, g>> \in tainted
        BY <2>1, <3>1, <4>1
      <4>2. CASE running'[g] # first[g]
        <5>1. first[g] <= running[g] /\ running[g] <= src[g]
          BY <3>1 DEF Between
        <5>2. running'[g] = running[g] \/ running'[g] = src[g]
          BY <2>1 DEF Texts, Scanned
        <5>3. first[g] < src[g]
          BY <1>x, <4>2, <5>1, <5>2
        <5> QED
          BY <2>1, <2>3, <5>3
      <4> QED
        BY <3>2, <4>1, <4>2
    <3>4. \A t \in tainted' : t[1] <= ops
      BY <3>2
    <3> HIDE DEF Edited
    <3> QED
      BY <2>1, <2>3, <3>1, <3>3, <3>4
  <2> QED
    BY <2>2, <2>3
<1>20. CASE Exit
  BY <1>20 DEF Exit
<1>21. CASE Report
  BY <1>21 DEF Report
<1>22. CASE Crash
  BY <1>22 DEF Crash, Done, Fresh
<1>23. CASE UNCHANGED vars
  BY <1>23 DEF vars
<1> QED
  BY <1>1, <1>2, <1>3, <1>4, <1>5, <1>6, <1>7, <1>8, <1>9, <1>10, <1>11, <1>12, <1>13, <1>14,
      <1>15, <1>16, <1>17, <1>18, <1>19, <1>20, <1>21, <1>22, <1>23
     DEF Next, Progress, World

(* A verdict looks at the source once more, and finds what the checks met. *)
LEMMA VerdictFinds ==
  ASSUME Shape, Recorded, Verified, Verdict = "passed", NEW f \in File \ undone
  PROVE  <<Current.id, f>> \notin tainted
<1>1. Verifying /\ pc = "after" /\ unread = {} /\ seen = first
  BY DEF Verified, Verifying, Verdict
<1>2. <<ops, f>> \in tainted => Edited(f)
  BY <1>1 DEF Recorded
<1>3. Edited(f) => first[f] < seen[f] /\ first[f] \in Nat
  BY <1>1, VerificationAssumption DEF Edited, Shape, Texts, Scanned
<1> QED
  BY <1>1, <1>2, <1>3 DEF Recorded

(* Every step keeps it that what passed met what it names.                 *)
LEMMA SoundsStep == Shape /\ Asleep /\ Recorded /\ Sounds /\ [Next]_vars => Sounds'
<1> SUFFICES ASSUME Shape, Asleep, Recorded, Sounds, [Next]_vars PROVE Sounds'
  OBVIOUS
<1>k. /\ ops \in Nat /\ Len(records) \in Nat /\ tainted \in SUBSET (Nat \X File)
      /\ generation \in Nat
  BY DEF Shape, Counts, Kept
<1>c. Verifying => 1 \in Indices /\ records[1].id = ops /\ records[1].status = "running"
  BY <1>k DEF Recorded, Indices, Current
<1>d. \A i \in Indices : Verifying /\ i # 1 => records[i].id # ops
  BY <1>c DEF Recorded
<1>e. \A i \in Indices : records[i].generation <= generation /\ records[i].generation \in Nat
  <2>1. \A i \in Indices : records[i] \in Record
    BY DEF Indices, Shape, Kept
  <2> QED
    BY <2>1 DEF Recorded, Record
<1> USE <1>k DEF Sounds, Sound, evidence, deployed, op, Indices, history
<1>1. ASSUME NEW f \in File, Read(f) PROVE Sounds'
  BY <1>1 DEF Read
<1>2. ASSUME NEW f \in File, ReportRead(f) PROVE Sounds'
  BY <1>2 DEF ReportRead
<1>3. CASE Before
  BY <1>3 DEF Before, Ready, Goes, Scan
<1>4. CASE Deploy
  <2>1. generation' = generation + 1 /\ UNCHANGED <<records, tainted>>
    BY <1>4 DEF Deploy
  <2>2. \A i \in Indices : records[i].generation # generation'
    BY <1>e, <2>1
  <2> QED
    BY <2>1, <2>2
<1>5. CASE Deployed
  BY <1>5 DEF Deployed, Goes, Scan, Done, Fresh
<1>6. CASE Spoilt
  BY <1>6 DEF Spoilt, Done, Fresh
<1>7. CASE Stop
  BY <1>7 DEF Stop, Done, Fresh
<1>8. CASE Stamp
  BY <1>8 DEF Stamp, Done, Fresh
<1>9. CASE Select
  <2>1. records'[1].status = "running" /\ Len(records') = Len(records) + 1
    BY <1>9, Selected
  <2>2. \A i \in 1 .. Len(records') : i # 1 => i - 1 \in Indices /\ records'[i] = records[i - 1]
    BY <1>9, Selected
  <2>3. \A t \in tainted' : t \in tainted \/ t[1] = ops
    BY <1>9 DEF Select, Met
  <2>4. \A i \in Indices : records[i].id < ops /\ records[i].id # ops
    <3>1. \A i \in Indices : records[i] \in Record
      BY DEF Shape, Kept
    <3> QED
      BY <1>9, <3>1 DEF Select, Recorded, Places, Shape, Record
  <2>5. UNCHANGED <<generation, undone>>
    BY <1>9 DEF Select
  <2> QED
    BY <2>1, <2>2, <2>3, <2>4, <2>5
<1>10. CASE Check
  <2>1. Verifying /\ UNCHANGED <<generation, undone>>
    BY <1>10 DEF Check, Verifying, Shape, Places
  <2>2. Len(records') = Len(records) /\ \A i \in Indices : /\ records'[i].id = records[i].id
                                                         /\ records'[i].status = records[i].status
                                                         /\ records'[i].generation =
                                                              records[i].generation
    BY <1>10, <2>1, CheckedOne
  <2>3. \A t \in tainted' : t \in tainted \/ t[1] = ops
    BY <1>10, <2>1, <1>c DEF Check, Current, Met
  <2> QED
    BY <2>1, <2>2, <2>3, <1>c, <1>d
<1>11. CASE Checked
  BY <1>11 DEF Checked, Goes, Scan
<1>12. CASE Verified
  <2>1. Verifying /\ Verdict \in {"passed", "failed", "interrupted"} /\
          UNCHANGED <<generation, undone, tainted>>
    BY <1>12 DEF Verified, Verifying, Verdict
  <2>2. \A i \in 1 .. Len(records') :
          /\ i \in Indices /\ records'[i].id = records[i].id
          /\ records'[i].generation = records[i].generation
          /\ IF i = 1 THEN records'[i].status = Verdict ELSE records'[i].status = records[i].status
    BY <1>12, <2>1, Ended DEF Verified
  <2>3. Verdict = "passed" => \A f \in File \ undone : <<ops, f>> \notin tainted
    BY <1>12, <2>1, <1>c, VerdictFinds DEF Current
  <2> QED
    BY <2>1, <2>2, <2>3, <1>c
<1>13. CASE Fails
  <2>1. UNCHANGED <<tainted, generation, undone>>
    BY <1>13 DEF Fails
  <2>2. CASE Verifying
    <3>1. PICK end \in {"failed", "interrupted"} : records' =
            Trim(Save([Current EXCEPT !.status = end]))
      BY <1>13, <2>2 DEF Fails, Verifying
    <3>2. \A i \in 1 .. Len(records') :
            /\ i \in Indices /\ records'[i].id = records[i].id
            /\ records'[i].generation = records[i].generation
            /\ records'[i].status = records[i].status \/ records'[i].status = end
      BY <2>2, <3>1, Ended
    <3> QED
      BY <2>1, <3>2
  <2>3. CASE ~Verifying
    BY <1>13, <2>1, <2>3 DEF Fails, Verifying
  <2> QED
    BY <2>2, <2>3
<1>14. CASE Answer
  BY <1>14 DEF Answer
<1>15. CASE Answered
  BY <1>15 DEF Answered
<1>16. CASE Restart
  <2>1. \A i \in 1 .. Len(records') :
          /\ i \in Indices /\ records'[i].id = records[i].id
          /\ records'[i].generation = records[i].generation
          /\ records'[i].status \in {records[i].status, "interrupted"}
    BY <1>16, Restarted
  <2>2. UNCHANGED <<tainted, generation, undone>>
    BY <1>16 DEF Restart
  <2> QED
    BY <2>1, <2>2
<1>17. ASSUME NEW k \in {"ensure", "verify", "deploy", "down"}, Call(k) PROVE Sounds'
  BY <1>17 DEF Call
<1>18. ASSUME NEW f \in File, Edit(f) PROVE Sounds'
  BY <1>18, EditRaises DEF Edit
<1>19. ASSUME NEW f \in File, Sync(f) PROVE Sounds'
  <2>1. UNCHANGED <<records, generation, undone>>
    BY <1>19 DEF Sync
  <2>2. CASE pc # "checks"
    BY <1>19, <2>1, <2>2 DEF Sync
  <2>3. CASE pc = "checks"
    <3>1. Verifying
      BY <2>3 DEF Verifying, Shape, Places
    <3>2. \A t \in tainted' : t \in tainted \/ t[1] = ops
      BY <1>19, <2>3, <3>1, <1>c DEF Sync, Current, Met
    <3> QED
      BY <2>1, <3>1, <3>2, <1>c, <1>d
  <2> QED
    BY <2>2, <2>3
<1>20. CASE Exit
  BY <1>20 DEF Exit
<1>21. CASE Report
  BY <1>21 DEF Report
<1>22. CASE Crash
  BY <1>22 DEF Crash, Done, Fresh
<1>23. CASE UNCHANGED vars
  BY <1>23 DEF vars
<1> QED
  BY <1>1, <1>2, <1>3, <1>4, <1>5, <1>6, <1>7, <1>8, <1>9, <1>10, <1>11, <1>12, <1>13, <1>14,
      <1>15, <1>16, <1>17, <1>18, <1>19, <1>20, <1>21, <1>22, <1>23
     DEF Next, Progress, World

(* Every step keeps it that a report speaks of what is over.               *)
LEMMA ReportedStep == Shape /\ Recorded /\ Sounds /\ Reported /\ [Next]_vars => Reported'
<1> SUFFICES ASSUME Shape, Recorded, Sounds, Reported, [Next]_vars PROVE Reported'
  OBVIOUS
<1>k. /\ ops \in Nat /\ Len(records) \in Nat /\ tainted \in SUBSET (Nat \X File) /\
           report \in ReportState
      /\ generation \in Nat
  BY DEF Shape, Counts, Kept
<1>n. NoReport.pc = "none"
  BY DEF NoReport
<1> USE <1>k, <1>n DEF Reported, Sound, deployed, Places, Shape, op, evidence, counts, history
<1>1. ASSUME NEW f \in File, Read(f) PROVE Reported'
  BY <1>1 DEF Read
<1>2. ASSUME NEW f \in File, ReportRead(f) PROVE Reported'
  BY <1>2 DEF ReportRead
<1>3. CASE Before
  BY <1>3 DEF Before, Ready, Goes, Scan
<1>4. CASE Deploy
  <2>1. generation' = generation + 1 /\ UNCHANGED <<report, ops, kind>>
    BY <1>4 DEF Deploy, Goes
  <2>2. report.pc # "none" => report.record.generation # generation' /\
          report.record.generation <= generation'
    BY <2>1 DEF Record
  <2> QED
    BY <2>1, <2>2
<1>5. CASE Deployed
  BY <1>5 DEF Deployed, Goes, Scan, Done, Fresh
<1>6. CASE Spoilt
  BY <1>6 DEF Spoilt, Done, Fresh
<1>7. CASE Stop
  BY <1>7 DEF Stop, Done, Fresh
<1>8. CASE Stamp
  BY <1>8 DEF Stamp, Done, Fresh
<1>t. ASSUME \A t \in tainted' : t \in tainted \/ t[1] = ops, kind = "verify",
             UNCHANGED <<report, ops, kind, generation, undone>>
      PROVE  Reported'
  <2>1. report.pc # "none" /\ report.record.status = "passed" =>
          /\ report.record.id # ops /\ report.record.id <= ops /\ report.record.id < ops
    <3>1. \A n \in Nat : n < ops => n # ops
      OBVIOUS
    <3> QED
      BY <1>t, <3>1 DEF Record
  <2>2. report.pc # "none" => Sound(report.record)'
    BY <1>t, <2>1
  <2> HIDE DEF Sound
  <2> QED
    BY <1>t, <2>1, <2>2
<1>9. CASE Select
  <2>1. (\A t \in tainted' : t \in tainted \/ t[1] = ops) /\ kind = "verify"
    BY <1>9 DEF Select, Met
  <2>2. UNCHANGED <<report, ops, kind, generation, undone>>
    BY <1>9 DEF Select, Goes
  <2> QED
    BY <1>t, <2>1, <2>2
<1>10. CASE Check
  <2>1. Verifying /\ Current.id = ops /\ kind = "verify"
    BY <1>10 DEF Check, Verifying, Recorded
  <2>2. \A t \in tainted' : t \in tainted \/ t[1] = ops
    BY <1>10, <2>1 DEF Check, Met
  <2>3. UNCHANGED <<report, ops, kind, generation, undone>>
    BY <1>10 DEF Check
  <2> QED
    BY <1>t, <2>1, <2>2, <2>3
<1>11. CASE Checked
  BY <1>11 DEF Checked, Goes, Scan
<1>12. CASE Verified
  BY <1>12 DEF Verified, Done, Fresh
<1>13. CASE Fails
  BY <1>13 DEF Fails, Done, Fresh
<1>14. CASE Answer
  <2>1. CASE report' = NoReport
    BY <2>1
  <2>2. CASE report' # NoReport
    <3>1. report' = [report EXCEPT !.pc = "fresh"] /\ report.pc = "reading"
      BY <1>14, <2>2 DEF Answer
    <3>2. report'.record = report.record
      BY <3>1 DEF ReportState
    <3>3. UNCHANGED <<ops, kind, tainted, generation, undone>>
      BY <1>14 DEF Answer
    <3> QED
      BY <3>1, <3>2, <3>3
  <2> QED
    BY <2>1, <2>2
<1>15. CASE Answered
  BY <1>15 DEF Answered
<1>16. CASE Restart
  BY <1>16 DEF Restart
<1>17. ASSUME NEW k \in {"ensure", "verify", "deploy", "down"}, Call(k) PROVE Reported'
  <2>1. UNCHANGED <<report, tainted, generation, undone>> /\ ops' = ops + 1
    BY <1>17 DEF Call
  <2>2. \A n \in Nat : n <= ops => n <= ops' /\ n < ops'
    BY <2>1
  <2>3. report.pc # "none" /\ report.record.status = "passed" =>
          report.record.id <= ops' /\ report.record.id < ops'
    BY <2>2 DEF Record
  <2> QED
    BY <2>1, <2>3
<1>18. ASSUME NEW f \in File, Edit(f) PROVE Reported'
  BY <1>18, EditRaises DEF Edit
<1>19. ASSUME NEW f \in File, Sync(f) PROVE Reported'
  <2>1. UNCHANGED <<report, ops, kind, generation, undone>>
    BY <1>19 DEF Sync
  <2>2. CASE pc # "checks"
    BY <1>19, <2>1, <2>2 DEF Sync
  <2>3. CASE pc = "checks"
    <3>1. Verifying /\ kind = "verify"
      BY <2>3 DEF Verifying
    <3>2. \A t \in tainted' : t \in tainted \/ t[1] = ops
      BY <1>19, <2>3, <3>1 DEF Sync, Met, Recorded
    <3> QED
      BY <2>1, <3>1, <3>2, <1>t
  <2> QED
    BY <2>2, <2>3
<1>20. CASE Exit
  BY <1>20 DEF Exit
<1>21. CASE Report
  <2>1. Len(records) \in Nat /\ Len(records) >= 1
    BY <1>21 DEF Report, Kept
  <2>2. 1 \in Indices /\ Current \in Record
    BY <2>1 DEF Indices, Kept, Current
  <2>3. /\ Sound(Current)
        /\ Current.id <= ops /\ Current.generation <= generation
        /\ Current.status = "passed" /\ kind = "verify" => Current.id < ops
    BY <2>2 DEF Sounds, Recorded, Verifying, Indices, Current
  <2>4. report'.record = Current /\ UNCHANGED <<ops, kind, tainted, generation, undone>>
    BY <1>21 DEF Report
  <2> QED
    BY <2>2, <2>3, <2>4
<1>22. CASE Crash
  BY <1>22 DEF Crash
<1>23. CASE UNCHANGED vars
  BY <1>23 DEF vars
<1> QED
  BY <1>1, <1>2, <1>3, <1>4, <1>5, <1>6, <1>7, <1>8, <1>9, <1>10, <1>11, <1>12, <1>13, <1>14,
      <1>15, <1>16, <1>17, <1>18, <1>19, <1>20, <1>21, <1>22, <1>23
     DEF Next, Progress, World
------------------------------------------------------------------------------
(* Nothing deployed and nothing recorded, at first.                        *)
LEMMA InitIInv == Init => IInv
<1> SUFFICES ASSUME Init PROVE IInv
  OBVIOUS
<1>1. Nothing \in Scanned /\ MaxEdits \in Nat /\ Checks \in Nat /\ Retain \in Nat
  BY VerificationAssumption DEF Nothing, Scanned
<1>2. ~up /\ kind = "none" /\ pc = "none"
  BY DEF Init
<1>3. Texts
  BY <1>1 DEF Init, Texts, Source, Scanned
<1>4. Counts /\ Places
  BY <1>1 DEF Init, Counts, Places
<1>5. NoReport \in ReportState
  BY <1>1 DEF NoReport, ReportState
<1>6. Kept /\ Len(records) = 0
  BY <1>5 DEF Init, Kept
<1>7. Scans /\ Between
  BY <1>2 DEF Scans, Between
<1>8. Recorded /\ Sounds
  BY <1>2, <1>6, SMT DEF Init, Recorded, Sounds, Indices, Verifying
<1>9. Reported /\ Bounded /\ Asleep
  BY <1>1, <1>2, <1>6 DEF Init, Reported, NoReport, Bounded, Asleep
<1> QED
  BY <1>3, <1>4, <1>6, <1>7, <1>8, <1>9 DEF IInv, Shape

(* Every step keeps the invariant.                                         *)
LEMMA NextIInv == IInv /\ [Next]_vars => IInv'
  BY TextsStep, CountsStep, KeptStep, PlacesStep, ScansStep, BetweenStep, RecordedStep,
     SoundsStep, ReportedStep, BoundedStep, AsleepStep
     DEF IInv, Shape

(* The inductive invariant: of every file that was not brought back, what  *)
(* runs lies between its stamp and the source, and what a check met of it  *)
(* other than its record names is found out by the second scan.            *)
THEOREM Inductive == Spec => []IInv
  BY InitIInv, NextIInv, PTL DEF Spec

(* The state keeps its shape; no more records of finished runs are kept    *)
(* than are to be (retention of store.ts).                                 *)
THEOREM TypeCorrect == Spec => []TypeOK
<1>1. IInv => TypeOK
  <2> SUFFICES ASSUME IInv PROVE TypeOK
    OBVIOUS
  <2>1. records \in Seq(Record) /\ report.seen \in Scanned
    BY DEF IInv, Shape, Kept, ReportState
  <2>2. \A i \in 1 .. Len(records) : records[i] \in Record
    BY <2>1
  <2>3. \A i \in 1 .. Len(records) :
          records[i].status \in {"running", "passed", "failed", "interrupted"}
    BY <2>2 DEF Record
  <2>4. kind # "verify" /\ ~down => Len(records) <= Retain
    BY DEF IInv, Bounded, Verifying
  <2>5. src \in Source /\
          {running, stamp, seen, first, report.seen} \subseteq [File -> 0 .. MaxEdits + 1]
    BY <2>1 DEF IInv, Shape, Texts, Scanned
  <2>6. /\ status \in {"none", "running", "failed", "stopped"} /\ generation \in Nat
        /\ checked \in 0 .. Checks /\ unread \subseteq File
        /\ undone \subseteq File /\ lately \subseteq File
    BY DEF IInv, Shape, Texts, Counts
  <2>7. /\ kind \in {"none", "ensure", "verify", "deploy", "down"}
        /\ pc \in {"none", "before", "deploy", "build", "after", "select", "checks", "down"}
    BY DEF IInv, Shape, Places
  <2> QED
    BY <2>3, <2>4, <2>5, <2>6, <2>7 DEF TypeOK
<1> QED
  BY <1>1, Inductive, PTL

(* What runs of a file lies between its stamp and the source, so it is     *)
(* what both are.                                                          *)
LEMMA Stamped == IInv => StampTrue
<1> SUFFICES ASSUME IInv, NEW f \in File \ undone, up, stamp[f] = src[f] PROVE running[f] = src[f]
  BY DEF StampTrue
<1>1. /\ src[f] \in 0 .. MaxEdits /\ running[f] \in 0 .. MaxEdits + 1 /\ MaxEdits \in Nat
  BY VerificationAssumption DEF IInv, Shape, Texts, Scanned, Source
<1>2. stamp[f] <= running[f] /\ running[f] <= src[f]
  BY <1>1 DEF IInv, Between
<1> QED
  BY <1>1, <1>2

(* While a file is as it was stamped (ensure of workflow.ts) it is what    *)
(* runs, however edits fall between the scans and the build and whatever is*)
(* synced, unless its content was brought back since.                      *)
THEOREM StampsAreTrue == Spec => []StampTrue
  BY Inductive, Stamped, PTL

(* Only a verdict makes the verification under way pass.                   *)
LEMMA OnlyVerdict ==
  IInv /\ [Next]_vars /\ pc = "after" /\ kind = "verify" /\ records' # records
       /\ records'[1].status = "passed" =>
    Verified /\ Verdict = "passed"
<1> SUFFICES ASSUME IInv, [Next]_vars, pc = "after", kind = "verify", records' # records,
                    records'[1].status = "passed"
             PROVE  Verified /\ Verdict = "passed"
  OBVIOUS
<1>1. Verifying /\ Shape /\ Recorded /\ ~down
  BY DEF IInv, Verifying, Asleep
<1>2. Verified \/ Fails
  BY <1>1 DEF Next, Progress, World, vars, evidence, Read, ReportRead, Before, Deploy, Deployed,
      Spoilt, Stop, Stamp, Select, Check, Checked, Answer, Answered, Restart, Call, Edit, Sync,
      Exit, Report, Crash
<1>3. ASSUME NEW end \in {"passed", "failed", "interrupted"},
             records' = Trim(Save([Current EXCEPT !.status = end])), Len(records') \in Nat
      PROVE  records'[1].status = end
  BY <1>1, <1>3, Ended
<1>4. ASSUME NEW end \in {"passed", "failed", "interrupted"},
             records' = Trim(Save([Current EXCEPT !.status = end]))
      PROVE  records'[1].status = end
  <2>1. records' \in Seq(Record)
    BY <1>1, <1>4, Ended
  <2> QED
    BY <1>3, <1>4, <2>1
<1>5. ~Fails
  <2> SUFFICES ASSUME Fails PROVE FALSE
    OBVIOUS
  <2>1. PICK end \in {"failed", "interrupted"} : records' = Trim(Save([Current EXCEPT !.status =
          end]))
    BY DEF Fails
  <2> QED
    BY <1>4, <2>1
<1>6. Verified => Verdict = records'[1].status
  <2> SUFFICES ASSUME Verified PROVE Verdict = records'[1].status
    OBVIOUS
  <2>1. Verdict \in {"passed", "failed", "interrupted"}
    BY DEF Verdict
  <2>2. records' = Trim(Save([Current EXCEPT !.status = Verdict]))
    BY DEF Verified
  <2> QED
    BY <1>4, <2>1, <2>2
<1> QED
  BY <1>2, <1>5, <1>6

(* A verification passes (workflow.ts) only if every file was all along    *)
(* the one its record names, but for those brought back since the build.   *)
THEOREM PassesAreTrue == Spec => PassedTrue
<1> DEFINE Alright ==
      \A f \in File \ undone :
        pc = "after" /\ kind = "verify" /\ records' # records /\ records'[1].status = "passed"
          => <<Current.id, f>> \notin tainted
<1>1. IInv /\ [Next]_vars => Alright
  BY OnlyVerdict, VerdictFinds DEF IInv
<1>2. IInv /\ [Next]_vars => [Alright]_vars
  BY <1>1
<1> QED
  BY <1>2, Inductive, PTL DEF Spec, PassedTrue

(* Nothing but an answer that found no staleness makes a report fresh.     *)
LEMMA OnlyAnswer ==
  Shape /\ [Next]_vars /\ report.pc = "reading" /\ report'.pc = "fresh" =>
    Answer /\ ~Stale(report.record) /\ stamp = report.seen
<1> SUFFICES ASSUME Shape, [Next]_vars, report.pc = "reading", report'.pc = "fresh"
             PROVE  Answer /\ ~Stale(report.record) /\ stamp = report.seen
  OBVIOUS
<1>n. NoReport.pc = "none"
  BY DEF NoReport
<1> USE <1>n
<1>1. ASSUME NEW f \in File, Read(f) PROVE Answer /\ ~Stale(report.record) /\ stamp = report.seen
  BY <1>1 DEF Read
<1>2. ASSUME NEW f \in File, ReportRead(f) PROVE Answer /\ ~Stale(report.record) /\
               stamp = report.seen
  BY <1>2 DEF ReportRead
<1>3. CASE Before
  BY <1>3 DEF Before, Ready, Goes, Scan
<1>4. CASE Deploy
  BY <1>4 DEF Deploy, Goes, Scan
<1>5. CASE Deployed
  BY <1>5 DEF Deployed, Goes, Scan, Done, Fresh
<1>6. CASE Spoilt
  BY <1>6 DEF Spoilt, Done, Fresh
<1>7. CASE Stop
  BY <1>7 DEF Stop, Done, Fresh
<1>8. CASE Stamp
  BY <1>8 DEF Stamp, Done, Fresh
<1>9. CASE Select
  BY <1>9 DEF Select, Goes
<1>10. CASE Check
  BY <1>10 DEF Check
<1>11. CASE Checked
  BY <1>11 DEF Checked, Goes, Scan
<1>12. CASE Verified
  BY <1>12 DEF Verified, Done, Fresh
<1>13. CASE Fails
  BY <1>13 DEF Fails, Done, Fresh
<1>14. CASE Answer
  BY <1>14 DEF Answer
<1>15. CASE Answered
  BY <1>15 DEF Answered
<1>16. CASE Restart
  BY <1>16 DEF Restart
<1>17. ASSUME NEW k \in {"ensure", "verify", "deploy", "down"}, Call(k) PROVE Answer /\
                ~Stale(report.record) /\ stamp = report.seen
  BY <1>17 DEF Call
<1>18. ASSUME NEW f \in File, Edit(f) PROVE Answer /\ ~Stale(report.record) /\ stamp = report.seen
  BY <1>18 DEF Edit
<1>19. ASSUME NEW f \in File, Sync(f) PROVE Answer /\ ~Stale(report.record) /\ stamp = report.seen
  BY <1>19 DEF Sync
<1>20. CASE Exit
  BY <1>20 DEF Exit
<1>21. CASE Report
  BY <1>21 DEF Report
<1>22. CASE Crash
  BY <1>22 DEF Crash, Done, Fresh
<1>23. CASE UNCHANGED vars
  BY <1>23 DEF vars
<1> QED
  BY <1>1, <1>2, <1>3, <1>4, <1>5, <1>6, <1>7, <1>8, <1>9, <1>10, <1>11, <1>12, <1>13, <1>14,
      <1>15, <1>16, <1>17, <1>18, <1>19, <1>20, <1>21, <1>22, <1>23
     DEF Next, Progress, World

(* A report that calls evidence fresh (workflow.ts) speaks of what was     *)
(* verified, and of the source as it is if it has not changed since it was *)
(* read, but for files brought back since the build.                       *)
THEOREM ReportsAreTrue == Spec => ReportTrue
<1> DEFINE Alright ==
      report.pc = "reading" /\ report'.pc = "fresh" =>
        /\ report.record.generation = generation
        /\ \A f \in File \ undone :
             /\ <<report.record.id, f>> \notin tainted
             /\ src[f] = report.seen[f] => report.record.source[f] = src[f]
                                           /\ (up => running[f] = src[f])
<1>1. IInv /\ [Next]_vars => Alright
  <2> SUFFICES ASSUME IInv, [Next]_vars, report.pc = "reading", report'.pc = "fresh"
               PROVE  /\ report.record.generation = generation
                      /\ \A f \in File \ undone :
                           /\ <<report.record.id, f>> \notin tainted
                           /\ src[f] = report.seen[f] => report.record.source[f] = src[f]
                                                         /\ (up => running[f] = src[f])
    OBVIOUS
  <2>1. Answer /\ ~Stale(report.record) /\ stamp = report.seen
    BY OnlyAnswer DEF IInv
  <2>2. /\ report.record.status = "passed" /\ report.record.source = report.seen
        /\ report.record.generation = generation
    BY <2>1 DEF Stale
  <2>3. \A f \in File \ undone : <<report.record.id, f>> \notin tainted
    BY <2>2 DEF IInv, Reported, Sound
  <2>4. \A f \in File \ undone : src[f] = report.seen[f] => (up => running[f] = src[f])
    BY <2>1, Stamped DEF StampTrue
  <2> QED
    BY <2>2, <2>3, <2>4
<1>2. IInv /\ [Next]_vars => [Alright]_vars
  BY <1>1
<1> QED
  BY <1>2, Inductive, PTL DEF Spec, ReportTrue
------------------------------------------------------------------------------
(* The state, its truth values aside: what is kept, and where everyone is. *)
RecordTypes ==
  /\ env \in Entry /\ disk \in Entry /\ journal \in Journals
  /\ runs \in [App -> {"down", "local", "public"}]
ControlTypes ==
  /\ hub \in {"up", "down", "cloning", "tunnels", "configuring", "inspecting"}
  /\ exits \in 0 .. MaxExits
  /\ conn \in [Name -> {"none", "starting", "ready"}]
  /\ failures \subseteq Name
  /\ at \in Stages /\ names \subseteq Name
  /\ lease \in 0 .. Lease
  /\ conf \in [App -> {"done", "todo", "stopped", "failed"}]
  /\ owner \in {"none", "building", "deploying", "starting", "down", "deleting", "hold", "clone"}
TunnelTypes == RecordTypes /\ ControlTypes
TunnelFlags == {closing, enabled, aborted, moved, cancel} \subseteq BOOLEAN

(* Who has the environment's lock.                                         *)
Locked ==
  /\ at \in Starting \cup {"stopping", "restoring"} => owner = "none"
  /\ SessionOwnsServices
  /\ hub # "up" => at = "none" /\ owner = "none"

(* Applications are being configured only by a session or a recovery, and  *)
(* those that are done are no longer pending.                              *)
InConf == at \in {"preparing", "restoring"} \/ hub = "configuring"
Tasks ==
  /\ ~InConf => \A a \in App : conf[a] = "done"
  /\ InConf => \A a \in App : conf[a] = "done" => a \notin env.pending

(* What is on disk is what is in memory, but for the end of a recovery.    *)
Synced ==
  /\ hub # "inspecting" => env = disk
  /\ \/ Value(env) = Value(disk) /\ env.pending = disk.pending
     \/ /\ hub = "inspecting" /\ env.urls = "none" /\ env.pending = {}
        /\ \A a \in App : runs[a] = "down"
  /\ env.urls = "none" => env.pending = {}
  /\ disk.urls = "none" => disk.pending = {}

(* A clone that was interrupted blocks deploys, and the rest of recovery.  *)
Blocked ==
  /\ journal # NoJournal =>
       /\ hub \notin {"tunnels", "configuring", "inspecting"}
       /\ owner \notin {"building", "deploying", "starting"}
  /\ owner = "clone" => journal # NoJournal

(* Nothing runs of an environment that is stopped, or will be so again.    *)
StoppedDown ==
  /\ env.status = "stopped" \/ disk.status = "stopped" =>
       at = "none" /\ \A a \in App : runs[a] = "down"
  /\ journal.original = "stopped" =>
       /\ at = "none" /\ env.status # "running"
       /\ journal.writers = {} /\ \A a \in App : runs[a] = "down"
  /\ hub = "configuring" \/ owner \in {"deploying", "starting"} => env.status # "stopped"
  /\ owner = "down" => at = "none" /\ env.status # "running"

(* What all these speak of, the types aside.  Steps of the session between *)
(* its saves move it only in its stages; others change none of it.         *)
core == <<hub, recordVars, journal, runs, at, conf, owner>>
Walking == AskLock \/ Enter \/ Enable \/ Watch \/ Reconnected
Aside ==
  \/ \E n \in Name : ConnReady(n) \/ ConnExit(n)
  \/ End \/ Watchdog \/ Shutdown \/ Renew \/ Tick \/ Checkout \/ CleanupTimeout
  \/ UNCHANGED tunnelVars

TunnelIInv ==
  /\ TunnelTypes /\ TunnelFlags /\ Locked /\ Tasks /\ Synced /\ Blocked /\ StoppedDown
  /\ IntentJournaled

(* What is set in a record is in it, and nothing else changes.             *)
LEMMA StatusSet ==
  ASSUME NEW e \in Entry, NEW s \in Status
  PROVE  /\ SetStatus(e, s) \in Entry /\ SetStatus(e, s).status = s
         /\ SetStatus(e, s).error = e.error /\ SetStatus(e, s).urls = e.urls
         /\ SetStatus(e, s).pending = e.pending /\ SetStatus(e, s).endpoints = e.endpoints
BY DEF SetStatus, Entry

(* Its Error alone.                                                        *)
LEMMA ErrorSet ==
  ASSUME NEW e \in Entry, NEW t \in {"", "tunnel", "other"}
  PROVE  /\ SetError(e, t) \in Entry /\ SetError(e, t).error = t
         /\ SetError(e, t).status = e.status /\ SetError(e, t).urls = e.urls
         /\ SetError(e, t).pending = e.pending /\ SetError(e, t).endpoints = e.endpoints
BY DEF SetError, Entry

(* The URLs of its tunnel_configuration alone.                             *)
LEMMA UrlsSet ==
  ASSUME NEW e \in Entry, NEW u \in {"none", "local", "public"}
  PROVE  /\ SetUrls(e, u) \in Entry /\ SetUrls(e, u).urls = u
         /\ SetUrls(e, u).status = e.status /\ SetUrls(e, u).error = e.error
         /\ SetUrls(e, u).pending = e.pending /\ SetUrls(e, u).endpoints = e.endpoints
BY DEF SetUrls, Entry

(* What that configuration has pending, alone.                             *)
LEMMA PendingSet ==
  ASSUME NEW e \in Entry, NEW p \in SUBSET App
  PROVE  /\ SetPending(e, p) \in Entry /\ SetPending(e, p).pending = p
         /\ SetPending(e, p).status = e.status /\ SetPending(e, p).error = e.error
         /\ SetPending(e, p).urls = e.urls /\ SetPending(e, p).endpoints = e.endpoints
BY DEF SetPending, Entry

(* Its endpoints alone.                                                    *)
LEMMA EndpointsSet ==
  ASSUME NEW e \in Entry, NEW ns \in SUBSET Name
  PROVE  /\ SetEndpoints(e, ns) \in Entry /\ SetEndpoints(e, ns).endpoints = ns
         /\ SetEndpoints(e, ns).status = e.status /\ SetEndpoints(e, ns).error = e.error
         /\ SetEndpoints(e, ns).urls = e.urls /\ SetEndpoints(e, ns).pending = e.pending
BY DEF SetEndpoints, Entry

(* What a record, and a clone's journal, hold.                             *)
LEMMA EntryTypes ==
  ASSUME NEW e \in Entry
  PROVE  /\ e.status \in Status /\ e.error \in {"", "tunnel", "other"}
         /\ e.urls \in {"none", "local", "public"}
         /\ e.pending \in SUBSET App /\ e.endpoints \in SUBSET Name
BY DEF Entry

(* The URLs a record gives depend on its `urls` only.                      *)
LEMMA Values ==
  ASSUME NEW e \in Entry
  PROVE  /\ Value(e) \in {"local", "public"} /\ (e.urls # "public" => Value(e) = "local")
         /\ \A f : f.urls = e.urls => Value(f) = Value(e)
BY DEF Value

(* A journal holds what it was made of; one that is pending differs from   *)
(* none.                                                                   *)
LEMMA JournalFields ==
  /\ \A o, W : Journal(o, W).original = o /\ Journal(o, W).writers = W
  /\ \A o \in Status, W \in SUBSET App : Journal(o, W) \in Journals /\ Journal(o, W) # NoJournal
  /\ NoJournal \in Journals /\ NoJournal.original = "none" /\ NoJournal.writers = {}
  /\ \A j \in Journals : j.writers \in SUBSET App /\ (j # NoJournal => j.original \in Status)
<1>1. \A o, W : Journal(o, W).original = o /\ Journal(o, W).writers = W
  BY DEF Journal
<1>2. NoJournal \in Journals /\ NoJournal.original = "none" /\ NoJournal.writers = {}
  BY DEF Journal, NoJournal, Journals
<1>3. \A o \in Status, W \in SUBSET App : Journal(o, W) \in Journals
  BY DEF Journal, Journals
<1>4. "none" \notin Status
  BY DEF Status
<1>5. ASSUME NEW j \in Journals
      PROVE  j.writers \in SUBSET App /\ (j # NoJournal => j.original \in Status)
  <2>1. CASE j = NoJournal
    BY <1>2, <2>1
  <2>2. CASE j \in [original : Status, writers : SUBSET App]
    BY <2>2
  <2> QED BY <2>1, <2>2 DEF Journals
<1> QED BY <1>1, <1>2, <1>3, <1>4, <1>5

(* A save that leaves the URLs and what is pending as they are.            *)
Keeps ==
  /\ env' \in Entry /\ disk' = env'
  /\ env'.urls = env.urls /\ env'.pending = env.pending /\ Value(env') = Value(env)

LEMMA KeptSaved ==
  ASSUME RecordTypes, NEW f \in Entry, f.urls = env.urls, f.pending = env.pending, Saved(f)
  PROVE  Keeps
BY Values DEF RecordTypes, Saved, Keeps

(* Its Status set and saved.                                               *)
LEMMA StatusSaved ==
  ASSUME RecordTypes, NEW s \in Status, Saved(SetStatus(env, s))
  PROVE  Keeps /\ env'.status = s
<1>1. Keeps
  BY StatusSet, KeptSaved DEF RecordTypes
<1> QED BY <1>1, StatusSet DEF RecordTypes, Saved

(* Its Error set and saved.                                                *)
LEMMA ErrorSaved ==
  ASSUME RecordTypes, NEW t \in {"", "tunnel", "other"}, Saved(SetError(env, t))
  PROVE  Keeps /\ env'.status = env.status
<1>1. Keeps
  BY ErrorSet, KeptSaved DEF RecordTypes
<1> QED BY <1>1, ErrorSet DEF RecordTypes, Saved

(* Both set and saved, as when a deploy ends or a clone is recovered.      *)
LEMMA StatusErrorSaved ==
  ASSUME RecordTypes, NEW t \in {"", "tunnel", "other"}, NEW s \in Status,
         Saved(SetStatus(SetError(env, t), s))
  PROVE  Keeps /\ env'.status = s
<1> DEFINE e == SetError(env, t)
<1>1. e \in Entry /\ e.urls = env.urls /\ e.pending = env.pending
  BY ErrorSet DEF RecordTypes
<1>2. Saved(SetStatus(e, s))
  OBVIOUS
<1> HIDE DEF e
<1>3. /\ SetStatus(e, s) \in Entry /\ SetStatus(e, s).status = s
      /\ SetStatus(e, s).urls = env.urls /\ SetStatus(e, s).pending = env.pending
  BY <1>1, StatusSet
<1>4. Keeps
  BY <1>2, <1>3, KeptSaved
<1> QED BY <1>2, <1>3, <1>4 DEF Saved

(* A failure recorded.                                                     *)
LEMMA FailedSaved ==
  ASSUME RecordTypes, NEW t \in {"", "tunnel", "other"}, Saved(Failed(env, t))
  PROVE  Keeps /\ env'.status = "failed"
<1>1. "failed" \in Status
  BY DEF Status
<1> QED BY <1>1, StatusErrorSaved DEF Failed

(* New endpoints recorded, when a deploy replaces the services.            *)
LEMMA EndpointsSaved ==
  ASSUME RecordTypes, NEW ns \in SUBSET Name, Saved(SetEndpoints(env, ns))
  PROVE  Keeps /\ env'.status = env.status
<1>1. Keeps
  BY EndpointsSet, KeptSaved DEF RecordTypes
<1> QED BY <1>1, EndpointsSet DEF RecordTypes, Saved

(* A deletion that is complete.                                            *)
LEMMA RemovedSaved ==
  ASSUME RecordTypes, Saved(SetStatus(SetEndpoints(env, {}), "removed"))
  PROVE  Keeps /\ env'.status = "removed"
<1> DEFINE e == SetEndpoints(env, {})
<1>1. e \in Entry /\ e.urls = env.urls /\ e.pending = env.pending
  BY EndpointsSet DEF RecordTypes
<1>2. Saved(SetStatus(e, "removed")) /\ "removed" \in Status
  BY DEF Status
<1> HIDE DEF e
<1>3. /\ SetStatus(e, "removed") \in Entry /\ SetStatus(e, "removed").status = "removed"
      /\ SetStatus(e, "removed").urls = env.urls /\ SetStatus(e, "removed").pending = env.pending
  BY <1>1, <1>2, StatusSet
<1>4. Keeps
  BY <1>2, <1>3, KeptSaved
<1> QED BY <1>2, <1>3, <1>4 DEF Saved

(* A save that takes an application, or all, off what is pending.          *)
LEMMA PendingSaved ==
  ASSUME RecordTypes, NEW p \in SUBSET App, Saved(SetPending(env, p))
  PROVE  /\ env' \in Entry /\ disk' = env' /\ env'.pending = p
         /\ env'.status = env.status /\ env'.urls = env.urls /\ Value(env') = Value(env)
<1>1. /\ env' \in Entry /\ disk' = env' /\ env'.pending = p
      /\ env'.status = env.status /\ env'.urls = env.urls
  BY PendingSet DEF RecordTypes, Saved
<1> QED BY <1>1, Values DEF RecordTypes

(* A configuration that only gives local URLs may go: the URLs are the     *)
(* same without it.                                                        *)
LEMMA RestoredFields ==
  ASSUME NEW e \in Entry
  PROVE  /\ Restored(e) \in Entry /\ Restored(e).status = e.status
         /\ Restored(e).pending = e.pending /\ Restored(e).error = e.error
         /\ Value(Restored(e)) = Value(e) /\ (e.urls = "none" => Restored(e).urls = "none")
<1>1. CASE e.urls = "local"
  <2>1. Restored(e) = SetUrls(e, "none")
    BY <1>1 DEF Restored
  <2>2. /\ SetUrls(e, "none") \in Entry /\ SetUrls(e, "none").urls = "none"
        /\ SetUrls(e, "none").status = e.status /\ SetUrls(e, "none").pending = e.pending
        /\ SetUrls(e, "none").error = e.error
    BY UrlsSet
  <2> QED BY <1>1, <2>1, <2>2, Values
<1>2. CASE e.urls # "local"
  BY <1>2 DEF Restored
<1> QED BY <1>1, <1>2

(* Either an application would be given the URLs it was given before, or   *)
(* every application is marked pending.                                    *)
LEMMA MarkedFields ==
  ASSUME NEW e \in Entry, NEW u \in {"local", "public"}
  PROVE  /\ Marked(e, u) \in Entry /\ Marked(e, u).status = e.status /\ Marked(e, u).urls = u
         /\ \/ Value(Marked(e, u)) = Value(e) /\ Marked(e, u).pending = e.pending
            \/ Marked(e, u).pending = App
<1> DEFINE c == SetUrls(e, u)
<1>1. c \in Entry /\ c.status = e.status /\ c.urls = u /\ c.pending = e.pending
  BY UrlsSet
<1>2. Marked(e, u) = IF Value(c) # Value(e) THEN SetPending(c, App) ELSE c
  BY DEF Marked
<1> HIDE DEF c
<1>3. /\ SetPending(c, App) \in Entry /\ SetPending(c, App).status = e.status
      /\ SetPending(c, App).urls = u /\ SetPending(c, App).pending = App
  BY <1>1, PendingSet
<1> QED BY <1>1, <1>2, <1>3

(* So a configuration that begins has on disk what it will restart.        *)
LEMMA ConfigureEffect ==
  ASSUME RecordTypes, NEW u \in {"local", "public"}, Configure(u)
  PROVE  /\ env' \in Entry /\ disk' = env' /\ env'.status = env.status /\ env'.urls = u
         /\ \/ Value(env') = Value(env) /\ env'.pending = env.pending
            \/ env'.pending = App
         /\ conf' = [a \in App |-> IF a \in env'.pending THEN "todo" ELSE "done"]
<1>1. /\ env' = Marked(env, u) /\ disk' = env'
      /\ conf' = [a \in App |-> IF a \in env'.pending THEN "todo" ELSE "done"]
  BY DEF Configure, Saved
<1> QED BY <1>1, MarkedFields DEF RecordTypes

(* A stop of the services takes the configuration with it.                 *)
LEMMA StoppedSaved ==
  ASSUME RecordTypes, NEW t \in {"", "tunnel", "other"}, Saved(SetError(StoppedLocally(env), t))
  PROVE  /\ env' \in Entry /\ disk' = env' /\ env'.urls = "none" /\ env'.pending = {}
         /\ env'.status \in {"stopped", "deleting"} /\ Value(env') = "local"
<1> DEFINE u == SetUrls(env, "none")
           p == SetPending(u, {})
           s == IF env.status = "deleting" THEN "deleting" ELSE "stopped"
           e == SetStatus(p, s)
<1>1. u \in Entry /\ u.urls = "none"
  BY UrlsSet DEF RecordTypes
<1> HIDE DEF u
<1>2. p \in Entry /\ p.urls = "none" /\ p.pending = {}
  BY <1>1, PendingSet
<1>3. s \in Status /\ s \in {"stopped", "deleting"}
  BY DEF Status
<1> HIDE DEF p, s
<1>4. e \in Entry /\ e.urls = "none" /\ e.pending = {} /\ e.status = s
  BY <1>2, <1>3, StatusSet
<1>5. env' = SetError(e, t) /\ disk' = env'
  BY DEF Saved, StoppedLocally, e, s, p, u
<1> HIDE DEF e
<1>6. env' \in Entry /\ env'.urls = "none" /\ env'.pending = {} /\ env'.status = s
  BY <1>4, <1>5, ErrorSet
<1> QED BY <1>3, <1>5, <1>6, Values

(* And so does a recovery that needs none.                                 *)
LEMMA ClearedFields ==
  ASSUME NEW e \in Entry
  PROVE  /\ SetPending(SetUrls(e, "none"), {}) \in Entry
         /\ SetPending(SetUrls(e, "none"), {}).status = e.status
         /\ SetPending(SetUrls(e, "none"), {}).urls = "none"
         /\ SetPending(SetUrls(e, "none"), {}).pending = {}
<1> DEFINE u == SetUrls(e, "none")
<1>1. u \in Entry /\ u.urls = "none" /\ u.status = e.status
  BY UrlsSet
<1> HIDE DEF u
<1>2. SetPending(u, {}) \in Entry /\ SetPending(u, {}).status = e.status
      /\ SetPending(u, {}).urls = "none" /\ SetPending(u, {}).pending = {}
  BY <1>1, PendingSet
<1> QED BY <1>2 DEF u

(* The save of a configuration that is complete.                           *)
LEMMA RestoredSaved ==
  ASSUME RecordTypes, Saved(Restored(env))
  PROVE  /\ env' \in Entry /\ disk' = env' /\ env'.pending = env.pending
         /\ env'.status = env.status /\ Value(env') = Value(env)
         /\ (env.urls = "none" => env'.urls = "none")
BY RestoredFields DEF RecordTypes, Saved

(* The recovery of a clone leaves a stopped environment alone, resumes     *)
(* what the journal names, or fails and keeps a journal of the rest.       *)
LEMMA RecoverSourceEffect ==
  ASSUME RecordTypes, journal # NoJournal, RecoverSource
  PROVE  /\ Keeps /\ journal' \in Journals
         /\ \/ /\ env.status = "stopped" /\ env'.status = "stopped"
               /\ journal' = NoJournal /\ runs' = runs
            \/ /\ env.status # "stopped" /\ env'.status = journal.original
               /\ journal' = NoJournal /\ Resumed(journal.writers)
            \/ /\ env'.status = "failed" /\ journal' # NoJournal
               /\ journal'.original = journal.original /\ journal'.writers \subseteq journal.writers
               /\ \E W \in SUBSET journal.writers : Resumed(W)
<1>1. journal \in Journals /\ journal.original \in Status /\ journal.writers \in SUBSET App
  BY JournalFields DEF RecordTypes
<1>2. CASE /\ env.status = "stopped" /\ Saved(SetError(env, "")) /\ journal' = NoJournal
           /\ UNCHANGED runs
  BY <1>2, ErrorSaved, JournalFields
<1>3. CASE /\ env.status # "stopped" /\ Saved(SetStatus(SetError(env, ""), journal.original))
           /\ journal' = NoJournal /\ Resumed(journal.writers)
  BY <1>1, <1>3, StatusErrorSaved, JournalFields
<1>4. ASSUME Saved(Failed(env, "other")), NEW W \in SUBSET journal.writers, Resumed(W),
             NEW V \in SUBSET W, journal' = Journal(journal.original, journal.writers \ V)
      PROVE  /\ Keeps /\ env'.status = "failed" /\ journal' \in Journals /\ journal' # NoJournal
             /\ journal'.original = journal.original /\ journal'.writers \subseteq journal.writers
  <2>1. Keeps /\ env'.status = "failed"
    BY <1>4, FailedSaved
  <2>2. journal.writers \ V \in SUBSET App
    BY <1>1
  <2> QED BY <1>1, <1>4, <2>1, <2>2, JournalFields
<1> QED BY <1>2, <1>3, <1>4 DEF RecoverSource

(* The end of the recovery of a configuration: saved, or failed in memory  *)
(* only.                                                                   *)
LEMMA RecoverConfiguredEffect ==
  ASSUME RecordTypes, RecoverConfigured
  PROVE  /\ env' \in Entry /\ disk' \in Entry
         /\ env'.pending = env.pending /\ Value(env') = Value(env)
         /\ (env.urls = "none" => env'.urls = "none")
         /\ \/ /\ ~ConfFailed /\ disk'.pending = env.pending /\ Value(disk') = Value(env)
               /\ disk'.urls = env'.urls /\ disk'.status = env.status
               /\ env'.status \in {env.status, "running"}
            \/ ConfFailed /\ disk' = disk /\ env'.status = "failed" /\ env'.urls = env.urls
<1> DEFINE e == Restored(env)
<1>1. /\ e \in Entry /\ e.status = env.status /\ e.pending = env.pending /\ Value(e) = Value(env)
      /\ (env.urls = "none" => e.urls = "none")
  BY RestoredFields DEF RecordTypes
<1>2. \/ /\ ~ConfFailed /\ disk' = e
         /\ env' = IF e.error = "tunnel" THEN SetStatus(SetError(e, ""), "running") ELSE e
      \/ ConfFailed /\ env' = SetStatus(SetError(env, "tunnel"), "failed") /\ disk' = disk
  BY DEF RecoverConfigured, UpTo, Failed
<1> HIDE DEF e
<1>3. /\ SetError(e, "") \in Entry /\ SetError(e, "").status = e.status
      /\ SetError(e, "").urls = e.urls /\ SetError(e, "").pending = e.pending
  BY <1>1, ErrorSet
<1>4. "running" \in Status /\ "failed" \in Status
  BY DEF Status
<1>5. /\ SetStatus(SetError(e, ""), "running") \in Entry
      /\ SetStatus(SetError(e, ""), "running").status = "running"
      /\ SetStatus(SetError(e, ""), "running").urls = e.urls
      /\ SetStatus(SetError(e, ""), "running").pending = e.pending
  BY <1>3, <1>4, StatusSet
<1>6. /\ SetError(env, "tunnel") \in Entry
      /\ SetError(env, "tunnel").urls = env.urls /\ SetError(env, "tunnel").pending = env.pending
  BY ErrorSet DEF RecordTypes
<1>7. /\ SetStatus(SetError(env, "tunnel"), "failed") \in Entry
      /\ SetStatus(SetError(env, "tunnel"), "failed").status = "failed"
      /\ SetStatus(SetError(env, "tunnel"), "failed").urls = env.urls
      /\ SetStatus(SetError(env, "tunnel"), "failed").pending = env.pending
  BY <1>4, <1>6, StatusSet
<1>8. CASE /\ ~ConfFailed /\ disk' = e
           /\ env' = IF e.error = "tunnel" THEN SetStatus(SetError(e, ""), "running") ELSE e
  <2>1. /\ env' \in Entry /\ env'.urls = e.urls /\ env'.pending = e.pending
        /\ env'.status \in {env.status, "running"}
    BY <1>1, <1>5, <1>8
  <2>2. Value(env') = Value(e)
    BY <1>1, <2>1, Values
  <2> QED BY <1>1, <1>8, <2>1, <2>2
<1>9. CASE ConfFailed /\ env' = SetStatus(SetError(env, "tunnel"), "failed") /\ disk' = disk
  <2>1. Value(env') = Value(env)
    BY <1>7, <1>9, Values DEF RecordTypes
  <2> QED BY <1>7, <1>9, <2>1 DEF RecordTypes
<1> QED BY <1>2, <1>8, <1>9

(* The watchdog, the lease, the connectors and what the user does touch    *)
(* neither the records nor the processes of applications.                  *)
LEMMA AsideEffect ==
  Aside => UNCHANGED core
<1> SUFFICES ASSUME Aside PROVE UNCHANGED core
  OBVIOUS
<1>1. ASSUME NEW n \in Name, ConnReady(n) \/ ConnExit(n) PROVE UNCHANGED core
  BY <1>1 DEF ConnReady, ConnExit, core, hubVars, sessionVars, taskVars
<1>2. CASE End \/ Watchdog \/ Shutdown
  BY <1>2 DEF End, Watchdog, Shutdown, core, hubVars
<1>3. CASE Renew \/ Tick \/ Checkout \/ CleanupTimeout
  BY <1>3 DEF Renew, Tick, Checkout, CleanupTimeout, core, hubVars, sessionVars, taskVars
<1>4. CASE UNCHANGED tunnelVars
  BY <1>4 DEF tunnelVars, core, hubVars, sessionVars, taskVars
<1> QED BY <1>1, <1>2, <1>3, <1>4 DEF Aside

(* The steps of the session between its saves touch no record and no       *)
(* process.                                                                *)
LEMMA WalkEffect ==
  Walking =>
    /\ UNCHANGED <<hub, recordVars, journal, runs, owner>>
    /\ {at, at'} \cap {"none", "preparing", "restoring"} = {}
    /\ conf' = conf \/ conf' = [a \in App |-> "done"]
<1> DEFINE P == /\ UNCHANGED <<hub, recordVars, journal, runs, owner>>
                /\ {at, at'} \cap {"none", "preparing", "restoring"} = {}
                /\ conf' = conf \/ conf' = [a \in App |-> "done"]
<1> SUFFICES ASSUME Walking PROVE P
  OBVIOUS
<1>1. CASE AskLock
  BY <1>1 DEF AskLock, Cleanup, NoTasks, taskVars, hubVars
<1>2. CASE Enter
  BY <1>2 DEF Enter, Cleanup, NoTasks, taskVars, hubVars
<1>3. CASE Enable
  BY <1>3 DEF Enable, Cleanup, NoTasks, taskVars, hubVars
<1>4. CASE Watch
  BY <1>4 DEF Watch, Cleanup, NoTasks, taskVars, hubVars
<1>5. CASE Reconnected
  BY <1>5 DEF Reconnected, Cleanup, NoTasks, taskVars, hubVars
<1> QED BY <1>1, <1>2, <1>3, <1>4, <1>5 DEF Walking

(* An application starts with the URLs the record gives and is no longer   *)
(* pending, or its start fails.                                            *)
LEMMA ConfStartEffect ==
  ASSUME RecordTypes, ControlTypes, NEW a \in App, ConfStart(a)
  PROVE  /\ UNCHANGED <<hub, journal, at, owner>> /\ conf[a] = "stopped"
         /\ runs' \in [App -> {"down", "local", "public"}]
         /\ \A b \in App \ {a} : runs'[b] = runs[b] /\ conf'[b] = conf[b]
         /\ \/ /\ conf'[a] = "done" /\ runs'[a] = Value(env)
               /\ env' \in Entry /\ disk' = env' /\ env'.pending = env.pending \ {a}
               /\ env'.status = env.status /\ env'.urls = env.urls /\ Value(env') = Value(env)
            \/ /\ conf'[a] = "failed" /\ runs'[a] \in {runs[a], Value(env)}
               /\ UNCHANGED <<env, disk>>
<1>1. UNCHANGED <<hub, journal, at, owner>> /\ conf[a] = "stopped"
  BY DEF ConfStart, hubVars, sessionVars
<1>2. Value(env) \in {"local", "public"} /\ env.pending \ {a} \in SUBSET App
  BY Values, EntryTypes DEF RecordTypes
<1>3. runs' \in {runs, [runs EXCEPT ![a] = Value(env)]}
  BY DEF ConfStart, ConfStarted
<1>4. /\ runs' \in [App -> {"down", "local", "public"}]
      /\ \A b \in App \ {a} : runs'[b] = runs[b]
      /\ runs'[a] \in {runs[a], Value(env)}
  BY <1>2, <1>3 DEF RecordTypes
<1>5. CASE ConfStarted(a)
  <2>1. conf'[a] = "done" /\ \A b \in App \ {a} : conf'[b] = conf[b]
    BY <1>5 DEF ConfStarted, ControlTypes
  <2>2. runs'[a] = Value(env)
    BY <1>5 DEF ConfStarted, RecordTypes
  <2>3. Saved(SetPending(env, env.pending \ {a}))
    BY <1>5 DEF ConfStarted
  <2> QED BY <1>1, <1>2, <1>4, <2>1, <2>2, <2>3, PendingSaved
<1>6. CASE conf' = [conf EXCEPT ![a] = "failed"] /\ UNCHANGED recordVars
  <2>1. conf'[a] = "failed" /\ \A b \in App \ {a} : conf'[b] = conf[b]
    BY <1>6 DEF ControlTypes
  <2> QED BY <1>1, <1>4, <1>6, <2>1 DEF recordVars
<1> QED BY <1>5, <1>6 DEF ConfStart

(* A clone writes down every application that runs, and stops it.          *)
LEMMA CloneEffect ==
  ASSUME RecordTypes, Clone
  PROVE  /\ UNCHANGED <<hub, env, disk, at, conf>> /\ hub = "up"
         /\ owner = "none" /\ owner' = "clone"
         /\ journal' \in Journals /\ journal' # NoJournal
         /\ journal'.original = env.status
         /\ journal'.writers = {a \in App : runs[a] # "down"}
         /\ runs' = [a \in App |-> "down"]
<1>1. /\ UNCHANGED <<hub, env, disk, at, conf>> /\ hub = "up" /\ owner = "none" /\ owner' = "clone"
      /\ journal' = Journal(env.status, {a \in App : runs[a] # "down"})
      /\ runs' = [a \in App |-> "down"]
  BY DEF Clone, Idle, Up, LockFree, hubVars, recordVars, sessionVars, taskVars
<1>2. env.status \in Status /\ {a \in App : runs[a] # "down"} \in SUBSET App
  BY EntryTypes DEF RecordTypes
<1> QED BY <1>1, <1>2, JournalFields

(* Who has the lock: a step that wants it waits until it is free, and the  *)
(* session gives it back only once it shares or is gone.                   *)
LEMMA LockedStep ==
  ControlTypes /\ Locked /\ [TunnelNext]_tunnelVars => Locked'
<1> SUFFICES ASSUME ControlTypes, Locked, [TunnelNext]_tunnelVars PROVE Locked'
  OBVIOUS
<1>1. CASE Aside
  BY <1>1, AsideEffect DEF Locked, SessionOwnsServices, core
<1>2. CASE AskLock
  BY <1>2 DEF AskLock, Go, Cleanup, hubVars, NoTasks, Locked, Starting, SessionOwnsServices,
      Sharing, ControlTypes
<1>3. CASE Enter
  BY <1>3 DEF Enter, Cleanup, LockFree, hubVars, recordVars, Starting, Locked,
      SessionOwnsServices, Sharing
<1>4. CASE Reserve
  BY <1>4 DEF Reserve, hubVars, Locked, Starting, SessionOwnsServices
<1>5. CASE Prepared
  BY <1>5 DEF Prepared, hubVars, Locked, Starting, SessionOwnsServices
<1>6. CASE Enable
  BY <1>6 DEF Enable, hubVars, Locked, Starting, SessionOwnsServices, Sharing
<1>7. CASE Watch
  BY <1>7 DEF Watch, Cleanup, Go, hubVars, recordVars, Locked, Starting, SessionOwnsServices,
      Sharing
<1>8. CASE Reconnected
  BY <1>8 DEF Reconnected, Go, taskVars, Cleanup, hubVars, ConfSettled, Locked, Starting,
      SessionOwnsServices, Sharing
<1>9. CASE LockForCleanup
  BY <1>9 DEF LockForCleanup, LockFree, Go, CleanupFailed, hubVars, connVars, Starting, NoSession,
      NoTasks, Locked, SessionOwnsServices, Sharing, ControlTypes
<1>10. CASE StopConnectors
  BY <1>10 DEF StopConnectors, hubVars, Locked, SessionOwnsServices
<1>11. CASE RestoreEnds
  BY <1>11 DEF RestoreEnds, hubVars, Locked, SessionOwnsServices
<1>12. ASSUME NEW a \in App, ConfSkip(a) PROVE Locked'
  BY <1>12 DEF ConfSkip, hubVars, sessionVars, Locked, SessionOwnsServices
<1>13. ASSUME NEW a \in App, ConfStop(a) PROVE Locked'
  BY <1>13 DEF ConfStop, hubVars, sessionVars, Locked, SessionOwnsServices
<1>14. ASSUME NEW a \in App, ConfStart(a) PROVE Locked'
  BY <1>14 DEF ConfStart, hubVars, sessionVars, Locked, SessionOwnsServices, Sharing
<1>15. CASE DeployStops
  BY <1>15 DEF DeployStops, others, hubVars, connVars, sessionVars, taskVars, Locked, Starting,
      SessionOwnsServices, Sharing, ControlTypes, Stages, Ending, core
<1>16. CASE DeployEnds
  BY <1>16 DEF DeployEnds, others, hubVars, connVars, sessionVars, taskVars, Locked, Starting,
      SessionOwnsServices, Sharing, ControlTypes, Stages, Ending, core
<1>17. ASSUME NEW e \in SUBSET Name, DeployStarts(e) PROVE Locked'
  BY <1>17 DEF DeployStarts, others, hubVars, sessionVars, Locked, SessionOwnsServices
<1>18. CASE DownStops
  BY <1>18 DEF DownStops, others, hubVars, connVars, sessionVars, taskVars, Locked, Starting,
      SessionOwnsServices, Sharing, ControlTypes, Stages, Ending, core
<1>19. CASE DownFails
  BY <1>19 DEF DownFails, others, hubVars, Locked, SessionOwnsServices, Sharing
<1>20. CASE DownDeletes
  BY <1>20 DEF DownDeletes, recordVars, others, hubVars, connVars, sessionVars, taskVars, Locked,
      Starting, SessionOwnsServices, Sharing, ControlTypes, Stages, Ending, core
<1>21. CASE Leave
  BY <1>21 DEF Leave, others, hubVars, Locked, SessionOwnsServices
<1>22. CASE CloneEnds
  BY <1>22 DEF CloneEnds, hubVars, Locked, SessionOwnsServices
<1>23. CASE RecoverClone
  BY <1>23 DEF RecoverClone, sessionVars, Locked, SessionOwnsServices
<1>24. CASE RecoverTunnel
  BY <1>24 DEF RecoverTunnel, sessionVars, Locked, SessionOwnsServices
<1>25. CASE RecoverConfigured
  BY <1>25 DEF RecoverConfigured, ConfSettled, ConfFailed, NoTasks, connVars, sessionVars, Locked,
      Starting, SessionOwnsServices, Sharing, ControlTypes, Stages, Ending, core
<1>26. CASE RecoverStatus
  BY <1>26 DEF RecoverStatus, Locked, SessionOwnsServices
<1>27. CASE Open
  BY <1>27 DEF Open, Up, hubVars, Locked, Starting, SessionOwnsServices, Sharing
<1>28. CASE BeginDeploy
  BY <1>28 DEF BeginDeploy, Idle, DeployRefusal, others, recordVars, Up, LockFree, hubVars,
      connVars, sessionVars, taskVars, Starting, Locked, SessionOwnsServices, Sharing
<1>29. ASSUME NEW s \in {"stopping", "deleting"}, Down(s) PROVE Locked'
  BY <1>29 DEF Down, Idle, others, Up, LockFree, hubVars, connVars, sessionVars, taskVars,
      Starting, Locked, SessionOwnsServices, Sharing
<1>30. CASE Hold
  BY <1>30 DEF Hold, Idle, others, recordVars, Up, LockFree, hubVars, connVars, sessionVars,
      Locked, SessionOwnsServices
<1>31. CASE Clone
  BY <1>31 DEF Clone, Idle, hubVars, sessionVars, taskVars, Up, LockFree, Starting, Locked,
      SessionOwnsServices, Sharing
<1>32. CASE HubExits
  BY <1>32 DEF HubExits, NoSession, Locked, SessionOwnsServices
<1>33. CASE Start
  BY <1>33 DEF Start, sessionVars, Locked, SessionOwnsServices
<1> QED
  BY <1>1, <1>2, <1>3, <1>4, <1>5, <1>6, <1>7, <1>8, <1>9, <1>10, <1>11, <1>12, <1>13, <1>14,
      <1>15, <1>16, <1>17, <1>18, <1>19, <1>20, <1>21, <1>22, <1>23, <1>24, <1>25, <1>26, <1>27,
        <1>28, <1>29, <1>30, <1>31, <1>32, <1>33
     DEF TunnelNext, Session, Configuring, Connecting, Working, Recovering, Aside

(* Where everyone is, and what counts, keep their types.                   *)
LEMMA ControlTypesStep ==
  RecordTypes /\ ControlTypes /\ Locked /\ [TunnelNext]_tunnelVars => ControlTypes'
<1> SUFFICES ASSUME RecordTypes, ControlTypes, Locked, [TunnelNext]_tunnelVars PROVE ControlTypes'
  OBVIOUS
<1>1. CASE AskLock
  BY <1>1 DEF AskLock, Go, taskVars, Cleanup, hubVars, connVars, NoTasks, ControlTypes, Stages,
      Starting, Sharing, Ending
<1>2. CASE Enter
  BY <1>2 DEF Enter, Cleanup, Go, taskVars, hubVars, connVars, NoTasks, Starting, ControlTypes,
      Stages, Sharing, Ending
<1>3. CASE Reserve
  BY <1>3, ConfigureEffect DEF Reserve, Go, Cleanup, hubVars, NoTasks, ControlTypes, Stages,
      Starting, Sharing, Ending
<1>4. CASE Prepared
  BY <1>4 DEF Prepared, Go, NoTasks, Cleanup, recordVars, hubVars, connVars, ConfSettled,
      ControlTypes, Stages, Starting, Sharing, Ending
<1>5. CASE Enable
  BY <1>5 DEF Enable, Go, taskVars, Cleanup, hubVars, connVars, NoTasks, ControlTypes, Stages,
      Starting, Sharing, Ending
<1>6. CASE Watch
  BY <1>6 DEF Watch, Cleanup, Go, taskVars, NoTasks, hubVars, recordVars, ControlTypes, Stages,
      Starting, Sharing, Ending
<1>7. CASE Reconnected
  BY <1>7 DEF Reconnected, CanEnable, Go, taskVars, Missing, NoTasks, Cleanup, hubVars,
      recordVars, connVars, ConfSettled, ControlTypes, Stages, Starting, Sharing, Ending
<1>8. CASE LockForCleanup
  BY <1>8, TunnelAssumption DEF LockForCleanup, LockFree, Go, recordVars, taskVars, CleanupFailed,
      hubVars, connVars, Starting, NoSession, NoTasks, ControlTypes, Stages, Sharing, Ending
<1>9. CASE StopConnectors
  BY <1>9, TunnelAssumption, ConfigureEffect DEF StopConnectors, Go, NoSession, taskVars, hubVars,
      ControlTypes, Stages, Starting, Sharing, Ending
<1>10. CASE RestoreEnds
  BY <1>10, TunnelAssumption DEF RestoreEnds, NoSession, NoTasks, CleanupFailed, hubVars,
      connVars, ControlTypes, Stages, Starting, Sharing
<1>11. ASSUME NEW a \in App, ConfSkip(a) PROVE ControlTypes'
  BY <1>11 DEF ConfSkip, hubVars, connVars, sessionVars, ControlTypes
<1>12. ASSUME NEW a \in App, ConfStop(a) PROVE ControlTypes'
  BY <1>12 DEF ConfStop, hubVars, connVars, sessionVars, ControlTypes
<1>13. ASSUME NEW a \in App, ConfStart(a) PROVE ControlTypes'
  BY <1>13 DEF ConfStart, ConfStarted, hubVars, connVars, sessionVars, ControlTypes
<1>14. CASE DeployStops
  BY <1>14, TunnelAssumption DEF DeployStops, others, hubVars, connVars, sessionVars, taskVars,
      ControlTypes, Stages, Starting, Sharing, Ending
<1>15. CASE DeployEnds
  BY <1>15, TunnelAssumption DEF DeployEnds, others, hubVars, connVars, sessionVars, taskVars,
      ControlTypes, Stages, Starting, Sharing, Ending
<1>16. ASSUME NEW e \in SUBSET Name, DeployStarts(e) PROVE ControlTypes'
  BY <1>16 DEF DeployStarts, others, hubVars, connVars, sessionVars, taskVars, ControlTypes
<1>17. CASE DownStops
  BY <1>17, TunnelAssumption DEF DownStops, others, hubVars, connVars, sessionVars, taskVars,
      ControlTypes, Stages, Starting, Sharing, Ending
<1>18. CASE DownFails
  BY <1>18 DEF DownFails, others, hubVars, connVars, sessionVars, taskVars, ControlTypes
<1>19. CASE DownDeletes
  BY <1>19, TunnelAssumption DEF DownDeletes, recordVars, others, hubVars, connVars, sessionVars,
      taskVars, ControlTypes, Stages, Starting, Sharing, Ending
<1>20. CASE Leave
  BY <1>20 DEF Leave, others, hubVars, connVars, sessionVars, taskVars, ControlTypes
<1>21. CASE CloneEnds
  BY <1>21 DEF CloneEnds, hubVars, connVars, sessionVars, taskVars, ControlTypes
<1>22. CASE RecoverClone
  BY <1>22 DEF RecoverClone, connVars, sessionVars, taskVars, ControlTypes
<1>23. CASE RecoverTunnel
  BY <1>23, ConfigureEffect DEF RecoverTunnel, connVars, sessionVars, ControlTypes
<1>24. CASE RecoverConfigured
  BY <1>24, TunnelAssumption DEF RecoverConfigured, ConfSettled, ConfFailed, NoTasks, connVars,
      sessionVars, ControlTypes, Stages, Starting, Sharing, Ending
<1>25. CASE RecoverStatus
  BY <1>25 DEF RecoverStatus, connVars, sessionVars, taskVars, ControlTypes
<1>26. ASSUME NEW n \in Name, ConnReady(n) PROVE ControlTypes'
  BY <1>26 DEF ConnReady, hubVars, sessionVars, taskVars, ControlTypes
<1>27. ASSUME NEW n \in Name, ConnExit(n) PROVE ControlTypes'
  BY <1>27 DEF ConnExit, hubVars, sessionVars, ControlTypes
<1>28. CASE Open
  <2>1. env.endpoints \subseteq Name
    BY EntryTypes DEF RecordTypes
  <2>2. /\ UNCHANGED <<hub, exits, conn, conf, owner>> /\ at' = "opened"
        /\ names' = env.endpoints /\ lease' = Lease
    BY <1>28 DEF Open, hubVars, taskVars
  <2>3. failures' \subseteq failures
    BY <1>28 DEF Open, Reset
  <2> QED BY <2>1, <2>2, <2>3, TunnelAssumption DEF ControlTypes, Stages
<1>29. CASE End
  BY <1>29 DEF End, hubVars, connVars, ControlTypes
<1>30. CASE Watchdog
  BY <1>30 DEF Watchdog, hubVars, connVars, ControlTypes
<1>31. CASE Shutdown
  BY <1>31 DEF Shutdown, connVars, ControlTypes
<1>32. CASE Renew
  BY <1>32, TunnelAssumption DEF Renew, hubVars, connVars, taskVars, ControlTypes
<1>33. CASE Tick
  BY <1>33, TunnelAssumption DEF Tick, hubVars, connVars, taskVars, ControlTypes
<1>34. CASE Checkout
  BY <1>34 DEF Checkout, hubVars, connVars, taskVars, ControlTypes
<1>35. CASE CleanupTimeout
  BY <1>35 DEF CleanupTimeout, hubVars, connVars, sessionVars, ControlTypes
<1>36. CASE BeginDeploy
  BY <1>36 DEF BeginDeploy, others, LockFree, hubVars, connVars, sessionVars, taskVars, Starting,
      ControlTypes, Stages
<1>37. ASSUME NEW s \in {"stopping", "deleting"}, Down(s) PROVE ControlTypes'
  BY <1>37 DEF Down, others, hubVars, connVars, sessionVars, taskVars, Starting, ControlTypes,
      Stages
<1>38. CASE Hold
  BY <1>38 DEF Hold, others, hubVars, connVars, sessionVars, taskVars, Starting, ControlTypes
<1>39. CASE Clone
  BY <1>39 DEF Clone, hubVars, connVars, sessionVars, taskVars, LockFree, Starting, ControlTypes,
      Stages
<1>40. CASE HubExits
  BY <1>40, TunnelAssumption DEF HubExits, NoSession, NoTasks, ControlTypes, Stages
<1>41. CASE Start
  BY <1>41 DEF Start, connVars, sessionVars, taskVars, ControlTypes
<1>42. CASE UNCHANGED tunnelVars
  BY <1>42 DEF tunnelVars, hubVars, connVars, sessionVars, taskVars, ControlTypes
<1> QED
  BY <1>1, <1>2, <1>3, <1>4, <1>5, <1>6, <1>7, <1>8, <1>9, <1>10, <1>11, <1>12, <1>13, <1>14,
      <1>15, <1>16, <1>17, <1>18, <1>19, <1>20, <1>21, <1>22, <1>23, <1>24, <1>25, <1>26, <1>27,
        <1>28, <1>29, <1>30, <1>31, <1>32, <1>33, <1>34, <1>35, <1>36, <1>37, <1>38, <1>39, <1>40,
          <1>41, <1>42
     DEF TunnelNext, Session, Configuring, Connecting, Working, Recovering

(* So do the records, on disk as in memory, and the journal.               *)
LEMMA RecordTypesStep ==
  RecordTypes /\ Blocked /\ [TunnelNext]_tunnelVars => RecordTypes'
<1> SUFFICES ASSUME RecordTypes, Blocked, [TunnelNext]_tunnelVars PROVE RecordTypes'
  OBVIOUS
<1>1. CASE Aside
  BY <1>1, AsideEffect DEF RecordTypes, core, recordVars
<1>2. CASE Walking
  BY <1>2, WalkEffect DEF RecordTypes, recordVars
<1>3. CASE Reserve
  BY <1>3, ConfigureEffect DEF Reserve, recordVars, RecordTypes
<1>4. CASE Prepared
  BY <1>4, RestoredSaved DEF Prepared, recordVars, RecordTypes
<1>5. CASE LockForCleanup
  BY <1>5, FailedSaved DEF LockForCleanup, LockFree, recordVars, taskVars, CleanupFailed, hubVars,
      connVars, Starting, RecordTypes, Keeps
<1>6. CASE StopConnectors
  BY <1>6, ConfigureEffect DEF StopConnectors, recordVars, RecordTypes
<1>7. CASE RestoreEnds
  BY <1>7, RestoredSaved, FailedSaved DEF RestoreEnds, CleanupFailed, hubVars, connVars,
      RecordTypes, Keeps
<1>8. ASSUME NEW a \in App, ConfSkip(a) PROVE RecordTypes'
  BY <1>8 DEF ConfSkip, recordVars, RecordTypes
<1>9. ASSUME NEW a \in App, ConfStop(a) PROVE RecordTypes'
  BY <1>9 DEF ConfStop, recordVars, RecordTypes
<1>10. ASSUME NEW a \in App, ConfStart(a) PROVE RecordTypes'
  BY <1>10, PendingSaved, Values, EntryTypes DEF ConfStart, ConfStarted, recordVars, hubVars,
      connVars, sessionVars, RecordTypes
<1>11. CASE DeployStops
  BY <1>11, StatusErrorSaved DEF DeployStops, others, hubVars, connVars, sessionVars, taskVars,
      RecordTypes, Keeps, Status
<1>12. CASE DeployEnds
  BY <1>12, StatusErrorSaved, ErrorSaved, FailedSaved DEF DeployEnds, others, hubVars, connVars,
      sessionVars, taskVars, RecordTypes, Keeps, Status
<1>13. ASSUME NEW e \in SUBSET Name, DeployStarts(e) PROVE RecordTypes'
  BY <1>13, EndpointsSaved, Values DEF DeployStarts, Settled, others, RecordTypes, Keeps
<1>14. CASE DownStops
  BY <1>14, StoppedSaved DEF DownStops, others, hubVars, connVars, sessionVars, taskVars,
      RecordTypes
<1>15. CASE DownFails
  BY <1>15, ErrorSaved, Values DEF DownFails, others, hubVars, connVars, sessionVars, taskVars,
      RecordTypes, Keeps
<1>16. CASE DownDeletes
  BY <1>16, RemovedSaved DEF DownDeletes, recordVars, others, hubVars, connVars, sessionVars,
      taskVars, RecordTypes, Keeps
<1>17. CASE Leave
  BY <1>17 DEF Leave, others, recordVars, RecordTypes
<1>18. CASE CloneEnds
  <2>1. PICK W \in SUBSET App : Resumed(W) \/ runs' = runs
    BY <1>18, RecoverSourceEffect, JournalFields DEF CloneEnds, RecordTypes, Blocked
  <2>2. runs' \in [App -> {"down", "local", "public"}]
    BY <2>1, Values DEF Resumed, RecordTypes
  <2>3. env' \in Entry /\ disk' \in Entry /\ journal' \in Journals
    BY <1>18, RecoverSourceEffect DEF CloneEnds, Blocked, Keeps
  <2> QED BY <2>2, <2>3 DEF RecordTypes
<1>19. CASE RecoverClone
  <2>1. PICK W \in SUBSET App : Resumed(W) \/ runs' = runs
    BY <1>19, RecoverSourceEffect, JournalFields DEF RecoverClone, RecordTypes
  <2>2. runs' \in [App -> {"down", "local", "public"}]
    BY <2>1, Values DEF Resumed, RecordTypes
  <2>3. env' \in Entry /\ disk' \in Entry /\ journal' \in Journals
    BY <1>19, RecoverSourceEffect, StatusErrorSaved DEF RecoverClone, RecordTypes, Blocked,
        recordVars, Keeps, Status
  <2> QED BY <2>2, <2>3 DEF RecordTypes
<1>20. CASE RecoverTunnel
  BY <1>20, ConfigureEffect, ClearedFields DEF RecoverTunnel, RecordTypes, UpTo
<1>21. CASE RecoverConfigured
  BY <1>21, RecoverConfiguredEffect DEF RecoverConfigured, connVars, sessionVars, RecordTypes
<1>22. CASE RecoverStatus
  BY <1>22, KeptSaved, FailedSaved, Values DEF RecoverStatus, connVars, sessionVars, taskVars,
      RecordTypes, Keeps, Status
<1>23. CASE Open
  BY <1>23 DEF Open, recordVars, RecordTypes
<1>24. CASE BeginDeploy
  BY <1>24 DEF BeginDeploy, others, recordVars, RecordTypes
<1>25. ASSUME NEW s \in {"stopping", "deleting"}, Down(s) PROVE RecordTypes'
  BY <1>25, StatusSaved DEF Down, others, RecordTypes, Keeps, Status
<1>26. CASE Hold
  BY <1>26 DEF Hold, others, recordVars, RecordTypes
<1>27. CASE Clone
  BY <1>27, JournalFields, EntryTypes DEF Clone, Idle, hubVars, recordVars, connVars, sessionVars,
      taskVars, Up, LockFree, Starting, RecordTypes, Keeps
<1>28. CASE HubExits
  BY <1>28 DEF HubExits, RecordTypes
<1>29. CASE Start
  BY <1>29 DEF Start, recordVars, RecordTypes
<1> QED
  BY <1>1, <1>2, <1>3, <1>4, <1>5, <1>6, <1>7, <1>8, <1>9, <1>10, <1>11, <1>12, <1>13, <1>14,
      <1>15, <1>16, <1>17, <1>18, <1>19, <1>20, <1>21, <1>22, <1>23, <1>24, <1>25, <1>26, <1>27,
        <1>28, <1>29
     DEF TunnelNext, Session, Configuring, Connecting, Working, Recovering, Aside, Walking

(* An application is only stopped by a configuration that goes on.         *)
LEMMA ConfStartWhile ==
  ASSUME ControlTypes, Locked, Tasks, NEW a \in App, conf[a] = "stopped"
  PROVE  InConf /\ (at # "none" \/ hub = "configuring") /\ hub # "inspecting"
BY DEF Tasks, InConf, Locked

(* Applications are configured by whoever began it: every other step       *)
(* leaves them done.                                                       *)
LEMMA TasksStep ==
  RecordTypes /\ ControlTypes /\ Locked /\ Tasks /\ [TunnelNext]_tunnelVars => Tasks'
<1> SUFFICES ASSUME RecordTypes, ControlTypes, Locked, Tasks, [TunnelNext]_tunnelVars PROVE Tasks'
  OBVIOUS
<1>1. CASE Aside
  BY <1>1, AsideEffect DEF Tasks, InConf, core, recordVars
<1>2. CASE Walking
  BY <1>2, WalkEffect DEF Tasks, InConf, Locked, Starting, RecordTypes, recordVars
<1>3. CASE Reserve
  BY <1>3, ConfigureEffect DEF Reserve, hubVars, Tasks, InConf, Locked, Cleanup, NoTasks, Go
<1>4. CASE Prepared
  BY <1>4 DEF Prepared, hubVars, Tasks, InConf, Locked, Cleanup, NoTasks, Go
<1>5. CASE LockForCleanup
  BY <1>5 DEF LockForCleanup, taskVars, CleanupFailed, hubVars, Tasks, InConf, Locked,
      RecordTypes, Keeps, NoSession, NoTasks, Go
<1>6. CASE StopConnectors
  BY <1>6, ConfigureEffect DEF StopConnectors, recordVars, taskVars, hubVars, Tasks, InConf,
      NoSession, Go
<1>7. CASE RestoreEnds
  BY <1>7, RestoredSaved DEF RestoreEnds, CleanupFailed, hubVars, Tasks, InConf, Locked, Starting,
      RecordTypes, Keeps, NoSession, NoTasks
<1>8. ASSUME NEW a \in App, ConfSkip(a) PROVE Tasks'
  BY <1>8 DEF ConfSkip, hubVars, recordVars, sessionVars, Tasks, InConf
<1>9. ASSUME NEW a \in App, ConfStop(a) PROVE Tasks'
  BY <1>9 DEF ConfStop, hubVars, recordVars, sessionVars, Tasks, InConf, ControlTypes
<1>10. ASSUME NEW a \in App, ConfStart(a) PROVE Tasks'
  <2>1. InConf /\ InConf'
    BY <1>10, ConfStartEffect, ConfStartWhile DEF InConf
  <2>2. ASSUME NEW b \in App, conf'[b] = "done" PROVE b \notin env'.pending
    <3>1. CASE b = a
      BY <1>10, <2>2, <3>1, ConfStartEffect
    <3>2. CASE b # a
      BY <1>10, <2>1, <2>2, <3>2, ConfStartEffect DEF Tasks
    <3> QED BY <3>1, <3>2
  <2> QED BY <2>1, <2>2 DEF Tasks
<1>11. CASE DeployStops
  BY <1>11, StatusErrorSaved DEF DeployStops, others, hubVars, connVars, sessionVars, taskVars,
      Tasks, InConf, Locked, Starting, RecordTypes, Keeps
<1>12. CASE DeployEnds
  BY <1>12, StatusErrorSaved, ErrorSaved, FailedSaved DEF DeployEnds, others, hubVars, connVars,
      sessionVars, taskVars, Tasks, InConf, Locked, Starting, RecordTypes, Keeps
<1>13. ASSUME NEW e \in SUBSET Name, DeployStarts(e) PROVE Tasks'
  BY <1>13, EndpointsSaved DEF DeployStarts, others, hubVars, sessionVars, taskVars, Tasks,
      InConf, Keeps
<1>14. CASE DownStops
  BY <1>14, StoppedSaved DEF DownStops, others, hubVars, connVars, sessionVars, taskVars, Tasks,
      InConf, Locked, Starting, RecordTypes
<1>15. CASE DownFails
  BY <1>15 DEF DownFails, others, hubVars, sessionVars, taskVars, Tasks, InConf, Locked, Starting,
      RecordTypes, Keeps
<1>16. CASE DownDeletes
  BY <1>16, RemovedSaved DEF DownDeletes, recordVars, others, hubVars, connVars, sessionVars,
      taskVars, Tasks, InConf, Locked, Starting, RecordTypes, Keeps
<1>17. CASE Leave
  BY <1>17 DEF Leave, others, recordVars, hubVars, sessionVars, taskVars, Tasks, InConf
<1>18. CASE CloneEnds
  BY <1>18 DEF CloneEnds, hubVars, sessionVars, taskVars, Tasks, InConf, Locked, Starting
<1>19. CASE RecoverClone
  BY <1>19 DEF RecoverClone, sessionVars, taskVars, Tasks, InConf, Locked
<1>20. CASE RecoverTunnel
  BY <1>20, ConfigureEffect, ClearedFields DEF RecoverTunnel, Tasks, InConf, Locked, RecordTypes,
      UpTo
<1>21. CASE RecoverConfigured
  BY <1>21, RecoverConfiguredEffect DEF RecoverConfigured, connVars, sessionVars, Tasks, InConf,
      Locked, Starting, RecordTypes, UpTo, NoTasks
<1>22. CASE RecoverStatus
  BY <1>22 DEF RecoverStatus, sessionVars, taskVars, Tasks, InConf, Locked
<1>23. CASE Open
  BY <1>23 DEF Open, hubVars, recordVars, taskVars, Tasks, InConf
<1>24. CASE BeginDeploy
  BY <1>24 DEF BeginDeploy, others, recordVars, hubVars, connVars, sessionVars, taskVars,
      Starting, Tasks, InConf, Locked
<1>25. ASSUME NEW s \in {"stopping", "deleting"}, Down(s) PROVE Tasks'
  BY <1>25 DEF Down, Idle, others, Up, LockFree, hubVars, connVars, sessionVars, taskVars,
      Starting, Tasks, InConf
<1>26. CASE Hold
  BY <1>26 DEF Hold, others, recordVars, hubVars, sessionVars, taskVars, Starting, Tasks, InConf
<1>27. CASE Clone
  BY <1>27, CloneEffect DEF Tasks, InConf
<1>28. CASE HubExits
  BY <1>28 DEF HubExits, Tasks, InConf, NoSession, NoTasks
<1>29. CASE Start
  BY <1>29 DEF Start, sessionVars, taskVars, Tasks, InConf, Locked
<1> QED
  BY <1>1, <1>2, <1>3, <1>4, <1>5, <1>6, <1>7, <1>8, <1>9, <1>10, <1>11, <1>12, <1>13, <1>14,
      <1>15, <1>16, <1>17, <1>18, <1>19, <1>20, <1>21, <1>22, <1>23, <1>24, <1>25, <1>26, <1>27,
        <1>28, <1>29
     DEF TunnelNext, Session, Configuring, Connecting, Working, Recovering, Aside, Walking

(* A clone's journal comes with the lock, and goes with it or with the     *)
(* next recovery.                                                          *)
LEMMA BlockedStep ==
  RecordTypes /\ ControlTypes /\ Locked /\ Blocked /\ [TunnelNext]_tunnelVars => Blocked'
<1> SUFFICES ASSUME RecordTypes, ControlTypes, Locked, Blocked,
                      [TunnelNext]_tunnelVars PROVE Blocked'
  OBVIOUS
<1>1. CASE Aside
  BY <1>1, AsideEffect DEF Blocked, core
<1>2. CASE Walking
  BY <1>2, WalkEffect DEF Blocked
<1>3. CASE Reserve
  BY <1>3 DEF Reserve, hubVars, Blocked
<1>4. CASE Prepared
  BY <1>4 DEF Prepared, hubVars, Blocked
<1>5. CASE LockForCleanup
  BY <1>5 DEF LockForCleanup, hubVars, Blocked
<1>6. CASE StopConnectors
  BY <1>6 DEF StopConnectors, hubVars, Blocked
<1>7. CASE RestoreEnds
  BY <1>7 DEF RestoreEnds, hubVars, Blocked
<1>8. ASSUME NEW a \in App, ConfSkip(a) PROVE Blocked'
  BY <1>8 DEF ConfSkip, hubVars, Blocked
<1>9. ASSUME NEW a \in App, ConfStop(a) PROVE Blocked'
  BY <1>9 DEF ConfStop, hubVars, Blocked
<1>10. ASSUME NEW a \in App, ConfStart(a) PROVE Blocked'
  BY <1>10, ConfStartEffect DEF Blocked
<1>11. CASE DeployStops
  BY <1>11, StatusErrorSaved DEF DeployStops, others, hubVars, connVars, sessionVars, taskVars,
      Blocked, Locked, RecordTypes, Keeps
<1>12. CASE DeployEnds
  BY <1>12, StatusErrorSaved, ErrorSaved, FailedSaved DEF DeployEnds, others, hubVars, connVars,
      sessionVars, taskVars, Blocked, Locked, RecordTypes, Keeps
<1>13. ASSUME NEW e \in SUBSET Name, DeployStarts(e) PROVE Blocked'
  BY <1>13 DEF DeployStarts, others, Blocked
<1>14. CASE DownStops
  BY <1>14, StoppedSaved DEF DownStops, others, hubVars, connVars, sessionVars, taskVars, Blocked,
      Locked, RecordTypes
<1>15. CASE DownFails
  BY <1>15 DEF DownFails, others, hubVars, Blocked, RecordTypes, Keeps
<1>16. CASE DownDeletes
  BY <1>16, RemovedSaved DEF DownDeletes, recordVars, others, hubVars, connVars, sessionVars,
      taskVars, Blocked, Locked, RecordTypes, Keeps
<1>17. CASE Leave
  BY <1>17 DEF Leave, others, hubVars, Blocked
<1>18. CASE CloneEnds
  BY <1>18 DEF CloneEnds, hubVars, Blocked
<1>19. CASE RecoverClone
  BY <1>19 DEF RecoverClone, Blocked, Locked
<1>20. CASE RecoverTunnel
  BY <1>20 DEF RecoverTunnel, Blocked
<1>21. CASE RecoverConfigured
  BY <1>21, RecoverConfiguredEffect DEF RecoverConfigured, connVars, sessionVars, Blocked, Locked,
      RecordTypes, UpTo, NoTasks
<1>22. CASE RecoverStatus
  BY <1>22 DEF RecoverStatus, Blocked
<1>23. CASE Open
  BY <1>23 DEF Open, hubVars, Blocked
<1>24. CASE BeginDeploy
  BY <1>24 DEF BeginDeploy, DeployRefusal, others, Blocked
<1>25. ASSUME NEW s \in {"stopping", "deleting"}, Down(s) PROVE Blocked'
  BY <1>25 DEF Down, others, hubVars, Blocked, Locked
<1>26. CASE Hold
  BY <1>26 DEF Hold, others, hubVars, Blocked, Locked
<1>27. CASE Clone
  BY <1>27, CloneEffect DEF Blocked
<1>28. CASE HubExits
  BY <1>28 DEF HubExits, Blocked
<1>29. CASE Start
  BY <1>29 DEF Start, Blocked
<1> QED
  BY <1>1, <1>2, <1>3, <1>4, <1>5, <1>6, <1>7, <1>8, <1>9, <1>10, <1>11, <1>12, <1>13, <1>14,
      <1>15, <1>16, <1>17, <1>18, <1>19, <1>20, <1>21, <1>22, <1>23, <1>24, <1>25, <1>26, <1>27,
        <1>28, <1>29
     DEF TunnelNext, Session, Configuring, Connecting, Working, Recovering, Aside, Walking

(* Every save writes what is in memory. What a recovery holds back, the    *)
(* next recovery finds again.                                              *)
LEMMA SyncedStep ==
  /\ RecordTypes /\ ControlTypes /\ Locked /\ Tasks /\ Blocked /\ StoppedDown /\ Synced
  /\ [TunnelNext]_tunnelVars
  => Synced'
<1> SUFFICES ASSUME RecordTypes, ControlTypes, Locked, Tasks, Blocked, StoppedDown, Synced,
                      [TunnelNext]_tunnelVars PROVE Synced'
  OBVIOUS
<1>1. CASE Aside
  BY <1>1, AsideEffect DEF Synced, core, recordVars
<1>2. CASE Walking
  BY <1>2, WalkEffect DEF Synced, recordVars
<1>3. CASE Reserve
  BY <1>3, ConfigureEffect DEF Reserve, recordVars, hubVars, Synced
<1>4. CASE Prepared
  BY <1>4, RestoredSaved, EntryTypes DEF Prepared, recordVars, hubVars, connVars, Synced, Locked,
      Starting, RecordTypes, Cleanup, NoTasks, Go, TasksOver, ConfSettled, ConfFailed, Tasks, InConf
<1>5. CASE LockForCleanup
  BY <1>5, FailedSaved DEF LockForCleanup, LockFree, recordVars, taskVars, CleanupFailed, hubVars,
      connVars, Starting, Synced, Locked, RecordTypes, Keeps, NoSession, NoTasks, Go
<1>6. CASE StopConnectors
  BY <1>6, ConfigureEffect DEF StopConnectors, recordVars, Synced, Locked
<1>7. CASE RestoreEnds
  BY <1>7, RestoredSaved, FailedSaved, EntryTypes DEF RestoreEnds, CleanupFailed, hubVars,
      connVars, Synced, Locked, Starting, RecordTypes, Keeps, NoSession, NoTasks, ConfSettled,
        ConfFailed, Tasks, InConf
<1>8. ASSUME NEW a \in App, ConfSkip(a) PROVE Synced'
  BY <1>8 DEF ConfSkip, hubVars, recordVars, Synced
<1>9. ASSUME NEW a \in App, ConfStop(a) PROVE Synced'
  BY <1>9 DEF ConfStop, hubVars, recordVars, Synced, RecordTypes
<1>10. ASSUME NEW a \in App, ConfStart(a) PROVE Synced'
  <2>1. hub # "inspecting" /\ env = disk
    BY <1>10, ConfStartEffect, ConfStartWhile DEF Synced
  <2>2. CASE UNCHANGED <<env, disk>>
    BY <1>10, <2>1, <2>2, ConfStartEffect DEF Synced
  <2>3. CASE disk' = env' /\ env'.pending = env.pending \ {a} /\ env'.urls = env.urls
    <3>1. env.urls = "none" => env'.pending = {}
      BY <2>3 DEF Synced
    <3> QED BY <2>3, <3>1 DEF Synced
  <2> QED BY <1>10, <2>2, <2>3, ConfStartEffect
<1>11. CASE DeployStops
  BY <1>11, StatusErrorSaved DEF DeployStops, others, hubVars, connVars, sessionVars, taskVars,
      Synced, Locked, Starting, RecordTypes, Keeps, Status
<1>12. CASE DeployEnds
  BY <1>12, StatusErrorSaved, ErrorSaved, FailedSaved DEF DeployEnds, others, hubVars, connVars,
      sessionVars, taskVars, Synced, Locked, Starting, RecordTypes, Keeps, Status
<1>13. ASSUME NEW e \in SUBSET Name, DeployStarts(e) PROVE Synced'
  BY <1>13, EndpointsSaved DEF DeployStarts, Synced, Keeps
<1>14. CASE DownStops
  BY <1>14, StoppedSaved DEF DownStops, others, hubVars, connVars, sessionVars, taskVars, Synced,
      Locked, Starting, RecordTypes
<1>15. CASE DownFails
  BY <1>15, ErrorSaved DEF DownFails, others, hubVars, connVars, sessionVars, taskVars, Synced,
      Locked, Starting, RecordTypes, Keeps
<1>16. CASE DownDeletes
  BY <1>16, RemovedSaved DEF DownDeletes, recordVars, others, hubVars, connVars, sessionVars,
      taskVars, Synced, Locked, Starting, RecordTypes, Keeps
<1>17. CASE Leave
  BY <1>17 DEF Leave, recordVars, Synced, Locked
<1>18. CASE CloneEnds
  BY <1>18, RecoverSourceEffect DEF CloneEnds, Synced, Keeps, Blocked
<1>19. CASE RecoverClone
  BY <1>19, RecoverSourceEffect, StatusErrorSaved DEF RecoverClone, recordVars, connVars,
      sessionVars, taskVars, Synced, Locked, Starting, RecordTypes, Keeps, Status
<1>20. CASE RecoverTunnel
  BY <1>20, ConfigureEffect, ClearedFields, Values DEF RecoverTunnel, connVars, sessionVars,
      Synced, Locked, Starting, RecordTypes, UpTo, StoppedDown
<1>21. CASE RecoverConfigured
  BY <1>21, RecoverConfiguredEffect, EntryTypes DEF RecoverConfigured, connVars, sessionVars,
      Synced, Locked, Starting, RecordTypes, UpTo, NoTasks, ConfSettled, ConfFailed, Tasks, InConf
<1>22. CASE RecoverStatus
  BY <1>22, KeptSaved, FailedSaved DEF RecoverStatus, connVars, sessionVars, taskVars, Synced,
      Locked, Starting, RecordTypes, Keeps
<1>23. CASE Open
  BY <1>23 DEF Open, hubVars, recordVars, Synced
<1>24. CASE BeginDeploy
  BY <1>24 DEF BeginDeploy, Idle, recordVars, Up, Synced
<1>25. ASSUME NEW s \in {"stopping", "deleting"}, Down(s) PROVE Synced'
  BY <1>25, StatusSaved DEF Down, Synced, Locked, RecordTypes, Keeps, Status
<1>26. CASE Hold
  BY <1>26 DEF Hold, others, recordVars, hubVars, Synced, Locked
<1>27. CASE Clone
  BY <1>27, CloneEffect DEF Synced
<1>28. CASE HubExits
  BY <1>28 DEF HubExits, Synced
<1>29. CASE Start
  BY <1>29 DEF Start, recordVars, Synced
<1> QED
  BY <1>1, <1>2, <1>3, <1>4, <1>5, <1>6, <1>7, <1>8, <1>9, <1>10, <1>11, <1>12, <1>13, <1>14,
      <1>15, <1>16, <1>17, <1>18, <1>19, <1>20, <1>21, <1>22, <1>23, <1>24, <1>25, <1>26, <1>27,
        <1>28, <1>29
     DEF TunnelNext, Session, Configuring, Connecting, Working, Recovering, Aside, Walking

(* Only a down stops an environment, and it stops the applications;        *)
(* nothing but a deploy starts them again.                                 *)
LEMMA StoppedDownStep ==
  /\ RecordTypes /\ ControlTypes /\ Locked /\ Tasks /\ Synced /\ Blocked /\ StoppedDown
  /\ [TunnelNext]_tunnelVars
  => StoppedDown'
<1> SUFFICES ASSUME RecordTypes, ControlTypes, Locked, Tasks, Synced, Blocked, StoppedDown,
                      [TunnelNext]_tunnelVars PROVE StoppedDown'
  OBVIOUS
<1>1. CASE Aside
  BY <1>1, AsideEffect DEF StoppedDown, core, recordVars
<1>2. CASE Walking
  BY <1>2, WalkEffect DEF StoppedDown, Locked, Starting, RecordTypes, recordVars
<1>3. CASE Reserve
  BY <1>3, ConfigureEffect DEF Reserve, recordVars, StoppedDown
<1>4. CASE Prepared
  BY <1>4, RestoredSaved DEF Prepared, recordVars, StoppedDown
<1>5. CASE LockForCleanup
  BY <1>5, FailedSaved DEF LockForCleanup, LockFree, recordVars, taskVars, CleanupFailed, hubVars,
      connVars, Starting, StoppedDown, Locked, RecordTypes, Keeps, NoSession, NoTasks, Go
<1>6. CASE StopConnectors
  BY <1>6, ConfigureEffect DEF StopConnectors, recordVars, StoppedDown
<1>7. CASE RestoreEnds
  BY <1>7, RestoredSaved, FailedSaved DEF RestoreEnds, CleanupFailed, hubVars, connVars,
      StoppedDown, Locked, Starting, RecordTypes, Keeps, NoSession, NoTasks
<1>8. ASSUME NEW a \in App, ConfSkip(a) PROVE StoppedDown'
  BY <1>8 DEF ConfSkip, hubVars, recordVars, sessionVars, StoppedDown
<1>9. ASSUME NEW a \in App, ConfStop(a) PROVE StoppedDown'
  BY <1>9 DEF ConfStop, hubVars, recordVars, sessionVars, StoppedDown, RecordTypes
<1>10. ASSUME NEW a \in App, ConfStart(a) PROVE StoppedDown'
  <2>1. /\ hub # "inspecting" /\ (at # "none" \/ hub = "configuring") /\ env = disk
        /\ UNCHANGED <<hub, journal, at, owner>>
    BY <1>10, ConfStartEffect, ConfStartWhile DEF Synced
  <2>2. env.status # "stopped" /\ journal.original # "stopped"
    BY <2>1, JournalFields DEF StoppedDown, Blocked
  <2>3. env'.status = env.status /\ disk'.status = env.status
    BY <1>10, <2>1, ConfStartEffect
  <2> QED BY <2>1, <2>2, <2>3 DEF StoppedDown
<1>11. CASE DeployStops
  BY <1>11, StatusErrorSaved, JournalFields DEF DeployStops, others, hubVars, connVars,
      sessionVars, taskVars, StoppedDown, Locked, Starting, RecordTypes, Keeps, Blocked, Status
<1>12. CASE DeployEnds
  BY <1>12, StatusErrorSaved, ErrorSaved, FailedSaved, JournalFields DEF DeployEnds, others,
      hubVars, connVars, sessionVars, taskVars, StoppedDown, Locked, Starting, RecordTypes, Keeps,
        Blocked, Status
<1>13. ASSUME NEW e \in SUBSET Name, DeployStarts(e) PROVE StoppedDown'
  BY <1>13, EndpointsSaved, JournalFields DEF DeployStarts, others, StoppedDown, Keeps, Blocked
<1>14. CASE DownStops
  BY <1>14, StoppedSaved DEF DownStops, others, hubVars, connVars, sessionVars, taskVars,
      StoppedDown, Locked, Starting, RecordTypes
<1>15. CASE DownFails
  BY <1>15, ErrorSaved DEF DownFails, others, hubVars, connVars, sessionVars, taskVars,
      StoppedDown, Locked, Starting, RecordTypes, Keeps
<1>16. CASE DownDeletes
  BY <1>16, RemovedSaved DEF DownDeletes, recordVars, others, hubVars, connVars, sessionVars,
      taskVars, StoppedDown, Locked, Starting, RecordTypes, Keeps
<1>17. CASE Leave
  BY <1>17 DEF Leave, others, recordVars, hubVars, sessionVars, StoppedDown
<1>18. CASE CloneEnds
  BY <1>18, RecoverSourceEffect, JournalFields DEF CloneEnds, hubVars, sessionVars, StoppedDown,
      Starting, RecordTypes, Keeps, Blocked, Resumed
<1>19. CASE RecoverClone
  BY <1>19, RecoverSourceEffect, StatusErrorSaved, JournalFields DEF RecoverClone, recordVars,
      connVars, sessionVars, taskVars, StoppedDown, Locked, Starting, RecordTypes, Keeps, Blocked,
        Resumed, Status
<1>20. CASE RecoverTunnel
  BY <1>20, ConfigureEffect, ClearedFields DEF RecoverTunnel, sessionVars, StoppedDown,
      RecordTypes, UpTo, Synced
<1>21. CASE RecoverConfigured
  BY <1>21, RecoverConfiguredEffect, JournalFields DEF RecoverConfigured, connVars, sessionVars,
      StoppedDown, Locked, Starting, RecordTypes, UpTo, NoTasks, Blocked, Synced
<1>22. CASE RecoverStatus
  <2>1. /\ hub' = "up" /\ at = "none" /\ owner = "none" /\ journal.original = "none"
        /\ UNCHANGED <<journal, at, owner>>
    BY <1>22, JournalFields DEF RecoverStatus, Locked, Blocked, sessionVars
  <2>2. CASE Saved(env) /\ env.status = "running"
    BY <2>1, <2>2 DEF Saved, StoppedDown
  <2>3. CASE Saved(Failed(env, "other"))
    <3>1. env'.status = "failed" /\ disk' = env'
      BY <2>3, FailedSaved DEF Keeps
    <3> QED BY <2>1, <3>1 DEF StoppedDown
  <2>4. CASE Saved(env) /\ env.status \notin {"running", "deploying", "stopping"} /\ UNCHANGED runs
    BY <2>1, <2>4 DEF Saved, StoppedDown
  <2> QED BY <1>22, <2>2, <2>3, <2>4 DEF RecoverStatus
<1>23. CASE Open
  BY <1>23 DEF Open, Up, recordVars, StoppedDown, Synced
<1>24. CASE BeginDeploy
  BY <1>24 DEF BeginDeploy, others, recordVars, hubVars, sessionVars, taskVars, Starting,
      StoppedDown
<1>25. ASSUME NEW s \in {"stopping", "deleting"}, Down(s) PROVE StoppedDown'
  BY <1>25, StatusSaved DEF Down, Idle, others, Up, connVars, sessionVars, StoppedDown, Locked,
      RecordTypes, Keeps, Status
<1>26. CASE Hold
  BY <1>26 DEF Hold, others, recordVars, hubVars, sessionVars, taskVars, Starting, StoppedDown,
      Locked
<1>27. CASE Clone
  BY <1>27, CloneEffect DEF StoppedDown
<1>28. CASE HubExits
  BY <1>28, JournalFields DEF HubExits, StoppedDown, NoSession, Blocked, Synced
<1>29. CASE Start
  BY <1>29 DEF Start, recordVars, sessionVars, StoppedDown
<1> QED
  BY <1>1, <1>2, <1>3, <1>4, <1>5, <1>6, <1>7, <1>8, <1>9, <1>10, <1>11, <1>12, <1>13, <1>14,
      <1>15, <1>16, <1>17, <1>18, <1>19, <1>20, <1>21, <1>22, <1>23, <1>24, <1>25, <1>26, <1>27,
        <1>28, <1>29
     DEF TunnelNext, Session, Configuring, Connecting, Working, Recovering, Aside, Walking

(* The record in memory satisfies it too.                                  *)
LEMMA IntentInMemory ==
  ASSUME Synced, IntentJournaled, NEW a \in App
  PROVE  runs[a] \in {"down", Value(env)} \/ a \in env.pending
BY DEF Synced, IntentJournaled

(* An application is given other URLs only while it is pending on disk.    *)
LEMMA IntentStep ==
  /\ RecordTypes /\ ControlTypes /\ Locked /\ Tasks /\ Synced /\ Blocked /\ IntentJournaled
  /\ [TunnelNext]_tunnelVars
  => IntentJournaled'
<1> SUFFICES ASSUME RecordTypes, ControlTypes, Locked, Tasks, Synced, Blocked, IntentJournaled,
                      [TunnelNext]_tunnelVars PROVE IntentJournaled'
  OBVIOUS
<1>1. CASE Aside
  BY <1>1, AsideEffect DEF IntentJournaled, core, recordVars
<1>2. CASE Walking
  BY <1>2, WalkEffect DEF IntentJournaled, recordVars
<1>3. CASE Reserve
  BY <1>3, ConfigureEffect, IntentInMemory DEF Reserve, recordVars, IntentJournaled
<1>4. CASE Prepared
  BY <1>4, RestoredSaved, IntentInMemory DEF Prepared, recordVars, IntentJournaled
<1>5. CASE LockForCleanup
  BY <1>5, FailedSaved, IntentInMemory DEF LockForCleanup, LockFree, recordVars, taskVars,
      CleanupFailed, hubVars, connVars, Starting, IntentJournaled, Locked, RecordTypes, Keeps,
        NoSession, NoTasks, Go
<1>6. CASE StopConnectors
  BY <1>6, ConfigureEffect, IntentInMemory DEF StopConnectors, recordVars, IntentJournaled
<1>7. CASE RestoreEnds
  BY <1>7, RestoredSaved, FailedSaved, IntentInMemory DEF RestoreEnds, CleanupFailed, hubVars,
      connVars, IntentJournaled, Locked, Starting, RecordTypes, Keeps, NoSession, NoTasks
<1>8. ASSUME NEW a \in App, ConfSkip(a) PROVE IntentJournaled'
  BY <1>8 DEF ConfSkip, recordVars, IntentJournaled
<1>9. ASSUME NEW a \in App, ConfStop(a) PROVE IntentJournaled'
  BY <1>9 DEF ConfStop, recordVars, IntentJournaled, RecordTypes
<1>10. ASSUME NEW a \in App, ConfStart(a) PROVE IntentJournaled'
  BY <1>10, ConfStartEffect DEF IntentJournaled, Locked, Tasks, InConf, Synced
<1>11. CASE DeployStops
  BY <1>11, StatusErrorSaved, IntentInMemory DEF DeployStops, others, hubVars, connVars,
      sessionVars, taskVars, IntentJournaled, Locked, Starting, RecordTypes, Keeps, Status
<1>12. CASE DeployEnds
  BY <1>12, StatusErrorSaved, ErrorSaved, FailedSaved, IntentInMemory DEF DeployEnds, others,
      hubVars, connVars, sessionVars, taskVars, IntentJournaled, Locked, Starting, RecordTypes,
        Keeps, Status
<1>13. ASSUME NEW e \in SUBSET Name, DeployStarts(e) PROVE IntentJournaled'
  BY <1>13, EndpointsSaved DEF DeployStarts, Settled, IntentJournaled, Keeps
<1>14. CASE DownStops
  BY <1>14, StoppedSaved, IntentInMemory DEF DownStops, others, hubVars, connVars, sessionVars,
      taskVars, IntentJournaled, Locked, Starting, RecordTypes
<1>15. CASE DownFails
  BY <1>15, ErrorSaved, IntentInMemory DEF DownFails, others, hubVars, connVars, sessionVars,
      taskVars, IntentJournaled, Locked, Starting, RecordTypes, Keeps
<1>16. CASE DownDeletes
  BY <1>16, RemovedSaved, IntentInMemory DEF DownDeletes, recordVars, others, hubVars, connVars,
      sessionVars, taskVars, IntentJournaled, Locked, Starting, RecordTypes, Keeps
<1>17. CASE Leave
  BY <1>17 DEF Leave, recordVars, IntentJournaled
<1>18. CASE CloneEnds
  BY <1>18, RecoverSourceEffect, IntentInMemory DEF CloneEnds, IntentJournaled, Keeps, Resumed,
      Blocked
<1>19. CASE RecoverClone
  BY <1>19, RecoverSourceEffect, StatusErrorSaved, IntentInMemory DEF RecoverClone, recordVars,
      connVars, sessionVars, taskVars, IntentJournaled, Locked, Starting, RecordTypes, Keeps,
        Resumed, Status
<1>20. CASE RecoverTunnel
  BY <1>20, ConfigureEffect, IntentInMemory DEF RecoverTunnel, IntentJournaled, UpTo
<1>21. CASE RecoverConfigured
  BY <1>21, RecoverConfiguredEffect, IntentInMemory DEF RecoverConfigured, connVars, sessionVars,
      IntentJournaled, Locked, Starting, RecordTypes, UpTo, NoTasks
<1>22. CASE RecoverStatus
  BY <1>22, KeptSaved, FailedSaved, IntentInMemory DEF RecoverStatus, connVars, sessionVars,
      taskVars, IntentJournaled, Locked, Starting, RecordTypes, Keeps
<1>23. CASE Open
  BY <1>23 DEF Open, recordVars, IntentJournaled
<1>24. CASE BeginDeploy
  BY <1>24 DEF BeginDeploy, recordVars, IntentJournaled
<1>25. ASSUME NEW s \in {"stopping", "deleting"}, Down(s) PROVE IntentJournaled'
  BY <1>25, StatusSaved, IntentInMemory DEF Down, IntentJournaled, Keeps, Status
<1>26. CASE Hold
  BY <1>26 DEF Hold, recordVars, IntentJournaled
<1>27. CASE Clone
  BY <1>27, CloneEffect DEF IntentJournaled
<1>28. CASE HubExits
  BY <1>28 DEF HubExits, IntentJournaled
<1>29. CASE Start
  BY <1>29 DEF Start, recordVars, IntentJournaled
<1> QED
  BY <1>1, <1>2, <1>3, <1>4, <1>5, <1>6, <1>7, <1>8, <1>9, <1>10, <1>11, <1>12, <1>13, <1>14,
      <1>15, <1>16, <1>17, <1>18, <1>19, <1>20, <1>21, <1>22, <1>23, <1>24, <1>25, <1>26, <1>27,
        <1>28, <1>29
     DEF TunnelNext, Session, Configuring, Connecting, Working, Recovering, Aside, Walking

(* Flags stay flags.                                                       *)
flags == <<closing, enabled, aborted, moved, cancel>>
LEMMA FlagsStep ==
  TunnelFlags /\ [TunnelNext]_tunnelVars => TunnelFlags'
<1> SUFFICES ASSUME TunnelFlags, [TunnelNext]_tunnelVars PROVE TunnelFlags'
  OBVIOUS
<1>0. UNCHANGED flags => TunnelFlags'
  BY DEF flags, TunnelFlags
<1>1. CASE AskLock
  BY <1>1, Zenon DEF AskLock, Go, taskVars, Cleanup, hubVars, NoTasks, TunnelFlags
<1>2. CASE Enter
  BY <1>2, Zenon DEF Enter, Cleanup, Go, taskVars, hubVars, NoTasks, TunnelFlags
<1>3. CASE Reserve
  BY <1>3, Zenon DEF Reserve, Go, Cleanup, hubVars, NoTasks, TunnelFlags
<1>4. CASE Prepared
  BY <1>4, Zenon DEF Prepared, Go, NoTasks, Cleanup, hubVars, TunnelFlags
<1>5. CASE Enable
  BY <1>5, Zenon DEF Enable, Go, taskVars, Cleanup, hubVars, NoTasks, TunnelFlags
<1>6. CASE Watch
  BY <1>6, Zenon DEF Watch, Cleanup, Go, taskVars, NoTasks, hubVars, TunnelFlags
<1>7. CASE Reconnected
  BY <1>7, Zenon DEF Reconnected, Go, taskVars, NoTasks, Cleanup, hubVars, TunnelFlags
<1>8. CASE LockForCleanup
  BY <1>8, Zenon DEF LockForCleanup, Go, taskVars, CleanupFailed, hubVars, NoSession, NoTasks,
      TunnelFlags
<1>9. CASE StopConnectors
  BY <1>9, Zenon DEF StopConnectors, Go, NoSession, taskVars, hubVars, TunnelFlags
<1>10. CASE RestoreEnds
  BY <1>10, Zenon DEF RestoreEnds, NoSession, NoTasks, CleanupFailed, hubVars, TunnelFlags
<1>11. ASSUME NEW a \in App, ConfSkip(a) PROVE TunnelFlags'
  <2>1. UNCHANGED flags
    BY <1>11 DEF ConfSkip, hubVars, sessionVars, flags
  <2> QED BY <1>0, <2>1
<1>12. ASSUME NEW a \in App, ConfStop(a) PROVE TunnelFlags'
  BY <1>12, Zenon DEF ConfStop, hubVars, sessionVars, TunnelFlags
<1>13. ASSUME NEW a \in App, ConfStart(a) PROVE TunnelFlags'
  BY <1>13, Zenon DEF ConfStart, hubVars, sessionVars, ConfStarted, TunnelFlags
<1>14. CASE DeployStops
  <2>1. UNCHANGED flags
    BY <1>14 DEF DeployStops, others, hubVars, sessionVars, taskVars, flags
  <2> QED BY <1>0, <2>1
<1>15. CASE DeployEnds
  <2>1. UNCHANGED flags
    BY <1>15 DEF DeployEnds, others, hubVars, sessionVars, taskVars, flags
  <2> QED BY <1>0, <2>1
<1>16. ASSUME NEW e \in SUBSET Name, DeployStarts(e) PROVE TunnelFlags'
  <2>1. UNCHANGED flags
    BY <1>16 DEF DeployStarts, others, hubVars, sessionVars, taskVars, flags
  <2> QED BY <1>0, <2>1
<1>17. CASE DownStops
  <2>1. UNCHANGED flags
    BY <1>17 DEF DownStops, others, hubVars, sessionVars, taskVars, flags
  <2> QED BY <1>0, <2>1
<1>18. CASE DownFails
  <2>1. UNCHANGED flags
    BY <1>18 DEF DownFails, others, hubVars, sessionVars, taskVars, flags
  <2> QED BY <1>0, <2>1
<1>19. CASE DownDeletes
  <2>1. UNCHANGED flags
    BY <1>19 DEF DownDeletes, others, hubVars, sessionVars, taskVars, flags
  <2> QED BY <1>0, <2>1
<1>20. CASE Leave
  <2>1. UNCHANGED flags
    BY <1>20 DEF Leave, others, hubVars, sessionVars, taskVars, flags
  <2> QED BY <1>0, <2>1
<1>21. CASE CloneEnds
  <2>1. UNCHANGED flags
    BY <1>21 DEF CloneEnds, hubVars, sessionVars, taskVars, flags
  <2> QED BY <1>0, <2>1
<1>22. CASE RecoverClone
  <2>1. UNCHANGED flags
    BY <1>22 DEF RecoverClone, sessionVars, taskVars, flags
  <2> QED BY <1>0, <2>1
<1>23. CASE RecoverTunnel
  <2>1. UNCHANGED flags
    BY <1>23 DEF RecoverTunnel, sessionVars, flags
  <2> QED BY <1>0, <2>1
<1>24. CASE RecoverConfigured
  BY <1>24, Zenon DEF RecoverConfigured, NoTasks, sessionVars, TunnelFlags
<1>25. CASE RecoverStatus
  <2>1. UNCHANGED flags
    BY <1>25 DEF RecoverStatus, sessionVars, taskVars, flags
  <2> QED BY <1>0, <2>1
<1>26. ASSUME NEW n \in Name, ConnReady(n) PROVE TunnelFlags'
  <2>1. UNCHANGED flags
    BY <1>26 DEF ConnReady, hubVars, sessionVars, taskVars, flags
  <2> QED BY <1>0, <2>1
<1>27. ASSUME NEW n \in Name, ConnExit(n) PROVE TunnelFlags'
  BY <1>27, Zenon DEF ConnExit, hubVars, sessionVars, TunnelFlags
<1>28. CASE Open
  BY <1>28, Zenon DEF Open, hubVars, taskVars, TunnelFlags
<1>29. CASE End
  BY <1>29, Zenon DEF End, Abort, hubVars, TunnelFlags
<1>30. CASE Watchdog
  BY <1>30, Zenon DEF Watchdog, Abort, hubVars, TunnelFlags
<1>31. CASE Shutdown
  BY <1>31, Zenon DEF Shutdown, Abort, TunnelFlags
<1>32. CASE Renew
  <2>1. UNCHANGED flags
    BY <1>32 DEF Renew, hubVars, taskVars, flags
  <2> QED BY <1>0, <2>1
<1>33. CASE Tick
  <2>1. UNCHANGED flags
    BY <1>33 DEF Tick, hubVars, taskVars, flags
  <2> QED BY <1>0, <2>1
<1>34. CASE Checkout
  BY <1>34, Zenon DEF Checkout, hubVars, taskVars, TunnelFlags
<1>35. CASE CleanupTimeout
  BY <1>35, Zenon DEF CleanupTimeout, hubVars, sessionVars, TunnelFlags
<1>36. CASE BeginDeploy
  <2>1. UNCHANGED flags
    BY <1>36 DEF BeginDeploy, others, hubVars, sessionVars, taskVars, flags
  <2> QED BY <1>0, <2>1
<1>37. ASSUME NEW s \in {"stopping", "deleting"}, Down(s) PROVE TunnelFlags'
  <2>1. UNCHANGED flags
    BY <1>37 DEF Down, others, hubVars, sessionVars, taskVars, flags
  <2> QED BY <1>0, <2>1
<1>38. CASE Hold
  <2>1. UNCHANGED flags
    BY <1>38 DEF Hold, others, hubVars, sessionVars, taskVars, flags
  <2> QED BY <1>0, <2>1
<1>39. CASE Clone
  <2>1. UNCHANGED flags
    BY <1>39 DEF Clone, hubVars, sessionVars, taskVars, flags
  <2> QED BY <1>0, <2>1
<1>40. CASE HubExits
  BY <1>40, Zenon DEF HubExits, NoSession, NoTasks, TunnelFlags
<1>41. CASE Start
  <2>1. UNCHANGED flags
    BY <1>41 DEF Start, sessionVars, taskVars, flags
  <2> QED BY <1>0, <2>1
<1>42. CASE UNCHANGED tunnelVars
  <2>1. UNCHANGED flags
    BY <1>42 DEF tunnelVars, hubVars, sessionVars, taskVars, flags
  <2> QED BY <1>0, <2>1
<1> QED
  BY <1>1, <1>2, <1>3, <1>4, <1>5, <1>6, <1>7, <1>8, <1>9, <1>10, <1>11, <1>12, <1>13, <1>14,
      <1>15, <1>16, <1>17, <1>18, <1>19, <1>20, <1>21, <1>22, <1>23, <1>24, <1>25, <1>26, <1>27,
        <1>28, <1>29, <1>30, <1>31, <1>32, <1>33, <1>34, <1>35, <1>36, <1>37, <1>38, <1>39, <1>40,
          <1>41, <1>42
     DEF TunnelNext, Session, Configuring, Connecting, Working, Recovering

(* A running environment that shares nothing satisfies all of it.          *)
LEMMA Initially ==
  TunnelInit => TunnelIInv
<1> SUFFICES ASSUME TunnelInit PROVE TunnelIInv
  OBVIOUS
<1>1. /\ env \in Entry /\ disk = env /\ env.status = "running" /\ env.urls = "none"
      /\ env.pending = {}
  BY DEF TunnelInit, Entry, Status
<1>2. TunnelFlags
  BY Zenon DEF TunnelInit, TunnelFlags
<1>3. RecordTypes
  BY <1>1, JournalFields DEF TunnelInit, RecordTypes
<1>4. ControlTypes
  <2>1. /\ hub = "up" /\ exits = 0 /\ conn = [n \in Name |-> "none"] /\ failures = {}
        /\ at = "none" /\ names = {} /\ lease = 0 /\ conf = [a \in App |-> "done"] /\ owner = "none"
    BY DEF TunnelInit
  <2>2. 0 \in 0 .. MaxExits /\ 0 \in 0 .. Lease
    BY TunnelAssumption
  <2> QED BY <2>1, <2>2 DEF ControlTypes, Stages
<1>5. Locked /\ Tasks
  BY DEF TunnelInit, Locked, Tasks, InConf, Starting, Sharing, SessionOwnsServices
<1>6. Synced /\ Blocked
  BY <1>1 DEF TunnelInit, Synced, Blocked
<1>7. StoppedDown
  BY <1>1, JournalFields DEF TunnelInit, StoppedDown
<1>8. IntentJournaled
  BY <1>1 DEF TunnelInit, IntentJournaled, Value
<1> QED BY <1>2, <1>3, <1>4, <1>5, <1>6, <1>7, <1>8 DEF TunnelIInv, TunnelTypes

(* The invariant of a session, its configuration, the clones of its data   *)
(* and the recoveries of both.                                             *)
THEOREM TunnelInductive ==
  TunnelSpec => []TunnelIInv
<1>1. ASSUME TunnelIInv, [TunnelNext]_tunnelVars PROVE TunnelIInv'
  <2>1. RecordTypes'
    BY <1>1, RecordTypesStep DEF TunnelIInv, TunnelTypes
  <2>2. ControlTypes'
    BY <1>1, ControlTypesStep DEF TunnelIInv, TunnelTypes
  <2>3. TunnelFlags'
    BY <1>1, FlagsStep DEF TunnelIInv
  <2>4. Locked'
    BY <1>1, LockedStep DEF TunnelIInv, TunnelTypes
  <2>5. Tasks'
    BY <1>1, TasksStep DEF TunnelIInv, TunnelTypes
  <2>6. Synced'
    BY <1>1, SyncedStep DEF TunnelIInv, TunnelTypes
  <2>7. Blocked'
    BY <1>1, BlockedStep DEF TunnelIInv, TunnelTypes
  <2>8. StoppedDown'
    BY <1>1, StoppedDownStep DEF TunnelIInv, TunnelTypes
  <2>9. IntentJournaled'
    BY <1>1, IntentStep DEF TunnelIInv, TunnelTypes
  <2> QED BY <2>1, <2>2, <2>3, <2>4, <2>5, <2>6, <2>7, <2>8, <2>9 DEF TunnelIInv, TunnelTypes
<1> QED BY <1>1, Initially, PTL DEF TunnelSpec

(* The state of the sessions has the shape the code gives it.              *)
THEOREM TunnelTypeCorrect ==
  TunnelSpec => []TunnelTypeOK
<1>1. TunnelIInv => TunnelTypeOK
  BY Zenon DEF TunnelIInv, TunnelTypes, RecordTypes, ControlTypes, TunnelFlags, TunnelTypeOK
<1> QED BY <1>1, TunnelInductive, PTL

(* Whenever the hub exits, an application that runs with other URLs than   *)
(* the saved record says is one that record marks pending                  *)
(* (Manager.configureTunnel and recover).                                  *)
THEOREM IntentKept ==
  TunnelSpec => []IntentJournaled
<1>1. TunnelIInv => IntentJournaled
  BY DEF TunnelIInv
<1> QED BY <1>1, TunnelInductive, PTL

(* While a session starts or shares, no deploy replaces and no down stops  *)
(* the services behind it (Manager.deploy and down, TunnelSessions.open).  *)
THEOREM ServicesOwned ==
  TunnelSpec => []SessionOwnsServices
<1>1. TunnelIInv => SessionOwnsServices
  BY DEF TunnelIInv, Locked
<1> QED BY <1>1, TunnelInductive, PTL
==============================================================================
