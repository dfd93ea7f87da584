----------------------------- MODULE DataStore -----------------------------
(***************************************************************************)
(* What the directories of databases are to whoever uses them, crashes or  *)
(* not: each holds one whole database or none yet.  A database appears at  *)
(* once, is written to by the service that has it open, and is replaced at *)
(* once by a copy of another, while nobody has either open.  One thing is  *)
(* not promised: a replacement that is taken back may leave it torn.       *)
(***************************************************************************)
CONSTANTS Dir, Version, Missing, Torn

VARIABLES content, open

Init == content = [d \in Dir |-> Missing] /\ open = {}
Create(d) ==
  /\ content[d] = Missing /\ \E v \in Version : content' = [content EXCEPT ![d] = v]
  /\ open' \in {open, open \cup {d}}
Open(d) == content[d] \in Version \cup {Torn} /\ open' = open \cup {d} /\ UNCHANGED content
Close(d) == open' = open \ {d} /\ UNCHANGED content
Write(d) ==
  /\ d \in open /\ content[d] \in Version /\ \E v \in Version : content' = [content EXCEPT ![d] = v]
  /\ UNCHANGED open
Copy(s, d) ==
  /\ {s, d} \cap open = {} /\ content[s] \in Version \cup {Torn}
  /\ content' = [content EXCEPT ![d] = content[s]] /\ UNCHANGED open
Tear(d) ==
  /\ d \notin open /\ content' = [content EXCEPT ![d] = Torn] /\ UNCHANGED open
Next ==
  \E d \in Dir :
    \/ Create(d) \/ Open(d) \/ Close(d) \/ Write(d) \/ Tear(d)
    \/ \E s \in Dir : Copy(s, d)

Spec == Init /\ [][Next]_<<content, open>>
=============================================================================
