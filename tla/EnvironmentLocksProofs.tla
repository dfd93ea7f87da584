------------------------ MODULE EnvironmentLocksProofs ------------------------
(***************************************************************************)
(* The safety of EnvironmentLocks for any set of calls and environments.   *)
(* IInv is inductive: each of its parts needs the others, because a lock   *)
(* is handed to the head of its queue, which is a call that waits for that *)
(* lock and for no other.                                                  *)
(***************************************************************************)
EXTENDS EnvironmentLocks, SequenceTheorems, TLAPS

(* What the operators of Semaphore do to its queue: the elements stay       *)
(* distinct, and exactly one joins or leaves.                              *)

(* A call that joins the queue for the first time (acquire's push).        *)
LEMMA AppendQueue ==
  ASSUME NEW C, NEW q \in Seq(C), NEW c \in C, IsInjective(q), c \notin ToSet(q)
  PROVE  /\ Append(q, c) \in Seq(C)
         /\ IsInjective(Append(q, c))
         /\ ToSet(Append(q, c)) = ToSet(q) \cup {c}
         /\ Append(q, c) # <<>>
  BY AppendProperties, LenProperties DEF IsInjective, ToSet

(* The first waiter is shifted off the queue (releaseOnce).                *)
LEMMA TailQueue ==
  ASSUME NEW C, NEW q \in Seq(C), q # <<>>, IsInjective(q)
  PROVE  /\ Head(q) \in C
         /\ Head(q) \in ToSet(q)
         /\ Tail(q) \in Seq(C)
         /\ IsInjective(Tail(q))
         /\ ToSet(Tail(q)) = ToSet(q) \ {Head(q)}
<1>1. /\ Head(q) \in C /\ Tail(q) \in Seq(C)
      /\ Len(q) \in Nat \ {0} /\ DOMAIN q = 1 .. Len(q)
      /\ Head(q) = q[1]
      /\ DOMAIN Tail(q) = 1 .. (Len(q) - 1)
      /\ \A i \in 1 .. (Len(q) - 1) : Tail(q)[i] = q[i + 1]
  BY EmptySeq, HeadTailProperties, LenProperties
<1>2. IsInjective(Tail(q))
  BY <1>1 DEF IsInjective
<1>3. ASSUME NEW x \in ToSet(q), x # Head(q)
      PROVE  x \in ToSet(Tail(q))
  <2>1. PICK i \in 1 .. Len(q) : x = q[i]
    BY <1>1, <1>3 DEF ToSet
  <2>2. i - 1 \in 1 .. (Len(q) - 1) /\ Tail(q)[i - 1] = x
    BY <1>1, <1>3, <2>1
  <2> QED BY <1>1, <2>2 DEF ToSet
<1>4. ASSUME NEW x \in ToSet(Tail(q))
      PROVE  x \in ToSet(q) /\ x # Head(q)
  <2>1. PICK i \in 1 .. (Len(q) - 1) : x = q[i + 1]
    BY <1>1, <1>4 DEF ToSet
  <2> QED BY <1>1, <2>1 DEF ToSet, IsInjective
<1>5. Head(q) \in ToSet(q)
  BY <1>1 DEF ToSet
<1> QED BY <1>1, <1>2, <1>3, <1>4, <1>5

(* An aborted waiter is spliced out of the queue (acquire's listener).     *)
LEMMA RemoveQueue ==
  ASSUME NEW C, NEW q \in Seq(C), NEW c, IsInjective(q)
  PROVE  /\ RemoveFirst(q, c) \in Seq(C)
         /\ IsInjective(RemoveFirst(q, c))
         /\ ToSet(RemoveFirst(q, c)) = ToSet(q) \ {c}
         /\ c \notin ToSet(q) => RemoveFirst(q, c) = q
<1>1. Len(q) \in Nat /\ DOMAIN q = 1 .. Len(q)
  BY LenProperties
<1>2. CASE ~ \E i \in 1 .. Len(q) : q[i] = c
  BY <1>1, <1>2 DEF RemoveFirst, ToSet
<1>3. CASE \E i \in 1 .. Len(q) : q[i] = c
  <2>1. PICK k \in 1 .. Len(q) : q[k] = c
    BY <1>3
  <2>2. {i \in 1 .. Len(q) : q[i] = c} = {k}
    BY <1>1, <2>1 DEF IsInjective
  <2>3. Min({k}) = k
    BY <2>1 DEF Min
  <2>4. RemoveFirst(q, c) = RemoveAt(q, k)
    BY <1>3, <2>1, <2>2, <2>3 DEF RemoveFirst, SelectInSeq
  <2> DEFINE a == SubSeq(q, 1, k - 1)
             b == SubSeq(q, k + 1, Len(q))
             r == a \o b
  <2>5. /\ a \in Seq(C) /\ b \in Seq(C)
        /\ Len(a) = k - 1 /\ Len(b) = Len(q) - k
        /\ \A i \in 1 .. k - 1 : a[i] = q[i]
        /\ \A i \in 1 .. Len(q) - k : b[i] = q[k + i]
    <3>1. \A i \in 1 .. Len(q) : q[i] \in C
      BY ElementOfSeq
    <3>2. /\ a \in Seq(C)
          /\ Len(a) = IF 1 <= k - 1 THEN (k - 1) - 1 + 1 ELSE 0
          /\ \A i \in 1 .. (k - 1) - 1 + 1 : a[i] = q[1 + i - 1]
      BY <1>1, <2>1, <3>1, SubSeqProperties
    <3>3. /\ b \in Seq(C)
          /\ Len(b) = IF k + 1 <= Len(q) THEN Len(q) - (k + 1) + 1 ELSE 0
          /\ \A i \in 1 .. Len(q) - (k + 1) + 1 : b[i] = q[(k + 1) + i - 1]
      BY <1>1, <2>1, <3>1, SubSeqProperties
    <3> HIDE DEF a, b
    <3>4. Len(a) = k - 1 /\ Len(b) = Len(q) - k
      <4>1. Len(a) = IF 1 <= k - 1 THEN (k - 1) - 1 + 1 ELSE 0
        BY <3>2
      <4>2. Len(b) = IF k + 1 <= Len(q) THEN Len(q) - (k + 1) + 1 ELSE 0
        BY <3>3
      <4>3. k \in Nat /\ 1 <= k /\ k <= Len(q)
        BY <1>1, <2>1
      <4>4. Len(a) = k - 1
        BY <4>1, <4>3
      <4>5. CASE k + 1 <= Len(q)
        <5>1. Len(b) = Len(q) - (k + 1) + 1
          BY <4>2, <4>5
        <5>2. Len(q) - (k + 1) + 1 = Len(q) - k
          BY <1>1, <4>3
        <5> QED BY <4>4, <5>1, <5>2
      <4>6. CASE ~(k + 1 <= Len(q))
        <5>1. Len(b) = 0
          BY <4>2, <4>6
        <5>2. \A n, j \in Nat : j <= n /\ ~(j + 1 <= n) => n - j = 0
          OBVIOUS
        <5>3. Len(q) - k = 0
          BY <1>1, <4>3, <4>6, <5>2
        <5> QED BY <4>4, <5>1, <5>3
      <4> QED BY <4>5, <4>6
    <3>5. \A i \in 1 .. k - 1 : a[i] = q[i]
      BY <1>1, <2>1, <3>2
    <3>6. ASSUME NEW i \in 1 .. Len(q) - k
          PROVE  b[i] = q[k + i]
      <4>1. i \in 1 .. Len(q) - (k + 1) + 1 /\ (k + 1) + i - 1 = k + i
        BY <1>1, <2>1
      <4> QED BY <3>3, <4>1
    <3> QED BY <3>2, <3>3, <3>4, <3>5, <3>6
  <2>6. /\ r \in Seq(C) /\ Len(r) = Len(q) - 1 /\ DOMAIN r = 1 .. (Len(q) - 1)
        /\ \A i \in 1 .. (Len(q) - 1) : r[i] = IF i < k THEN q[i] ELSE q[i + 1]
    <3>1. /\ r \in Seq(C) /\ Len(r) = Len(a) + Len(b)
          /\ \A i \in 1 .. Len(a) + Len(b) :
               r[i] = IF i <= Len(a) THEN a[i] ELSE b[i - Len(a)]
      BY <2>5, ConcatProperties
    <3> HIDE DEF a, b, r
    <3>2. DOMAIN r = 1 .. Len(r)
      BY <3>1, LenProperties
    <3>3. k \in Nat /\ 1 <= k /\ k <= Len(q)
      BY <1>1, <2>1
    <3>4. Len(a) = k - 1 /\ Len(b) = Len(q) - k
      BY <2>5
    <3>5. Len(r) = Len(q) - 1
      <4>1. Len(r) = Len(a) + Len(b)
        BY <3>1
      <4> QED BY <1>1, <3>3, <3>4, <4>1
    <3>6. ASSUME NEW i \in 1 .. (Len(q) - 1)
          PROVE  r[i] = IF i < k THEN q[i] ELSE q[i + 1]
      <4>1. /\ i \in 1 .. Len(a) + Len(b)
            /\ i <= Len(a) <=> i < k
            /\ i - Len(a) = i - k + 1
        BY <1>1, <3>3, <3>4
      <4>2. r[i] = IF i < k THEN a[i] ELSE b[i - k + 1]
        BY <3>1, <4>1
      <4>3. CASE i < k
        <5>1. i \in 1 .. k - 1
          BY <3>3, <4>3
        <5> QED BY <2>5, <4>2, <4>3, <5>1
      <4>4. CASE ~(i < k)
        <5>1. i - k + 1 \in 1 .. Len(q) - k /\ k + (i - k + 1) = i + 1
          BY <1>1, <3>3, <4>4
        <5> QED BY <2>5, <4>2, <4>4, <5>1
      <4> QED BY <4>3, <4>4
    <3> QED BY <3>1, <3>2, <3>5, <3>6
  <2> HIDE DEF a, b, r
  <2>7. RemoveFirst(q, c) = r
    BY <2>4 DEF RemoveAt, a, b, r
  <2>8. IsInjective(r)
    BY <1>1, <2>1, <2>6 DEF IsInjective
  <2>9. ASSUME NEW x \in ToSet(r)
        PROVE  x \in ToSet(q) /\ x # c
    <3>1. PICK i \in 1 .. (Len(q) - 1) : x = r[i]
      BY <2>6, <2>9 DEF ToSet
    <3> QED BY <1>1, <2>1, <2>6, <3>1 DEF ToSet, IsInjective
  <2>10. ASSUME NEW x \in ToSet(q), x # c
         PROVE  x \in ToSet(r)
    <3>1. PICK i \in 1 .. Len(q) : x = q[i]
      BY <1>1, <2>10 DEF ToSet
    <3>2. CASE i < k
      BY <1>1, <2>1, <2>6, <3>1, <3>2 DEF ToSet
    <3>3. CASE i > k
      <4>1. i - 1 \in 1 .. (Len(q) - 1) /\ r[i - 1] = x
        BY <1>1, <2>1, <2>6, <3>1, <3>3
      <4> QED BY <2>6, <4>1 DEF ToSet
    <3> QED BY <1>1, <2>1, <2>10, <3>1, <3>2, <3>3
  <2>11. c \in ToSet(q)
    BY <1>1, <2>1 DEF ToSet
  <2> QED BY <2>6, <2>7, <2>8, <2>9, <2>10, <2>11
<1> QED BY <1>2, <1>3

(* A queue nobody is in is the empty one.                                  *)
LEMMA EmptyQueue ==
  ASSUME NEW C, NEW q \in Seq(C), ToSet(q) = {}
  PROVE  q = <<>>
<1> SUFFICES ASSUME q # <<>> PROVE FALSE
  OBVIOUS
<1>1. Len(q) \in Nat \ {0} /\ DOMAIN q = 1 .. Len(q)
  BY EmptySeq, LenProperties
<1>2. q[1] \in ToSet(q)
  BY <1>1 DEF ToSet
<1> QED BY <1>2

(* What each operator makes of the two fields of a semaphore.              *)
LEMMA ReleaseFields ==
  ASSUME NEW C, NEW s \in SemaphoreOf(C)
  PROVE  /\ Release(s) \in SemaphoreOf(C)
         /\ s.waiting = <<>> => /\ Release(s).available = s.available + 1
                               /\ Release(s).waiting = <<>>
         /\ s.waiting # <<>> => /\ Release(s).available = s.available
                               /\ Release(s).waiting = Tail(s.waiting)
<1>1. CASE s.waiting = <<>>
  BY <1>1 DEF Release, SemaphoreOf
<1>2. CASE s.waiting # <<>>
  <2>1. Tail(s.waiting) \in Seq(C)
    BY <1>2, HeadTailProperties DEF SemaphoreOf
  <2> QED BY <1>2, <2>1 DEF Release, SemaphoreOf
<1> QED BY <1>1, <1>2

(* A permit taken leaves the queue alone and lowers available by one.      *)
LEMMA TakeFields ==
  ASSUME NEW C, NEW s \in SemaphoreOf(C), CanTake(s)
  PROVE  /\ Take(s) \in SemaphoreOf(C)
         /\ Take(s).available = s.available - 1
         /\ Take(s).waiting = s.waiting
BY DEF CanTake, Take, SemaphoreOf

(* A waiter joins the queue at its end; the permits stay.                  *)
LEMMA EnqueueFields ==
  ASSUME NEW C, NEW s \in SemaphoreOf(C), NEW c \in C
  PROVE  /\ Enqueue(s, c) \in SemaphoreOf(C)
         /\ Enqueue(s, c).available = s.available
         /\ Enqueue(s, c).waiting = Append(s.waiting, c)
<1>1. Append(s.waiting, c) \in Seq(C)
  BY AppendProperties DEF SemaphoreOf
<1> QED BY <1>1 DEF Enqueue, SemaphoreOf

(* A waiter that gives up leaves the queue; the order of the others and the*)
(* permits stay.                                                           *)
LEMMA WithdrawFields ==
  ASSUME NEW C, NEW s \in SemaphoreOf(C), NEW c, IsInjective(s.waiting)
  PROVE  /\ Withdraw(s, c) \in SemaphoreOf(C)
         /\ Withdraw(s, c).available = s.available
         /\ Withdraw(s, c).waiting = RemoveFirst(s.waiting, c)
<1>1. RemoveFirst(s.waiting, c) \in Seq(C)
  BY RemoveQueue DEF SemaphoreOf
<1> QED BY <1>1 DEF Withdraw, SemaphoreOf
------------------------------------------------------------------------------
(* A call waits for at most one lock.                                      *)
LEMMA NextIdUnique ==
  ASSUME NEW ids \in SUBSET Lock, NEW l, NEW k, IsNextId(l, ids), IsNextId(k, ids)
  PROVE  l = k
  BY LockAssumption DEF IsNextId

(* With nobody using an environment the invariant holds.                   *)
LEMMA InitIInv == Init => IInv
<1> SUFFICES ASSUME Init PROVE IInv
  OBVIOUS
<1> USE DEF Init, Fresh, New
<1>1. TypeOK
  <2>1. <<>> \in Seq(Client)
    BY EmptySeq
  <2> QED BY <2>1 DEF TypeOK, Phase
<1>2. OnePermit
  BY DEF OnePermit
<1>3. QueueAccurate
  BY DEF QueueAccurate, IsInjective, ToSet
<1>4. AscendingOrder /\ PhaseAgrees
  BY DEF AscendingOrder, PhaseAgrees
<1> QED BY <1>1, <1>2, <1>3, <1>4 DEF IInv

(* The finally block: every lock held goes to the head of its queue.       *)
LEMMA ReleaseAllIInv ==
  ASSUME IInv, NEW c \in Client, phase[c] \in {"acquiring", "rejected", "working"},
         ReleaseAll(c)
  PROVE  IInv'
<1> DEFINE passed(d) == {l \in held[c] : IsHead(sem[l], d)}
<1> USE DEF IInv
<1>0. /\ held[c] \subseteq Lock
      /\ \A d \in Client : held[d] \subseteq Lock /\ todo[d] \subseteq Lock
      /\ \A l \in Lock : sem[l].waiting \in Seq(Client) /\ sem[l].available \in {0, 1}
      /\ \A l \in Lock : sem[l] \in SemaphoreOf(Client)
  BY DEF TypeOK, SemaphoreOf
<1>1. \A l \in Lock :
        /\ IsInjective(sem[l].waiting)
        /\ \A d \in Client : d \in ToSet(sem[l].waiting)
                               <=> phase[d] = "waiting" /\ IsNextId(l, todo[d])
        /\ sem[l].waiting # <<>> => sem[l].available = 0
  BY DEF QueueAccurate
<1>2. \A l \in Lock : sem[l].waiting # <<>> =>
        /\ Head(sem[l].waiting) \in Client
        /\ Head(sem[l].waiting) \in ToSet(sem[l].waiting)
        /\ Tail(sem[l].waiting) \in Seq(Client)
        /\ IsInjective(Tail(sem[l].waiting))
        /\ ToSet(Tail(sem[l].waiting)) = ToSet(sem[l].waiting) \ {Head(sem[l].waiting)}
  BY <1>0, <1>1, TailQueue
<1>3. \A d \in Client : \A l \in passed(d) :
        /\ d # c /\ phase[d] = "waiting" /\ IsNextId(l, todo[d])
        /\ l \in Lock /\ l \in held[c] /\ sem[l].waiting # <<>> /\ Head(sem[l].waiting) = d
  BY <1>0, <1>1, <1>2 DEF IsHead
<1>4. \A d \in Client : \A l, k \in passed(d) : l = k
  BY <1>0, <1>3, NextIdUnique
<1>5. /\ sem' = [l \in Lock |-> IF l \in held[c] THEN Release(sem[l]) ELSE sem[l]]
      /\ phase' = [d \in Client |-> IF d = c THEN "idle"
                                    ELSE IF passed(d) # {} THEN "acquiring" ELSE phase[d]]
      /\ held' = [d \in Client |-> IF d = c THEN {} ELSE held[d] \cup passed(d)]
      /\ todo' = [d \in Client |-> IF d = c THEN {} ELSE todo[d] \ passed(d)]
      /\ aborted' = aborted
  BY DEF ReleaseAll
<1>6. passed(c) = {} /\ \A d \in Client : passed(d) \subseteq held[c] /\ passed(d) \subseteq todo[d]
  BY <1>3 DEF IsNextId
<1> HIDE DEF passed
<1>7. \A l \in held[c] : sem[l].available = 0
  BY <1>0 DEF OnePermit
<1>8. \A l \in Lock :
        /\ sem'[l] \in SemaphoreOf(Client)
        /\ l \notin held[c] => sem'[l] = sem[l]
        /\ l \in held[c] /\ sem[l].waiting = <<>> =>
             sem'[l].available = 1 /\ sem'[l].waiting = <<>>
        /\ l \in held[c] /\ sem[l].waiting # <<>> =>
             sem'[l].available = 0 /\ sem'[l].waiting = Tail(sem[l].waiting)
  <2> SUFFICES ASSUME NEW l \in Lock
               PROVE  /\ sem'[l] \in SemaphoreOf(Client)
                      /\ l \notin held[c] => sem'[l] = sem[l]
                      /\ l \in held[c] /\ sem[l].waiting = <<>> =>
                           sem'[l].available = 1 /\ sem'[l].waiting = <<>>
                      /\ l \in held[c] /\ sem[l].waiting # <<>> =>
                           sem'[l].available = 0 /\ sem'[l].waiting = Tail(sem[l].waiting)
    OBVIOUS
  <2>1. sem'[l] = IF l \in held[c] THEN Release(sem[l]) ELSE sem[l]
    BY <1>5
  <2>2. l \in held[c] => sem[l].available + 1 = 1
    BY <1>7
  <2> QED BY <1>0, <1>7, <2>1, <2>2, ReleaseFields
<1>9. \A l \in Lock : l \in held[c] /\ sem[l].waiting # <<>> =>
        l \in passed(Head(sem[l].waiting))
  BY DEF passed, IsHead
<1>10. TypeOK'
  <2>1. \A l \in Lock : sem'[l] \in [available : {0, 1}, waiting : Seq(Client)]
    BY <1>0, <1>2, <1>8 DEF SemaphoreOf
  <2>2. sem' \in [Lock -> [available : {0, 1}, waiting : Seq(Client)]]
    BY <1>5, <2>1
  <2>3. /\ phase' \in [Client -> Phase] /\ todo' \in [Client -> SUBSET Lock]
        /\ aborted' \in [Client -> BOOLEAN]
    BY <1>5, <1>0 DEF TypeOK, Phase
  <2>4. held' \in [Client -> SUBSET Lock]
    BY <1>5, <1>0, <1>6
  <2> QED BY <2>2, <2>3, <2>4 DEF TypeOK
<1>11. OnePermit'
  <2> SUFFICES ASSUME NEW l \in Lock
               PROVE  /\ \A d, e \in Client : l \in held'[d] \cap held'[e] => d = e
                      /\ sem'[l].available = 0 <=> \E d \in Client : l \in held'[d]
    BY DEF OnePermit
  <2>1. CASE l \notin held[c]
    <3>1. \A d \in Client : l \in held'[d] <=> l \in held[d]
      BY <1>5, <1>6, <2>1
    <3> QED BY <1>8, <2>1, <3>1 DEF OnePermit
  <2>2. CASE l \in held[c]
    <3>1. \A d \in Client : l \in held[d] => d = c
      BY <2>2 DEF OnePermit
    <3>2. \A d \in Client : l \in held'[d] <=> l \in passed(d)
      BY <1>5, <1>6, <3>1
    <3>3. \A d, e \in Client : l \in passed(d) /\ l \in passed(e) => d = e
      BY <1>3
    <3>4. CASE sem[l].waiting = <<>>
      BY <1>3, <1>8, <2>2, <3>2, <3>4
    <3>5. CASE sem[l].waiting # <<>>
      BY <1>2, <1>8, <1>9, <2>2, <3>2, <3>3, <3>5
    <3> QED BY <3>4, <3>5
  <2> QED BY <2>1, <2>2
<1>12. \A d \in Client : \A l \in Lock :
         phase'[d] = "waiting" /\ IsNextId(l, todo'[d])
           <=> phase[d] = "waiting" /\ IsNextId(l, todo[d]) /\ passed(d) = {}
  <2> SUFFICES ASSUME NEW d \in Client, NEW l \in Lock
               PROVE  phase'[d] = "waiting" /\ IsNextId(l, todo'[d])
                        <=> phase[d] = "waiting" /\ IsNextId(l, todo[d]) /\ passed(d) = {}
    OBVIOUS
  <2>1. CASE d = c
    BY <1>5, <2>1
  <2>2. CASE d # c /\ passed(d) = {}
    <3>1. phase'[d] = phase[d] /\ todo'[d] = todo[d]
      BY <1>5, <2>2
    <3> QED BY <2>2, <3>1
  <2>3. CASE d # c /\ passed(d) # {}
    BY <1>5, <2>3
  <2> QED BY <2>1, <2>2, <2>3
<1>13. QueueAccurate'
  <2> SUFFICES ASSUME NEW l \in Lock
               PROVE  /\ IsInjective(sem'[l].waiting)
                      /\ \A d \in Client : d \in ToSet(sem'[l].waiting)
                           <=> phase'[d] = "waiting" /\ IsNextId(l, todo'[d])
                      /\ sem'[l].waiting # <<>> => sem'[l].available = 0
    BY DEF QueueAccurate
  <2>1. CASE l \notin held[c] \/ sem[l].waiting = <<>>
    <3>1. sem'[l].waiting = sem[l].waiting
      BY <1>8, <2>1
    <3>2. \A d \in Client : d \in ToSet(sem[l].waiting) => passed(d) = {}
      <4> SUFFICES ASSUME NEW d \in Client, d \in ToSet(sem[l].waiting), NEW k \in passed(d)
                   PROVE  FALSE
        OBVIOUS
      <4>1. k = l
        BY <1>0, <1>1, <1>3, NextIdUnique
      <4> QED BY <1>3, <2>1, <4>1
    <3>3. sem'[l].waiting # <<>> => sem'[l].available = 0
      BY <1>1, <1>8, <2>1
    <3> QED BY <1>1, <1>12, <3>1, <3>2, <3>3
  <2>2. CASE l \in held[c] /\ sem[l].waiting # <<>>
    <3>1. /\ sem'[l].available = 0
          /\ IsInjective(sem'[l].waiting)
          /\ ToSet(sem'[l].waiting) = ToSet(sem[l].waiting) \ {Head(sem[l].waiting)}
      BY <1>2, <1>8, <2>2
    <3>2. ASSUME NEW d \in Client, d \in ToSet(sem[l].waiting)
          PROVE  passed(d) = {} <=> d # Head(sem[l].waiting)
      <4>1. ASSUME NEW k \in passed(d) PROVE d = Head(sem[l].waiting)
        <5>1. k = l
          BY <1>0, <1>1, <1>3, <3>2, <4>1, NextIdUnique
        <5> QED BY <1>3, <4>1, <5>1
      <4> QED BY <1>9, <2>2, <4>1
    <3> QED BY <1>1, <1>12, <3>1, <3>2
  <2> QED BY <2>1, <2>2
<1>14. AscendingOrder'
  <2> SUFFICES ASSUME NEW d \in Client, NEW h \in held'[d], NEW l \in todo'[d]
               PROVE  h < l
    BY DEF AscendingOrder
  <2>1. d # c /\ l \in todo[d] /\ l \notin passed(d) /\ h \in held[d] \cup passed(d)
    BY <1>5
  <2>2. CASE h \in held[d]
    BY <2>1, <2>2 DEF AscendingOrder
  <2>3. CASE h \in passed(d)
    <3>1. h \in Lock /\ l \in Lock /\ h <= l /\ h # l
      BY <1>0, <1>3, <2>1, <2>3 DEF IsNextId
    <3> QED BY <3>1, LockAssumption
  <2> QED BY <2>1, <2>2, <2>3
<1>15. PhaseAgrees'
  BY <1>3, <1>5, <1>6 DEF PhaseAgrees
<1> QED BY <1>10, <1>11, <1>13, <1>14, <1>15

(* A step that leaves the semaphores and the waiting calls alone.          *)
LEMMA QueueUntouched ==
  ASSUME IInv, sem' = sem,
         \A d \in Client : phase'[d] = "waiting" <=> phase[d] = "waiting",
         \A d \in Client : phase[d] = "waiting" => todo'[d] = todo[d]
  PROVE  QueueAccurate'
BY DEF IInv, QueueAccurate

(* A call that begins asks for environments and touches no semaphore.      *)
LEMMA UseIInv ==
  ASSUME IInv, NEW c \in Client, NEW ids \in SUBSET Lock, Use(c, ids)
  PROVE  IInv'
<1> USE DEF Use
<1>1. TypeOK' /\ OnePermit' /\ AscendingOrder' /\ PhaseAgrees'
  BY DEF IInv, TypeOK, Phase, OnePermit, AscendingOrder, PhaseAgrees
<1>2. QueueAccurate'
  BY QueueUntouched DEF IInv, TypeOK
<1> QED BY <1>1, <1>2 DEF IInv

(* A fresh AbortSignal leaves permits and queues alone.                    *)
LEMMA NewSignalIInv ==
  ASSUME IInv, NEW c \in Client, NewSignal(c)
  PROVE  IInv'
<1> USE DEF NewSignal
<1>1. TypeOK' /\ OnePermit' /\ AscendingOrder' /\ PhaseAgrees'
  BY DEF IInv, TypeOK, OnePermit, AscendingOrder, PhaseAgrees
<1>2. QueueAccurate'
  BY QueueUntouched
<1> QED BY <1>1, <1>2 DEF IInv

(* A call that holds all it asked for and goes to work keeps the invariant.*)
LEMMA EnterIInv ==
  ASSUME IInv, NEW c \in Client, Enter(c)
  PROVE  IInv'
<1> USE DEF Enter
<1>1. TypeOK' /\ OnePermit' /\ AscendingOrder' /\ PhaseAgrees'
  BY DEF IInv, TypeOK, Phase, OnePermit, AscendingOrder, PhaseAgrees
<1>2. QueueAccurate'
  BY QueueUntouched DEF IInv, TypeOK
<1> QED BY <1>1, <1>2 DEF IInv

(* A permit taken at once moves from available to held; queues stay as they*)
(* are.                                                                    *)
LEMMA GrantIInv ==
  ASSUME IInv, NEW c \in Client, NEW l \in Lock, Grant(c, l)
  PROVE  IInv'
<1> USE DEF Grant
<1>1. /\ \A k \in Lock : sem[k] \in SemaphoreOf(Client) /\ sem[k].available \in {0, 1}
      /\ \A d \in Client : held[d] \subseteq Lock /\ todo[d] \subseteq Lock
  BY DEF IInv, TypeOK, SemaphoreOf
<1>2. /\ \A k \in Lock : k # l => sem'[k] = sem[k]
      /\ sem'[l] \in SemaphoreOf(Client)
      /\ sem[l].available = 1 /\ sem'[l].available = 0
      /\ sem'[l].waiting = sem[l].waiting
  BY <1>1, TakeFields DEF IInv, TypeOK, CanTake
<1>3. TypeOK'
  <2>1. sem' \in [Lock -> [available : {0, 1}, waiting : Seq(Client)]]
    BY <1>1, <1>2 DEF IInv, TypeOK, SemaphoreOf
  <2> QED BY <2>1 DEF IInv, TypeOK
<1>4. OnePermit'
  <2>1. \A d \in Client : l \notin held[d]
    BY <1>2 DEF IInv, OnePermit
  <2>2. \A d \in Client : held'[d] = IF d = c THEN held[c] \cup {l} ELSE held[d]
    BY DEF IInv, TypeOK
  <2> QED BY <1>2, <2>1, <2>2 DEF IInv, OnePermit
<1>5. QueueAccurate'
  <2>1. \A k \in Lock : sem'[k].waiting = sem[k].waiting
    BY <1>2
  <2>2. sem[l].waiting = <<>>
    BY <1>2 DEF IInv, QueueAccurate
  <2>3. \A k \in Lock : sem[k].waiting # <<>> => sem'[k].available = 0
    BY <1>2, <2>2 DEF IInv, QueueAccurate
  <2>4. \A d \in Client : phase'[d] = phase[d] /\ (d # c => todo'[d] = todo[d])
    BY DEF IInv, TypeOK
  <2> QED BY <2>1, <2>3, <2>4 DEF IInv, QueueAccurate
<1>6. AscendingOrder'
  <2> SUFFICES ASSUME NEW d \in Client, NEW h \in held'[d], NEW k \in todo'[d]
               PROVE  h < k
    BY DEF AscendingOrder
  <2>1. CASE d # c \/ h # l
    BY <2>1 DEF IInv, TypeOK, AscendingOrder
  <2>2. CASE d = c /\ h = l
    <3>1. k \in todo[c] /\ k # l /\ l <= k /\ k \in Lock
      BY <1>1, <2>2 DEF IInv, TypeOK, IsNextId
    <3> QED BY <2>2, <3>1, LockAssumption
  <2> QED BY <2>1, <2>2
<1>7. PhaseAgrees'
  BY DEF IInv, TypeOK, PhaseAgrees
<1> QED BY <1>3, <1>4, <1>5, <1>6, <1>7 DEF IInv

(* A call that finds no permit joins exactly one queue, behind the others. *)
LEMMA QueueIInv ==
  ASSUME IInv, NEW c \in Client, NEW l \in Lock, Queue(c, l)
  PROVE  IInv'
<1> USE DEF Queue
<1>1. /\ \A k \in Lock : sem[k] \in SemaphoreOf(Client) /\ sem[k].available \in {0, 1}
      /\ \A d \in Client : held[d] \subseteq Lock /\ todo[d] \subseteq Lock
  BY DEF IInv, TypeOK, SemaphoreOf
<1>2. c \notin ToSet(sem[l].waiting) /\ IsInjective(sem[l].waiting)
  BY DEF IInv, QueueAccurate
<1>3. /\ sem[l].waiting \in Seq(Client)
      /\ IsInjective(Append(sem[l].waiting, c))
      /\ ToSet(Append(sem[l].waiting, c)) = ToSet(sem[l].waiting) \cup {c}
  BY <1>1, <1>2, AppendQueue DEF SemaphoreOf
<1>4. /\ \A k \in Lock : k # l => sem'[k] = sem[k]
      /\ sem'[l] \in SemaphoreOf(Client)
      /\ sem[l].available = 0 /\ sem'[l].available = 0
      /\ sem'[l].waiting = Append(sem[l].waiting, c)
  BY <1>1, EnqueueFields DEF IInv, TypeOK, CanTake
<1>5. TypeOK'
  <2>1. sem' \in [Lock -> [available : {0, 1}, waiting : Seq(Client)]]
    BY <1>1, <1>4 DEF IInv, TypeOK, SemaphoreOf
  <2> QED BY <2>1 DEF IInv, TypeOK, Phase
<1>6. OnePermit'
  <2>1. \A k \in Lock : sem'[k].available = sem[k].available
    BY <1>4
  <2> QED BY <2>1 DEF IInv, OnePermit
<1>7. QueueAccurate'
  <2>1. \A d \in Client : /\ d # c => phase'[d] = phase[d]
                          /\ todo'[d] = todo[d]
    BY DEF IInv, TypeOK
  <2>2. phase'[c] = "waiting" /\ phase[c] # "waiting"
    BY DEF IInv, TypeOK
  <2>3. \A k \in Lock : IsNextId(k, todo[c]) <=> k = l
    BY <1>1, NextIdUnique
  <2>4. ASSUME NEW k \in Lock, k # l
        PROVE  /\ IsInjective(sem'[k].waiting)
               /\ \A d \in Client : d \in ToSet(sem'[k].waiting)
                                      <=> phase'[d] = "waiting" /\ IsNextId(k, todo'[d])
               /\ sem'[k].waiting # <<>> => sem'[k].available = 0
    BY <1>4, <2>1, <2>2, <2>3, <2>4 DEF IInv, QueueAccurate
  <2>5. \A d \in Client : d \in ToSet(sem'[l].waiting)
                             <=> phase'[d] = "waiting" /\ IsNextId(l, todo'[d])
    BY <1>3, <1>4, <2>1, <2>2, <2>3 DEF IInv, QueueAccurate
  <2> QED BY <1>3, <1>4, <2>4, <2>5 DEF QueueAccurate
<1>8. AscendingOrder' /\ PhaseAgrees'
  BY DEF IInv, TypeOK, AscendingOrder, PhaseAgrees
<1> QED BY <1>5, <1>6, <1>7, <1>8 DEF IInv

(* The signal takes a waiter out of the one queue it is in, and changes    *)
(* nothing else: no permit is lost or doubled.                             *)
LEMMA AbortIInv ==
  ASSUME IInv, NEW c \in Client, Abort(c)
  PROVE  IInv'
<1>1. CASE phase[c] # "waiting"
  <2>1. /\ aborted' = [aborted EXCEPT ![c] = TRUE]
        /\ UNCHANGED <<sem, phase, todo, held>>
    BY <1>1 DEF Abort
  <2>2. TypeOK' /\ OnePermit' /\ AscendingOrder' /\ PhaseAgrees'
    BY <1>1, <2>1 DEF IInv, TypeOK, OnePermit, AscendingOrder, PhaseAgrees
  <2>3. QueueAccurate'
    BY <2>1, QueueUntouched
  <2> QED BY <2>2, <2>3 DEF IInv
<1>2. CASE phase[c] = "waiting"
  <2>1. /\ aborted' = [aborted EXCEPT ![c] = TRUE]
        /\ sem' = [l \in Lock |-> IF IsNextId(l, todo[c]) THEN Withdraw(sem[l], c) ELSE sem[l]]
        /\ phase' = [phase EXCEPT ![c] = "rejected"]
        /\ UNCHANGED <<todo, held>>
    BY <1>2 DEF Abort
  <2>2. \A l \in Lock : /\ sem[l] \in SemaphoreOf(Client) /\ sem[l].available \in {0, 1}
                        /\ IsInjective(sem[l].waiting)
    BY DEF IInv, TypeOK, QueueAccurate, SemaphoreOf
  <2>3. \A l \in Lock : ~IsNextId(l, todo[c]) => c \notin ToSet(sem[l].waiting)
    BY DEF IInv, QueueAccurate
  <2>4. \A l \in Lock :
          /\ sem'[l] \in SemaphoreOf(Client)
          /\ sem'[l].available = sem[l].available
          /\ IsInjective(sem'[l].waiting)
          /\ ToSet(sem'[l].waiting) = ToSet(sem[l].waiting) \ {c}
    <3> SUFFICES ASSUME NEW l \in Lock
                 PROVE  /\ sem'[l] \in SemaphoreOf(Client)
                        /\ sem'[l].available = sem[l].available
                        /\ IsInjective(sem'[l].waiting)
                        /\ ToSet(sem'[l].waiting) = ToSet(sem[l].waiting) \ {c}
      OBVIOUS
    <3>1. CASE IsNextId(l, todo[c])
      <4>1. sem'[l] = Withdraw(sem[l], c)
        BY <2>1, <3>1
      <4>2. sem[l].waiting \in Seq(Client)
        BY <2>2 DEF SemaphoreOf
      <4> QED BY <2>2, <4>1, <4>2, WithdrawFields, RemoveQueue
    <3>2. CASE ~IsNextId(l, todo[c])
      <4>1. sem'[l] = sem[l]
        BY <2>1, <3>2
      <4> QED BY <2>2, <2>3, <3>2, <4>1
    <3> QED BY <3>1, <3>2
  <2>5. TypeOK'
    <3>1. sem' \in [Lock -> [available : {0, 1}, waiting : Seq(Client)]]
      BY <2>1, <2>2, <2>4 DEF SemaphoreOf
    <3> QED BY <2>1, <3>1 DEF IInv, TypeOK, Phase
  <2>6. OnePermit' /\ AscendingOrder' /\ PhaseAgrees'
    BY <2>1, <2>4 DEF IInv, TypeOK, OnePermit, AscendingOrder, PhaseAgrees
  <2>7. QueueAccurate'
    <3> SUFFICES ASSUME NEW l \in Lock
                 PROVE  /\ IsInjective(sem'[l].waiting)
                        /\ \A d \in Client : d \in ToSet(sem'[l].waiting)
                             <=> phase'[d] = "waiting" /\ IsNextId(l, todo'[d])
                        /\ sem'[l].waiting # <<>> => sem'[l].available = 0
      BY DEF QueueAccurate
    <3>1. \A d \in Client : phase'[d] = IF d = c THEN "rejected" ELSE phase[d]
      BY <2>1 DEF IInv, TypeOK
    <3>2. \A d \in Client : d \in ToSet(sem'[l].waiting)
                               <=> phase'[d] = "waiting" /\ IsNextId(l, todo'[d])
      BY <2>1, <2>4, <3>1 DEF IInv, QueueAccurate
    <3>3. sem'[l].waiting # <<>> => sem[l].waiting # <<>>
      <4> SUFFICES ASSUME sem[l].waiting = <<>> PROVE sem'[l].waiting = <<>>
        OBVIOUS
      <4>1. ToSet(sem'[l].waiting) = {}
        BY <2>4 DEF ToSet
      <4>2. sem'[l].waiting \in Seq(Client)
        BY <2>4 DEF SemaphoreOf
      <4> QED BY <4>1, <4>2, EmptyQueue
    <3> QED BY <2>4, <3>2, <3>3 DEF IInv, QueueAccurate
  <2> QED BY <2>5, <2>6, <2>7 DEF IInv
<1> QED BY <1>1, <1>2

(* IInv is preserved by every step.                                        *)
LEMMA NextIInv == IInv /\ [Next]_vars => IInv'
<1> SUFFICES ASSUME IInv, [Next]_vars PROVE IInv'
  OBVIOUS
<1>1. CASE UNCHANGED vars
  BY <1>1 DEF vars, IInv, TypeOK, OnePermit, QueueAccurate, AscendingOrder, PhaseAgrees
<1>2. CASE Next
  <2>1. PICK c \in Client : \/ \E ids \in (SUBSET Lock) \ {{}} : Use(c, ids)
                           \/ NewSignal(c)
                           \/ Abort(c)
                           \/ Step(c)
    BY <1>2 DEF Next
  <2>2. CASE \E ids \in (SUBSET Lock) \ {{}} : Use(c, ids)
    BY <2>2, UseIInv
  <2>3. CASE NewSignal(c)
    BY <2>3, NewSignalIInv
  <2>4. CASE Abort(c)
    BY <2>4, AbortIInv
  <2>5. CASE \E l \in Lock : Grant(c, l)
    BY <2>5, GrantIInv
  <2>6. CASE \E l \in Lock : Queue(c, l)
    BY <2>6, QueueIInv
  <2>7. CASE Throw(c)
    BY <2>7, ReleaseAllIInv DEF Throw
  <2>8. CASE Enter(c)
    BY <2>8, EnterIInv
  <2>9. CASE Finish(c)
    BY <2>9, ReleaseAllIInv DEF Finish
  <2>10. CASE Leave(c)
    BY <2>10, ReleaseAllIInv DEF Leave
  <2> QED BY <2>1, <2>2, <2>3, <2>4, <2>5, <2>6, <2>7, <2>8, <2>9, <2>10 DEF Step
<1> QED BY <1>1, <1>2

(* The inductive invariant holds in every reachable state.                 *)
THEOREM Inductive == Spec => []IInv
<1> QED BY InitIInv, NextIInv, PTL DEF Spec

(* The state always has the shape the code gives it (locks.ts:2-74).       *)
THEOREM TypeCorrect == Spec => []TypeOK
<1>1. IInv => TypeOK
  BY DEF IInv
<1> QED BY <1>1, Inductive, PTL

(* A permit is never lost and never duplicated, whatever is aborted when   *)
(* (locks.ts:24-45).                                                       *)
THEOREM PermitsConserved == Spec => []OnePermit
<1>1. IInv => OnePermit
  BY DEF IInv
<1> QED BY <1>1, Inductive, PTL

(* The queues hold exactly the calls that wait (locks.ts:20-33).           *)
THEOREM QueuesAccurate == Spec => []QueueAccurate
<1>1. IInv => QueueAccurate
  BY DEF IInv
<1> QED BY <1>1, Inductive, PTL

(* No call waits for an id below one it holds, so that the waits-for       *)
(* relation follows the order of the ids and has no cycle (locks.ts:61).   *)
THEOREM NoDeadlockOrder == Spec => []AscendingOrder
<1>1. IInv => AscendingOrder
  BY DEF IInv
<1> QED BY <1>1, Inductive, PTL

(* Whoever gets a lock that somebody waits for has waited longest: acquire *)
(* takes only a free permit, and releaseOnce shifts the queue              *)
(* (locks.ts:16-45).                                                       *)
LEMMA StepNoBarging ==
  ASSUME IInv, [Next]_vars, NEW l \in Lock, NEW d \in Client,
         l \in held'[d] \ held[d], sem[l].waiting # <<>>
  PROVE  d = Head(sem[l].waiting)
<1>1. ASSUME NEW c \in Client, ReleaseAll(c)
      PROVE  d = Head(sem[l].waiting)
  BY <1>1 DEF ReleaseAll, IsHead
<1>2. ASSUME NEW c \in Client, NEW k \in Lock, Grant(c, k)
      PROVE  FALSE
  <2>1. k = l
    BY <1>2 DEF Grant, IInv, TypeOK
  <2>2. sem[l].available = 0
    BY DEF IInv, QueueAccurate
  <2> QED BY <1>2, <2>1, <2>2 DEF Grant, CanTake
<1>3. CASE UNCHANGED held
  BY <1>3
<1> QED BY <1>1, <1>2, <1>3
        DEF Next, Step, vars, Use, NewSignal, Abort, Queue, Throw, Enter, Finish, Leave

(* Locks are granted first come, first served.                             *)
THEOREM FirstComeFirstServed == Spec => NoBarging
<1>1. IInv /\ [Next]_vars =>
        [\A l \in Lock, c \in Client :
           l \in held'[c] \ held[c] /\ sem[l].waiting # <<>> => c = Head(sem[l].waiting)]_vars
  BY StepNoBarging
<1> QED BY <1>1, Inductive, PTL DEF Spec, NoBarging
------------------------------------------------------------------------------
(* The calls implement LockService: what a call asks for is what it has    *)
(* left to acquire and what it holds.                                      *)
asked == [c \in Client |-> todo[c] \cup held[c]]
stages == [c \in Client |-> Stage(c)]

(* The initial states of the locks are initial states of the abstract      *)
(* service.                                                                *)
LEMMA InitService == Init => Service!Init
BY DEF Init, Fresh, Service!Init, Stage

(* What a call asks for and where it is, typed.                            *)
LEMMA ServiceTyping ==
  TypeOK => /\ asked \in [Client -> SUBSET Lock]
            /\ stages \in [Client -> {"out", "pending", "in"}]
BY DEF TypeOK, asked, stages, Stage

(* A call of use asks for its ids.                                         *)
LEMMA UseService ==
  ASSUME IInv, NEW c \in Client, NEW ids \in SUBSET Lock, Use(c, ids)
  PROVE  /\ asked[c] = {} /\ asked' = [asked EXCEPT ![c] = ids]
         /\ stages[c] = "out" /\ stages' = [stages EXCEPT ![c] = "pending"]
<1>1. held[c] = {} /\ todo[c] = {}
  BY DEF Use, IInv, PhaseAgrees
<1> QED BY <1>1 DEF Use, IInv, TypeOK, asked, stages, Stage

(* The finally block takes one call out; those that get its locks have     *)
(* asked for them.                                                         *)
LEMMA ReleaseAllService ==
  ASSUME IInv, NEW c \in Client, ReleaseAll(c), phase[c] \in {"acquiring", "rejected", "working"}
  PROVE  /\ asked' = [asked EXCEPT ![c] = {}]
         /\ stages[c] \in {"pending", "in"} /\ stages' = [stages EXCEPT ![c] = "out"]
<1> DEFINE passed(d) == {l \in held[c] : IsHead(sem[l], d)}
<1>0. /\ phase \in [Client -> Phase] /\ todo \in [Client -> SUBSET Lock]
      /\ held \in [Client -> SUBSET Lock]
  BY DEF IInv, TypeOK
<1>1. /\ phase' = [d \in Client |-> IF d = c THEN "idle"
                                    ELSE IF passed(d) # {} THEN "acquiring" ELSE phase[d]]
      /\ held' = [d \in Client |-> IF d = c THEN {} ELSE held[d] \cup passed(d)]
      /\ todo' = [d \in Client |-> IF d = c THEN {} ELSE todo[d] \ passed(d)]
  BY DEF ReleaseAll
<1>2. \A d \in Client : \A l \in passed(d) : phase[d] = "waiting" /\ l \in todo[d]
  <2> SUFFICES ASSUME NEW d \in Client, NEW l \in held[c],
                      sem[l].waiting # <<>>, Head(sem[l].waiting) = d
               PROVE  phase[d] = "waiting" /\ l \in todo[d]
    BY DEF IsHead
  <2>1. l \in Lock /\ sem[l].waiting \in Seq(Client) /\ IsInjective(sem[l].waiting)
    BY <1>0 DEF IInv, TypeOK, QueueAccurate
  <2>2. d \in ToSet(sem[l].waiting)
    BY <2>1, TailQueue
  <2> QED BY <2>1, <2>2 DEF IInv, QueueAccurate, IsNextId
<1> HIDE DEF passed
<1>3. asked' = [asked EXCEPT ![c] = {}]
  BY <1>0, <1>1, <1>2 DEF asked
<1>4. stages' = [stages EXCEPT ![c] = "out"] /\ stages[c] \in {"pending", "in"}
  BY <1>0, <1>1, <1>2 DEF stages, Stage
<1> QED BY <1>3, <1>4

(* Work begins when every lock asked for is held, and is alone with them.  *)
LEMMA EnterService ==
  ASSUME IInv, NEW c \in Client, Enter(c)
  PROVE  /\ asked' = asked
         /\ stages[c] = "pending" /\ stages' = [stages EXCEPT ![c] = "in"]
         /\ \A d \in Client \ {c} : stages[d] = "in" => asked[c] \cap asked[d] = {}
<1> USE DEF Stage
<1>0. /\ phase \in [Client -> Phase] /\ todo \in [Client -> SUBSET Lock]
      /\ held \in [Client -> SUBSET Lock]
  BY DEF IInv, TypeOK
<1>1. todo[c] = {} /\ phase[c] = "acquiring" /\ phase' = [phase EXCEPT ![c] = "working"]
      /\ UNCHANGED <<sem, todo, held, aborted>>
  BY DEF Enter
<1>2. stages' = [stages EXCEPT ![c] = "in"] /\ stages[c] = "pending" /\ asked' = asked
  BY <1>0, <1>1 DEF stages, asked
<1>3. \A d \in Client \ {c} : stages[d] = "in" => asked[c] \cap asked[d] = {}
  <2> SUFFICES ASSUME NEW d \in Client \ {c}, stages[d] = "in", NEW l \in asked[c] \cap asked[d]
               PROVE  FALSE
    OBVIOUS
  <2>1. phase[d] = "working" /\ todo[d] = {}
    BY <1>0 DEF stages, IInv, PhaseAgrees
  <2>2. l \in held[c] \cap held[d] /\ l \in Lock
    BY <1>0, <1>1, <2>1 DEF asked
  <2> QED BY <2>2 DEF IInv, OnePermit
<1> QED BY <1>2, <1>3

(* Nothing else is seen from outside.                                      *)
LEMMA SilentService ==
  ASSUME IInv, NEW c \in Client,
         \/ NewSignal(c) \/ Abort(c)
         \/ \E l \in Lock : Grant(c, l) \/ Queue(c, l)
  PROVE  UNCHANGED <<asked, stages>>
<1> USE DEF Stage, IInv, TypeOK, asked, stages
<1>1. ASSUME NEW l \in Lock, Grant(c, l)
      PROVE  UNCHANGED <<asked, stages>>
  BY <1>1 DEF Grant, IsNextId
<1>2. ASSUME NEW l \in Lock, Queue(c, l)
      PROVE  UNCHANGED <<asked, stages>>
  BY <1>2 DEF Queue
<1>3. CASE Abort(c)
  BY <1>3 DEF Abort
<1>4. CASE NewSignal(c)
  BY <1>4 DEF NewSignal
<1> QED BY <1>1, <1>2, <1>3, <1>4

(* Every step of the locks is a step of the abstract service, or one it    *)
(* does not see.                                                           *)
LEMMA StepService == IInv /\ [Next]_vars => [Service!Next]_(Service!vars)
<1> SUFFICES ASSUME IInv, [Next]_vars
             PROVE  Service!Next \/ UNCHANGED <<asked, stages>>
  BY DEF Service!vars, asked, stages
<1>1. ASSUME NEW c \in Client, NEW ids \in SUBSET Lock, Use(c, ids)
      PROVE  Service!Ask(c, ids)
  BY <1>1, UseService DEF Service!Ask, asked, stages
<1>2. ASSUME NEW c \in Client, ReleaseAll(c), phase[c] \in {"acquiring", "rejected", "working"}
      PROVE  Service!Exit(c)
  BY <1>2, ReleaseAllService DEF Service!Exit, asked, stages
<1>3. ASSUME NEW c \in Client, Enter(c)
      PROVE  Service!Enter(c)
  BY <1>3, EnterService DEF Service!Enter, asked, stages
<1>4. CASE UNCHANGED vars
  BY <1>4 DEF vars, asked, stages, Stage
<1>5. CASE Next
  <2>1. PICK c \in Client : \/ \E ids \in (SUBSET Lock) \ {{}} : Use(c, ids)
                           \/ NewSignal(c)
                           \/ Abort(c)
                           \/ Step(c)
    BY <1>5 DEF Next
  <2>2. CASE \E ids \in (SUBSET Lock) \ {{}} : Use(c, ids)
    BY <1>1, <2>2 DEF Service!Next
  <2>3. CASE NewSignal(c) \/ Abort(c) \/ \E l \in Lock : Grant(c, l) \/ Queue(c, l)
    BY <2>3, SilentService
  <2>4. CASE Enter(c)
    BY <1>3, <2>4 DEF Service!Next
  <2>5. CASE Throw(c) \/ Finish(c) \/ Leave(c)
    <3>1. Service!Exit(c)
      BY <1>2, <2>5 DEF Throw, Finish, Leave
    <3> QED BY <3>1 DEF Service!Next
  <2> QED BY <2>1, <2>2, <2>3, <2>4, <2>5 DEF Step
<1> QED BY <1>4, <1>5

(* EnvironmentLocks.use gives its callers mutual exclusion: a call's work  *)
(* runs only while no other call's work runs on an environment it named    *)
(* (locks.ts:56-74).                                                       *)
THEOREM Refinement == Spec => ImplementsService
<1> QED BY InitService, StepService, Inductive, PTL DEF Spec, ImplementsService, Service!Spec

===============================================================================
