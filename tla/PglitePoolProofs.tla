-------------------------- MODULE PglitePoolProofs --------------------------
(***************************************************************************)
(* The safety of PglitePool for any clients, statement names and limits.   *)
(*                                                                         *)
(* Everything turns on the owner: the session and what is loaded are its   *)
(* own (Owned), everyone else who has sent something has a deadline, and   *)
(* the owner has one exactly while the pool is idle (Waiting).  A wakeup   *)
(* is not lost because whatever happens while the loop is off switches it  *)
(* on, and it looks again before it goes off.                              *)
(***************************************************************************)
EXTENDS PglitePool, SequenceTheorems, WellFoundedInduction, TLAPS

Order ==
  /\ order \in Seq(Client) /\ Len(order) <= Capacity
  /\ \A i, j \in 1 .. Len(order) : order[i] = order[j] => i = j
Types ==
  /\ fresh \cup timer \subseteq Open /\ sending \cup discard \subseteq Client
  /\ queue \in [Client -> Seq(Message)] /\ \A c \in Client : Len(queue[c]) <= MaxQueue
  /\ statements \in [Client -> SUBSET Name]
  /\ output \in [Client -> {"none", "open", "closing"}]
  /\ owner \in Client \cup {Nobody} /\ msg \in Message /\ loaded \subseteq Name
  /\ at \in {"off", "starting", "loop", "opening", "executing", "sending", "rolling",
             "resetting", "yielding", "settling"}
  /\ tx \in {"none", "implicit", "open"}
  /\ prepared \in [Name -> Client \cup {Nobody}] /\ session \in Client \cup {Nobody}
  /\ stop \in {"none", "stopping", "stopped"}

(* The two parts of TypeOK that are truth values.                          *)
Relay == [copying : BOOLEAN, waitingForSync : BOOLEAN, discarding : BOOLEAN]
Flags == relay \in Relay /\ stopped \in BOOLEAN

(* What the backend and the pool hold is the owner's, and nobody's when    *)
(* there is none.                                                          *)
Owned ==
  /\ LoadedIsOwners
  /\ session \in {Nobody, owner}
  /\ at \in {"opening", "executing", "sending", "rolling", "resetting"} => owner # Nobody
  /\ at = "rolling" => owner \notin Open
  /\ owner \in sending => at = "sending"

(* Who has a deadline at every await, in the loop too.                     *)
Waiting ==
  /\ \A c \in Client \ Open : queue[c] = <<>>
  /\ ~stopped => \A c \in Open \ sending : c # owner /\ queue[c] # <<>> => c \in timer
  /\ at \in {"settling", "off"} /\ ~stopped /\ owner \in Open => owner \in timer
  /\ at \in {"opening", "executing"} => owner \notin timer

IInv == Order /\ Types /\ Flags /\ Owned /\ Waiting /\ NothingForgotten
------------------------------------------------------------------------------
(* A set of numbers that is not empty has a least one: what the loop's     *)
(* CHOOSEs rest on.                                                        *)
LEMMA Least ==
  ASSUME NEW T, T \subseteq Nat, T # {}
  PROVE  \E x \in T : \A y \in T : x <= y
<1> DEFINE Less == {ss \in Nat \X Nat : ss[1] < ss[2]}
<1>1. IsWellFoundedOn(Less, Nat)
  BY NatLessThanWellFounded, Zenon DEF OpToRel
<1>2. PICK x \in T : \A y \in T : <<y, x>> \notin Less
  <2> HIDE DEF Less
  <2> QED BY <1>1, WFMin, Zenon
<1>3. ASSUME NEW y \in T PROVE x <= y
  <2>1. ~(y < x)
    BY <1>2
  <2> QED BY <2>1
<1> QED BY <1>2, <1>3

(* One element leaves a sequence without repetitions; the rest stays.      *)
LEMMA RemoveOne ==
  ASSUME NEW S, NEW q \in Seq(S), NEW k \in 1 .. Len(q),
         \A i, j \in 1 .. Len(q) : q[i] = q[j] => i = j
  PROVE  /\ RemoveAt(q, k) \in Seq(S) /\ Len(RemoveAt(q, k)) = Len(q) - 1
         /\ \A i, j \in 1 .. Len(RemoveAt(q, k)) : RemoveAt(q, k)[i] = RemoveAt(q, k)[j] => i = j
         /\ {RemoveAt(q, k)[i] : i \in 1 .. Len(RemoveAt(q, k))} = {q[i] : i \in 1 .. Len(q)} \ {q[k]}
<1>0. Len(q) \in Nat /\ \A i \in 1 .. Len(q) : q[i] \in S
  BY LenProperties, ElementOfSeq
<1> DEFINE a == SubSeq(q, 1, k - 1)
           b == SubSeq(q, k + 1, Len(q))
           r == RemoveAt(q, k)
<1>2. /\ a \in Seq(S) /\ Len(a) = k - 1
      /\ \A i \in 1 .. k - 1 : a[i] = q[i]
  <2>1. /\ a \in Seq(S)
        /\ Len(a) = IF 1 <= k - 1 THEN (k - 1) - 1 + 1 ELSE 0
        /\ \A i \in 1 .. (k - 1) - 1 + 1 : a[i] = q[1 + i - 1]
    BY <1>0, SubSeqProperties
  <2> QED BY <1>0, <2>1
<1>3. /\ b \in Seq(S) /\ Len(b) = Len(q) - k
      /\ \A i \in 1 .. Len(q) - k : b[i] = q[k + i]
  <2>1. /\ b \in Seq(S)
        /\ Len(b) = IF k + 1 <= Len(q) THEN Len(q) - (k + 1) + 1 ELSE 0
        /\ \A i \in 1 .. Len(q) - (k + 1) + 1 : b[i] = q[(k + 1) + i - 1]
    BY <1>0, SubSeqProperties
  <2> HIDE DEF b
  <2>2. Len(b) = Len(q) - k
    BY <1>0, <2>1
  <2>3. ASSUME NEW i \in 1 .. Len(q) - k PROVE b[i] = q[k + i]
    <3>1. i \in 1 .. Len(q) - (k + 1) + 1 /\ (k + 1) + i - 1 = k + i
      BY <1>0
    <3> QED BY <2>1, <3>1
  <2> QED BY <2>1, <2>2, <2>3
<1>4. r = a \o b
  BY DEF RemoveAt
<1> HIDE DEF a, b, r
<1>5. /\ r \in Seq(S) /\ Len(r) = Len(q) - 1
      /\ \A i \in 1 .. Len(q) - 1 : r[i] = IF i < k THEN q[i] ELSE q[i + 1]
  <2>0. /\ a \o b \in Seq(S) /\ Len(a \o b) = Len(a) + Len(b)
        /\ \A i \in 1 .. Len(a) + Len(b) :
             (a \o b)[i] = IF i <= Len(a) THEN a[i] ELSE b[i - Len(a)]
    <3>1. a \in Seq(S) /\ b \in Seq(S)
      BY <1>2, <1>3
    <3> QED BY <3>1, ConcatProperties
  <2>1. /\ r \in Seq(S) /\ Len(r) = Len(a) + Len(b)
        /\ \A i \in 1 .. Len(a) + Len(b) : r[i] = IF i <= Len(a) THEN a[i] ELSE b[i - Len(a)]
    BY <1>4, <2>0
  <2>2. Len(a) + Len(b) = Len(q) - 1
    BY <1>0, <1>2, <1>3
  <2>3. ASSUME NEW i \in 1 .. Len(q) - 1
        PROVE  r[i] = IF i < k THEN q[i] ELSE q[i + 1]
    <3>1. CASE i < k
      BY <1>0, <1>2, <2>1, <2>2, <3>1
    <3>2. CASE ~(i < k)
      <4>1. i - (k - 1) \in 1 .. Len(q) - k /\ k + (i - (k - 1)) = i + 1 /\ ~(i <= k - 1)
        BY <1>0, <3>2
      <4>2. r[i] = b[i - (k - 1)]
        BY <1>2, <2>1, <2>2, <4>1
      <4>3. b[i - (k - 1)] = q[i + 1]
        BY <1>3, <4>1
      <4> QED BY <3>2, <4>2, <4>3
    <3> QED BY <3>1, <3>2
  <2> QED BY <2>1, <2>2, <2>3
<1>6. \A i, j \in 1 .. Len(r) : r[i] = r[j] => i = j
  <2> SUFFICES ASSUME NEW i \in 1 .. Len(r), NEW j \in 1 .. Len(r), r[i] = r[j] PROVE i = j
    OBVIOUS
  <2>1. (IF i < k THEN i ELSE i + 1) = (IF j < k THEN j ELSE j + 1)
    BY <1>0, <1>5
  <2> QED BY <1>0, <1>5, <2>1
<1>7. ASSUME NEW i \in 1 .. Len(q), i # k
      PROVE  \E j \in 1 .. Len(r) : r[j] = q[i]
  <2>1. CASE i < k
    BY <1>0, <1>5, <2>1
  <2>2. CASE i > k
    <3>1. i - 1 \in 1 .. Len(q) - 1 /\ ~(i - 1 < k) /\ (i - 1) + 1 = i
      BY <1>0, <2>2
    <3>2. r[i - 1] = q[i]
      BY <1>5, <3>1
    <3> QED BY <1>5, <3>1, <3>2
  <2> QED BY <1>0, <1>7, <2>1, <2>2
<1>8. ASSUME NEW j \in 1 .. Len(r)
      PROVE  \E i \in 1 .. Len(q) : i # k /\ q[i] = r[j]
  <2>1. CASE j < k
    BY <1>0, <1>5, <2>1
  <2>2. CASE ~(j < k)
    <3>1. j + 1 \in 1 .. Len(q) /\ j + 1 # k /\ r[j] = q[j + 1]
      BY <1>0, <1>5, <2>2
    <3> QED BY <3>1
  <2> QED BY <2>1, <2>2
<1>9. {r[i] : i \in 1 .. Len(r)} = {q[i] : i \in 1 .. Len(q)} \ {q[k]}
  <2>1. ASSUME NEW x \in {r[i] : i \in 1 .. Len(r)} PROVE x \in {q[i] : i \in 1 .. Len(q)} \ {q[k]}
    <3>1. PICK j \in 1 .. Len(r) : x = r[j]
      BY <2>1
    <3>2. PICK i \in 1 .. Len(q) : i # k /\ q[i] = r[j]
      BY <1>8
    <3> QED BY <3>1, <3>2
  <2>2. ASSUME NEW x \in {q[i] : i \in 1 .. Len(q)} \ {q[k]} PROVE x \in {r[i] : i \in 1 .. Len(r)}
    <3>1. PICK i \in 1 .. Len(q) : x = q[i] /\ i # k
      BY <2>2
    <3>2. PICK j \in 1 .. Len(r) : r[j] = q[i]
      BY <1>7, <3>1
    <3> QED BY <3>1, <3>2
  <2> QED BY <2>1, <2>2
<1> QED BY <1>5, <1>6, <1>9 DEF r

(* A client that goes leaves the set of clients, the others stay.          *)
LEMMA DropOrder ==
  ASSUME Order, NEW c \in Client, Drop(c)
  PROVE  Order' /\ Open' = Open \ {c} /\ c \in Open
<1>1. At(c) \in 1 .. Len(order) /\ order[At(c)] = c
  BY DEF Drop, Open, At
<1>2. order' = RemoveAt(order, At(c)) /\ c \in Open
  BY DEF Drop
<1>3. /\ order' \in Seq(Client) /\ Len(order') = Len(order) - 1
      /\ \A i, j \in 1 .. Len(order') : order'[i] = order'[j] => i = j
      /\ {order'[i] : i \in 1 .. Len(order')} = Open \ {c}
  <2> DEFINE k == At(c)
  <2>1. k \in 1 .. Len(order) /\ order[k] = c /\ order' = RemoveAt(order, k)
    BY <1>1, <1>2
  <2> HIDE DEF k
  <2>2. Open \ {c} = {order[i] : i \in 1 .. Len(order)} \ {order[k]}
    BY <2>1 DEF Open
  <2> DEFINE r == RemoveAt(order, k)
  <2>3. /\ r \in Seq(Client) /\ Len(r) = Len(order) - 1
        /\ \A i, j \in 1 .. Len(r) : r[i] = r[j] => i = j
        /\ {r[i] : i \in 1 .. Len(r)} = {order[i] : i \in 1 .. Len(order)} \ {order[k]}
    BY <2>1, RemoveOne DEF Order
  <2>4. order' = r
    BY <2>1
  <2> HIDE DEF r
  <2> QED BY <2>2, <2>3, <2>4
<1>4. Len(order) \in Nat /\ Capacity \in Nat
  BY LenProperties, PoolAssumption DEF Order
<1>5. Len(order') <= Capacity
  BY <1>3, <1>4 DEF Order
<1> QED BY <1>2, <1>3, <1>5 DEF Order, Open

(* A client that comes is the last.                                        *)
LEMMA AddOrder ==
  ASSUME NEW q \in Seq(Client), NEW c \in Client,
         \A i, j \in 1 .. Len(q) : q[i] = q[j] => i = j, \A i \in 1 .. Len(q) : q[i] # c
  PROVE  /\ Append(q, c) \in Seq(Client) /\ Len(Append(q, c)) = Len(q) + 1
         /\ \A i, j \in 1 .. Len(Append(q, c)) : Append(q, c)[i] = Append(q, c)[j] => i = j
         /\ {Append(q, c)[i] : i \in 1 .. Len(Append(q, c))} = {q[i] : i \in 1 .. Len(q)} \cup {c}
<1> DEFINE r == Append(q, c)
<1>1. /\ r \in Seq(Client) /\ Len(r) = Len(q) + 1 /\ Len(q) \in Nat
      /\ \A i \in 1 .. Len(q) : r[i] = q[i]
      /\ r[Len(q) + 1] = c
  BY AppendProperties, LenProperties
<1> HIDE DEF r
<1>2. \A i \in 1 .. Len(r) : i \in 1 .. Len(q) \/ i = Len(q) + 1
  BY <1>1
<1>3. \A i, j \in 1 .. Len(r) : r[i] = r[j] => i = j
  BY <1>1, <1>2
<1>4. {r[i] : i \in 1 .. Len(r)} = {q[i] : i \in 1 .. Len(q)} \cup {c}
  <2>1. ASSUME NEW i \in 1 .. Len(q) PROVE \E j \in 1 .. Len(r) : r[j] = q[i]
    BY <1>1
  <2>2. \E j \in 1 .. Len(r) : r[j] = c
    BY <1>1
  <2>3. ASSUME NEW j \in 1 .. Len(r) PROVE r[j] = c \/ \E i \in 1 .. Len(q) : r[j] = q[i]
    BY <1>1, <1>2
  <2> QED BY <2>1, <2>2, <2>3
<1> QED BY <1>1, <1>3, <1>4 DEF r

(* The owner goes to the end of the clients, when it is one still.         *)
LEMMA RotateOrder ==
  ASSUME Order, ResetDone, owner \in Client
  PROVE  Order' /\ Open' = Open
<1>1. CASE owner \notin Open
  BY <1>1 DEF ResetDone, Order, Open
<1>2. CASE owner \in Open
  <2> DEFINE k == At(owner)
             q == RemoveAt(order, k)
  <2>1. k \in 1 .. Len(order) /\ order[k] = owner
    BY <1>2 DEF Open, At
  <2>2. order' = Append(q, owner)
    BY <1>2 DEF ResetDone
  <2> HIDE DEF k
  <2>3. /\ q \in Seq(Client) /\ Len(q) = Len(order) - 1
        /\ \A i, j \in 1 .. Len(q) : q[i] = q[j] => i = j
        /\ {q[i] : i \in 1 .. Len(q)} = Open \ {owner}
    <3>1. Open \ {owner} = {order[i] : i \in 1 .. Len(order)} \ {order[k]}
      BY <2>1 DEF Open
    <3> QED BY <2>1, <3>1, RemoveOne DEF Order
  <2> HIDE DEF q
  <2>4. \A i \in 1 .. Len(q) : q[i] # owner
    BY <2>3
  <2>5. /\ order' \in Seq(Client) /\ Len(order') = Len(q) + 1
        /\ \A i, j \in 1 .. Len(order') : order'[i] = order'[j] => i = j
        /\ {order'[i] : i \in 1 .. Len(order')} = {q[i] : i \in 1 .. Len(q)} \cup {owner}
    BY <2>2, <2>3, <2>4, AddOrder
  <2>6. Len(order') = Len(order)
    BY <2>3, <2>5, LenProperties DEF Order
  <2>7. {order'[i] : i \in 1 .. Len(order')} = Open
    BY <1>2, <2>3, <2>5
  <2> QED BY <2>5, <2>6, <2>7 DEF Order, Open
<1> QED BY <1>1, <1>2

(* What is left of a queue without the tail of rejected COPY input.        *)
LEMMA LeadingFound ==
  ASSUME NEW q \in Seq(Message)
  PROVE  Leading(q) \in 0 .. Len(q)
<1>0. Len(q) \in Nat
  BY LenProperties
<1> DEFINE Others == {i \in 1 .. Len(q) : q[i] # "data"}
<1>1. \E n \in 0 .. Len(q) : (\A i \in 1 .. n : q[i] = "data") /\ (n = Len(q) \/ q[n + 1] # "data")
  <2>1. CASE Others = {}
    BY <1>0, <2>1
  <2>2. CASE Others # {}
    <3>1. PICK k \in Others : \A i \in Others : k <= i
      <4>1. Others \subseteq Nat
        BY <1>0
      <4> HIDE DEF Others
      <4> QED BY <2>2, <4>1, Least
    <3>2. k - 1 \in 0 .. Len(q) /\ (k - 1) + 1 = k /\ \A i \in 1 .. k - 1 : q[i] = "data"
      BY <1>0, <3>1
    <3> QED BY <3>1, <3>2
  <2> QED BY <2>1, <2>2
<1> QED BY <1>1 DEF Leading

(* It is a queue again, no longer than before.                             *)
LEMMA TailTyped ==
  ASSUME Types, NEW c \in Client
  PROVE  /\ TailOf(c) \in Seq(Message) /\ Len(TailOf(c)) <= Len(queue[c])
         /\ queue[c] = <<>> => TailOf(c) = <<>>
<1>1. queue[c] \in Seq(Message)
  BY DEF Types
<1> DEFINE q == queue[c]
           n == Leading(q)
<1>2. n \in 0 .. Len(q) /\ Len(q) \in Nat /\ \A i \in 1 .. Len(q) : q[i] \in Message
  BY <1>1, LeadingFound, LenProperties, ElementOfSeq
<1>3. TailOf(c) = IF c \notin discard \/ q = <<>> THEN q
                  ELSE IF n = Len(q) THEN <<>>
                  ELSE SubSeq(q, (IF q[n + 1] = "done" THEN n + 2 ELSE n + 1), Len(q))
  BY DEF TailOf
<1> HIDE DEF n, q
<1>4. ASSUME NEW m \in 1 .. (Len(q) + 1)
      PROVE  SubSeq(q, m, Len(q)) \in Seq(Message) /\ Len(SubSeq(q, m, Len(q))) <= Len(q)
  <2>1. /\ SubSeq(q, m, Len(q)) \in Seq(Message)
        /\ Len(SubSeq(q, m, Len(q))) = IF m <= Len(q) THEN Len(q) - m + 1 ELSE 0
    BY <1>1, <1>2, SubSeqProperties DEF q
  <2> QED BY <1>2, <2>1
<1>5. n # Len(q) => n + 1 \in 1 .. (Len(q) + 1) /\ n + 2 \in 1 .. (Len(q) + 1)
  BY <1>2
<1>6. <<>> \in Seq(Message) /\ Len(<<>>) <= Len(q) /\ q \in Seq(Message) /\ Len(q) <= Len(q)
  BY <1>1, <1>2 DEF q
<1> QED BY <1>3, <1>4, <1>5, <1>6 DEF q

(* The loop gives the backend to a client that can go on.                  *)
LEMMA FirstFound ==
  ASSUME Order, Runnable # {}
  PROVE  First \in 1 .. Len(order) /\ order[First] \in Open \ sending
<1>1. Runnable \subseteq Nat /\ Runnable \subseteq 1 .. Len(order)
  BY LenProperties DEF Runnable, Order
<1>2. \E i \in Runnable : \A j \in Runnable : i <= j
  BY <1>1, Least
<1>3. First \in Runnable
  BY <1>2 DEF First
<1> QED BY <1>1, <1>3 DEF Runnable, Eligible, Open

(* The limits are numbers, and nothing is within them.                     *)
LEMMA Limits == /\ Capacity \in Nat /\ MaxQueue \in Nat
                /\ Len(<<>>) = 0 /\ <<>> \in Seq(Message) /\ <<>> \in Seq(Client)
<1>1. Capacity \in Nat /\ MaxQueue \in Nat
  BY PoolAssumption
<1>2. <<>> \in Seq(Message) /\ <<>> \in Seq(Client) /\ Len(<<>>) = 0
  BY EmptySeq
<1> QED BY <1>1, <1>2

(* What remains of a client that is gone, and of the others.               *)
LEMMA Dropped ==
  ASSUME Order, Types, NEW c \in Client, Drop(c)
  PROVE  /\ Order' /\ Open' = Open \ {c} /\ c \in Open
         /\ fresh' \cup timer' \subseteq Open' /\ timer' = timer \ {c}
         /\ queue' \in [Client -> Seq(Message)] /\ \A d \in Client : Len(queue'[d]) <= MaxQueue
         /\ statements' \in [Client -> SUBSET Name]
         /\ output' \in [Client -> {"none", "open", "closing"}]
         /\ queue'[c] = <<>> /\ \A d \in Client \ {c} : queue'[d] = queue[d]
<1>1. Order' /\ Open' = Open \ {c} /\ c \in Open
  BY DropOrder
<1>2. /\ fresh' = fresh \ {c} /\ timer' = timer \ {c}
      /\ queue' = [d \in Client |-> IF d = c THEN <<>> ELSE queue[d]]
      /\ statements' = [d \in Client |-> IF d = c THEN {} ELSE statements[d]]
      /\ output' = [d \in Client |-> IF d = c THEN Disposed(d) ELSE output[d]]
  BY DEF Drop, Gone
<1>3. <<>> \in Seq(Message) /\ Len(<<>>) <= MaxQueue
  BY Limits
<1>4. output' \in [Client -> {"none", "open", "closing"}]
  BY <1>2 DEF Types, Disposed
<1> QED BY <1>1, <1>2, <1>3, <1>4 DEF Types

(* And when all of them go.                                                *)
LEMMA DroppedAll ==
  ASSUME Types, DropAll, \A c \in Client \ Open : queue[c] = <<>>
  PROVE  /\ Order' /\ Open' = {} /\ fresh' = {} /\ timer' = {}
         /\ queue' \in [Client -> Seq(Message)] /\ \A d \in Client : Len(queue'[d]) <= MaxQueue
         /\ statements' \in [Client -> SUBSET Name]
         /\ output' \in [Client -> {"none", "open", "closing"}]
         /\ \A d \in Client : queue'[d] = <<>>
<1>1. Order' /\ Open' = {}
  <2>1. order' = <<>> /\ 1 .. Len(order') = {}
    BY Limits DEF DropAll
  <2> QED BY <2>1, Limits DEF Order, Open
<1>2. /\ fresh' = fresh \ Open /\ timer' = timer \ Open
      /\ queue' = [d \in Client |-> IF d \in Open THEN <<>> ELSE queue[d]]
      /\ statements' = [d \in Client |-> IF d \in Open THEN {} ELSE statements[d]]
      /\ output' = [d \in Client |-> IF d \in Open THEN Disposed(d) ELSE output[d]]
  BY DEF DropAll, Gone
<1>3. <<>> \in Seq(Message) /\ Len(<<>>) <= MaxQueue
  BY Limits
<1>4. output' \in [Client -> {"none", "open", "closing"}]
  BY <1>2 DEF Types, Disposed
<1> QED BY <1>1, <1>2, <1>3, <1>4 DEF Types

(* Who may be connected, and who it is that is at work.                    *)
LEMMA SameOpen == order' = order => Open' = Open
  BY DEF Open

(* Clients are clients.                                                    *)
LEMMA OpenClients == Order => Open \subseteq Client
  BY ElementOfSeq DEF Order, Open

(* Someone owns the backend while it works.                                *)
LEMMA AtWork ==
  ASSUME Types, Owned, at \in {"opening", "executing", "sending", "rolling", "resetting"}
  PROVE  owner \in Client /\ owner # Nobody
  BY DEF Types, Owned

(* Who comes is new.                                                       *)
LEMMA Connected ==
  ASSUME Order, NEW c \in Client, Connect(c)
  PROVE  Order' /\ Open' = Open \cup {c} /\ c \notin Open
<1>1. /\ order' = Append(order, c) /\ \A i \in 1 .. Len(order) : order[i] # c
      /\ Len(order) < Capacity /\ c \notin Open
  BY DEF Connect, Open
<1>2. Len(order) + 1 <= Capacity
  BY <1>1, LenProperties, Limits DEF Order
<1>3. /\ order' \in Seq(Client) /\ Len(order') = Len(order) + 1
      /\ \A i, j \in 1 .. Len(order') : order'[i] = order'[j] => i = j
      /\ {order'[i] : i \in 1 .. Len(order')} = {order[i] : i \in 1 .. Len(order)} \cup {c}
  BY <1>1, AddOrder DEF Order
<1> QED BY <1>1, <1>2, <1>3 DEF Order, Open

(* One message at the backend: who gets the answer, and what the backend   *)
(* and the pool hold after it.                                             *)
Exchanges ==
  \/ CopyInput \/ Skipped \/ Sync \/ Query \/ CopyIn
  \/ \E n \in Name : Parse(n) \/ Bind(n) \/ Close(n)
Answers ==
  /\ at = "executing" /\ at' \in {"resetting", "sending"} /\ session' = owner
  /\ UNCHANGED <<owner, msg, stopped, stop>>
  /\ \/ /\ statements' \in [Client -> SUBSET Name]
        /\ \/ sending' = sending
           \/ at' = "sending" /\ sending' = sending \cup ({owner} \cap Open)
        /\ UNCHANGED <<order, fresh, queue, timer, output>>
     \/ Drop(owner) /\ UNCHANGED sending
LEMMA Answered ==
  ASSUME Types, Owned, Exchanges
  PROVE  Answers /\ owner \in Client /\ owner # Nobody
<1>a. at = "executing"
  BY DEF Exchanges, CopyInput, Skipped, Sync, Query, CopyIn, Parse, Bind, Close, Running, Executing
<1>b. owner \in Client /\ owner # Nobody
  BY <1>a, AtWork
<1>0. owner \in Client /\ statements \in [Client -> SUBSET Name] /\ "" \in Name
  BY <1>b, PoolAssumption DEF Types
<1>1. Own \in SUBSET Name /\ statements \in [Client -> SUBSET Name] /\ "" \in Name
  BY <1>0 DEF Own
<1>c. ASSUME NEW r, NEW st \in SUBSET Name, Respond(r, st), at = "executing"
      PROVE  Answers
  BY <1>0, <1>c DEF Respond, Answers
<1>2. CASE CopyInput
  BY <1>0, <1>1, <1>b, <1>2 DEF CopyInput, Executing, Respond, Answers
<1>3. CASE Skipped
  BY <1>0, <1>1, <1>b, <1>3 DEF Skipped, Executing, Respond, Answers
<1>4. CASE Sync
  BY <1>0, <1>1, <1>b, <1>4 DEF Sync, Executing, Respond, Answers
<1>5. CASE Query
  BY <1>0, <1>1, <1>b, <1>5 DEF Query, Running, Executing, Respond, Answers
<1>6. CASE CopyIn
  BY <1>0, <1>1, <1>b, <1>6 DEF CopyIn, Running, Executing, Respond, Answers
<1>7. ASSUME NEW n \in Name, Parse(n) PROVE Answers
  BY <1>1, <1>c, <1>7 DEF Parse, Running, Executing
<1>8. ASSUME NEW n \in Name, Bind(n) PROVE Answers
  BY <1>1, <1>c, <1>8 DEF Bind, Running, Executing
<1>9. ASSUME NEW n \in Name, Close(n) PROVE Answers
  BY <1>1, <1>c, <1>9 DEF Close, Running, Executing
<1> QED BY <1>b, <1>2, <1>3, <1>4, <1>5, <1>6, <1>7, <1>8, <1>9 DEF Exchanges

(* What it leaves with the backend.                                        *)
Leaves ==
  /\ discard' \subseteq discard \cup {owner} /\ tx' \in {"none", "implicit", "open"}
  /\ prepared' \in [Name -> Client \cup {Nobody}] /\ loaded' \subseteq Name
  /\ \A n \in loaded' : prepared'[n] = owner
LEMMA LeftBehind ==
  ASSUME Types, Owned, Exchanges
  PROVE  Leaves
<1>1. /\ Own \in SUBSET Name /\ "" \in Name /\ owner \in Client /\ loaded \subseteq Name
      /\ prepared \in [Name -> Client \cup {Nobody}] /\ tx \in {"none", "implicit", "open"}
      /\ \A n \in loaded : prepared[n] = owner
  <2>1. owner \in Client
    BY Answered
  <2>2. /\ "" \in Name /\ loaded \subseteq Name /\ statements \in [Client -> SUBSET Name]
        /\ prepared \in [Name -> Client \cup {Nobody}] /\ tx \in {"none", "implicit", "open"}
        /\ \A n \in loaded : prepared[n] = owner
    BY PoolAssumption DEF Types, Owned, LoadedIsOwners
  <2> QED BY <2>1, <2>2 DEF Own
<1>2. CASE CopyInput
  BY <1>1, <1>2 DEF CopyInput, Exchange, Forget, Leaves
<1>3. CASE Skipped
  BY <1>1, <1>3 DEF Skipped, Exchange, Forget, Leaves
<1>4. CASE Sync
  BY <1>1, <1>4 DEF Sync, Exchange, Forget, Leaves
<1>5. CASE Query
  BY <1>1, <1>5 DEF Query, Exchange, Forget, Leaves
<1>6. CASE CopyIn
  BY <1>1, <1>6 DEF CopyIn, Exchange, Forget, Leaves
<1>7. ASSUME NEW n \in Name, Parse(n) PROVE Leaves
  BY <1>1, <1>7 DEF Parse, Exchange, Forget, Leaves
<1>8. ASSUME NEW n \in Name, Bind(n) PROVE Leaves
  BY <1>1, <1>8 DEF Bind, Exchange, Forget, Leaves
<1>9. ASSUME NEW n \in Name, Close(n) PROVE Leaves
  BY <1>1, <1>9 DEF Close, Exchange, Forget, Leaves
<1> QED BY <1>2, <1>3, <1>4, <1>5, <1>6, <1>7, <1>8, <1>9 DEF Exchanges

(* The connected clients: each once, and not too many.                     *)
LEMMA OrderStep == Order /\ Types /\ Owned /\ Waiting /\ [Next]_vars => Order'
<1> SUFFICES ASSUME Order, Types, Owned, Waiting, [Next]_vars PROVE Order'
  OBVIOUS
<1>1. ASSUME NEW c \in Client, Connect(c) PROVE Order'
  BY <1>1, Connected
<1>2. ASSUME NEW c \in Client, Leave(c) PROVE Order'
  BY <1>2, Dropped DEF Leave
<1>3. ASSUME NEW c \in Client, Timeout(c) PROVE Order'
  BY <1>3, Dropped DEF Timeout, Leave
<1>4. ASSUME NEW c \in Client, Flushed(c) PROVE Order'
  BY <1>4, Dropped DEF Flushed, Order
<1>5. ASSUME NEW c \in Client, Released(c) PROVE Order'
  BY <1>5 DEF Released, socketVars, drainVars, engineVars, Order
<1>6. ASSUME NEW c \in Client, NEW m \in Message, Receive(c, m) PROVE Order'
  BY <1>6 DEF Receive, Pumped, socketVars, drainVars, engineVars, Order
<1>7. CASE Start
  BY <1>7 DEF Start, socketVars, drainVars, engineVars, Order
<1>8. CASE LoopEnd
  BY <1>8 DEF LoopEnd, socketVars, drainVars, engineVars, Order
<1>9. CASE LoopAbandoned
  BY <1>9 DEF LoopAbandoned, socketVars, drainVars, engineVars, Order
<1>10. CASE LoopChoose
  BY <1>10 DEF LoopChoose, DiscardTail, socketVars, drainVars, engineVars, Order
<1>11. CASE LoopTake
  BY <1>11 DEF LoopTake, socketVars, drainVars, engineVars, Order
<1>12. CASE Opened
  <2>1. owner \in Client
    BY <1>12, AtWork DEF Opened
  <2> QED BY <1>12, <2>1, Dropped DEF Opened, socketVars, Order
<1>13. CASE Quit
  BY <1>13, AtWork, Dropped DEF Quit
<1>14. CASE Exchanges
  <2>1. Answers /\ owner \in Client /\ owner # Nobody
    BY <1>14, Answered
  <2>2. CASE Drop(owner) /\ UNCHANGED sending
    BY <2>1, <2>2, Dropped
  <2>3. CASE UNCHANGED <<order, fresh, queue, timer, output>>
    BY <2>1, <2>3 DEF Answers, Order
  <2> QED BY <2>1, <2>2, <2>3 DEF Answers
<1>15. CASE CopyBroken
  BY <1>15, DroppedAll DEF CopyBroken, Throws, Waiting
<1>16. CASE EngineFails
  BY <1>16, DroppedAll DEF EngineFails, Throws, Waiting
<1>17. CASE RolledBack
  BY <1>17 DEF RolledBack, Reset, Forget, socketVars, drainVars, engineVars, Order
<1>18. CASE ResetDone
  <2>1. owner \in Client
    BY <1>18, AtWork DEF ResetDone
  <2> QED BY <1>18, <2>1, RotateOrder
<1>19. CASE Yielded
  BY <1>19 DEF Yielded, socketVars, drainVars, engineVars, Order
<1>20. CASE Sent
  BY <1>20 DEF Sent, socketVars, drainVars, engineVars, Order
<1>21. CASE Settle
  BY <1>21 DEF Settle, socketVars, drainVars, engineVars, Order
<1>22. CASE Stop
  BY <1>22, DroppedAll DEF Stop, Waiting
<1>23. CASE Stopped
  BY <1>23 DEF Stopped, socketVars, drainVars, engineVars, Order
<1>24. CASE UNCHANGED vars
  BY <1>24 DEF vars, socketVars, drainVars, engineVars, Order
<1> QED
  BY <1>1, <1>2, <1>3, <1>4, <1>5, <1>6, <1>7, <1>8, <1>9, <1>10, <1>11, <1>12, <1>13, <1>14,
      <1>15, <1>16, <1>17, <1>18, <1>19, <1>20, <1>21, <1>22, <1>23, <1>24
     DEF Next, Drain, Execute, Exchanges

(* What is taken from a queue: the first that is not to be skipped.        *)
LEMMA Taken ==
  ASSUME Types, NEW c \in Client, TailOf(c) # <<>>
  PROVE  /\ Tail(TailOf(c)) \in Seq(Message) /\ Len(Tail(TailOf(c))) <= MaxQueue
         /\ Head(TailOf(c)) \in Message
<1> DEFINE q == TailOf(c)
<1>1. q \in Seq(Message) /\ Len(q) <= Len(queue[c]) /\ queue[c] \in Seq(Message) /\ Len(queue[c]) <= MaxQueue
  BY TailTyped DEF Types
<1>2. q # <<>>
  OBVIOUS
<1> HIDE DEF q
<1>3. Head(q) \in Message /\ Tail(q) \in Seq(Message) /\ Len(Tail(q)) = Len(q) - 1
  BY <1>1, <1>2, HeadTailProperties
<1>4. Len(q) \in Nat /\ Len(queue[c]) \in Nat
  BY <1>1, LenProperties
<1>5. Len(Tail(q)) <= MaxQueue
  BY <1>1, <1>3, <1>4, Limits
<1> QED BY <1>3, <1>5 DEF q

(* And what is added to one.                                               *)
LEMMA Received ==
  ASSUME Types, NEW c \in Client, NEW m \in Message, Receive(c, m)
  PROVE  /\ queue' \in [Client -> Seq(Message)] /\ \A d \in Client : Len(queue'[d]) <= MaxQueue
         /\ queue'[c] # <<>> /\ \A d \in Client \ {c} : queue'[d] = queue[d]
<1>1. /\ queue' = [queue EXCEPT ![c] = Append(queue[c], m)] /\ Len(queue[c]) < MaxQueue
      /\ queue \in [Client -> Seq(Message)] /\ \A d \in Client : Len(queue[d]) <= MaxQueue
  BY DEF Receive, Types
<1>2. queue[c] \in Seq(Message)
  BY <1>1
<1>3. /\ Append(queue[c], m) \in Seq(Message) /\ Append(queue[c], m) # <<>>
      /\ Len(Append(queue[c], m)) = Len(queue[c]) + 1 /\ Len(queue[c]) \in Nat
  BY <1>2, AppendProperties, LenProperties
<1>4. Len(Append(queue[c], m)) <= MaxQueue
  BY <1>1, <1>3, Limits
<1> QED BY <1>1, <1>3, <1>4

(* The types of everything else.                                           *)
LEMMA TypesStep == Order /\ Types /\ Owned /\ Waiting /\ [Next]_vars => Types'
<1> SUFFICES ASSUME Order, Types, Owned, Waiting, [Next]_vars PROVE Types'
  OBVIOUS
<1>1. ASSUME NEW c \in Client, Connect(c) PROVE Types'
  BY <1>1, Connected DEF Connect, socketVars, drainVars, engineVars, Types
<1>2. ASSUME NEW c \in Client, Leave(c) PROVE Types'
  BY <1>2, SameOpen, Dropped DEF Leave, Pumped, socketVars, drainVars, engineVars, Types
<1>3. ASSUME NEW c \in Client, Timeout(c) PROVE Types'
  BY <1>3, SameOpen, Dropped DEF Timeout, Leave, Pumped, socketVars, drainVars, engineVars, Types
<1>4. ASSUME NEW c \in Client, Flushed(c) PROVE Types'
  BY <1>4, SameOpen, Dropped DEF Flushed, Pumped, socketVars, drainVars, engineVars, Types
<1>5. ASSUME NEW c \in Client, Released(c) PROVE Types'
  BY <1>5, SameOpen DEF Released, socketVars, drainVars, engineVars, Types
<1>6. ASSUME NEW c \in Client, NEW m \in Message, Receive(c, m) PROVE Types'
  BY <1>6, Received, SameOpen DEF Receive, Pumped, socketVars, drainVars, engineVars, Types
<1>7. CASE Start
  BY <1>7, SameOpen DEF Start, socketVars, drainVars, engineVars, Types
<1>8. CASE LoopEnd
  BY <1>8, SameOpen DEF LoopEnd, socketVars, drainVars, engineVars, Types
<1>9. CASE LoopAbandoned
  BY <1>9, SameOpen DEF LoopAbandoned, socketVars, drainVars, engineVars, Types
<1>10. CASE LoopChoose
  <2>1. \A c \in Client : TailOf(c) \in Seq(Message) /\ Len(TailOf(c)) <= MaxQueue
    <3> SUFFICES ASSUME NEW c \in Client PROVE TailOf(c) \in Seq(Message) /\ Len(TailOf(c)) <= MaxQueue
      OBVIOUS
    <3>1. /\ TailOf(c) \in Seq(Message) /\ Len(TailOf(c)) <= Len(queue[c])
          /\ queue[c] \in Seq(Message) /\ Len(queue[c]) <= MaxQueue
      BY TailTyped DEF Types
    <3>2. Len(TailOf(c)) \in Nat /\ Len(queue[c]) \in Nat
      BY <3>1, LenProperties
    <3> QED BY <3>1, <3>2, Limits
  <2>2. Runnable # {} => order[First] \in Client
    BY FirstFound, OpenClients
  <2> QED BY <1>10, <2>1, <2>2, SameOpen DEF LoopChoose, DiscardTail, socketVars, drainVars,
      engineVars, Types
<1>11. CASE LoopTake
  <2>1. owner \in Client /\ owner \in Open
    BY <1>11, OpenClients DEF LoopTake
  <2>2. CASE TailOf(owner) = <<>>
    <3>1. queue' \in [Client -> Seq(Message)] /\ \A c \in Client : Len(queue'[c]) <= MaxQueue
      <4>1. queue' = [queue EXCEPT ![owner] = <<>>]
        BY <1>11, <2>2 DEF LoopTake
      <4> QED BY <2>1, <4>1, Limits DEF Types
    <3> QED BY <1>11, <2>1, <2>2, <3>1, SameOpen DEF LoopTake, socketVars, drainVars, engineVars, Types
  <2>3. CASE TailOf(owner) # <<>>
    <3>1. /\ Tail(TailOf(owner)) \in Seq(Message) /\ Len(Tail(TailOf(owner))) <= MaxQueue
          /\ Head(TailOf(owner)) \in Message
      BY <2>1, <2>3, Taken
    <3> QED BY <1>11, <2>1, <2>3, <3>1, SameOpen DEF LoopTake, socketVars, drainVars, engineVars, Types
  <2> QED BY <2>2, <2>3
<1>12. CASE Opened
  <2>1. owner \in Client
    BY <1>12, AtWork DEF Opened
  <2> QED BY <1>12, <2>1, Dropped, SameOpen DEF Opened, socketVars, drainVars, engineVars, Types
<1>13. CASE Quit
  BY <1>13, AtWork, Dropped DEF Quit, socketVars, drainVars, engineVars, Types
<1>14. CASE Exchanges
  <2>1. Answers /\ owner \in Client /\ Leaves
    BY <1>14, Answered, LeftBehind
  <2>2. CASE Drop(owner) /\ UNCHANGED sending
    BY <2>1, <2>2, Dropped DEF Answers, Leaves, Types
  <2>3. CASE /\ statements' \in [Client -> SUBSET Name]
             /\ \/ sending' = sending
                \/ at' = "sending" /\ sending' = sending \cup ({owner} \cap Open)
             /\ UNCHANGED <<order, fresh, queue, timer, output>>
    BY <2>1, <2>3, SameOpen DEF Answers, Leaves, Types
  <2> QED BY <2>1, <2>2, <2>3 DEF Answers
<1>15. CASE CopyBroken
  BY <1>15, DroppedAll DEF CopyBroken, Throws, Waiting, socketVars, drainVars, engineVars, Types
<1>16. CASE EngineFails
  BY <1>16, DroppedAll DEF EngineFails, Throws, Waiting, socketVars, drainVars, engineVars, Types
<1>17. CASE RolledBack
  BY <1>17, SameOpen DEF RolledBack, Reset, Forget, socketVars, drainVars, engineVars, Types
<1>18. CASE ResetDone
  <2>1. owner \in Client
    BY <1>18, AtWork DEF ResetDone
  <2> QED BY <1>18, <2>1, RotateOrder DEF ResetDone, Reset, Forget, socketVars, drainVars,
      engineVars, Types
<1>19. CASE Yielded
  BY <1>19, SameOpen DEF Yielded, socketVars, drainVars, engineVars, Types
<1>20. CASE Sent
  BY <1>20, SameOpen DEF Sent, socketVars, drainVars, engineVars, Types
<1>21. CASE Settle
  BY <1>21, SameOpen DEF Settle, socketVars, drainVars, engineVars, Types
<1>22. CASE Stop
  BY <1>22, DroppedAll DEF Stop, Pumped, Waiting, socketVars, drainVars, engineVars, Types
<1>23. CASE Stopped
  BY <1>23, SameOpen DEF Stopped, socketVars, drainVars, engineVars, Types
<1>24. CASE UNCHANGED vars
  BY <1>24, SameOpen DEF vars, socketVars, drainVars, engineVars, Types
<1> QED
  BY <1>1, <1>2, <1>3, <1>4, <1>5, <1>6, <1>7, <1>8, <1>9, <1>10, <1>11, <1>12, <1>13, <1>14,
      <1>15, <1>16, <1>17, <1>18, <1>19, <1>20, <1>21, <1>22, <1>23, <1>24
     DEF Next, Drain, Execute, Exchanges

(* The relay's state and the pool's, which are truth values.               *)
LEMMA Settles ==
  ASSUME NEW r \in Relay, NEW b \in BOOLEAN
  PROVE  /\ [r EXCEPT !.discarding = b] \in Relay /\ [NoRelay EXCEPT !.discarding = b] \in Relay
         /\ [NoRelay EXCEPT !.copying = TRUE] \in Relay /\ NoRelay \in Relay
         /\ [copying |-> r.copying, waitingForSync |-> TRUE, discarding |-> FALSE] \in Relay
  BY DEF Relay, NoRelay

(* And so it is after every exchange.                                      *)
LEMMA Relayed ==
  ASSUME Flags, Exchanges
  PROVE  relay' \in Relay
<1>1. relay \in Relay
  BY DEF Flags
<1>2. (relay.discarding /\ msg = "data") \in BOOLEAN /\ (msg = "data") \in BOOLEAN /\ FALSE \in BOOLEAN
  OBVIOUS
<1>3. CASE CopyInput
  <2>1. \/ relay' = relay \/ relay' = [NoRelay EXCEPT !.discarding = (msg = "data")]
        \/ relay' = [relay EXCEPT !.discarding = (relay.discarding /\ msg = "data")]
    BY <1>3, Zenon DEF CopyInput
  <2> QED BY <1>1, <1>2, <2>1, Settles, Zenon
<1>4. CASE ~CopyInput
  <2>1. relay' = NoRelay \/ Settled \/ Skips \/ relay' = relay
        \/ relay' = [NoRelay EXCEPT !.copying = TRUE]
    BY <1>4 DEF Exchanges, Skipped, Sync, Query, CopyIn, Parse, Bind, Close
  <2> QED BY <1>1, <1>2, <2>1, Settles, Zenon DEF Settled, Skips
<1> QED BY <1>3, <1>4

LEMMA FlagsStep == Types /\ Owned /\ Flags /\ [Next]_vars => Flags'
<1> SUFFICES ASSUME Types, Owned, Flags, [Next]_vars PROVE Flags'
  OBVIOUS
<1>1. ASSUME NEW c \in Client, Connect(c) PROVE Flags'
  <2>1. relay' \in {relay, NoRelay} /\ stopped' \in {stopped, TRUE}
    BY <1>1 DEF Connect, socketVars, drainVars, engineVars
  <2> QED BY <2>1, Settles, Zenon DEF Flags
<1>2. ASSUME NEW c \in Client, Leave(c) PROVE Flags'
  <2>1. relay' \in {relay, NoRelay} /\ stopped' \in {stopped, TRUE}
    BY <1>2 DEF Leave, Pumped, socketVars, drainVars, engineVars
  <2> QED BY <2>1, Settles, Zenon DEF Flags
<1>3. ASSUME NEW c \in Client, Timeout(c) PROVE Flags'
  <2>1. relay' \in {relay, NoRelay} /\ stopped' \in {stopped, TRUE}
    BY <1>3 DEF Timeout, Leave, Pumped, socketVars, drainVars, engineVars
  <2> QED BY <2>1, Settles, Zenon DEF Flags
<1>4. ASSUME NEW c \in Client, Flushed(c) PROVE Flags'
  <2>1. relay' \in {relay, NoRelay} /\ stopped' \in {stopped, TRUE}
    BY <1>4 DEF Flushed, Pumped, socketVars, drainVars, engineVars
  <2> QED BY <2>1, Settles, Zenon DEF Flags
<1>5. ASSUME NEW c \in Client, Released(c) PROVE Flags'
  <2>1. relay' \in {relay, NoRelay} /\ stopped' \in {stopped, TRUE}
    BY <1>5 DEF Released, socketVars, drainVars, engineVars
  <2> QED BY <2>1, Settles, Zenon DEF Flags
<1>6. ASSUME NEW c \in Client, NEW m \in Message, Receive(c, m) PROVE Flags'
  <2>1. relay' \in {relay, NoRelay} /\ stopped' \in {stopped, TRUE}
    BY <1>6 DEF Receive, Pumped, socketVars, drainVars, engineVars
  <2> QED BY <2>1, Settles, Zenon DEF Flags
<1>7. CASE Start
  <2>1. relay' \in {relay, NoRelay} /\ stopped' \in {stopped, TRUE}
    BY <1>7 DEF Start, socketVars, drainVars, engineVars
  <2> QED BY <2>1, Settles, Zenon DEF Flags
<1>8. CASE LoopEnd
  <2>1. relay' \in {relay, NoRelay} /\ stopped' \in {stopped, TRUE}
    BY <1>8 DEF LoopEnd, socketVars, drainVars, engineVars
  <2> QED BY <2>1, Settles, Zenon DEF Flags
<1>9. CASE LoopAbandoned
  <2>1. relay' \in {relay, NoRelay} /\ stopped' \in {stopped, TRUE}
    BY <1>9 DEF LoopAbandoned, socketVars, drainVars, engineVars
  <2> QED BY <2>1, Settles, Zenon DEF Flags
<1>10. CASE LoopChoose
  <2>1. relay' \in {relay, NoRelay} /\ stopped' \in {stopped, TRUE}
    BY <1>10 DEF LoopChoose, DiscardTail, socketVars, drainVars, engineVars
  <2> QED BY <2>1, Settles, Zenon DEF Flags
<1>11. CASE LoopTake
  <2>1. relay' \in {relay, NoRelay} /\ stopped' \in {stopped, TRUE}
    BY <1>11 DEF LoopTake, socketVars, drainVars, engineVars
  <2> QED BY <2>1, Settles, Zenon DEF Flags
<1>12. CASE Opened
  <2>1. relay' \in {relay, NoRelay} /\ stopped' \in {stopped, TRUE}
    BY <1>12 DEF Opened, socketVars, drainVars, engineVars
  <2> QED BY <2>1, Settles, Zenon DEF Flags
<1>13. CASE Quit
  <2>1. relay' \in {relay, NoRelay} /\ stopped' \in {stopped, TRUE}
    BY <1>13 DEF Quit, socketVars, drainVars, engineVars
  <2> QED BY <2>1, Settles, Zenon DEF Flags
<1>14. CASE Exchanges
  <2>1. relay' \in Relay
    BY <1>14, Relayed
  <2>2. stopped' = stopped
    BY <1>14, Answered DEF Answers
  <2> QED BY <2>1, <2>2 DEF Flags
<1>15. CASE CopyBroken
  <2>1. relay' \in {relay, NoRelay} /\ stopped' \in {stopped, TRUE}
    BY <1>15 DEF CopyBroken, Throws, socketVars, drainVars, engineVars
  <2> QED BY <2>1, Settles, Zenon DEF Flags
<1>16. CASE EngineFails
  <2>1. relay' \in {relay, NoRelay} /\ stopped' \in {stopped, TRUE}
    BY <1>16 DEF EngineFails, Throws, socketVars, drainVars, engineVars
  <2> QED BY <2>1, Settles, Zenon DEF Flags
<1>17. CASE RolledBack
  <2>1. relay' \in {relay, NoRelay} /\ stopped' \in {stopped, TRUE}
    BY <1>17 DEF RolledBack, Reset, Forget, socketVars, drainVars, engineVars
  <2> QED BY <2>1, Settles, Zenon DEF Flags
<1>18. CASE ResetDone
  <2>1. relay' \in {relay, NoRelay} /\ stopped' \in {stopped, TRUE}
    BY <1>18 DEF ResetDone, Reset, Forget, socketVars, drainVars, engineVars
  <2> QED BY <2>1, Settles, Zenon DEF Flags
<1>19. CASE Yielded
  <2>1. relay' \in {relay, NoRelay} /\ stopped' \in {stopped, TRUE}
    BY <1>19 DEF Yielded, socketVars, drainVars, engineVars
  <2> QED BY <2>1, Settles, Zenon DEF Flags
<1>20. CASE Sent
  <2>1. relay' \in {relay, NoRelay} /\ stopped' \in {stopped, TRUE}
    BY <1>20 DEF Sent, socketVars, drainVars, engineVars
  <2> QED BY <2>1, Settles, Zenon DEF Flags
<1>21. CASE Settle
  <2>1. relay' \in {relay, NoRelay} /\ stopped' \in {stopped, TRUE}
    BY <1>21 DEF Settle, socketVars, drainVars, engineVars
  <2> QED BY <2>1, Settles, Zenon DEF Flags
<1>22. CASE Stop
  <2>1. relay' \in {relay, NoRelay} /\ stopped' \in {stopped, TRUE}
    BY <1>22 DEF Stop, Pumped, socketVars, drainVars, engineVars
  <2> QED BY <2>1, Settles, Zenon DEF Flags
<1>23. CASE Stopped
  <2>1. relay' \in {relay, NoRelay} /\ stopped' \in {stopped, TRUE}
    BY <1>23 DEF Stopped, socketVars, drainVars, engineVars
  <2> QED BY <2>1, Settles, Zenon DEF Flags
<1>24. CASE UNCHANGED vars
  BY <1>24 DEF vars, socketVars, drainVars, engineVars, Flags
<1> QED
  BY <1>1, <1>2, <1>3, <1>4, <1>5, <1>6, <1>7, <1>8, <1>9, <1>10, <1>11, <1>12, <1>13, <1>14,
      <1>15, <1>16, <1>17, <1>18, <1>19, <1>20, <1>21, <1>22, <1>23, <1>24
     DEF Next, Drain, Execute, Exchanges

(* What the backend and the pool hold stays the owner's.                   *)
LEMMA OwnedStep == Order /\ Types /\ Owned /\ Waiting /\ [Next]_vars => Owned'
<1> SUFFICES ASSUME Order, Types, Owned, Waiting, [Next]_vars PROVE Owned'
  OBVIOUS
<1>0. Open \subseteq Client /\ Nobody \notin Client /\ sending \subseteq Client
  BY OpenClients, PoolAssumption DEF Types
<1>1. ASSUME NEW c \in Client, Connect(c) PROVE Owned'
  BY <1>1, Connected DEF Connect, socketVars, drainVars, engineVars, Owned, LoadedIsOwners
<1>2. ASSUME NEW c \in Client, Leave(c) PROVE Owned'
  BY <1>2, <1>0, SameOpen, Dropped DEF Leave, Pumped, socketVars, drainVars, engineVars, Owned,
      LoadedIsOwners
<1>3. ASSUME NEW c \in Client, Timeout(c) PROVE Owned'
  BY <1>3, <1>0, SameOpen, Dropped DEF Timeout, Leave, Pumped, socketVars, drainVars, engineVars,
      Owned, LoadedIsOwners
<1>4. ASSUME NEW c \in Client, Flushed(c) PROVE Owned'
  BY <1>4, <1>0, SameOpen, Dropped DEF Flushed, Pumped, socketVars, drainVars, engineVars, Owned,
      LoadedIsOwners
<1>5. ASSUME NEW c \in Client, Released(c) PROVE Owned'
  BY <1>5, <1>0, SameOpen DEF Released, socketVars, drainVars, engineVars, Owned, LoadedIsOwners
<1>6. ASSUME NEW c \in Client, NEW m \in Message, Receive(c, m) PROVE Owned'
  BY <1>6, <1>0, SameOpen DEF Receive, Pumped, socketVars, drainVars, engineVars, Owned, LoadedIsOwners
<1>7. CASE Start
  BY <1>7, <1>0, SameOpen DEF Start, socketVars, drainVars, engineVars, Owned, LoadedIsOwners
<1>8. CASE LoopEnd
  BY <1>8, <1>0, SameOpen DEF LoopEnd, socketVars, drainVars, engineVars, Owned, LoadedIsOwners
<1>9. CASE LoopAbandoned
  BY <1>9, <1>0, SameOpen DEF LoopAbandoned, socketVars, drainVars, engineVars, Owned, LoadedIsOwners
<1>10. CASE LoopChoose
  BY <1>10, <1>0, FirstFound, SameOpen DEF LoopChoose, socketVars, drainVars, engineVars, Owned,
      LoadedIsOwners
<1>11. CASE LoopTake
  BY <1>11, <1>0, SameOpen DEF LoopTake, socketVars, drainVars, engineVars, Owned, LoadedIsOwners
<1>12. CASE Opened
  <2>1. owner \in Client
    BY <1>12, AtWork DEF Opened
  <2> QED BY <1>12, <2>1, Dropped, SameOpen DEF Opened, socketVars, drainVars, engineVars, Owned,
      LoadedIsOwners
<1>13. CASE Quit
  BY <1>13, AtWork, Dropped DEF Quit, socketVars, drainVars, engineVars, Owned, LoadedIsOwners
<1>14. CASE Exchanges
  <2>1. Answers /\ owner \in Client /\ Leaves /\ Open \subseteq Client
    BY <1>14, Answered, LeftBehind, OpenClients
  <2>2. CASE Drop(owner) /\ UNCHANGED sending
    BY <2>1, <2>2, Dropped DEF Answers, Leaves, Owned, LoadedIsOwners
  <2>3. CASE /\ \/ sending' = sending
                \/ at' = "sending" /\ sending' = sending \cup ({owner} \cap Open)
             /\ UNCHANGED <<order, fresh, queue, timer, output>>
    BY <2>1, <2>3, SameOpen DEF Answers, Leaves, Owned, LoadedIsOwners
  <2> QED BY <2>1, <2>2, <2>3 DEF Answers
<1>15. CASE CopyBroken
  BY <1>15, <1>0, DroppedAll DEF CopyBroken, Executing, Throws, Waiting, socketVars, drainVars,
      engineVars, Owned, LoadedIsOwners
<1>16. CASE EngineFails
  BY <1>16, <1>0, DroppedAll DEF EngineFails, Throws, Waiting, socketVars, drainVars, engineVars,
      Owned, LoadedIsOwners
<1>17. CASE RolledBack
  BY <1>17, <1>0, SameOpen DEF RolledBack, Reset, Forget, socketVars, drainVars, engineVars, Owned,
      LoadedIsOwners
<1>18. CASE ResetDone
  <2>1. owner \in Client
    BY <1>18, AtWork DEF ResetDone
  <2> QED BY <1>18, <2>1, <1>0, RotateOrder DEF ResetDone, Reset, Forget, socketVars, drainVars,
      engineVars, Owned, LoadedIsOwners
<1>19. CASE Yielded
  BY <1>19, <1>0, SameOpen DEF Yielded, socketVars, drainVars, engineVars, Owned, LoadedIsOwners
<1>20. CASE Sent
  BY <1>20, <1>0, SameOpen DEF Sent, socketVars, drainVars, engineVars, Owned, LoadedIsOwners
<1>21. CASE Settle
  BY <1>21, <1>0, SameOpen DEF Settle, socketVars, drainVars, engineVars, Owned, LoadedIsOwners
<1>22. CASE Stop
  BY <1>22, DroppedAll DEF Stop, Pumped, Waiting, socketVars, drainVars, engineVars, Owned,
      LoadedIsOwners
<1>23. CASE Stopped
  BY <1>23, <1>0, SameOpen DEF Stopped, socketVars, drainVars, engineVars, Owned, LoadedIsOwners
<1>24. CASE UNCHANGED vars
  BY <1>24, <1>0, SameOpen DEF vars, socketVars, drainVars, engineVars, Owned, LoadedIsOwners
<1> QED
  BY <1>1, <1>2, <1>3, <1>4, <1>5, <1>6, <1>7, <1>8, <1>9, <1>10, <1>11, <1>12, <1>13, <1>14,
      <1>15, <1>16, <1>17, <1>18, <1>19, <1>20, <1>21, <1>22, <1>23, <1>24
     DEF Next, Drain, Execute, Exchanges

(* So do the deadlines.                                                    *)
LEMMA WaitingStep == Order /\ Types /\ Owned /\ Waiting /\ [Next]_vars => Waiting'
<1> SUFFICES ASSUME Order, Types, Owned, Waiting, [Next]_vars PROVE Waiting'
  OBVIOUS
<1>0. Open \subseteq Client /\ Nobody \notin Client /\ sending \subseteq Client
  BY OpenClients, PoolAssumption DEF Types
<1>1. ASSUME NEW c \in Client, Connect(c) PROVE Waiting'
  BY <1>1, Connected DEF Connect, socketVars, drainVars, engineVars, Waiting
<1>2. ASSUME NEW c \in Client, Leave(c) PROVE Waiting'
  BY <1>2, <1>0, SameOpen, Dropped DEF Leave, Pumped, socketVars, drainVars, engineVars, Waiting
<1>3. ASSUME NEW c \in Client, Timeout(c) PROVE Waiting'
  BY <1>3, <1>0, SameOpen, Dropped DEF Timeout, Leave, Pumped, socketVars, drainVars, engineVars, Waiting
<1>4. ASSUME NEW c \in Client, Flushed(c) PROVE Waiting'
  BY <1>4, <1>0, Dropped, SameOpen DEF Flushed, Pumped, Owned, socketVars, drainVars, engineVars, Waiting
<1>5. ASSUME NEW c \in Client, Released(c) PROVE Waiting'
  BY <1>5, <1>0, SameOpen DEF Released, socketVars, drainVars, engineVars, Waiting
<1>6. ASSUME NEW c \in Client, NEW m \in Message, Receive(c, m) PROVE Waiting'
  BY <1>6, Received, SameOpen DEF Receive, Pumped, socketVars, drainVars, engineVars, Waiting
<1>7. CASE Start
  BY <1>7, <1>0, SameOpen DEF Start, socketVars, drainVars, engineVars, Waiting
<1>8. CASE LoopEnd
  BY <1>8, <1>0, SameOpen DEF LoopEnd, socketVars, drainVars, engineVars, Waiting
<1>9. CASE LoopAbandoned
  BY <1>9, <1>0, SameOpen DEF LoopAbandoned, socketVars, drainVars, engineVars, Waiting
<1>10. CASE LoopChoose
  <2>1. \A c \in Client : queue[c] = <<>> => TailOf(c) = <<>>
    BY TailTyped
  <2> QED BY <1>10, <1>0, <2>1, FirstFound, SameOpen DEF LoopChoose, DiscardTail, Types,
      socketVars, drainVars, engineVars, Waiting
<1>11. CASE LoopTake
  BY <1>11, <1>0, SameOpen DEF LoopTake, Types, socketVars, drainVars, engineVars, Waiting
<1>12. CASE Opened
  <2>1. owner \in Client
    BY <1>12, AtWork DEF Opened
  <2> QED BY <1>12, <1>0, <2>1, Dropped, SameOpen DEF Opened, socketVars, drainVars, engineVars, Waiting
<1>13. CASE Quit
  BY <1>13, <1>0, AtWork, Dropped DEF Quit, socketVars, drainVars, engineVars, Waiting
<1>14. CASE Exchanges
  <2>1. Answers /\ owner \in Client /\ Leaves /\ Open \subseteq Client
    BY <1>14, Answered, LeftBehind, OpenClients
  <2>2. CASE Drop(owner) /\ UNCHANGED sending
    <3>1. /\ Open' = Open \ {owner} /\ timer' = timer \ {owner}
          /\ queue'[owner] = <<>> /\ \A d \in Client \ {owner} : queue'[d] = queue[d]
      BY <2>1, <2>2, Dropped
    <3>2. owner' = owner /\ stopped' = stopped /\ sending' = sending /\ at' \in {"resetting", "sending"}
      BY <2>1, <2>2 DEF Answers
    <3> QED BY <2>1, <3>1, <3>2 DEF Waiting
  <2>3. CASE /\ \/ sending' = sending
                \/ at' = "sending" /\ sending' = sending \cup ({owner} \cap Open)
             /\ UNCHANGED <<order, fresh, queue, timer, output>>
    BY <2>1, <2>3, SameOpen DEF Answers, Leaves, Waiting
  <2> QED BY <2>1, <2>2, <2>3 DEF Answers
<1>15. CASE CopyBroken
  BY <1>15, <1>0, DroppedAll DEF CopyBroken, Executing, Throws, socketVars, drainVars, engineVars,
      Waiting
<1>16. CASE EngineFails
  BY <1>16, <1>0, DroppedAll DEF EngineFails, Throws, socketVars, drainVars, engineVars, Waiting
<1>17. CASE RolledBack
  BY <1>17, <1>0, SameOpen DEF RolledBack, Reset, Forget, Owned, socketVars, drainVars, engineVars,
      Waiting
<1>18. CASE ResetDone
  <2>1. owner \in Client
    BY <1>18, AtWork DEF ResetDone
  <2> QED BY <1>18, <2>1, <1>0, RotateOrder DEF ResetDone, Reset, Forget, socketVars, drainVars,
      engineVars, Waiting
<1>19. CASE Yielded
  BY <1>19, <1>0, SameOpen DEF Yielded, socketVars, drainVars, engineVars, Waiting
<1>20. CASE Sent
  BY <1>20, <1>0, SameOpen DEF Sent, socketVars, drainVars, engineVars, Waiting
<1>21. CASE Settle
  BY <1>21, <1>0, SameOpen DEF Settle, socketVars, drainVars, engineVars, Waiting
<1>22. CASE Stop
  BY <1>22, DroppedAll DEF Stop, Pumped, socketVars, drainVars, engineVars, Waiting
<1>23. CASE Stopped
  BY <1>23, <1>0, SameOpen DEF Stopped, socketVars, drainVars, engineVars, Waiting
<1>24. CASE UNCHANGED vars
  BY <1>24, <1>0, SameOpen DEF vars, socketVars, drainVars, engineVars, Waiting
<1> QED
  BY <1>1, <1>2, <1>3, <1>4, <1>5, <1>6, <1>7, <1>8, <1>9, <1>10, <1>11, <1>12, <1>13, <1>14,
      <1>15, <1>16, <1>17, <1>18, <1>19, <1>20, <1>21, <1>22, <1>23, <1>24
     DEF Next, Drain, Execute, Exchanges

(* And no wakeup is lost.                                                  *)
LEMMA ForgottenStep ==
  Order /\ Types /\ Owned /\ Waiting /\ NothingForgotten /\ [Next]_vars => NothingForgotten'
<1> SUFFICES ASSUME Order, Types, Owned, Waiting, NothingForgotten, [Next]_vars PROVE NothingForgotten'
  OBVIOUS
<1>0. Open \subseteq Client /\ Nobody \notin Client /\ sending \subseteq Client
  BY OpenClients, PoolAssumption DEF Types
<1>1. ASSUME NEW c \in Client, Connect(c) PROVE NothingForgotten'
  BY <1>1, <1>0, Connected DEF Connect, drainVars, Waiting, NothingForgotten
<1>2. ASSUME NEW c \in Client, Leave(c) PROVE NothingForgotten'
  BY <1>2 DEF Leave, Pumped, NothingForgotten
<1>3. ASSUME NEW c \in Client, Timeout(c) PROVE NothingForgotten'
  BY <1>3 DEF Timeout, Leave, Pumped, NothingForgotten
<1>4. ASSUME NEW c \in Client, Flushed(c) PROVE NothingForgotten'
  BY <1>4 DEF Flushed, Pumped, NothingForgotten
<1>5. ASSUME NEW c \in Client, Released(c) PROVE NothingForgotten'
  BY <1>5, SameOpen DEF Released, socketVars, drainVars, engineVars, NothingForgotten
<1>6. ASSUME NEW c \in Client, NEW m \in Message, Receive(c, m) PROVE NothingForgotten'
  BY <1>6 DEF Receive, Pumped, NothingForgotten
<1>7. CASE Start
  BY <1>7 DEF Start, NothingForgotten
<1>8. CASE LoopEnd
  BY <1>8 DEF LoopEnd, NothingForgotten
<1>9. CASE LoopAbandoned
  BY <1>9 DEF LoopAbandoned, NothingForgotten
<1>10. CASE LoopChoose
  BY <1>10 DEF LoopChoose, DiscardTail, NothingForgotten
<1>11. CASE LoopTake
  BY <1>11 DEF LoopTake, NothingForgotten
<1>12. CASE Opened
  BY <1>12 DEF Opened, NothingForgotten
<1>13. CASE Quit
  BY <1>13 DEF Quit, NothingForgotten
<1>14. CASE Exchanges
  BY <1>14, Answered DEF Answers, NothingForgotten
<1>15. CASE CopyBroken
  BY <1>15 DEF CopyBroken, Throws, NothingForgotten
<1>16. CASE EngineFails
  BY <1>16 DEF EngineFails, Throws, NothingForgotten
<1>17. CASE RolledBack
  BY <1>17 DEF RolledBack, Reset, Forget, NothingForgotten
<1>18. CASE ResetDone
  BY <1>18 DEF ResetDone, Reset, Forget, NothingForgotten
<1>19. CASE Yielded
  BY <1>19 DEF Yielded, NothingForgotten
<1>20. CASE Sent
  BY <1>20 DEF Sent, NothingForgotten
<1>21. CASE Settle
  BY <1>21, SameOpen DEF Settle, socketVars, drainVars, engineVars, NothingForgotten
<1>22. CASE Stop
  BY <1>22 DEF Stop, Pumped, NothingForgotten
<1>23. CASE Stopped
  BY <1>23, SameOpen DEF Stopped, socketVars, drainVars, engineVars, NothingForgotten
<1>24. CASE UNCHANGED vars
  BY <1>24, SameOpen DEF vars, socketVars, drainVars, engineVars, NothingForgotten
<1> QED
  BY <1>1, <1>2, <1>3, <1>4, <1>5, <1>6, <1>7, <1>8, <1>9, <1>10, <1>11, <1>12, <1>13, <1>14,
      <1>15, <1>16, <1>17, <1>18, <1>19, <1>20, <1>21, <1>22, <1>23, <1>24
     DEF Next, Drain, Execute, Exchanges

(* Before the first client everything holds.                               *)
LEMMA InitIInv == Init => IInv
<1> SUFFICES ASSUME Init PROVE IInv
  OBVIOUS
<1>1. Order /\ Open = {}
  <2>1. order = <<>> /\ 1 .. Len(order) = {}
    BY Limits DEF Init
  <2> QED BY <2>1, Limits DEF Order, Open
<1>2. queue \in [Client -> Seq(Message)] /\ \A c \in Client : Len(queue[c]) <= MaxQueue
  BY Limits DEF Init
<1>3. Types
  BY <1>1, <1>2 DEF Init, Types, Message
<1>4. Flags
  <2>1. relay = NoRelay /\ stopped = FALSE
    BY DEF Init
  <2> QED BY <2>1, Zenon DEF Flags, Relay, NoRelay
<1>5. Owned
  BY <1>1 DEF Init, Owned, LoadedIsOwners
<1>6. Waiting /\ NothingForgotten
  BY <1>1 DEF Init, Waiting, NothingForgotten
<1> QED BY <1>1, <1>3, <1>4, <1>5, <1>6 DEF IInv

(* A step keeps all of it.                                                 *)
LEMMA NextIInv == IInv /\ [Next]_vars => IInv'
  BY OrderStep, TypesStep, FlagsStep, OwnedStep, WaitingStep, ForgottenStep DEF IInv

(* The inductive invariant holds: the owner's session is its own, and      *)
(* nobody waits unnoticed, at every await of the loop and in between.      *)
THEOREM Inductive == Spec => []IInv
  BY InitIInv, NextIInv, PTL DEF Spec

(* The state has the shape the code gives it; the clients are a sequence   *)
(* without repetitions and within MAX_CLIENTS.                             *)
THEOREM TypeCorrect == Spec => []TypeOK
<1>1. IInv => TypeOK
  <2> SUFFICES ASSUME Order, Types, Flags PROVE TypeOK
    BY DEF IInv
  <2>1. order \in UNION {[1 .. k -> Client] : k \in 0 .. Capacity}
    <3>1. order \in [1 .. Len(order) -> Client] /\ Len(order) \in 0 .. Capacity
      BY LenProperties, Limits DEF Order
    <3> QED BY <3>1
  <2>2. ASSUME NEW c \in Client
        PROVE  Len(queue[c]) <= MaxQueue /\ \A i \in 1 .. Len(queue[c]) : queue[c][i] \in Message
    <3>1. queue[c] \in Seq(Message) /\ Len(queue[c]) <= MaxQueue
      BY DEF Types
    <3> QED BY <3>1, ElementOfSeq
  <2>3. relay \in [copying : BOOLEAN, waitingForSync : BOOLEAN, discarding : BOOLEAN]
        /\ stopped \in BOOLEAN
    BY Zenon DEF Flags, Relay
  <2>4. \A i, j \in 1 .. Len(order) : order[i] = order[j] => i = j
    BY DEF Order
  <2>5. /\ fresh \cup timer \subseteq Open /\ sending \cup discard \subseteq Client
        /\ statements \in [Client -> SUBSET Name]
        /\ output \in [Client -> {"none", "open", "closing"}]
        /\ owner \in Client \cup {Nobody} /\ msg \in Message /\ loaded \subseteq Name
        /\ at \in {"off", "starting", "loop", "opening", "executing", "sending", "rolling",
                   "resetting", "yielding", "settling"}
        /\ tx \in {"none", "implicit", "open"}
        /\ prepared \in [Name -> Client \cup {Nobody}] /\ session \in Client \cup {Nobody}
        /\ stop \in {"none", "stopping", "stopped"}
    BY DEF Types
  <2> QED BY <2>1, <2>2, <2>3, <2>4, <2>5, Zenon DEF TypeOK
<1> QED BY <1>1, Inductive, PTL

(* What the pool takes for loaded is in the backend, and is the owner's.   *)
THEOREM StatementsApart == Spec => []LoadedIsOwners
<1>1. IInv => LoadedIsOwners
  BY DEF IInv, Owned
<1> QED BY <1>1, Inductive, PTL

(* Whoever holds the backend idle, or waits for it, has a deadline, and    *)
(* the backend's own time does not count against its owner.                *)
THEOREM EveryoneTimed == Spec => []Deadlines
<1>1. IInv => Deadlines
  BY DEF IInv, Waiting, Deadlines
<1> QED BY <1>1, Inductive, PTL

(* When the loop is off there is nothing for it to do.                     *)
THEOREM NoLostWakeup == Spec => []NothingForgotten
<1>1. IInv => NothingForgotten
  BY DEF IInv
<1> QED BY <1>1, Inductive, PTL

(* The session changes hands only through nobody's.                        *)
LEMMA SessionStep ==
  Types /\ Owned /\ [Next]_vars =>
    \/ session' \in {session, Nobody}
    \/ session' \in Client /\ session' = owner
<1> SUFFICES ASSUME Types, Owned, [Next]_vars
             PROVE  session' \in {session, Nobody} \/ (session' \in Client /\ session' = owner)
  OBVIOUS
<1>1. ASSUME NEW c \in Client, Connect(c) PROVE session' \in {session, Nobody} \/ (session' \in Client /\ session' = owner)
  BY <1>1 DEF Connect, socketVars, drainVars, engineVars
<1>2. ASSUME NEW c \in Client, Leave(c) PROVE session' \in {session, Nobody} \/ (session' \in Client /\ session' = owner)
  BY <1>2 DEF Leave, Pumped, socketVars, drainVars, engineVars
<1>3. ASSUME NEW c \in Client, Timeout(c) PROVE session' \in {session, Nobody} \/ (session' \in Client /\ session' = owner)
  BY <1>3 DEF Timeout, Leave, Pumped, socketVars, drainVars, engineVars
<1>4. ASSUME NEW c \in Client, Flushed(c) PROVE session' \in {session, Nobody} \/ (session' \in Client /\ session' = owner)
  BY <1>4 DEF Flushed, Pumped, socketVars, drainVars, engineVars
<1>5. ASSUME NEW c \in Client, Released(c) PROVE session' \in {session, Nobody} \/ (session' \in Client /\ session' = owner)
  BY <1>5 DEF Released, socketVars, drainVars, engineVars
<1>6. ASSUME NEW c \in Client, NEW m \in Message, Receive(c, m) PROVE session' \in {session, Nobody} \/ (session' \in Client /\ session' = owner)
  BY <1>6 DEF Receive, Pumped, socketVars, drainVars, engineVars
<1>7. CASE Start
  BY <1>7 DEF Start, socketVars, drainVars, engineVars
<1>8. CASE LoopEnd
  BY <1>8 DEF LoopEnd, socketVars, drainVars, engineVars
<1>9. CASE LoopAbandoned
  BY <1>9 DEF LoopAbandoned, socketVars, drainVars, engineVars
<1>10. CASE LoopChoose
  BY <1>10 DEF LoopChoose, DiscardTail, socketVars, drainVars, engineVars
<1>11. CASE LoopTake
  BY <1>11 DEF LoopTake, socketVars, drainVars, engineVars
<1>12. CASE Opened
  BY <1>12 DEF Opened, socketVars, drainVars, engineVars
<1>13. CASE Quit
  BY <1>13 DEF Quit, socketVars, drainVars, engineVars
<1>14. CASE Exchanges
  BY <1>14, Answered DEF Answers
<1>15. CASE CopyBroken
  BY <1>15 DEF CopyBroken, Throws, socketVars, drainVars, engineVars
<1>16. CASE EngineFails
  BY <1>16 DEF EngineFails, Throws, socketVars, drainVars, engineVars
<1>17. CASE RolledBack
  BY <1>17 DEF RolledBack, Reset, Forget, socketVars, drainVars, engineVars
<1>18. CASE ResetDone
  BY <1>18 DEF ResetDone, Reset, Forget, socketVars, drainVars, engineVars
<1>19. CASE Yielded
  BY <1>19 DEF Yielded, socketVars, drainVars, engineVars
<1>20. CASE Sent
  BY <1>20 DEF Sent, socketVars, drainVars, engineVars
<1>21. CASE Settle
  BY <1>21 DEF Settle, socketVars, drainVars, engineVars
<1>22. CASE Stop
  BY <1>22 DEF Stop, Pumped, socketVars, drainVars, engineVars
<1>23. CASE Stopped
  BY <1>23 DEF Stopped, socketVars, drainVars, engineVars
<1>24. CASE UNCHANGED vars
  BY <1>24 DEF vars, socketVars, drainVars, engineVars
<1> QED
  BY <1>1, <1>2, <1>3, <1>4, <1>5, <1>6, <1>7, <1>8, <1>9, <1>10, <1>11, <1>12, <1>13, <1>14,
      <1>15, <1>16, <1>17, <1>18, <1>19, <1>20, <1>21, <1>22, <1>23, <1>24
     DEF Next, Drain, Execute, Exchanges

(* A step of the pool is a step of the lease, or none of its business.     *)
LEMMA LeaseStep == IInv /\ [Next]_vars => [Lease!Next]_session
<1> SUFFICES ASSUME IInv, [Next]_vars PROVE [Lease!Next]_session
  OBVIOUS
<1>1. session \in {Nobody, owner}
  BY DEF IInv, Owned
<1>2. session' \in {session, Nobody} \/ (session' \in Client /\ session' = owner)
  BY SessionStep DEF IInv
<1>3. CASE session' = Nobody
  BY <1>3 DEF Lease!Next, Lease!Clean
<1>4. CASE session' \in Client /\ session' = owner
  BY <1>1, <1>4 DEF Lease!Next, Lease!Touch
<1> QED BY <1>2, <1>3, <1>4

(* Two clients' work never meets in the one session the backend has.       *)
THEOREM SessionsApart == Spec => ImplementsLease
<1>1. Init => Lease!Init
  BY DEF Init, Lease!Init
<1> QED BY <1>1, LeaseStep, Inductive, PTL DEF Spec, ImplementsLease, Lease!Spec
=============================================================================
