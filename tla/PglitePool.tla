----------------------------- MODULE PglitePool -----------------------------
(***************************************************************************)
(* Transaction pooling of one PGlite backend among many clients:           *)
(* packages/environments/src/pglite-pool.ts, with the COPY relay of        *)
(* pglite-copy.ts and the response storage of pglite-output.ts.            *)
(*                                                                         *)
(* `drain` is the one loop that owns the backend, `at` says at which of    *)
(* its awaits it is.  Sockets, timers and flushes act at any of them but   *)
(* never in between, when `at` is "loop" (Quiet).  A queued message is     *)
(* "stmt" until it is executed, when it turns out to be any statement; the *)
(* engine's part is what the wire protocol prescribes.                     *)
(***************************************************************************)
EXTENDS Naturals, SequencesExt

CONSTANTS
  Client, Nobody,
  Name,      \* names of prepared statements; "" is the unnamed one
  Capacity,  \* MAX_CLIENTS
  MaxQueue   \* BOUND on the messages queued by one client

ASSUME PoolAssumption ==
  /\ Nobody \notin Client /\ "" \in Name
  /\ {Capacity, MaxQueue} \subseteq Nat \ {0}

VARIABLES
  order,     \* the connected clients, in the order of the set `clients`
  fresh,     \* those that have sent nothing yet
  queue,     \* queue[c]: its messages
  timer,     \* clients with a deadline running
  sending,   \* clients whose responses are being flushed
  discard,   \* clients the rest of whose COPY input is to be ignored
  statements,\* statements[c]: the statements c has prepared
  output,    \* output[c]: its storage for responses
  owner, at, msg,
  loaded,    \* the owner's statements the pool believes the backend has
  relay,     \* what the COPY relay is in the middle of
  tx,        \* the backend's transaction: implicit means an exchange before Sync
  prepared,  \* prepared[n]: who prepared what the backend knows as n
  session,   \* whose messages the backend has run since the last reset
  stopped, stop

socketVars == <<order, fresh, queue, timer, statements, output>>
engineVars == <<relay, tx, prepared, session>>
drainVars == <<owner, at, msg, loaded>>
vars == <<socketVars, sending, discard, drainVars, engineVars, stopped, stop>>

Open == {order[i] : i \in 1 .. Len(order)}
Quiet == at # "loop" /\ ~(at = "executing" /\ msg = "quit")
                     /\ ~(at = "sending" /\ owner \notin sending)
Pumped == IF at = "off" THEN "starting" ELSE at
Relaying == relay.copying \/ relay.waitingForSync
NoRelay == [copying |-> FALSE, waitingForSync |-> FALSE, discarding |-> FALSE]

Init ==
  /\ order = <<>> /\ fresh = {} /\ timer = {} /\ sending = {} /\ discard = {}
  /\ queue = [c \in Client |-> <<>>] /\ statements = [c \in Client |-> {}]
  /\ output = [c \in Client |-> "none"]
  /\ owner = Nobody /\ at = "off" /\ msg = "stmt" /\ loaded = {}
  /\ relay = NoRelay /\ tx = "none" /\ session = Nobody
  /\ prepared = [n \in Name |-> Nobody]
  /\ stopped = FALSE /\ stop = "none"
------------------------------------------------------------------------------
(* The sockets.  A client that is gone has no deadline, no queue and no    *)
(* statements; its storage is closed once nothing is flushed from it.      *)
Disposed(c) == IF output[c] = "open" THEN "closing" ELSE output[c]
Gone(C) ==
  /\ fresh' = fresh \ C /\ timer' = timer \ C
  /\ queue' = [c \in Client |-> IF c \in C THEN <<>> ELSE queue[c]]
  /\ statements' = [c \in Client |-> IF c \in C THEN {} ELSE statements[c]]
  /\ output' = [c \in Client |-> IF c \in C THEN Disposed(c) ELSE output[c]]
At(c) == CHOOSE i \in 1 .. Len(order) : order[i] = c
Drop(c) == c \in Open /\ order' = RemoveAt(order, At(c)) /\ Gone({c})
DropAll == order' = <<>> /\ Gone(Open)

Connect(c) ==
  /\ Quiet /\ ~stopped /\ Len(order) < Capacity
  /\ c \notin Open \cup sending /\ owner # c /\ output[c] = "none"
  /\ order' = Append(order, c) /\ fresh' = fresh \cup {c} /\ timer' = timer \cup {c}
  /\ discard' = discard \ {c}
  /\ UNCHANGED <<queue, statements, output, sending, drainVars, engineVars, stopped, stop>>

ReceiveUntimed(c, m) ==        \* mutant of Receive: who waits has no deadline
  /\ Quiet /\ c \in Open /\ Len(queue[c]) < MaxQueue
  /\ \A i \in 1 .. Len(queue[c]) : queue[c][i] # "quit"
  /\ c \in fresh => m = "stmt"
  /\ queue' = [queue EXCEPT ![c] = Append(@, m)]
  /\ fresh' = fresh \ {c} /\ timer' = timer \ {c}
  /\ at' = Pumped
  /\ UNCHANGED <<order, statements, output, sending, discard, owner, msg, loaded,
                 engineVars, stopped, stop>>
Receive(c, m) ==
  /\ Quiet /\ c \in Open /\ Len(queue[c]) < MaxQueue
  /\ \A i \in 1 .. Len(queue[c]) : queue[c][i] # "quit"
  /\ c \in fresh => m = "stmt"
  /\ queue' = [queue EXCEPT ![c] = Append(@, m)]
  /\ fresh' = fresh \ {c}
  /\ timer' = IF owner # c THEN timer \cup {c} ELSE timer
  /\ at' = Pumped
  /\ UNCHANGED <<order, statements, output, sending, discard, owner, msg, loaded,
                 engineVars, stopped, stop>>

(* Disconnected, or failed for what it sent.                               *)
Leave(c) ==
  /\ Quiet /\ Drop(c) /\ at' = Pumped
  /\ UNCHANGED <<sending, discard, owner, msg, loaded, engineVars, stopped, stop>>

Timeout(c) ==
  /\ c \in timer /\ Leave(c)

(* A flush ends, or fails with its client.                                 *)
Flushed(c) ==
  /\ at # "loop" /\ c \in sending
  /\ sending' = sending \ {c} /\ at' = Pumped
  /\ \/ /\ timer' = IF c \in Open /\ queue[c] # <<>> THEN timer \cup {c} ELSE timer
        /\ UNCHANGED <<order, fresh, queue, statements, output>>
     \/ Drop(c)
  /\ UNCHANGED <<discard, owner, msg, loaded, engineVars, stopped, stop>>

Released(c) ==
  /\ at # "loop" /\ output[c] = "closing" /\ c \notin sending
  /\ output' = [output EXCEPT ![c] = "none"]
  /\ UNCHANGED <<order, fresh, queue, timer, statements, sending, discard, drainVars,
                 engineVars, stopped, stop>>
------------------------------------------------------------------------------
(* The loop.  DiscardTail skips what is left of COPY input that was        *)
(* rejected: CopyData, and the CopyDone or CopyFail after it.              *)
Leading(q) == CHOOSE n \in 0 .. Len(q) :
  (\A i \in 1 .. n : q[i] = "data") /\ (n = Len(q) \/ q[n + 1] # "data")
TailOf(c) ==
  LET q == queue[c] n == Leading(q)
  IN IF c \notin discard \/ q = <<>> THEN q
     ELSE IF n = Len(q) THEN <<>>
     ELSE SubSeq(q, (IF q[n + 1] = "done" THEN n + 2 ELSE n + 1), Len(q))
StillDiscards(c) == c \in discard /\ Leading(queue[c]) = Len(queue[c])
DiscardTail(C) ==
  /\ queue' = [c \in Client |-> IF c \in C THEN TailOf(c) ELSE queue[c]]
  /\ discard' = {c \in discard : c \in C => StillDiscards(c)}

Eligible(c) == c \notin sending /\ TailOf(c) # <<>>
Runnable == {i \in 1 .. Len(order) : Eligible(order[i])}
First == CHOOSE i \in Runnable : \A j \in Runnable : i <= j

Start ==
  /\ at = "starting" /\ at' = "loop"
  /\ UNCHANGED <<socketVars, sending, discard, owner, msg, loaded, engineVars, stopped, stop>>

LoopEnd ==                     \* stop() was called
  /\ at = "loop" /\ stopped /\ at' = "settling"
  /\ UNCHANGED <<socketVars, sending, discard, owner, msg, loaded, engineVars, stopped, stop>>

LoopAbandonedLater ==          \* mutant of LoopAbandoned: the owner's work is left
  /\ at = "loop" /\ ~stopped /\ owner \notin Open \cup {Nobody}
  /\ owner' = Nobody
  /\ UNCHANGED <<socketVars, sending, discard, at, msg, loaded, engineVars, stopped, stop>>
LoopAbandoned ==
  /\ at = "loop" /\ ~stopped /\ owner \notin Open \cup {Nobody}
  /\ at' = "rolling"
  /\ UNCHANGED <<socketVars, sending, discard, owner, msg, loaded, engineVars, stopped, stop>>

LoopChoose ==
  /\ at = "loop" /\ ~stopped /\ owner = Nobody
  /\ LET scanned == IF Runnable = {} THEN Open ELSE {order[i] : i \in 1 .. First}
     IN /\ DiscardTail(scanned)
        /\ timer' = timer \ {c \in scanned : TailOf(c) = <<>>}
        /\ IF Runnable = {}
             THEN at' = "settling" /\ UNCHANGED owner
             ELSE owner' = order[First] /\ UNCHANGED at
  /\ UNCHANGED <<order, fresh, statements, output, sending, msg, loaded, engineVars, stopped, stop>>

LoopTake ==
  /\ at = "loop" /\ ~stopped /\ owner \in Open
  /\ discard' = {c \in discard : c = owner => StillDiscards(c)}
  /\ IF TailOf(owner) = <<>>
       THEN /\ queue' = [queue EXCEPT ![owner] = <<>>]
            /\ timer' = timer \cup {owner} /\ at' = "settling" /\ UNCHANGED msg
       ELSE /\ queue' = [queue EXCEPT ![owner] = Tail(TailOf(owner))]
            /\ timer' = timer \ {owner} /\ msg' = Head(TailOf(owner))
            /\ at' = IF output[owner] = "none" THEN "opening" ELSE "executing"
  /\ UNCHANGED <<order, fresh, statements, output, sending, owner, loaded, engineVars, stopped, stop>>

Opened ==
  /\ at = "opening"
  /\ \/ /\ output' = [output EXCEPT ![owner] = IF owner \in Open THEN "open" ELSE "closing"]
        /\ UNCHANGED <<order, fresh, queue, timer, statements>>
        /\ at' = IF owner \in Open THEN "executing" ELSE "loop"
     \/ at' = "loop" /\ Drop(owner)
     \/ at' = "loop" /\ owner \notin Open /\ UNCHANGED socketVars
  /\ UNCHANGED <<sending, discard, owner, msg, loaded, engineVars, stopped, stop>>

Quit ==
  /\ at = "executing" /\ msg = "quit"
  /\ Drop(owner) /\ at' = "loop"
  /\ UNCHANGED <<sending, discard, owner, msg, loaded, engineVars, stopped, stop>>
------------------------------------------------------------------------------
(* One message at the backend.  `st` is what the client has prepared after *)
(* it; `ready`: the backend answered ReadyForQuery outside a transaction.  *)
(* A response that is too large or cannot be stored fails the client.      *)
Executing(m) == at = "executing" /\ msg = m
Respond(ready, st) ==
  /\ at' = IF ready THEN "resetting" ELSE "sending"
  /\ session' = owner
  /\ \/ /\ statements' = IF owner \in Open THEN [statements EXCEPT ![owner] = st] ELSE statements
        /\ sending' = IF ready THEN sending ELSE sending \cup ({owner} \cap Open)
        /\ UNCHANGED <<order, fresh, queue, timer, output>>
     \/ Drop(owner) /\ UNCHANGED sending
  /\ UNCHANGED <<owner, msg, stopped, stop>>
Own == IF owner \in Open THEN statements[owner] ELSE {}
Idle == tx # "open"            \* a statement that changes no transaction ends ready
Exchange == tx' = IF tx = "none" THEN "implicit" ELSE tx
Settled == relay' = [relay EXCEPT !.discarding = FALSE]
Skips == relay' = [copying |-> relay.copying, waitingForSync |-> TRUE, discarding |-> FALSE]
Forget(names) == prepared' = [n \in Name |-> IF n \in names THEN Nobody ELSE prepared[n]]

(* CopyData and what ends it, in and out of COPY; input over the limit is  *)
(* an error, after which the rest of it must not be taken for statements.  *)
CopyInput ==
  /\ Executing("data") \/ Executing("done")
  /\ \/ /\ relay.copying
        /\ \/ msg = "data" /\ Respond(FALSE, Own) /\ UNCHANGED <<relay, discard>>
           \/ /\ relay' = [NoRelay EXCEPT !.discarding = (msg = "data")]
              /\ discard' = IF msg = "data" THEN discard \cup {owner} ELSE discard
              /\ Respond(Idle, Own)
     \/ /\ ~relay.copying
        /\ relay' = [relay EXCEPT !.discarding = @ /\ msg = "data"]
        /\ discard' = IF relay.discarding /\ msg = "data" THEN discard \cup {owner} ELSE discard
        /\ Respond(FALSE, Own)
  /\ UNCHANGED <<tx, prepared, loaded>>

Skipped ==                     \* after an error, until Sync
  /\ Executing("stmt") /\ relay.waitingForSync
  /\ Settled /\ Respond(FALSE, Own)
  /\ UNCHANGED <<tx, prepared, loaded, discard>>

Sync ==
  /\ Executing("stmt") /\ ~relay.copying
  /\ relay' = NoRelay /\ tx' = IF tx = "open" THEN "open" ELSE "none"
  /\ Respond(Idle, Own)
  /\ UNCHANGED <<prepared, loaded, discard>>

Running == Executing("stmt") /\ ~Relaying

(* A simple query: any SQL, a BEGIN or COMMIT, or one that deallocates all.*)
Query ==
  /\ Running /\ Settled
  /\ \E names \in {{""}, Name} :
       /\ Forget(names) /\ loaded' = loaded \ names
       /\ tx' \in {"none", "open"} /\ Respond(tx' = "none", Own \ names)
  /\ UNCHANGED discard

CopyIn ==
  /\ Running /\ relay' = [NoRelay EXCEPT !.copying = TRUE]
  /\ loaded' = loaded \ {""} /\ Respond(FALSE, Own \ {""})
  /\ UNCHANGED <<tx, prepared, discard>>

Parse(n) ==
  LET unnamed == {n} \cap {""}
  IN /\ Running /\ Exchange
     /\ \/ /\ n = "" \/ prepared[n] = Nobody
           /\ prepared' = [prepared EXCEPT ![n] = owner]
           /\ \/ /\ owner \in Open /\ Settled
                 /\ loaded' = loaded \cup {n} /\ Respond(FALSE, Own \cup {n})
              \/ /\ IF owner \in Open THEN Skips ELSE Settled   \* it cannot be described
                 /\ loaded' = loaded \ unnamed /\ Respond(FALSE, Own \ unnamed)
        \/ /\ Skips /\ loaded' = loaded \ unnamed /\ Respond(FALSE, Own \ unnamed)
           /\ UNCHANGED prepared
        \/ /\ Skips /\ loaded' = loaded \ {""} /\ Respond(FALSE, Own \ unnamed)
           /\ Forget({""})                                     \* refused: the private error
  /\ UNCHANGED discard

(* Bind or Describe.  A statement prepared before the last reset is first  *)
(* prepared again, which may fail, or show that its result has changed.    *)
BindUnrestored(n) ==           \* mutant of Bind: what is loaded is not restored ...
  /\ Running /\ Exchange /\ loaded' = loaded \cup ({n} \cap Own)
  /\ (Settled \/ Skips) /\ Respond(FALSE, Own)
  /\ UNCHANGED <<prepared, discard>>
Bind(n) ==
  /\ Running /\ Exchange
  /\ IF n \in Own \ loaded
       THEN \/ /\ n = "" \/ prepared[n] = Nobody
               /\ \/ /\ prepared' = [prepared EXCEPT ![n] = owner]
                     /\ \/ loaded' = loaded \cup {n} /\ (Settled \/ Skips)
                        \/ loaded' = loaded /\ Skips
                  \/ /\ prepared' = [prepared EXCEPT ![n] = owner, ![""] = Nobody]
                     /\ loaded' = loaded \ {""} /\ Skips
            \/ Skips /\ UNCHANGED <<prepared, loaded>>
       ELSE (Settled \/ Skips) /\ UNCHANGED <<prepared, loaded>>
  /\ Respond(FALSE, Own)
  /\ UNCHANGED discard

Close(n) ==
  /\ Running /\ Exchange /\ Settled
  /\ Forget({n}) /\ loaded' = loaded \ {n} /\ Respond(FALSE, Own \ {n})
  /\ UNCHANGED discard

(* The loop throws: COPY broken off by another message, or an engine that  *)
(* fails.  The pool is at its end.                                         *)
Throws ==
  /\ stopped' = TRUE /\ at' = "settling" /\ DropAll
  /\ UNCHANGED <<sending, discard, owner, msg, loaded, engineVars, stop>>
CopyBroken == Executing("stmt") /\ relay.copying /\ Throws
EngineFails == at \in {"executing", "rolling", "resetting"} /\ msg # "quit" /\ Throws
------------------------------------------------------------------------------
(* Between owners the session is made new: rolled back if its owner left,  *)
(* and everything discarded.                                               *)
Reset ==
  /\ relay' = NoRelay /\ tx' = "none" /\ session' = Nobody
  /\ Forget(Name) /\ loaded' = {} /\ owner' = Nobody
RolledBack ==
  /\ at = "rolling" /\ Reset /\ at' = "loop"
  /\ UNCHANGED <<socketVars, sending, discard, msg, stopped, stop>>
ResetDone ==
  /\ at = "resetting" /\ Reset /\ at' = "yielding"
  /\ order' = IF owner \in Open THEN Append(RemoveAt(order, At(owner)), owner) ELSE order
  /\ sending' = sending \cup ({owner} \cap Open)
  /\ UNCHANGED <<fresh, queue, timer, statements, output, discard, msg, stopped, stop>>
Yielded ==
  /\ at = "yielding" /\ at' = "loop"
  /\ UNCHANGED <<socketVars, sending, discard, owner, msg, loaded, engineVars, stopped, stop>>

Sent ==
  /\ at = "sending" /\ owner \notin sending /\ at' = "loop"
  /\ timer' = IF owner \in Open /\ queue[owner] = <<>> THEN timer \cup {owner} ELSE timer
  /\ UNCHANGED <<order, fresh, queue, statements, output, sending, discard, owner, msg, loaded,
                 engineVars, stopped, stop>>

(* The loop is over: was there work for it in the meantime?                *)
SettleOff ==                   \* mutant of Settle: nobody looks again
  /\ at = "settling" /\ at' = "off"
  /\ UNCHANGED <<socketVars, sending, discard, owner, msg, loaded, engineVars, stopped, stop>>
Settle ==
  /\ at = "settling"
  /\ at' = IF /\ ~stopped
              /\ \/ owner \notin Open \cup {Nobody}
                 \/ owner \in Open \ sending /\ queue[owner] # <<>>
                 \/ owner = Nobody /\ \E c \in Open \ sending : queue[c] # <<>>
            THEN "starting" ELSE "off"
  /\ UNCHANGED <<socketVars, sending, discard, owner, msg, loaded, engineVars, stopped, stop>>

Stop ==
  /\ Quiet /\ stop = "none"
  /\ stop' = "stopping" /\ stopped' = TRUE /\ DropAll /\ at' = Pumped
  /\ UNCHANGED <<sending, discard, owner, msg, loaded, engineVars>>
Stopped ==
  /\ stop = "stopping" /\ at = "off" /\ \A c \in Client : output[c] = "none"
  /\ stop' = "stopped" /\ relay' = NoRelay /\ tx' = "none"
  /\ UNCHANGED <<socketVars, sending, discard, drainVars, prepared, session, stopped>>
------------------------------------------------------------------------------
Execute ==
  \/ CopyInput \/ CopyBroken \/ Skipped \/ Sync \/ Query \/ CopyIn
  \/ \E n \in Name : Parse(n) \/ Bind(n) \/ Close(n)
Drain ==
  \/ Start \/ LoopEnd \/ LoopAbandoned \/ LoopChoose \/ LoopTake \/ Opened \/ Quit
  \/ Execute \/ RolledBack \/ ResetDone \/ Yielded \/ Sent \/ Settle
Message == {"stmt", "data", "done", "quit"}
Next ==
  \/ \E c \in Client :
       \/ Connect(c) \/ Leave(c) \/ Timeout(c) \/ Flushed(c) \/ Released(c)
       \/ \E m \in Message : Receive(c, m)
  \/ Drain \/ EngineFails \/ Stop \/ Stopped

Spec == Init /\ [][Next]_vars
------------------------------------------------------------------------------
(* The state has the shape the code gives it.                              *)
TypeOK ==
  /\ order \in UNION {[1 .. k -> Client] : k \in 0 .. Capacity}
  /\ \A i, j \in 1 .. Len(order) : order[i] = order[j] => i = j
  /\ fresh \cup timer \subseteq Open /\ sending \cup discard \subseteq Client
  /\ \A c \in Client : /\ Len(queue[c]) <= MaxQueue
                       /\ \A i \in 1 .. Len(queue[c]) : queue[c][i] \in Message
  /\ statements \in [Client -> SUBSET Name]
  /\ output \in [Client -> {"none", "open", "closing"}]
  /\ owner \in Client \cup {Nobody} /\ msg \in Message /\ loaded \subseteq Name
  /\ at \in {"off", "starting", "loop", "opening", "executing", "sending", "rolling",
             "resetting", "yielding", "settling"}
  /\ relay \in [copying : BOOLEAN, waitingForSync : BOOLEAN, discarding : BOOLEAN]
  /\ tx \in {"none", "implicit", "open"}
  /\ prepared \in [Name -> Client \cup {Nobody}] /\ session \in Client \cup {Nobody}
  /\ stopped \in BOOLEAN /\ stop \in {"none", "stopping", "stopped"}

(* What the pool takes for loaded is in the backend, and is the owner's:   *)
(* two clients that use the same statement name never run each other's.    *)
LoadedIsOwners == \A n \in loaded : owner # Nobody /\ prepared[n] = owner

(* Whoever holds the backend without working, or waits for it, has a       *)
(* deadline, and the backend's own time never counts against its owner     *)
(* ("Native execution time is excluded", docs/wasm-postgres.md:44).        *)
Deadlines ==
  /\ Quiet /\ ~stopped => \A c \in Open \ sending :
       /\ c # owner /\ queue[c] # <<>> => c \in timer
       /\ c = owner /\ at = "off" => c \in timer
  /\ at = "executing" => owner \notin timer

(* When the loop is off there is nothing for it to do: no wakeup is lost,  *)
(* though messages, departures and flushes come while it settles.          *)
NothingForgotten ==
  at = "off" /\ ~stopped =>
    /\ owner \in Open \cup {Nobody}
    /\ owner \in Open \ sending => queue[owner] = <<>>
    /\ owner = Nobody => \A c \in Open \ sending : queue[c] = <<>>

(* Statements, settings and transactions of two clients never meet.        *)
Lease == INSTANCE BackendLease WITH user <- session
ImplementsLease == Lease!Spec
=============================================================================
