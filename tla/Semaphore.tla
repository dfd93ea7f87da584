------------------------------ MODULE Semaphore ------------------------------
(***************************************************************************)
(* The counting semaphore of packages/execution/src/locks.ts as a value:   *)
(* how many permits are free and who waits, first come first served.       *)
(* Each operator is the semaphore after one synchronous piece of the       *)
(* class; the modules that use it decide when those pieces run.            *)
(***************************************************************************)
EXTENDS Naturals, Sequences, SequencesExt

New(capacity) == [available |-> capacity, waiting |-> <<>>]

(* acquire, when a permit is free and when none is.                        *)
CanTakeOffByOne(s) == s.available >= 0   \* mutant of CanTake
CanTake(s) == s.available > 0
Take(s) == [s EXCEPT !.available = @ - 1]
Enqueue(s, c) == [s EXCEPT !.waiting = Append(@, c)]

(* The abort listener of a waiter: it splices itself out of the queue.     *)
WithdrawNothing(s, c) == s               \* mutant of Withdraw
Withdraw(s, c) == [s EXCEPT !.waiting = RemoveFirst(@, c)]

(* releaseOnce: the permit goes straight to the first waiter, and becomes  *)
(* available only when nobody waits.                                       *)
IsLast(s, c) == s.waiting # <<>> /\ Last(s.waiting) = c   \* mutant of IsHead
IsHead(s, c) == s.waiting # <<>> /\ Head(s.waiting) = c
ReleaseTwice(s) ==                       \* mutant of Release
  [available |-> s.available + 1,
   waiting |-> IF s.waiting = <<>> THEN <<>> ELSE Tail(s.waiting)]
Release(s) ==
  IF s.waiting = <<>> THEN [s EXCEPT !.available = @ + 1]
                      ELSE [s EXCEPT !.waiting = Tail(@)]

(* The values a semaphore used by the clients in C can take.               *)
SemaphoreOf(C) == [available : Nat, waiting : Seq(C)]
==============================================================================
