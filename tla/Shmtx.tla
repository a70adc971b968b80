------------------------------- MODULE Shmtx -------------------------------
(***************************************************************************)
(* The lock word of shmtx.c, and of spinlock.c with the macros trylock and *)
(* unlock of atomic.h, which are the same algorithm with another value in  *)
(* the word and another way to release it.                                 *)
(*                                                                         *)
(* A try is two steps: a plain load, and a compare-and-swap if the load    *)
(* found the word free.  Processes that do not hold the lock also call     *)
(* shmtx_unlock(): the workers of event.c do when accept_mutex_held is     *)
(* left from an earlier iteration.  A process may die at any step.         *)
(***************************************************************************)
EXTENDS Integers

CONSTANTS
  Procs,
  Value,    \* what a process stores in the word: its pid, or the same for all
  Free,     \* 0
  ByStore,  \* released with unlock(): a store; otherwise with shmtx_unlock()
  Ncpu,
  Spin,     \* mtx->spin
  Width,    \* bits of the counter n of the spinning loop
  Mortal    \* the processes that may die

ASSUME ShmtxAssumption ==
  /\ \A p \in Procs : Value[p] # Free
  /\ ByStore \in BOOLEAN
  /\ ~ByStore => \A p, q \in Procs : Value[p] = Value[q] => p = q
  /\ Ncpu \in Nat \ {0} /\ Spin \in Nat /\ Width \in Nat \ {0}
  /\ Mortal \subseteq Procs

VARIABLES
  lock,  \* the shared word
  pc,
  n,     \* the counter of the spinning loop, -1 outside of it
  dead

vars == <<lock, pc, n, dead>>

Alive(p) == p \notin dead
Waiting(p) == pc[p] \in {"load", "cas", "fail"}

Init ==
  /\ lock = Free
  /\ pc = [p \in Procs |-> "out"]
  /\ n = [p \in Procs |-> -1]
  /\ dead = {}

\* Faulty variant: the word is stored without comparing.
CompareAndSetBlind(old, new, won, lost) == lock' = new /\ won

\* atomic_cmp_set(lock, old, new), and what follows in either case.
CompareAndSet(old, new, won, lost) ==
  \/ lock = old /\ lock' = new /\ won
  \/ lock # old /\ UNCHANGED lock /\ lost

Goto(p, l) == pc' = [pc EXCEPT ![p] = l]

\* shmtx_trylock(), trylock(): the load.  A word in use is a failure.
TryLoad(p) ==
  /\ Alive(p) /\ pc[p] = "out"
  /\ lock = Free
  /\ Goto(p, "trycas")
  /\ UNCHANGED <<lock, n, dead>>

TryCas(p) ==
  /\ Alive(p) /\ pc[p] = "trycas"
  /\ CompareAndSet(Free, Value[p], Goto(p, "in"), Goto(p, "out"))
  /\ UNCHANGED <<n, dead>>

\* shmtx_lock(), spinlock(): one turn tries, then spins if there are other
\* processors to wait for, then yields.
LockCall(p) ==
  /\ Alive(p) /\ pc[p] = "out"
  /\ Goto(p, "load")
  /\ UNCHANGED <<lock, n, dead>>

LockLoad(p) ==
  /\ Alive(p) /\ pc[p] = "load"
  /\ Goto(p, IF lock = Free THEN "cas" ELSE "fail")
  /\ UNCHANGED <<lock, n, dead>>

LockCas(p) ==
  /\ Alive(p) /\ pc[p] = "cas"
  /\ CompareAndSet(Free, Value[p],
                   Goto(p, "in") /\ n' = [n EXCEPT ![p] = -1],
                   Goto(p, "fail") /\ UNCHANGED n)
  /\ UNCHANGED dead

\* Faulty variant: n is not bounded by spin.
BackoffForever(p) ==
  /\ Alive(p) /\ pc[p] = "fail"
  /\ n' = [n EXCEPT ![p] = IF @ = -1 THEN 1 ELSE (2 * @) % 2 ^ Width]
  /\ Goto(p, "load")
  /\ UNCHANGED <<lock, dead>>

\* The next n of the spinning loop, or sched_yield() and a new turn.
Backoff(p) ==
  LET next == IF n[p] = -1 THEN 1 ELSE (2 * n[p]) % 2 ^ Width
  IN  /\ Alive(p) /\ pc[p] = "fail"
      /\ n' = [n EXCEPT ![p] = IF Ncpu > 1 /\ next < Spin THEN next ELSE -1]
      /\ Goto(p, "load")
      /\ UNCHANGED <<lock, dead>>

\* Faulty variant: the arguments of atomic_cmp_set() are swapped.
UnlockSwapped(p) ==
  /\ Alive(p) /\ pc[p] = "in"
  /\ CompareAndSet(Free, Value[p], Goto(p, "out"), Goto(p, "out"))
  /\ UNCHANGED <<n, dead>>

\* shmtx_unlock(), shmtx_force_unlock(), or unlock(), by the holder.
Unlock(p) ==
  /\ Alive(p) /\ pc[p] = "in"
  /\ IF ByStore
     THEN lock' = Free /\ Goto(p, "out")
     ELSE CompareAndSet(Value[p], Free, Goto(p, "out"), Goto(p, "out"))
  /\ UNCHANGED <<n, dead>>

\* Faulty variant: shmtx_unlock() as a store.
StrayUnlockStores(p) ==
  /\ ~ByStore /\ Alive(p) /\ pc[p] = "out"
  /\ lock' = Free
  /\ UNCHANGED <<pc, n, dead>>

\* The same by a process that does not hold the lock.
StrayUnlock(p) ==
  /\ ~ByStore /\ Alive(p) /\ pc[p] = "out"
  /\ CompareAndSet(Value[p], Free, UNCHANGED pc, UNCHANGED pc)
  /\ UNCHANGED <<n, dead>>

Die(p) ==
  /\ Alive(p) /\ p \in Mortal
  /\ dead' = dead \cup {p}
  /\ UNCHANGED <<lock, pc, n>>

\* What a process must go on with once it has begun.
Advance(p) ==
  \/ TryCas(p)
  \/ LockLoad(p) \/ LockCas(p) \/ Backoff(p)
  \/ Unlock(p)

Next ==
  \E p \in Procs :
    \/ TryLoad(p) \/ LockCall(p) \/ Advance(p)
    \/ StrayUnlock(p)
    \/ Die(p)

\* A process inside leaves again, and the scheduler runs every process.
Spec == Init /\ [][Next]_vars /\ \A p \in Procs : WF_vars(Advance(p))

-----------------------------------------------------------------------------
Inside == {p \in Procs : pc[p] = "in"}

\* One process at a time is inside; the word is its and is free when there is
\* none.  The compare-and-swap of another process and an unlock by one that
\* does not hold the lock leave the word alone.
WordIsOwner ==
  /\ \A p, q \in Inside : p = q
  /\ \A p \in Inside : lock = Value[p]
  /\ lock # Free => Inside # {}

\* The lock is the abstract one: who enters finds nobody inside, and who leaves
\* is the one inside.
AbstractMutex == INSTANCE Mutex WITH inside <- Inside

ImplementsMutex == AbstractMutex!Spec

\* While no process dies inside and somebody waits, the lock is taken again
\* and again: not by each of those that wait, but by one of them.
SomebodyWaits == \E p \in Procs : Alive(p) /\ Waiting(p)

SomeoneEnters ==
  [](Inside \cap dead = {}) =>
    []<>~SomebodyWaits \/ []<><<Inside = {} /\ Inside' # {}>>_vars

\* A process that waits does not only spin: it yields the processor between
\* turns, or gets in.
WaiterYields ==
  \A p \in Procs :
    (Alive(p) /\ n[p] # -1) ~> (n[p] = -1 \/ ~Alive(p))
=============================================================================
