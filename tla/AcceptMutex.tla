---------------------------- MODULE AcceptMutex ----------------------------
(***************************************************************************)
(* Several workers that share a listening socket and the accept mutex:     *)
(* process_events_and_timers() in each of them, with trylock_accept_mutex()*)
(* taken apart into the load, the compare-and-swap and the epoll_ctl()     *)
(* call that follows, and with workers that die.                           *)
(*                                                                         *)
(* A worker's connections are a number here, and its clients' handlers a   *)
(* step that may close one; module EventLoop has them in detail, with the  *)
(* other workers reduced to what they do to it.                            *)
(***************************************************************************)
EXTENDS Integers, FiniteSets

CONSTANTS
  Workers,     \* pids
  NoWorker,    \* 0 in the lock word
  Slots,       \* free slots of an idle worker: connection_n - 1
  ReserveDiv,  \* the 8 of accept_disabled = connection_n / 8 - free_n
  Clients,     \* clients that ever connect
  Mortal,      \* the workers that may die
  Faults       \* "ctl": epoll_ctl() fails, "nofile": accept() has no descriptor

ASSUME AcceptMutexAssumption ==
  /\ NoWorker \notin Workers
  /\ {Slots, ReserveDiv} \subseteq Nat \ {0}
  /\ Clients \in Nat
  /\ Mortal \subseteq Workers
  /\ Faults \subseteq {"ctl", "nofile"}

VARIABLES
  lock,      \* the shared word
  pc,
  mode,      \* "post", "lost" or "skip", as in EventLoop
  held,      \* accept_mutex_held
  active,    \* the listening event is registered in the worker's epoll
  disabled,  \* accept_disabled
  pending,   \* the listening event was returned by epoll_wait()
  used,      \* slots in use
  arrived,   \* clients that have connected
  taken,     \* clients that a worker has accepted
  dead

vars == <<lock, pc, mode, held, active, disabled, pending, used, arrived, taken, dead>>
lockVars == <<lock, held, active, mode>>
clientVars == <<used, arrived, taken>>

Backlog == arrived - taken
At(w, l) == w \notin dead /\ pc[w] = l
Goto(w, l) == pc' = [pc EXCEPT ![w] = l]
Set(f, w, v) == [f EXCEPT ![w] = v]

Init ==
  /\ lock = NoWorker
  /\ pc = [w \in Workers |-> "lock"]
  /\ mode = [w \in Workers |-> "lost"]
  /\ held = [w \in Workers |-> FALSE]
  /\ active = [w \in Workers |-> FALSE]
  /\ disabled = [w \in Workers |-> 0]
  /\ pending = [w \in Workers |-> FALSE]
  /\ used = [w \in Workers |-> 0]
  /\ arrived = 0 /\ taken = 0 /\ dead = {}

\* shmtx_unlock(): the word changes only if it holds the caller's pid.
ShmtxUnlock(w) == lock' = IF lock = w THEN NoWorker ELSE lock

-----------------------------------------------------------------------------
SkipMutex(w) ==
  /\ At(w, "lock") /\ disabled[w] > 0
  /\ disabled' = Set(disabled, w, disabled[w] - 1)
  /\ mode' = Set(mode, w, "skip")
  /\ Goto(w, "wait")
  /\ UNCHANGED <<lock, held, active, pending, clientVars, dead>>

TrylockLoad(w) ==
  /\ At(w, "lock") /\ disabled[w] <= 0
  /\ Goto(w, IF lock = NoWorker THEN "cas" ELSE "lost")
  /\ UNCHANGED <<lockVars, disabled, pending, clientVars, dead>>

\* Faulty variant: the word is stored without comparing.
TrylockStores(w) ==
  /\ At(w, "cas")
  /\ lock' = w /\ Goto(w, "enable")
  /\ UNCHANGED <<mode, held, active, disabled, pending, clientVars, dead>>

TrylockCas(w) ==
  /\ At(w, "cas")
  /\ \/ lock = NoWorker /\ lock' = w /\ Goto(w, "enable")
     \/ lock # NoWorker /\ UNCHANGED lock /\ Goto(w, "lost")
  /\ UNCHANGED <<mode, held, active, disabled, pending, clientVars, dead>>

\* enable_accept_events(), which may fail if the event is not registered yet:
\* the mutex is unlocked and the iteration given up.
Enable(w) ==
  /\ At(w, "enable")
  /\ \/ /\ active' = Set(active, w, TRUE)
        /\ held' = Set(held, w, TRUE)
        /\ mode' = Set(mode, w, "post")
        /\ Goto(w, "wait")
        /\ UNCHANGED lock
     \/ /\ "ctl" \in Faults /\ ~active[w]
        /\ ShmtxUnlock(w)
        /\ Goto(w, "lock")
        /\ UNCHANGED <<held, active, mode>>
  /\ UNCHANGED <<disabled, pending, clientVars, dead>>

\* Faulty variant: the listening event stays registered.
LostKeepsListening(w) ==
  /\ At(w, "lost")
  /\ held' = Set(held, w, FALSE)
  /\ mode' = Set(mode, w, "lost")
  /\ Goto(w, "wait")
  /\ UNCHANGED <<lock, active, disabled, pending, clientVars, dead>>

\* Another worker has the mutex: disable_accept_events() if this one had it
\* last time.
Lost(w) ==
  /\ At(w, "lost")
  /\ \/ /\ active' = Set(active, w, active[w] /\ ~held[w])
        /\ held' = Set(held, w, FALSE)
        /\ mode' = Set(mode, w, "lost")
        /\ Goto(w, "wait")
     \/ /\ "ctl" \in Faults /\ held[w] /\ active[w]
        /\ Goto(w, "lock")
        /\ UNCHANGED <<held, active, mode>>
  /\ UNCHANGED <<lock, disabled, pending, clientVars, dead>>

-----------------------------------------------------------------------------
\* epoll_wait() returns: with the listening event if it is registered and a
\* client waits, else for a connection, the alarm or the timeout.
Poll(w) ==
  /\ At(w, "wait")
  /\ pending' = Set(pending, w, active[w] /\ Backlog > 0)
  /\ Goto(w, "dispatch")
  /\ UNCHANGED <<lockVars, disabled, clientVars, dead>>

\* A handler closes its connection: inside epoll_process_events() when the
\* events are not posted, after the unlock when they are.
CloseClient(w) ==
  /\ \/ At(w, "dispatch") /\ mode[w] # "post"
     \/ At(w, "handlers")
  /\ used[w] > 0
  /\ used' = Set(used, w, used[w] - 1)
  /\ UNCHANGED <<lockVars, pc, disabled, pending, arrived, taken, dead>>

\* event_accept() is called, out of the batch or out of posted_accept_events.
StartAccept(w) ==
  /\ At(w, "dispatch") /\ pending[w]
  /\ pending' = Set(pending, w, FALSE)
  /\ Goto(w, "accept")
  /\ UNCHANGED <<lockVars, disabled, clientVars, dead>>

\* accept(), accept_disabled, get_connection().
Accept(w) ==
  /\ At(w, "accept") /\ Backlog > 0
  /\ taken' = taken + 1
  /\ disabled' = Set(disabled, w, (Slots + 1) \div ReserveDiv - (Slots - used[w]))
  /\ IF used[w] < Slots
     THEN used' = Set(used, w, used[w] + 1) /\ UNCHANGED pc
     ELSE Goto(w, "dispatch") /\ UNCHANGED used
  /\ UNCHANGED <<lockVars, pending, arrived, dead>>

\* EAGAIN
AcceptAgain(w) ==
  /\ At(w, "accept") /\ Backlog = 0
  /\ Goto(w, "dispatch")
  /\ UNCHANGED <<lockVars, disabled, pending, clientVars, dead>>

\* Faulty variant: the mutex is not given up.
AcceptNoFilesKeepsMutex(w) ==
  /\ At(w, "accept") /\ "nofile" \in Faults
  /\ active' = Set(active, w, FALSE)
  /\ held' = Set(held, w, FALSE)
  /\ disabled' = Set(disabled, w, 1)
  /\ Goto(w, "dispatch")
  /\ UNCHANGED <<lock, mode, pending, clientVars, dead>>

\* EMFILE, ENFILE
AcceptNoFiles(w) ==
  /\ At(w, "accept") /\ "nofile" \in Faults
  /\ \/ /\ active' = Set(active, w, FALSE)
        /\ IF held[w] THEN ShmtxUnlock(w) ELSE UNCHANGED lock
        /\ held' = Set(held, w, FALSE)
        /\ disabled' = Set(disabled, w, 1)
     \/ "ctl" \in Faults /\ UNCHANGED <<lock, held, active, disabled>>
  /\ Goto(w, "dispatch")
  /\ UNCHANGED <<mode, pending, clientVars, dead>>

\* Faulty variant: shmtx_unlock() stores 0, whoever has the lock.
UnlockStores(w) ==
  /\ At(w, "dispatch") /\ ~pending[w]
  /\ lock' = IF held[w] THEN NoWorker ELSE lock
  /\ Goto(w, "handlers")
  /\ UNCHANGED <<mode, held, active, disabled, pending, clientVars, dead>>

\* Faulty variant: unlocked only in an iteration that accepted.
UnlockOnlyPosted(w) ==
  /\ At(w, "dispatch") /\ ~pending[w]
  /\ IF held[w] /\ Backlog > 0 THEN ShmtxUnlock(w) ELSE UNCHANGED lock
  /\ Goto(w, "handlers")
  /\ UNCHANGED <<mode, held, active, disabled, pending, clientVars, dead>>

\* if (accept_mutex_held) shmtx_unlock(), which keeps accept_mutex_held.
Unlock(w) ==
  /\ At(w, "dispatch") /\ ~pending[w]
  /\ IF held[w] THEN ShmtxUnlock(w) ELSE UNCHANGED lock
  /\ Goto(w, "handlers")
  /\ UNCHANGED <<mode, held, active, disabled, pending, clientVars, dead>>

EndIteration(w) ==
  /\ At(w, "handlers")
  /\ Goto(w, "lock")
  /\ UNCHANGED <<lockVars, disabled, pending, clientVars, dead>>

-----------------------------------------------------------------------------
Connect ==
  /\ arrived < Clients
  /\ arrived' = arrived + 1
  /\ UNCHANGED <<lockVars, pc, disabled, pending, used, taken, dead>>

\* The kernel closes a dead worker's descriptors.  Nobody frees the lock.
Die(w) ==
  /\ w \in Mortal \ dead
  /\ dead' = dead \cup {w}
  /\ UNCHANGED <<lockVars, pc, disabled, pending, clientVars>>

WorkerNext(w) ==
  \/ SkipMutex(w) \/ TrylockLoad(w) \/ TrylockCas(w) \/ Enable(w) \/ Lost(w)
  \/ Poll(w) \/ StartAccept(w)
  \/ Accept(w) \/ AcceptAgain(w) \/ AcceptNoFiles(w)
  \/ Unlock(w) \/ EndIteration(w)

Next ==
  \/ \E w \in Workers : WorkerNext(w) \/ CloseClient(w) \/ Die(w)
  \/ Connect

\* The scheduler runs every live worker, and its alarm ends every epoll_wait().
Spec == Init /\ [][Next]_vars /\ \A w \in Workers : WF_vars(WorkerNext(w))
=============================================================================
