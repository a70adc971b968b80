----------------------- MODULE AcceptMutexProperties -----------------------
(***************************************************************************)
(* What the accept mutex gives the workers: the lock of Shmtx, held by one *)
(* worker from winning it to the end of its accepting, one worker at a     *)
(* time that epoll wakes for new clients, and clients accepted for as long *)
(* as no worker dies with the lock.                                        *)
(***************************************************************************)
EXTENDS AcceptMutex

\* Every variable keeps its type, and the slots in use stay within a worker's.
TypeOK ==
  /\ lock \in Workers \cup {NoWorker}
  /\ pc \in [Workers -> {"lock", "cas", "enable", "lost", "wait", "dispatch", "accept", "handlers"}]
  /\ mode \in [Workers -> {"post", "lost", "skip"}]
  /\ held \in [Workers -> BOOLEAN] /\ active \in [Workers -> BOOLEAN]
  /\ pending \in [Workers -> BOOLEAN]
  /\ disabled \in [Workers -> Int]
  /\ used \in [Workers -> 0..Slots]
  /\ arrived \in 0..Clients /\ taken \in 0..arrived
  /\ dead \subseteq Workers

\* A worker that believes it may accept, from the compare-and-swap to the
\* unlock or to EMFILE.
Holding(w) ==
  \/ pc[w] = "enable"
  \/ mode[w] = "post" /\ held[w] /\ pc[w] \in {"wait", "dispatch", "accept"}

\* The lock word names the worker that holds the mutex and no other: neither
\* the unlock of a worker with a left-over accept_mutex_held nor a failed
\* epoll_ctl() frees another worker's lock or keeps one's own.
WordIsHolder == \A w \in Workers : Holding(w) <=> lock = w

\* A new client wakes one worker: a worker in epoll_wait() with the listening
\* event registered has the mutex, or is in an iteration that skips it because
\* it is nearly full or was out of descriptors.
OneListener ==
  \A w \in Workers :
    pc[w] = "wait" /\ active[w] => lock = w \/ mode[w] = "skip"

\* Two workers are inside event_accept() at once only if one of them skipped
\* the mutex, with the listening event left registered from before.
AcceptorsExclusive ==
  \A v, w \in Workers :
    v # w /\ pc[v] = "accept" /\ pc[w] = "accept" => "skip" \in {mode[v], mode[w]}

\* The lock as module Shmtx sees it: workers that only use shmtx_trylock() and
\* shmtx_unlock(), the latter also without holding the lock.
LockPc == [w \in Workers |-> IF pc[w] = "cas" THEN "trycas" ELSE IF Holding(w) THEN "in" ELSE "out"]
Lock == INSTANCE Shmtx WITH
  Procs <- Workers, Value <- [w \in Workers |-> w], Free <- NoWorker, ByStore <- FALSE,
  Ncpu <- 1, Spin <- 0, Width <- 1, pc <- LockPc, n <- [w \in Workers |-> -1]

\* Every step of a worker is one of the lock's steps or does not touch it.
UsesLock == Lock!Init /\ [][Lock!Next]_(Lock!vars)

\* epoll_ctl() fails, or accept() has no descriptor left.
Faulty(w) ==
  \/ pc[w] \in {"enable", "lost"} /\ pc'[w] = "lock"
  \/ AcceptNoFiles(w)

\* Clients are accepted for as long as the lock is not left with a dead
\* worker: nobody frees it then (shmtx_force_unlock() has no caller), which is
\* why the death of its holder is excluded and no other death is.  Failures of
\* system calls delay accepting and never end it: however many there were, no
\* worker keeps the mutex or stays deaf behind the last of them.
ClientsAreTaken ==
  []<>(lock \in dead) \/ []<><<\E w \in Workers : Faulty(w)>>_vars \/
    \A k \in 0..(Clients - 1) : (Backlog > 0 /\ taken = k) ~> (taken # k)
=============================================================================
