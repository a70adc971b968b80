----------------------------- MODULE EventLoop -----------------------------
(***************************************************************************)
(* One worker process: process_events_and_timers() of event.c with what it *)
(* calls, down to the accept handler (event_accept.c), the callback() that *)
(* it hands a new connection to, and the handlers myread() and mywrite()   *)
(* of main.c.  Around it: clients, the interval timer's SIGALRM, the       *)
(* kernel's side of epoll, and, when SharedMutex, the other workers that   *)
(* share the listening socket and the accept mutex.                        *)
(*                                                                         *)
(* pc says where the worker is.  A step runs from one system call whose    *)
(* result another actor can change to the next: the lock, epoll_wait(),    *)
(* accept(), the recv() loop of a handler, and its send() with the         *)
(* epoll_ctl() that follows.  pc = "dead" after SIGPIPE, which nothing in  *)
(* the repository ignores or blocks, has killed the worker.                *)
(***************************************************************************)
EXTENDS Connections

CONSTANTS
  DeferredAccept, \* ls->deferred_accept: new clients are taken to have data
  SharedMutex,    \* other workers use the accept mutex and the listening socket
  ReserveDiv,     \* the 8 of accept_disabled = connection_n / 8 - free_n
  DrainDiv,       \* the 8 of drain_connections()
  DrainMax,       \* the 32 of drain_connections()
  MaxOpen,        \* descriptors for clients the process may hold: RLIMIT_NOFILE
  Faults,         \* the calls that may fail at any time
  MaxBroken       \* bound: connections to clients that were reset, at a time

ASSUME EventLoopAssumption ==
  /\ DeferredAccept \in BOOLEAN
  /\ SharedMutex \in BOOLEAN
  /\ {ReserveDiv, DrainDiv, DrainMax, MaxOpen} \subseteq Nat \ {0}
  /\ Faults \subseteq {"mem",     \* palloc(), create_pool() return NULL
                       "ctl",     \* epoll_ctl() fails
                       "send",    \* send() takes a part, would block or fails
                       "nofile",  \* accept() fails with ENFILE
                       "accept"}  \* accept() fails otherwise: ENOMEM, ENOBUFS...
  /\ MaxBroken \in Nat

VARIABLES
  m,        \* the worker's memory and its descriptors: a record of Worker
  listener, \* active and posted of the read event of the listening connection
  held,     \* accept_mutex_held
  own,      \* accept_mutex holds this worker's pid
  disabled, \* accept_disabled
  pc,
  mode,     \* how this iteration goes: "post" (mutex won), "lost" or "skip" (mutex not tried)
  batch,    \* the part of event_list[] that is not looked at yet
  elapsed,  \* delta, the change of current_msec in this iteration
  alarm,    \* event_timer_alarm
  hand,     \* s of event_accept(): accepted, and in no slot yet
  todo,     \* n - i of drain_connections()
  call,     \* the running handler: its connection, and where it returns
  backlog,  \* accept queue of the listening socket
  unread,   \* sockets with bytes in their receive buffer
  peer      \* what the client at the other end of a socket has done: "new",
            \* "up", "fin" (closed), "rst" (reset), "gone" (closed, then reset)

vars == <<m, listener, held, own, disabled, pc, mode, batch, elapsed, alarm,
          hand, todo, call, backlog, unread, peer>>

\* For UNCHANGED: what the lock and listener code keeps, and what the clients own.
mutexVars  == <<listener, held, own, disabled, mode>>
acceptVars == <<hand, todo, backlog>>

\* The entry of the listening socket in a batch: slot 0.
ListenerEntry == [sock |-> NoSock, conn |-> 0, instance |-> 0]
NoCall == [conn |-> 0, back |-> "lock"]

Readable(s) == s \in unread \/ peer[s] # "up"
Broken(s) == peer[s] \in {"rst", "gone"}

Init ==
  /\ m = NewWorker
  /\ listener = [active |-> FALSE, posted |-> FALSE]
  /\ held = FALSE /\ own = FALSE /\ disabled = 0
  /\ pc = "lock" /\ mode = "lost"
  /\ batch = {} /\ elapsed = 0 /\ alarm = FALSE
  /\ hand = NoSock /\ todo = 0 /\ call = NoCall
  /\ backlog = <<>> /\ unread = {} /\ peer = [s \in Socks |-> "new"]

-----------------------------------------------------------------------------
(* The handlers. *)

\* Faulty variant: rev->ready survives the recv() that finds no more.
ReceivedKeepsReady(w, c, got) ==
  ReusableConnection(
    [w EXCEPT !.buffer[c] = IF got THEN "data" ELSE IF @ = "none" THEN "empty" ELSE @],
    c, FALSE)

\* myread() past its early returns: a buffer, what recv() got into it,
\* rev->ready cleared by the recv() that found no more, no longer reusable.
Received(w, c, got) ==
  ReusableConnection(
    [w EXCEPT !.buffer[c] = IF got THEN "data" ELSE IF @ = "none" THEN "empty" ELSE @,
              !.ready     = @ \ {c}],
    c, FALSE)

\* Faulty variant: one recv() per event, which may leave bytes unread.
MyReadOnce(w, c, back) ==
  IF c \in w.timedout \cup w.closing
  THEN m' = (IF c \in w.timedout THEN w ELSE CloseConnection(w, c)) /\ pc' = back /\ UNCHANGED <<unread, call>>
  ELSE /\ m' = Received(w, c, w.fd[c] \in unread)
       /\ unread' \in {unread, unread \ {w.fd[c]}}
       /\ pc' = "mywrite"
       /\ call' = [conn |-> c, back |-> back]

\* myread(rev) for slot c, called with memory w from the place back.  recv()
\* fails after a reset, behind the bytes the kernel kept; after a close it
\* returns 0, a reset that followed or not.  It is offered 1024 bytes at
\* b->last every time, however full the buffer is: bytes have no number here.
MyRead(w, c, back) ==
  LET s == w.fd[c]
  IN  \/ /\ c \in w.timedout
         /\ m' = w
         /\ pc' = back
         /\ UNCHANGED <<unread, call>>
      \/ /\ c \notin w.timedout
         /\ \/ c \in w.closing
            \/ "mem" \in Faults /\ w.buffer[c] = "none"
            \/ peer[s] = "rst"
         /\ m' = CloseConnection(w, c)
         /\ unread' = unread \ {s}
         /\ pc' = back
         /\ UNCHANGED call
      \/ /\ c \notin w.timedout \cup w.closing
         /\ peer[s] # "rst" \/ s \in unread
         /\ m' = Received(w, c, s \in unread)
         /\ unread' = unread \ {s}
         /\ pc' = "mywrite"
         /\ call' = [conn |-> c, back |-> back]

\* Faulty variant: the timer is left running.
UntimedNever(w, c) == w

\* event_del_timer() after a send() that took something.
Untimed(w, c) == IF c \in w.timer_set THEN EventDelTimer(w, c) ELSE w

\* handle_read_event(rev): register the read event, edge-triggered.
HandleReadEvent(w, c) ==
  IF c \in w.active \cup w.ready
  THEN w
  ELSE EpollAddEvent(w, c, Readable(w.fd[c]))

\* mywrite(rev), which myread() calls last: rev->timedout and c->close are 0.
\* b->pos stays after a send() that took all, so the next call sends again.
MyWrite ==
  LET c == call.conn
      s == m.fd[c]
  IN  /\ pc = "mywrite"
      /\ \/ /\ m.buffer[c] # "data"
            /\ UNCHANGED <<m, unread>>
         \/ /\ m.buffer[c] = "data"      \* send() takes all
            /\ ~Broken(s)
            /\ \/ m' = HandleReadEvent(Untimed(m, c), c)
               \/ "ctl" \in Faults /\ c \notin m.active /\ m' = Untimed(m, c)
            /\ UNCHANGED unread
         \/ /\ m.buffer[c] = "data"      \* send() takes a part, or would block
            /\ ~Broken(s)
            /\ "send" \in Faults
            /\ m' \in {m, Untimed(m, c)}
            /\ UNCHANGED unread
         \/ /\ m.buffer[c] = "data"      \* send() fails, with ECONNRESET after a reset
            /\ peer[s] = "rst" \/ ("send" \in Faults /\ ~Broken(s))
            /\ m' = CloseConnection(m, c)
            /\ unread' = unread \ {s}
      /\ pc' = call.back
      /\ call' = NoCall
      /\ UNCHANGED <<mutexVars, acceptVars, batch, elapsed, alarm, peer>>

\* send() to a client that closed and was reset since fails with EPIPE, and
\* its SIGPIPE kills the worker.  The process's memory is gone, NewWorker
\* standing for none; the kernel closes its descriptors, the listening socket
\* with its queue too unless other workers have it open.  The lock word is in
\* shared memory and stays.
KilledBySigpipe ==
  /\ pc = "mywrite"
  /\ m.buffer[call.conn] = "data" /\ peer[m.fd[call.conn]] = "gone"
  /\ pc' = "dead"
  /\ m' = NewWorker
  /\ listener' = [active |-> FALSE, posted |-> FALSE]
  /\ held' = FALSE /\ disabled' = 0 /\ mode' = "lost"
  /\ batch' = {} /\ elapsed' = 0 /\ alarm' = FALSE
  /\ hand' = NoSock /\ todo' = 0 /\ call' = NoCall
  /\ backlog' = IF SharedMutex THEN backlog ELSE <<>>
  /\ unread' = unread \cap Elems(backlog')
  /\ UNCHANGED <<own, peer>>

-----------------------------------------------------------------------------
(* The accept mutex.  When enable_accept_events() or disable_accept_events()
   fails the iteration is given up with nothing changed, a stuttering step. *)

\* Faulty variant: accept_disabled is not counted down.
SkipMutexForever ==
  /\ pc = "lock" /\ disabled > 0
  /\ mode' = "skip"
  /\ pc' = "wait"
  /\ UNCHANGED <<m, listener, held, own, disabled, acceptVars, batch, elapsed, alarm, call, unread, peer>>

\* accept_disabled is positive: leave the mutex, and the listening event,
\* as they are.
SkipMutex ==
  /\ pc = "lock" /\ disabled > 0
  /\ disabled' = disabled - 1
  /\ mode' = "skip"
  /\ pc' = "wait"
  /\ UNCHANGED <<m, listener, held, own, acceptVars, batch, elapsed, alarm, call, unread, peer>>

TrylockWins ==
  /\ pc = "lock" /\ disabled <= 0
  /\ own' = TRUE
  /\ held' = TRUE
  /\ listener' = [listener EXCEPT !.active = TRUE]
  /\ mode' = "post"
  /\ pc' = "wait"
  /\ UNCHANGED <<m, disabled, acceptVars, batch, elapsed, alarm, call, unread, peer>>

\* Faulty variant: the listening event stays registered.
TrylockLosesKeepsListening ==
  /\ SharedMutex
  /\ pc = "lock" /\ disabled <= 0
  /\ held' = FALSE
  /\ mode' = "lost"
  /\ pc' = "wait"
  /\ UNCHANGED <<m, listener, own, disabled, acceptVars, batch, elapsed, alarm, call, unread, peer>>

\* Another worker has the mutex.
TrylockLoses ==
  /\ SharedMutex
  /\ pc = "lock" /\ disabled <= 0
  /\ listener' = [listener EXCEPT !.active = @ /\ ~held]
  /\ held' = FALSE
  /\ mode' = "lost"
  /\ pc' = "wait"
  /\ UNCHANGED <<m, own, disabled, acceptVars, batch, elapsed, alarm, call, unread, peer>>

-----------------------------------------------------------------------------
(* epoll_process_events(). *)

\* What epoll_wait() would return: the ready list, and the level-triggered
\* listening event.
ReadyEvents ==
  m.edges \cup (IF listener.active /\ backlog # <<>> THEN {ListenerEntry} ELSE {})

\* Faulty variant: the remaining time runs below zero.
TickUnclamped(w, d) == [w EXCEPT !.left = [c \in Conns |-> @[c] - d]]

\* stime_update(): d ticks have passed.
Tick(w, d) ==
  [w EXCEPT !.left = [c \in Conns |-> IF @[c] > d THEN @[c] - d ELSE 0]]

\* epoll_wait() returns events.  The time is updated only if an alarm came
\* since the flag was last cleared.
PollEvents ==
  /\ pc = "wait" /\ ReadyEvents # {}
  /\ batch' = ReadyEvents
  /\ \E d \in (IF alarm THEN 0..Timeout ELSE {0}) :
       /\ m' = [Tick(m, d) EXCEPT !.edges = {}]
       /\ elapsed' = d
  /\ pc' = "dispatch"
  /\ UNCHANGED <<mutexVars, acceptVars, alarm, call, unread, peer>>

\* epoll_wait() returns 0 after accept_mutex_delay.
PollTimeout ==
  /\ pc = "wait" /\ ReadyEvents = {} /\ mode = "lost"
  /\ \E d \in (IF alarm THEN 0..Timeout ELSE {0}) : m' = Tick(m, d) /\ elapsed' = d
  /\ pc' = "dispatch"
  /\ UNCHANGED <<mutexVars, acceptVars, batch, alarm, call, unread, peer>>

\* SIGALRM interrupts epoll_wait(): the only place that clears the flag.
\* When it was clear, the clock was last read before this alarm's period.
PollInterrupted ==
  /\ pc = "wait" /\ ReadyEvents = {}
  /\ \E d \in (IF alarm THEN 0 ELSE 1)..Timeout : m' = Tick(m, d) /\ elapsed' = d
  /\ alarm' = FALSE
  /\ pc' = "dispatch"
  /\ UNCHANGED <<mutexVars, acceptVars, batch, call, unread, peer>>

\* The check for stale events in epoll_process_events().
Stale(e) == m.fd[e.conn] = NoSock \/ m.instance[e.conn] # e.instance

\* The next event of a client's connection.
DispatchConnection(e) ==
  LET c  == e.conn
      w  == [m EXCEPT !.ready = @ \cup {c}]
  IN  /\ pc = "dispatch" /\ e \in batch /\ c # 0
      /\ batch' = batch \ {e}
      /\ \/ /\ Stale(e) \/ c \notin m.active
            /\ UNCHANGED <<m, pc, call, unread>>
         \/ /\ ~Stale(e) /\ c \in m.active /\ mode = "post"
            /\ m' = PostEvent(w, c)
            /\ UNCHANGED <<pc, call, unread>>
         \/ /\ ~Stale(e) /\ c \in m.active /\ mode # "post"
            /\ MyRead(w, c, "dispatch")
      /\ UNCHANGED <<mutexVars, acceptVars, elapsed, alarm, peer>>

\* The listening event: posted to posted_accept_events, or handled at once.
DispatchListener ==
  /\ pc = "dispatch" /\ ListenerEntry \in batch
  /\ batch' = batch \ {ListenerEntry}
  /\ IF mode = "post"
     THEN listener' = [listener EXCEPT !.posted = TRUE] /\ pc' = pc
     ELSE pc' = "accept" /\ UNCHANGED listener
  /\ UNCHANGED <<m, held, own, disabled, mode, acceptVars, elapsed, alarm, call, unread, peer>>

-----------------------------------------------------------------------------
(* event_accept().  Its loop ends only by a return: ev->available stays 1. *)

\* event_process_posted(&posted_accept_events), after the batch.
RunPostedAccept ==
  /\ pc = "dispatch" /\ batch = {} /\ listener.posted
  /\ listener' = [listener EXCEPT !.posted = FALSE]
  /\ pc' = "accept"
  /\ UNCHANGED <<m, held, own, disabled, mode, acceptVars, batch, elapsed, alarm, call, unread, peer>>

\* EAGAIN
AcceptAgain ==
  /\ pc = "accept" /\ backlog = <<>>
  /\ pc' = "dispatch"
  /\ UNCHANGED <<m, mutexVars, acceptVars, batch, elapsed, alarm, call, unread, peer>>

\* ECONNABORTED: the loop goes on.
AcceptAborted ==
  /\ pc = "accept" /\ backlog # <<>>
  /\ Broken(Head(backlog))
  /\ backlog' = Tail(backlog)
  /\ UNCHANGED <<m, mutexVars, pc, hand, todo, batch, elapsed, alarm, call, unread, peer>>

\* Any other error: return, with clients left in the queue.
AcceptFails ==
  /\ pc = "accept" /\ "accept" \in Faults
  /\ pc' = "dispatch"
  /\ UNCHANGED <<m, mutexVars, acceptVars, batch, elapsed, alarm, call, unread, peer>>

\* EMFILE or ENFILE: stop listening, give the mutex up, and let one
\* iteration pass without it.  If epoll_ctl() fails nothing of that is done.
AcceptNoFiles ==
  /\ pc = "accept"
  /\ "nofile" \in Faults \/ Cardinality(m.open) >= MaxOpen
  /\ \/ /\ listener' = [listener EXCEPT !.active = FALSE]
        /\ own' = FALSE
        /\ held' = FALSE
        /\ disabled' = 1
     \/ /\ "ctl" \in Faults
        /\ UNCHANGED <<listener, own, held, disabled>>
  /\ pc' = "dispatch"
  /\ UNCHANGED <<m, mode, acceptVars, batch, elapsed, alarm, call, unread, peer>>

\* Faulty variant: the loop starts from 1.
DrainCountOneLess ==
  LET share == m.reusable_n \div DrainDiv
      least == IF share < DrainMax THEN share ELSE DrainMax
  IN  IF least > 1 THEN least - 1 ELSE 0

\* The n of drain_connections().
DrainCount ==
  LET share == m.reusable_n \div DrainDiv
      least == IF share < DrainMax THEN share ELSE DrainMax
  IN  IF least > 1 THEN least ELSE 1

\* accept() returns a socket; get_connection() finds the free list empty or not.
AcceptOk ==
  /\ pc = "accept" /\ backlog # <<>> /\ Cardinality(m.open) < MaxOpen
  /\ hand' = Head(backlog)
  /\ backlog' = Tail(backlog)
  /\ m' = [m EXCEPT !.open = @ \cup {Head(backlog)}]
  /\ disabled' = (N + 1) \div ReserveDiv - m.free_n
  /\ IF m.free = <<>>
     THEN pc' = "drain" /\ todo' = DrainCount
     ELSE pc' = "serve" /\ UNCHANGED todo
  /\ UNCHANGED <<listener, held, own, mode, batch, elapsed, alarm, call, unread, peer>>

\* One turn of the loop of drain_connections(): the handler of the last
\* connection of the queue runs with c->close set.
DrainConnection ==
  /\ pc = "drain" /\ todo > 0 /\ m.reusableq # <<>>
  /\ LET c == m.reusableq[Len(m.reusableq)]
     IN  MyRead([m EXCEPT !.closing = @ \cup {c}], c, "drain")
  /\ todo' = todo - 1
  /\ UNCHANGED <<mutexVars, hand, backlog, batch, elapsed, alarm, peer>>

DrainDone ==
  /\ pc = "drain" /\ (todo = 0 \/ m.reusableq = <<>>)
  /\ todo' = 0
  /\ pc' = "serve"
  /\ UNCHANGED <<m, mutexVars, hand, backlog, batch, elapsed, alarm, call, unread, peer>>

\* get_connection() returned NULL: close the client's socket.
RefuseClient ==
  /\ pc = "serve" /\ m.free = <<>>
  /\ m' = CloseFd(m, hand)
  /\ hand' = NoSock
  /\ unread' = unread \ {hand}
  /\ pc' = "dispatch"
  /\ UNCHANGED <<mutexVars, todo, backlog, batch, elapsed, alarm, call, peer>>

\* create_pool() or palloc() returned NULL.
DropClient ==
  /\ "mem" \in Faults
  /\ pc = "serve" /\ m.free # <<>>
  /\ m' = CloseAcceptedConnection(GetConnection(m, hand), Head(m.free))
  /\ hand' = NoSock
  /\ unread' = unread \ {hand}
  /\ pc' = "dispatch"
  /\ UNCHANGED <<mutexVars, todo, backlog, batch, elapsed, alarm, call, peer>>

\* callback(c), c->read->ready being ls->deferred_accept: post the read, or
\* wait for it, reusable meanwhile.
Callback ==
  LET c == Head(m.free)
      w == EventAddTimer(GetConnection(m, hand), c)
      r == ReusableConnection(w, c, TRUE)
  IN  /\ pc = "serve" /\ m.free # <<>>
      /\ IF DeferredAccept
         THEN /\ m' = PostEvent([w EXCEPT !.ready = @ \cup {c}], c)
              /\ UNCHANGED unread
         ELSE \/ /\ m' = HandleReadEvent(r, c)
                 /\ UNCHANGED unread
              \/ /\ "ctl" \in Faults
                 /\ m' = CloseConnection(r, c)
                 /\ unread' = unread \ {hand}
      /\ hand' = NoSock
      /\ pc' = "accept"
      /\ UNCHANGED <<mutexVars, todo, backlog, batch, elapsed, alarm, call, peer>>

-----------------------------------------------------------------------------
(* The end of an iteration. *)

\* event_expire_timers(): myread() returns at once for a timed out event.
ExpireTimers(w) ==
  LET due == {c \in w.tree : w.left[c] = 0}
  IN  [w EXCEPT !.tree = @ \ due, !.timer_set = @ \ due, !.timedout = @ \cup due]

\* shmtx_unlock() if accept_mutex_held, which changes the lock word only if
\* it holds this worker's pid; then the timers, if the clock has moved.
Release ==
  /\ pc = "dispatch" /\ batch = {} /\ ~listener.posted
  /\ own' = (own /\ ~held)
  /\ m' = IF elapsed = 0 THEN m ELSE ExpireTimers(m)
  /\ elapsed' = 0
  /\ pc' = "posted"
  /\ UNCHANGED <<listener, held, disabled, mode, acceptVars, batch, alarm, call, unread, peer>>

\* event_process_posted(&posted_events)
RunPosted ==
  /\ pc = "posted" /\ m.postedq # <<>>
  /\ LET c == Head(m.postedq) IN MyRead(DeletePostedEvent(m, c), c, "posted")
  /\ UNCHANGED <<mutexVars, acceptVars, batch, elapsed, alarm, peer>>

PostedDone ==
  /\ pc = "posted" /\ m.postedq = <<>>
  /\ pc' = "lock"
  /\ UNCHANGED <<m, mutexVars, acceptVars, batch, elapsed, alarm, call, unread, peer>>

-----------------------------------------------------------------------------
(* The other actors. *)

workerVars == <<m, mutexVars, pc, batch, elapsed, hand, todo, call>>

\* An edge for whatever is registered for s.
Wake(s) == m' = [m EXCEPT !.edges = @ \cup {e \in m.interest : e.sock = s}]
Reachable(s) == s \in m.open \/ s \in Elems(backlog)

Connect(s) ==
  /\ peer[s] = "new"
  /\ pc # "dead" \/ SharedMutex
  /\ peer' = [peer EXCEPT ![s] = "up"]
  /\ backlog' = Append(backlog, s)
  /\ UNCHANGED <<workerVars, alarm, unread>>

PeerSends(s) ==
  /\ peer[s] = "up" /\ Reachable(s)
  /\ unread' = unread \cup {s}
  /\ Wake(s)
  /\ UNCHANGED <<mutexVars, pc, batch, elapsed, alarm, acceptVars, call, peer>>

\* FIN: recv() returns 0 after the bytes that came before it.
PeerCloses(s) ==
  /\ peer[s] = "up" /\ Reachable(s)
  /\ peer' = [peer EXCEPT ![s] = "fin"]
  /\ Wake(s)
  /\ UNCHANGED <<mutexVars, pc, batch, elapsed, alarm, acceptVars, call, unread>>

\* RST.  The kernel may keep the bytes not yet read, as Linux does, or not.
PeerResets(s) ==
  /\ peer[s] \in {"up", "fin"} /\ Reachable(s)
  /\ Cardinality({t \in Socks : Broken(t) /\ Reachable(t)}) < MaxBroken
  /\ peer' = [peer EXCEPT ![s] = IF @ = "up" THEN "rst" ELSE "gone"]
  /\ unread' \in {unread, unread \ {s}}
  /\ Wake(s)
  /\ UNCHANGED <<mutexVars, pc, batch, elapsed, alarm, acceptVars, call>>

\* timer_signal_handler()
Alarm ==
  /\ ~alarm /\ pc # "dead"
  /\ alarm' = TRUE
  /\ UNCHANGED <<workerVars, backlog, unread, peer>>

\* Another worker, with the mutex or in an iteration of its own that skips
\* it, accepts the client first.
OtherAccepts ==
  /\ SharedMutex
  /\ backlog # <<>>
  /\ backlog' = Tail(backlog)
  /\ unread' = unread \ {Head(backlog)}
  /\ UNCHANGED <<workerVars, alarm, peer>>

-----------------------------------------------------------------------------
WorkerNext ==
  \/ SkipMutex \/ TrylockWins \/ TrylockLoses
  \/ PollEvents \/ PollTimeout \/ PollInterrupted
  \/ \E e \in batch : DispatchConnection(e)
  \/ DispatchListener
  \/ RunPostedAccept
  \/ AcceptAgain \/ AcceptAborted \/ AcceptFails \/ AcceptNoFiles \/ AcceptOk
  \/ DrainConnection \/ DrainDone
  \/ RefuseClient \/ DropClient \/ Callback
  \/ Release \/ RunPosted \/ PostedDone
  \/ MyWrite \/ KilledBySigpipe

Environment ==
  \/ \E s \in Socks : Connect(s) \/ PeerSends(s) \/ PeerCloses(s) \/ PeerResets(s)
  \/ Alarm
  \/ OtherAccepts

\* Nothing starts a worker again: no deadlock, but the end.
Terminated == pc = "dead" /\ UNCHANGED vars

Next == WorkerNext \/ Environment \/ Terminated

\* The process is scheduled as long as it lives, and its interval timer never
\* stops: a worker that waits with no event ready is interrupted
\* (PollInterrupted).
Spec == Init /\ [][Next]_vars /\ WF_vars(WorkerNext)
=============================================================================
