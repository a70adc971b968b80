------------------------ MODULE EventLoopProperties ------------------------
(***************************************************************************)
(* What the event loop of one worker promises: its memory stays consistent *)
(* through every handler, descriptors are neither lost nor shared, the     *)
(* accept mutex covers what it should, no wakeup is lost, and clients that *)
(* wait are served, refused or handed over in the end.                     *)
(***************************************************************************)
EXTENDS EventLoop

Handling == IF pc = "mywrite" THEN {call.conn} ELSE {}

\* The type of every variable; the sentinel slot 0 appears only where no
\* connection is meant.
TypeOK ==
  /\ m \in Worker
  /\ listener \in [active : BOOLEAN, posted : BOOLEAN]
  /\ held \in BOOLEAN /\ own \in BOOLEAN /\ alarm \in BOOLEAN
  /\ disabled \in Int
  /\ pc \in {"lock", "wait", "dispatch", "accept", "drain", "serve", "mywrite", "posted", "dead"}
  /\ mode \in {"post", "lost", "skip"}
  /\ batch \subseteq Entry \cup {ListenerEntry}
  /\ elapsed \in 0..Timeout
  /\ hand \in Socks \cup {NoSock}
  /\ todo \in Nat
  /\ call \in [conn : 0..N, back : {"lock", "dispatch", "posted"}]
  /\ backlog \in Seq(Socks)
  /\ unread \subseteq Socks
  /\ peer \in [Socks -> {"new", "up", "fin", "rst", "gone"}]

\* The free list, the reusable queue, the posted queue, the timer tree, the
\* slots' descriptors and epoll's interest list agree with the flags of the
\* connections and of their events.  get_connection() clears those flags with
\* memset(): a slot that came back with a posted event, a timer or a place in
\* the reusable queue would leave a dangling link in one of the queues.
MemoryConsistent == MemoryOK(m)

\* The process holds exactly the descriptors of its slots and, inside
\* event_accept(), the one just accepted, which is in no slot: no path of
\* accept, drain, refuse, timeout or close loses one or closes it twice.
DescriptorsOwned ==
  LET inSlots == {m.fd[c] : c \in Used(m)}
  IN  /\ m.open = inSlots \cup ({hand} \ {NoSock})
      /\ hand \notin inSlots
      /\ (hand # NoSock) = (pc \in {"drain", "serve"})
      /\ m.open \cap Elems(backlog) = {}

\* An event that passes the check of epoll_process_events() for stale events
\* belongs to the descriptor that the slot has now, whatever was closed and
\* accepted since epoll_wait() returned it.
StaleEventsDetected ==
  pc = "dispatch" =>
    \A e \in batch \ {ListenerEntry} :
      ~Stale(e) /\ e.conn \in m.active => e.sock = m.fd[e.conn]

\* The worker believes it holds the mutex exactly while its listening event
\* is registered; it accepts clients only with the mutex, or in an iteration
\* that skipped it; and it does not hold it where a handler has got to its
\* send(), nor when that send() kills it: SIGPIPE never leaves the word with a
\* dead worker's pid.  (The handlers that drain_connections() calls run under
\* the mutex, but see c->close or rev->timedout and return before.)
MutexDiscipline ==
  /\ held = listener.active
  /\ own => held /\ mode = "post"
  /\ pc \in {"accept", "drain", "serve"} => own \/ mode = "skip"
  /\ pc \in {"lock", "posted", "mywrite", "dead"} => ~own

\* An edge-triggered event is reported once.  While bytes wait in the buffer
\* of a registered connection that has not timed out, the edge is still with
\* the kernel, in the batch, or posted.
NoLostWakeup ==
  \A c \in m.active \ m.timedout :
    m.fd[c] \in unread =>
      \/ c \in m.posted
      \/ \E e \in m.edges \cup batch :
           e.conn = c /\ e.sock = m.fd[c] /\ e.instance = m.instance[c]

\* A connection in use is reachable from a structure that will run its
\* handler again (epoll, posted queue, timer tree), is in its handler, or
\* has timed out.  Neither send() nor epoll_ctl() fails here: after such a
\* failure mywrite() leaves the connection in none of them.
NoneForgotten ==
  \A c \in Used(m) : c \in m.active \cup m.posted \cup m.tree \cup m.timedout \cup Handling

\* With deferred accept the timer covers the time until the first answer:
\* a connection that is registered with epoll has been answered, has no
\* timer any more and never times out.
AnsweredNeverTimesOut == m.active \cap (m.tree \cup m.timedout) = {}

\* drain_connections() makes room if it can: when a client is about to be
\* refused for want of a slot, no connection is reusable, or the least
\* recently reusable one has timed out and so ignores the request to close.
RefusedForCause ==
  pc = "serve" /\ m.free = <<>> =>
    \/ m.reusable = {}
    \/ m.reusableq[Len(m.reusableq)] \in m.timedout

\* When a slot changes hands, closed or given to the next client, an event
\* that epoll_wait() returned for its previous user is recognised as stale.
\* One bit recognises one such change: see StaleEventsDetected.
ReuseMakesStale ==
  [][\A e \in (batch \cap batch') \ {ListenerEntry} :
       /\ m.instance[e.conn] = e.instance
       /\ m'.fd[e.conn] # m.fd[e.conn]
       => Stale(e)']_vars

\* Nothing restarts a worker, and SIGPIPE kills it at a send() to a client
\* that closed and was reset since: liveness is promised while that does not
\* happen, whatever else clients do, resets before a close included.
Survives == [](pc # "dead")

\* Running out of descriptors suspends accepting and does not end it: if the
\* table has room from some time on, every client in the queue is accepted,
\* refused or seen to be gone, by a worker that survives.  After EMFILE that
\* needs the alarm to end an epoll_wait() with nothing to wait for, and
\* accept_disabled to run down.
AcceptingResumes ==
  Survives /\ <>[](Cardinality(m.open) < MaxOpen) =>
    \A s \in Socks : (s \in Elems(backlog)) ~> (s \notin Elems(backlog))

\* Bytes that come for a registered connection are read, or are lost when it
\* is closed, by a worker that survives.
BytesAreRead ==
  Survives =>
    \A s \in Socks :
      (s \in unread /\ \E c \in m.active : m.fd[c] = s)
        ~> (s \notin unread \/ \E c \in m.timedout : m.fd[c] = s)
=============================================================================
