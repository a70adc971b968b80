---------------------------- MODULE Connections ----------------------------
(***************************************************************************)
(* The memory of one worker process and what connection.c, event_posted.h, *)
(* event_timer.c and the epoll_ctl() side of epoll_event.c do to it.       *)
(*                                                                         *)
(* A worker is a record.  Every C function that changes it is an operator  *)
(* from the record before the call to the record after it, so that a       *)
(* handler is the composition of the calls it makes, in their order.       *)
(*                                                                         *)
(* Connections are the slots 1..N of cycle->connections that clients can   *)
(* get; slot 0 is the one event_process_init() takes for the listening     *)
(* socket and never gives back, and is not part of this record.  A         *)
(* bit-field of a connection or of its read event is the set of the slots  *)
(* in which it is 1.  The write event is never registered with epoll,      *)
(* posted or timed by any caller in the repository: it has no state here.  *)
(***************************************************************************)
EXTENDS Integers, Sequences, FiniteSets

CONSTANTS
  N,        \* number of slots for clients: connection_n - 1
  Socks,    \* sockets of clients; each is one TCP connection, never reused
  NoSock,   \* the descriptor -1
  Timeout   \* ls->post_accept_timeout, in ticks of the model's clock

ASSUME ConnectionsAssumption ==
  /\ N \in Nat \ {0}
  /\ NoSock \notin Socks
  /\ Timeout \in Nat \ {0}

Conns == 1..N

\* What epoll keeps for a registered descriptor: the socket and the
\* data.ptr that epoll_add_event() packs, connection and instance bit.
Entry == [sock : Socks, conn : Conns, instance : {0, 1}]

Worker == [
  fd         : [Conns -> Socks \cup {NoSock}],
  instance   : [Conns -> {0, 1}],
  buffer     : [Conns -> {"none", "empty", "data"}],  \* c->buffer: NULL, last = pos, last > pos
  active     : SUBSET Conns,    \* rev->active
  ready      : SUBSET Conns,    \* rev->ready
  timedout   : SUBSET Conns,    \* rev->timedout
  timer_set  : SUBSET Conns,    \* rev->timer_set
  posted     : SUBSET Conns,    \* rev->posted
  closing    : SUBSET Conns,    \* c->close
  reusable   : SUBSET Conns,    \* c->reusable
  free       : Seq(Conns),      \* cycle->free_connections, chained by c->data
  free_n     : Int,             \* cycle->free_connection_n
  reusableq  : Seq(Conns),      \* cycle->reusable_connections_queue, head first
  reusable_n : Int,             \* cycle->reusable_connections_n
  postedq    : Seq(Conns),      \* posted_events, head first
  tree       : SUBSET Conns,    \* the events in event_timer_rbtree
  left       : [Conns -> 0..Timeout],  \* timer.key - current_msec, 0 when due
  open       : SUBSET Socks,    \* the kernel's descriptor table of the process
  interest   : SUBSET Entry,    \* the kernel's epoll interest list
  edges      : SUBSET Entry ]   \* the kernel's epoll ready list (EPOLLET)

\* The elements of a queue.
Elems(q) == {q[i] : i \in DOMAIN q}

\* queue_remove(): unlink c, which is in q.
Without(q, c) ==
  LET i == CHOOSE i \in DOMAIN q : q[i] = c
  IN  [j \in 1..Len(q) - 1 |-> IF j < i THEN q[j] ELSE q[j + 1]]

\* close(fd): the kernel forgets the descriptor and drops it from epoll.
CloseFd(w, s) ==
  [w EXCEPT !.open     = @ \ {s},
            !.interest = {e \in @ : e.sock # s},
            !.edges    = {e \in @ : e.sock # s}]

\* epoll_add_event(rev, READ_EVENT, CLEAR_EVENT).  A socket that is already
\* readable is put on the ready list at once.
EpollAddEvent(w, c, readable) ==
  LET e == [sock |-> w.fd[c], conn |-> c, instance |-> w.instance[c]]
  IN  [w EXCEPT !.interest = @ \cup {e},
                !.edges    = IF readable THEN @ \cup {e} ELSE @,
                !.active   = @ \cup {c}]

EventAddTimer(w, c) ==
  [w EXCEPT !.tree = @ \cup {c}, !.left[c] = Timeout, !.timer_set = @ \cup {c}]

EventDelTimer(w, c) ==
  [w EXCEPT !.tree = @ \ {c}, !.left[c] = 0, !.timer_set = @ \ {c}]

\* post_event(rev, &posted_events)
PostEvent(w, c) ==
  IF c \in w.posted
  THEN w
  ELSE [w EXCEPT !.posted = @ \cup {c}, !.postedq = Append(@, c)]

DeletePostedEvent(w, c) ==
  [w EXCEPT !.posted = @ \ {c}, !.postedq = Without(@, c)]

ReusableConnection(w, c, reusable) ==
  LET out == IF c \in w.reusable
             THEN [w EXCEPT !.reusableq = Without(@, c), !.reusable_n = @ - 1]
             ELSE w
  IN  IF reusable
      THEN [out EXCEPT !.reusable   = @ \cup {c},
                       !.reusableq  = <<c>> \o @,
                       !.reusable_n = @ + 1]
      ELSE [out EXCEPT !.reusable = @ \ {c}]

FreeConnection(w, c) ==
  [w EXCEPT !.free = <<c>> \o @, !.free_n = @ + 1]

\* Faulty variant: memset() clears the instance bit with the rest of the event.
GetConnectionSameInstance(w, s) ==
  LET c == Head(w.free)
  IN  [w EXCEPT !.free = Tail(@), !.free_n = @ - 1, !.fd[c] = s, !.instance[c] = 1,
                !.buffer[c] = "none", !.active = @ \ {c}, !.closing = @ \ {c}]

\* The part of get_connection() after the free list was found not empty:
\* pop its head, clear the connection and its event, toggle the instance.
GetConnection(w, s) ==
  LET c == Head(w.free)
  IN  [w EXCEPT !.free      = Tail(@),
                !.free_n    = @ - 1,
                !.fd[c]     = s,
                !.instance[c] = 1 - @,
                !.buffer[c] = "none",
                !.active    = @ \ {c},
                !.ready     = @ \ {c},
                !.timedout  = @ \ {c},
                !.timer_set = @ \ {c},
                !.posted    = @ \ {c},
                !.closing   = @ \ {c},
                !.reusable  = @ \ {c}]

\* Faulty variant: the timer of the read event is left in the tree.
CloseConnectionKeepsTimer(w, c) ==
  LET freed == FreeConnection(ReusableConnection(w, c, FALSE), c)
  IN  CloseFd([freed EXCEPT !.active = @ \ {c}, !.fd[c] = NoSock], w.fd[c])

\* Faulty variant: the read event is left in posted_events.
CloseConnectionKeepsPosted(w, c) ==
  LET untimed == IF c \in w.timer_set THEN EventDelTimer(w, c) ELSE w
  IN  CloseConnectionKeepsTimer(untimed, c)

\* close_connection(), and epoll_del_connection() with CLOSE_EVENT in it.
CloseConnection(w, c) ==
  LET untimed  == IF c \in w.timer_set THEN EventDelTimer(w, c) ELSE w
      inactive == [untimed EXCEPT !.active = @ \ {c}]
      unposted == IF c \in inactive.posted
                  THEN DeletePostedEvent(inactive, c)
                  ELSE inactive
      freed    == FreeConnection(ReusableConnection(unposted, c, FALSE), c)
  IN  IF w.fd[c] = NoSock
      THEN w
      ELSE CloseFd([freed EXCEPT !.fd[c] = NoSock], w.fd[c])

\* Faulty variants: the slot keeps its descriptor; the descriptor is not closed.
CloseAcceptedConnectionKeepsFd(w, c) == CloseFd(FreeConnection(w, c), w.fd[c])
CloseAcceptedConnectionLeaks(w, c) == [FreeConnection(w, c) EXCEPT !.fd[c] = NoSock]

\* close_accepted_connection(): no timer, no posted event, no registration.
CloseAcceptedConnection(w, c) ==
  CloseFd([FreeConnection(w, c) EXCEPT !.fd[c] = NoSock], w.fd[c])

\* event_process_init(): every slot but 0 is on the free list, in index
\* order, and the read events start with instance 1.
NewWorker == [
  fd         |-> [c \in Conns |-> NoSock],
  instance   |-> [c \in Conns |-> 1],
  buffer     |-> [c \in Conns |-> "none"],
  active     |-> {}, ready    |-> {}, timedout |-> {}, timer_set |-> {},
  posted     |-> {}, closing  |-> {}, reusable |-> {},
  free       |-> [i \in 1..N |-> i],
  free_n     |-> N,
  reusableq  |-> <<>>,
  reusable_n |-> 0,
  postedq    |-> <<>>,
  tree       |-> {},
  left       |-> [c \in Conns |-> 0],
  open       |-> {}, interest |-> {}, edges |-> {} ]

-----------------------------------------------------------------------------
(* The consistency of the worker's memory, in named parts. *)

Injective(q) == \A i, j \in DOMAIN q : q[i] = q[j] => i = j

Used(w) == {c \in Conns : w.fd[c] # NoSock}

\* A slot is on the free list, once, exactly when its descriptor is -1.
PoolOK(w) ==
  /\ Injective(w.free)
  /\ Elems(w.free) = Conns \ Used(w)
  /\ w.free_n = Len(w.free)

\* The reusable queue is exactly the flagged slots, all in use.
ReusableOK(w) ==
  /\ Injective(w.reusableq)
  /\ Elems(w.reusableq) = w.reusable
  /\ w.reusable \subseteq Used(w)
  /\ w.reusable_n = Len(w.reusableq)

\* The posted queue is exactly the flagged events, all of slots in use.
PostedOK(w) ==
  /\ Injective(w.postedq)
  /\ Elems(w.postedq) = w.posted
  /\ w.posted \subseteq Used(w)

\* The timer tree is exactly the events with timer_set, all of slots in use.
TimersOK(w) ==
  /\ w.tree = w.timer_set
  /\ w.timer_set \subseteq Used(w)

\* Two slots never share a descriptor, and a slot's descriptor is open.
DescriptorsOK(w) ==
  /\ \A c, d \in Used(w) : w.fd[c] = w.fd[d] => c = d
  /\ \A c \in Used(w) : w.fd[c] \in w.open

\* epoll holds one entry for each active slot, with the slot's present
\* descriptor and instance bit, and no other.
EpollOK(w) ==
  /\ w.active \subseteq Used(w)
  /\ w.interest = {[sock |-> w.fd[c], conn |-> c, instance |-> w.instance[c]] : c \in w.active}
  /\ w.edges \subseteq w.interest

MemoryOK(w) ==
  /\ PoolOK(w)
  /\ ReusableOK(w)
  /\ PostedOK(w)
  /\ TimersOK(w)
  /\ DescriptorsOK(w)
  /\ EpollOK(w)
=============================================================================
