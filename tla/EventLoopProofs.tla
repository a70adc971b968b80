-------------------------- MODULE EventLoopProofs --------------------------
(***************************************************************************)
(* Theorems of the event loop for any number of slots and clients and for  *)
(* every choice of the other constants.  The inductive invariant IInv adds *)
(* to the properties that the accept queue holds distinct sockets of       *)
(* clients that did connect, and that the connection of a running handler  *)
(* is in use.                                                              *)
(*                                                                         *)
(* The first part is about a worker's memory: every operation on it keeps  *)
(* it consistent, by one lemma for each operator of Connections.           *)
(*                                                                         *)
(* The last part is what clients can rely on: bytes that wait are known    *)
(* to the worker, connections that wait are in a structure that leads back *)
(* to them, an answered client does not time out, nobody is refused while  *)
(* a connection can be drained, and an event of the previous user of a     *)
(* slot is recognised.  The memory of a worker is compared before and      *)
(* after a call in those fields that matter there.                         *)
(***************************************************************************)
EXTENDS EventLoopProperties, TLAPS

-----------------------------------------------------------------------------
(* Queues. *)

\* queue_insert_tail() adds one element.
LEMMA AppendElems ==
  ASSUME NEW S, NEW q \in Seq(S), NEW c \in S
  PROVE  /\ Append(q, c) \in Seq(S)
         /\ Len(Append(q, c)) = Len(q) + 1
         /\ Elems(Append(q, c)) = Elems(q) \cup {c}
         /\ Injective(q) /\ c \notin Elems(q) => Injective(Append(q, c))
  <1>1. /\ Append(q, c) \in Seq(S)
        /\ Len(Append(q, c)) = Len(q) + 1
        /\ DOMAIN q = 1..Len(q)
        /\ DOMAIN Append(q, c) = 1..(Len(q) + 1)
        /\ \A i \in 1..Len(q) : Append(q, c)[i] = q[i]
        /\ Append(q, c)[Len(q) + 1] = c
        /\ Len(q) \in Nat
    OBVIOUS
  <1>2. Elems(Append(q, c)) = Elems(q) \cup {c}
    BY <1>1 DEF Elems
  <1>3. Injective(q) /\ c \notin Elems(q) => Injective(Append(q, c))
    BY <1>1 DEF Injective, Elems
  <1> QED BY <1>1, <1>2, <1>3

\* queue_insert_head(), and putting a slot on the free list, add one element.
LEMMA PrependElems ==
  ASSUME NEW S, NEW q \in Seq(S), NEW c \in S
  PROVE  /\ <<c>> \o q \in Seq(S)
         /\ Len(<<c>> \o q) = Len(q) + 1
         /\ Elems(<<c>> \o q) = Elems(q) \cup {c}
         /\ Injective(q) /\ c \notin Elems(q) => Injective(<<c>> \o q)
  <1> DEFINE r == <<c>> \o q
  <1>1. /\ r \in Seq(S)
        /\ Len(r) = Len(q) + 1
        /\ Len(q) \in Nat
        /\ DOMAIN q = 1..Len(q)
        /\ DOMAIN r = 1..(Len(q) + 1)
        /\ r[1] = c
        /\ \A i \in 2..(Len(q) + 1) : r[i] = q[i - 1]
    OBVIOUS
  <1> HIDE DEF r
  <1>2. \A i \in 1..Len(q) : i + 1 \in DOMAIN r /\ r[i + 1] = q[i]
    BY <1>1
  <1>3. \A i \in DOMAIN r : r[i] = c \/ (i - 1 \in DOMAIN q /\ r[i] = q[i - 1])
    BY <1>1
  <1>4. Elems(r) = Elems(q) \cup {c}
    <2>1. ASSUME NEW x \in Elems(q) PROVE x \in Elems(r)
      BY <1>1, <1>2 DEF Elems
    <2>2. c \in Elems(r)
      BY <1>1 DEF Elems
    <2>3. ASSUME NEW x \in Elems(r) PROVE x \in Elems(q) \cup {c}
      BY <1>3 DEF Elems
    <2> QED BY <2>1, <2>2, <2>3
  <1>5. ASSUME Injective(q), c \notin Elems(q), NEW i \in DOMAIN r, NEW j \in DOMAIN r, r[i] = r[j]
        PROVE  i = j
    <2>1. \A k \in 2..(Len(q) + 1) : k - 1 \in DOMAIN q /\ r[k] = q[k - 1] /\ r[k] # c
      BY <1>1, <1>5 DEF Elems
    <2>2. CASE i = 1 \/ j = 1
      <3>1. r[1] = c /\ \A k \in DOMAIN r : k # 1 => k \in 2..(Len(q) + 1)
        BY <1>1
      <3>2. \A k \in DOMAIN r : k # 1 => r[k] # r[1]
        BY <2>1, <3>1
      <3> QED BY <1>5, <2>2, <3>2
    <2>3. CASE i # 1 /\ j # 1
      <3>1. i \in 2..(Len(q) + 1) /\ j \in 2..(Len(q) + 1)
        BY <1>1, <2>3
      <3>2. i - 1 \in DOMAIN q /\ j - 1 \in DOMAIN q /\ r[i] = q[i - 1] /\ r[j] = q[j - 1]
        BY <2>1, <3>1
      <3>3. i - 1 = j - 1
        BY <1>5, <3>2 DEF Injective
      <3> QED BY <3>1, <3>3
    <2> QED BY <2>2, <2>3
  <1>6. Injective(q) /\ c \notin Elems(q) => Injective(r)
    BY <1>5 DEF Injective
  <1> QED BY <1>1, <1>4, <1>6 DEF r

\* Taking the head off a queue.
LEMMA TailElems ==
  ASSUME NEW S, NEW q \in Seq(S), q # <<>>
  PROVE  /\ Head(q) \in S /\ Head(q) \in Elems(q)
         /\ Tail(q) \in Seq(S)
         /\ Len(Tail(q)) = Len(q) - 1
         /\ Elems(q) = Elems(Tail(q)) \cup {Head(q)}
         /\ Injective(q) => Injective(Tail(q)) /\ Head(q) \notin Elems(Tail(q))
  <1> DEFINE r == Tail(q)
             c == Head(q)
  <1>1. /\ r \in Seq(S) /\ c \in S
        /\ Len(q) \in Nat \ {0}
        /\ Len(r) = Len(q) - 1
        /\ DOMAIN q = 1..Len(q)
        /\ DOMAIN r = 1..(Len(q) - 1)
        /\ c = q[1]
        /\ \A i \in 1..(Len(q) - 1) : r[i] = q[i + 1]
    OBVIOUS
  <1> HIDE DEF r, c
  <1>2. c \in Elems(q)
    BY <1>1 DEF Elems
  <1>3. \A i \in DOMAIN r : i + 1 \in DOMAIN q /\ r[i] = q[i + 1]
    BY <1>1
  <1>4. \A i \in DOMAIN q : i = 1 \/ (i - 1 \in DOMAIN r /\ q[i] = r[i - 1])
    BY <1>1
  <1>5. Elems(q) = Elems(r) \cup {c}
    <2>1. ASSUME NEW x \in Elems(r) PROVE x \in Elems(q)
      BY <1>3 DEF Elems
    <2>2. ASSUME NEW x \in Elems(q) PROVE x \in Elems(r) \cup {c}
      BY <1>1, <1>4 DEF Elems
    <2> QED BY <1>2, <2>1, <2>2
  <1>6. Injective(q) => Injective(r) /\ c \notin Elems(r)
    <2> SUFFICES ASSUME Injective(q) PROVE Injective(r) /\ c \notin Elems(r)
      OBVIOUS
    <2>1. Injective(r)
      <3> SUFFICES ASSUME NEW i \in DOMAIN r, NEW j \in DOMAIN r, r[i] = r[j] PROVE i = j
        BY DEF Injective
      <3>1. i + 1 = j + 1
        BY <1>3 DEF Injective
      <3> QED BY <1>1, <3>1
    <2>2. c \notin Elems(r)
      <3> SUFFICES ASSUME NEW i \in DOMAIN r, r[i] = c PROVE FALSE
        BY DEF Elems
      <3>1. i + 1 = 1
        BY <1>1, <1>3 DEF Injective
      <3> QED BY <1>1, <3>1
    <2> QED BY <2>1, <2>2
  <1> QED BY <1>1, <1>2, <1>5, <1>6 DEF r, c

\* queue_remove() takes out one element.
LEMMA WithoutElems ==
  ASSUME NEW S, NEW q \in Seq(S), NEW c \in Elems(q), Injective(q)
  PROVE  /\ Without(q, c) \in Seq(S)
         /\ Len(Without(q, c)) = Len(q) - 1
         /\ Elems(Without(q, c)) = Elems(q) \ {c}
         /\ Injective(Without(q, c))
  <1> DEFINE k == CHOOSE i \in DOMAIN q : q[i] = c
             r == Without(q, c)
  <1>1. k \in DOMAIN q /\ q[k] = c
    BY DEF Elems
  <1>2. r = [j \in 1..Len(q) - 1 |-> IF j < k THEN q[j] ELSE q[j + 1]]
    BY DEF Without
  <1> HIDE DEF k, r
  <1>3. Len(q) \in Nat /\ DOMAIN q = 1..Len(q) /\ \A i \in DOMAIN q : q[i] \in S
    OBVIOUS
  <1>4. r \in Seq(S) /\ Len(r) = Len(q) - 1 /\ DOMAIN r = 1..Len(q) - 1
    <2>1. \A j \in 1..Len(q) - 1 : (IF j < k THEN q[j] ELSE q[j + 1]) \in S
      BY <1>1, <1>3
    <2>2. r \in [1..Len(q) - 1 -> S]
      BY <1>2, <2>1
    <2>3. Len(q) - 1 \in Nat
      BY <1>1, <1>3
    <2> QED BY <2>2, <2>3
  <1>5. \A j \in DOMAIN r : \E i \in DOMAIN q : r[j] = q[i] /\ i # k /\ i = (IF j < k THEN j ELSE j + 1)
    BY <1>1, <1>2, <1>3, <1>4
  <1>6. \A i \in DOMAIN q : i # k => \E j \in DOMAIN r : r[j] = q[i]
    <2> SUFFICES ASSUME NEW i \in DOMAIN q, i # k PROVE \E j \in DOMAIN r : r[j] = q[i]
      OBVIOUS
    <2>1. CASE i < k
      BY <1>1, <1>2, <1>3, <1>4, <2>1
    <2>2. CASE i > k
      <3>1. i - 1 \in DOMAIN r /\ r[i - 1] = q[i]
        BY <1>1, <1>2, <1>3, <1>4, <2>2
      <3> QED BY <3>1
    <2> QED BY <1>1, <1>3, <2>1, <2>2
  <1>7. Elems(r) = Elems(q) \ {c}
    <2>1. ASSUME NEW x \in Elems(r) PROVE x \in Elems(q) \ {c}
      BY <1>1, <1>5 DEF Elems, Injective
    <2>2. ASSUME NEW x \in Elems(q) \ {c} PROVE x \in Elems(r)
      BY <1>1, <1>6 DEF Elems
    <2> QED BY <2>1, <2>2
  <1>8. Injective(r)
    <2> SUFFICES ASSUME NEW i \in DOMAIN r, NEW j \in DOMAIN r, r[i] = r[j] PROVE i = j
      BY DEF Injective
    <2>1. (IF i < k THEN i ELSE i + 1) = (IF j < k THEN j ELSE j + 1)
      BY <1>5 DEF Injective
    <2> QED BY <1>1, <1>3, <1>4, <2>1
  <1> QED BY <1>4, <1>7, <1>8 DEF r

-----------------------------------------------------------------------------
(* Operations on a connection in use. *)

\* A typed record whose structures agree with each other.
Consistent(w) == w \in Worker /\ MemoryOK(w)

LEMMA EventAddTimerConsistent ==
  ASSUME NEW w, Consistent(w), NEW c \in Used(w)
  PROVE  /\ Consistent(EventAddTimer(w, c))
         /\ EventAddTimer(w, c).fd = w.fd /\ EventAddTimer(w, c).open = w.open
  <1> DEFINE r == EventAddTimer(w, c)
  <1>1. r \in Worker
    <2>1. w \in Worker /\ c \in Conns /\ Timeout \in 0..Timeout
      BY ConnectionsAssumption DEF Consistent, Used
    <2> QED BY <2>1 DEF Worker, EventAddTimer
  <1>2. MemoryOK(r)
    BY DEF Consistent, Worker, EventAddTimer, Used, MemoryOK, PoolOK, ReusableOK, PostedOK,
           TimersOK, DescriptorsOK, EpollOK
  <1>3. r.fd = w.fd /\ r.open = w.open
    BY DEF Consistent, Worker, EventAddTimer
  <1> QED BY <1>1, <1>2, <1>3 DEF Consistent

LEMMA EventDelTimerConsistent ==
  ASSUME NEW w, Consistent(w), NEW c \in Used(w)
  PROVE  /\ Consistent(EventDelTimer(w, c))
         /\ EventDelTimer(w, c).fd = w.fd /\ EventDelTimer(w, c).open = w.open
  <1> DEFINE r == EventDelTimer(w, c)
  <1>1. r \in Worker
    <2>1. w \in Worker /\ c \in Conns /\ 0 \in 0..Timeout
      BY ConnectionsAssumption DEF Consistent, Used
    <2> QED BY <2>1 DEF Worker, EventDelTimer
  <1>2. MemoryOK(r)
    BY DEF Consistent, Worker, EventDelTimer, Used, MemoryOK, PoolOK, ReusableOK, PostedOK,
           TimersOK, DescriptorsOK, EpollOK
  <1>3. r.fd = w.fd /\ r.open = w.open
    BY DEF Consistent, Worker, EventDelTimer
  <1> QED BY <1>1, <1>2, <1>3 DEF Consistent

LEMMA EpollAddEventConsistent ==
  ASSUME NEW w, Consistent(w), NEW c \in Used(w), NEW readable \in BOOLEAN
  PROVE  /\ Consistent(EpollAddEvent(w, c, readable))
         /\ EpollAddEvent(w, c, readable).fd = w.fd
         /\ EpollAddEvent(w, c, readable).open = w.open
  <1> DEFINE r == EpollAddEvent(w, c, readable)
  <1>1. r \in Worker
    <2>1. [sock |-> w.fd[c], conn |-> c, instance |-> w.instance[c]] \in Entry
      BY DEF Consistent, Worker, Used, Entry
    <2> QED BY ZenonT(60), <2>1 DEF Consistent, Worker, EpollAddEvent, Used
  <1>2. PoolOK(r) /\ ReusableOK(r) /\ PostedOK(r) /\ TimersOK(r) /\ DescriptorsOK(r)
    BY DEF Consistent, Worker, EpollAddEvent, Used, MemoryOK, PoolOK, ReusableOK, PostedOK,
           TimersOK, DescriptorsOK
  <1>3. EpollOK(r)
    BY DEF Consistent, Worker, EpollAddEvent, Used, MemoryOK, EpollOK
  <1>4. r.fd = w.fd /\ r.open = w.open
    BY DEF Consistent, Worker, EpollAddEvent
  <1> QED BY <1>1, <1>2, <1>3, <1>4 DEF Consistent, MemoryOK

LEMMA PostEventConsistent ==
  ASSUME NEW w, Consistent(w), NEW c \in Used(w)
  PROVE  /\ Consistent(PostEvent(w, c))
         /\ PostEvent(w, c).fd = w.fd /\ PostEvent(w, c).open = w.open
  <1> DEFINE r == PostEvent(w, c)
  <1>1. CASE c \in w.posted
    BY <1>1 DEF PostEvent
  <1>2. CASE c \notin w.posted
    <2>1. w.postedq \in Seq(Conns) /\ c \in Conns
      BY DEF Consistent, Worker, Used
    <2> DEFINE q == Append(w.postedq, c)
    <2>2. r = [w EXCEPT !.posted = @ \cup {c}, !.postedq = q]
      BY <1>2 DEF PostEvent
    <2>3. q \in Seq(Conns) /\ Elems(q) = w.posted \cup {c} /\ Injective(q) /\ w.posted \subseteq Used(w)
      BY <1>2, <2>1, AppendElems DEF Consistent, MemoryOK, PostedOK
    <2> HIDE DEF q, r
    <2>4. r \in Worker /\ PostedOK(r)
      <3>1. r \in Worker
        BY <2>1, <2>2, <2>3 DEF Consistent, Worker
      <3>2. r.posted = w.posted \cup {c} /\ r.postedq = q /\ Used(r) = Used(w)
        BY <2>2 DEF Consistent, Worker, Used
      <3> QED BY <2>3, <3>1, <3>2 DEF PostedOK
    <2>5. PoolOK(r) /\ ReusableOK(r) /\ TimersOK(r) /\ DescriptorsOK(r) /\ EpollOK(r)
      BY <2>2 DEF Consistent, Worker, Used, MemoryOK, PoolOK, ReusableOK, TimersOK,
                  DescriptorsOK, EpollOK
    <2>6. r.fd = w.fd /\ r.open = w.open
      BY <2>2 DEF Consistent, Worker
    <2> QED BY <2>4, <2>5, <2>6 DEF Consistent, MemoryOK, r
  <1> QED BY <1>1, <1>2

LEMMA DeletePostedEventConsistent ==
  ASSUME NEW w, Consistent(w), NEW c \in w.posted
  PROVE  /\ Consistent(DeletePostedEvent(w, c))
         /\ DeletePostedEvent(w, c).fd = w.fd /\ DeletePostedEvent(w, c).open = w.open
  <1> DEFINE r == DeletePostedEvent(w, c)
  <1>1. /\ w.postedq \in Seq(Conns)
        /\ Injective(w.postedq) /\ Elems(w.postedq) = w.posted /\ w.posted \subseteq Used(w)
    BY DEF Consistent, Worker, MemoryOK, PostedOK
  <1>2. r = [w EXCEPT !.posted = @ \ {c}, !.postedq = Without(@, c)]
    BY DEF DeletePostedEvent
  <1>3. /\ Without(w.postedq, c) \in Seq(Conns)
        /\ Elems(Without(w.postedq, c)) = w.posted \ {c}
        /\ Injective(Without(w.postedq, c))
    BY <1>1, WithoutElems
  <1>4. r \in Worker
    BY ZenonT(60), <1>2, <1>3 DEF Consistent, Worker
  <1>5. PostedOK(r)
    <2>1. r.posted = w.posted \ {c} /\ r.postedq = Without(w.postedq, c) /\ Used(r) = Used(w)
      BY <1>2 DEF Consistent, Worker, Used
    <2> QED BY <1>1, <1>3, <2>1 DEF PostedOK
  <1>6. PoolOK(r) /\ ReusableOK(r) /\ TimersOK(r) /\ DescriptorsOK(r) /\ EpollOK(r)
    BY <1>2 DEF Consistent, Worker, Used, MemoryOK, PoolOK, ReusableOK, TimersOK,
                DescriptorsOK, EpollOK
  <1>7. r.fd = w.fd /\ r.open = w.open
    BY <1>2 DEF Consistent, Worker
  <1> QED BY <1>4, <1>5, <1>6, <1>7 DEF Consistent, MemoryOK

LEMMA ReusableConnectionConsistent ==
  ASSUME NEW w, Consistent(w), NEW c \in Used(w), NEW reusable \in BOOLEAN
  PROVE  /\ Consistent(ReusableConnection(w, c, reusable))
         /\ ReusableConnection(w, c, reusable).fd = w.fd
         /\ ReusableConnection(w, c, reusable).open = w.open
  <1> DEFINE r == ReusableConnection(w, c, reusable)
             q == IF c \in w.reusable THEN Without(w.reusableq, c) ELSE w.reusableq
  <1>1. /\ w.reusableq \in Seq(Conns) /\ c \in Conns
        /\ Injective(w.reusableq) /\ Elems(w.reusableq) = w.reusable
        /\ w.reusable \subseteq Used(w)
        /\ w.reusable_n = Len(w.reusableq)
    BY DEF Consistent, Worker, MemoryOK, ReusableOK, Used
  <1>2. /\ q \in Seq(Conns)
        /\ Elems(q) = w.reusable \ {c}
        /\ Injective(q)
        /\ Len(q) = IF c \in w.reusable THEN Len(w.reusableq) - 1 ELSE Len(w.reusableq)
    BY <1>1, WithoutElems
  <1> HIDE DEF q
  <1>3. /\ <<c>> \o q \in Seq(Conns)
        /\ Len(<<c>> \o q) = Len(q) + 1
        /\ Elems(<<c>> \o q) = w.reusable \cup {c}
        /\ Injective(<<c>> \o q)
    BY <1>1, <1>2, PrependElems
  <1> DEFINE flags == IF reusable THEN w.reusable \cup {c} ELSE w.reusable \ {c}
             queue == IF reusable THEN <<c>> \o q ELSE q
  <1>4. r = [w EXCEPT !.reusable = flags, !.reusableq = queue, !.reusable_n = Len(queue)]
    <2> DEFINE out == IF c \in w.reusable
                      THEN [w EXCEPT !.reusableq = Without(@, c), !.reusable_n = @ - 1]
                      ELSE w
    <2>1. Len(w.reusableq) \in Int
      BY <1>1
    <2>2. out = [w EXCEPT !.reusableq = q, !.reusable_n = Len(q)]
      BY <1>1, <1>2, <2>1 DEF Consistent, Worker, q
    <2>3. r = IF reusable
              THEN [out EXCEPT !.reusable = @ \cup {c}, !.reusableq = <<c>> \o @, !.reusable_n = @ + 1]
              ELSE [out EXCEPT !.reusable = @ \ {c}]
      BY DEF ReusableConnection
    <2> HIDE DEF out, r
    <2> QED BY <1>3, <2>2, <2>3 DEF Consistent, Worker
  <1>5. /\ queue \in Seq(Conns) /\ flags \subseteq Conns /\ flags \subseteq Used(w)
        /\ Elems(queue) = flags /\ Injective(queue) /\ Len(queue) \in Int
    <2>1. Used(w) \subseteq Conns
      BY DEF Used
    <2>2. queue \in Seq(Conns) /\ Elems(queue) = flags /\ Injective(queue)
      BY <1>2, <1>3
    <2>3. flags \subseteq Used(w)
      BY <1>1
    <2> QED BY <2>1, <2>2, <2>3
  <1> HIDE DEF r, flags, queue
  <1>6. r.reusable = flags /\ r.reusableq = queue /\ r.reusable_n = Len(queue)
    BY <1>4 DEF Consistent, Worker
  <1>7. r \in Worker
    BY <1>4, <1>5 DEF Consistent, Worker
  <1>8. r.fd = w.fd /\ r.open = w.open /\ Used(r) = Used(w)
    BY <1>4 DEF Consistent, Worker, Used
  <1>9. ReusableOK(r)
    BY <1>5, <1>6, <1>8 DEF ReusableOK
  <1>10. PoolOK(r) /\ PostedOK(r) /\ TimersOK(r) /\ DescriptorsOK(r) /\ EpollOK(r)
    BY <1>4 DEF Consistent, Worker, Used, MemoryOK, PoolOK, PostedOK, TimersOK,
                DescriptorsOK, EpollOK
  <1> QED BY <1>7, <1>8, <1>9, <1>10 DEF Consistent, MemoryOK, r

-----------------------------------------------------------------------------
(* Slots that change hands. *)

\* get_connection() takes a slot that no structure but the free list holds.
LEMMA GetConnectionConsistent ==
  ASSUME NEW w, Consistent(w), w.free # <<>>,
         NEW s \in w.open, \A d \in Used(w) : w.fd[d] # s
  PROVE  LET c == Head(w.free)
             r == GetConnection(w, s)
         IN  /\ Consistent(r)
             /\ c \in Used(r) /\ r.fd = [w.fd EXCEPT ![c] = s] /\ r.open = w.open
             /\ c \notin r.active \cup r.posted \cup r.reusable \cup r.timer_set
  <1> DEFINE c == Head(w.free)
             f == Tail(w.free)
             r == GetConnection(w, s)
  <1>1. w.free \in Seq(Conns) /\ Injective(w.free) /\ Elems(w.free) = Conns \ Used(w) /\ w.free_n = Len(w.free)
    BY DEF Consistent, Worker, MemoryOK, PoolOK
  <1>2. /\ c \in Conns \ Used(w) /\ f \in Seq(Conns) /\ Injective(f) /\ Len(f) = w.free_n - 1
        /\ Elems(f) = (Conns \ Used(w)) \ {c}
    <2>1. c \in Conns /\ c \in Elems(w.free) /\ f \in Seq(Conns) /\ Len(f) = Len(w.free) - 1
      BY <1>1, TailElems
    <2>2. Elems(w.free) = Elems(f) \cup {c} /\ Injective(f) /\ c \notin Elems(f)
      BY <1>1, TailElems
    <2> QED BY <1>1, <2>1, <2>2
  <1>3. /\ c \notin w.active /\ c \notin w.posted /\ c \notin w.reusable /\ c \notin w.timer_set
    BY <1>2 DEF Consistent, MemoryOK, ReusableOK, PostedOK, TimersOK, EpollOK
  <1>4. s \in Socks /\ s # NoSock
    BY ConnectionsAssumption DEF Consistent, Worker
  <1>5. r = [w EXCEPT !.free = f, !.free_n = @ - 1, !.fd[c] = s, !.instance[c] = 1 - @, !.buffer[c] = "none",
                      !.active = @ \ {c}, !.ready = @ \ {c}, !.timedout = @ \ {c}, !.timer_set = @ \ {c},
                      !.posted = @ \ {c}, !.closing = @ \ {c}, !.reusable = @ \ {c}]
    BY DEF GetConnection
  <1> HIDE DEF c, f, r
  <1>6. w \in Worker
    BY DEF Consistent
  <1>7. r.fd = [w.fd EXCEPT ![c] = s] /\ r.open = w.open /\ r.instance = [w.instance EXCEPT ![c] = 1 - @]
    BY <1>5, <1>6 DEF Worker
  <1>8. /\ r.active = w.active /\ r.posted = w.posted /\ r.reusable = w.reusable /\ r.timer_set = w.timer_set
        /\ r.free = f /\ r.free_n = w.free_n - 1
        /\ r.reusableq = w.reusableq /\ r.reusable_n = w.reusable_n /\ r.postedq = w.postedq
        /\ r.tree = w.tree /\ r.interest = w.interest /\ r.edges = w.edges
    BY <1>3, <1>5, <1>6 DEF Worker
  <1>9. Used(r) = Used(w) \cup {c}
    BY <1>2, <1>4, <1>6, <1>7 DEF Used, Worker
  <1>10. r \in Worker
    <2> DEFINE i == 1 - w.instance[c]
               n == w.free_n - 1
    <2>1. w.instance[c] \in {0, 1} /\ w.free_n \in Int
      BY <1>2, <1>6 DEF Worker
    <2>2. i \in {0, 1} /\ n \in Int
      BY <2>1
    <2> DEFINE F == [w.fd EXCEPT ![c] = s]
               I == [w.instance EXCEPT ![c] = i]
               B == [w.buffer EXCEPT ![c] = "none"]
    <2>3. /\ F \in [Conns -> Socks \cup {NoSock}] /\ I \in [Conns -> {0, 1}]
          /\ B \in [Conns -> {"none", "empty", "data"}]
      BY <1>4, <1>6, <2>2 DEF Worker
    <2>4. \A x \in SUBSET Conns : x \ {c} \in SUBSET Conns
      OBVIOUS
    <2>5. r = [w EXCEPT !.free = f, !.free_n = n, !.fd = F, !.instance = I, !.buffer = B,
                        !.active = @ \ {c}, !.ready = @ \ {c}, !.timedout = @ \ {c}, !.timer_set = @ \ {c},
                        !.posted = @ \ {c}, !.closing = @ \ {c}, !.reusable = @ \ {c}]
      BY <1>5, <1>6 DEF Worker
    <2> HIDE DEF i, n, F, I, B
    <2> QED BY <1>2, <1>6, <2>2, <2>3, <2>4, <2>5 DEF Worker
  <1>11. PoolOK(r)
    BY <1>2, <1>8, <1>9 DEF PoolOK
  <1>12. ReusableOK(r) /\ PostedOK(r) /\ TimersOK(r)
    BY <1>8, <1>9 DEF Consistent, MemoryOK, ReusableOK, PostedOK, TimersOK
  <1>13. DescriptorsOK(r)
    <2>1. \A d \in Used(w) : r.fd[d] = w.fd[d]
      BY <1>2, <1>6, <1>7 DEF Used, Worker
    <2>2. r.fd[c] = s
      BY <1>2, <1>6, <1>7 DEF Worker
    <2> QED BY <1>7, <1>9, <2>1, <2>2 DEF Consistent, MemoryOK, DescriptorsOK
  <1>14. EpollOK(r)
    <2>1. \A d \in r.active : r.fd[d] = w.fd[d] /\ r.instance[d] = w.instance[d]
      BY <1>2, <1>3, <1>6, <1>7, <1>8 DEF Worker
    <2> QED BY <1>8, <1>9, <2>1 DEF Consistent, MemoryOK, EpollOK
  <1> QED
    BY <1>3, <1>7, <1>8, <1>9, <1>10, <1>11, <1>12, <1>13, <1>14 DEF Consistent, MemoryOK, c, r

\* A slot that only epoll still knows goes back to the free list, and its
\* descriptor is closed: the common end of close_connection() and
\* close_accepted_connection().
Released(w, c) ==
  CloseFd([FreeConnection(w, c) EXCEPT !.active = @ \ {c}, !.fd[c] = NoSock], w.fd[c])

LEMMA SlotReleased ==
  ASSUME NEW w, Consistent(w), NEW c \in Used(w),
         c \notin w.timer_set, c \notin w.posted, c \notin w.reusable
  PROVE  /\ Consistent(Released(w, c))
         /\ Released(w, c).fd = [w.fd EXCEPT ![c] = NoSock]
         /\ Released(w, c).open = w.open \ {w.fd[c]}
  <1> DEFINE s == w.fd[c]
             f == <<c>> \o w.free
             r == Released(w, c)
  <1>1. w \in Worker /\ c \in Conns /\ s # NoSock
    BY DEF Consistent, Used
  <1>2. r = [w EXCEPT !.free = f, !.free_n = @ + 1, !.active = @ \ {c}, !.fd[c] = NoSock,
                      !.open = @ \ {s}, !.interest = {e \in @ : e.sock # s}, !.edges = {e \in @ : e.sock # s}]
    BY <1>1 DEF Worker, CloseFd, FreeConnection, Released
  <1>3. /\ f \in Seq(Conns) /\ Injective(f) /\ Len(f) = w.free_n + 1
        /\ Elems(f) = (Conns \ Used(w)) \cup {c}
    <2>1. w.free \in Seq(Conns) /\ Injective(w.free) /\ Elems(w.free) = Conns \ Used(w) /\ w.free_n = Len(w.free)
      BY DEF Consistent, Worker, MemoryOK, PoolOK
    <2> QED BY <1>1, <2>1, PrependElems
  <1> HIDE DEF s, f, r
  <1>4. /\ r.fd = [w.fd EXCEPT ![c] = NoSock] /\ r.open = w.open \ {s} /\ r.instance = w.instance
        /\ r.active = w.active \ {c} /\ r.posted = w.posted /\ r.reusable = w.reusable
        /\ r.timer_set = w.timer_set /\ r.free = f /\ r.free_n = w.free_n + 1
        /\ r.reusableq = w.reusableq /\ r.reusable_n = w.reusable_n /\ r.postedq = w.postedq
        /\ r.tree = w.tree
        /\ r.interest = {e \in w.interest : e.sock # s} /\ r.edges = {e \in w.edges : e.sock # s}
    BY <1>1, <1>2 DEF Worker
  <1>5. Used(r) = Used(w) \ {c}
    BY <1>1, <1>4 DEF Used, Worker
  <1>6. r \in Worker
    <2>1. w.free_n + 1 \in Int
      BY <1>1 DEF Worker
    <2> QED BY <1>1, <1>2, <1>3, <2>1 DEF Worker
  <1>7. PoolOK(r)
    BY <1>1, <1>3, <1>4, <1>5 DEF PoolOK, Used
  <1>8. ReusableOK(r) /\ PostedOK(r) /\ TimersOK(r)
    BY <1>4, <1>5 DEF Consistent, MemoryOK, ReusableOK, PostedOK, TimersOK
  <1>9. \A d \in Used(r) : r.fd[d] = w.fd[d] /\ d # c
    BY <1>1, <1>4, <1>5 DEF Used, Worker
  <1>10. \A d \in Used(r) : w.fd[d] # s
    BY <1>5, <1>9 DEF Consistent, MemoryOK, DescriptorsOK, s
  <1>11. DescriptorsOK(r)
    BY <1>4, <1>5, <1>9, <1>10 DEF Consistent, MemoryOK, DescriptorsOK
  <1>12. EpollOK(r)
    <2> DEFINE E(d) == [sock |-> w.fd[d], conn |-> d, instance |-> w.instance[d]]
    <2>1. w.active \subseteq Used(w) /\ w.interest = {E(d) : d \in w.active} /\ w.edges \subseteq w.interest
      BY DEF Consistent, MemoryOK, EpollOK
    <2>2. \A d \in w.active : E(d).sock # s <=> d # c
      BY <1>5, <1>10, <2>1 DEF s
    <2> DEFINE kept == {E(d) : d \in r.active}
    <2>3. r.interest = kept
      <3>1. ASSUME NEW e \in r.interest PROVE e \in kept
        <4>1. PICK d \in w.active : e = E(d)
          BY <1>4, <2>1, <3>1
        <4>2. e.sock # s
          BY <1>4, <3>1
        <4>3. d \in r.active
          BY <1>4, <2>2, <4>1, <4>2
        <4> QED BY <4>1, <4>3
      <3>2. ASSUME NEW e \in kept PROVE e \in r.interest
        <4>1. PICK d \in r.active : e = E(d)
          BY <3>2
        <4>2. d \in w.active /\ d # c
          BY <1>4, <4>1
        <4>3. e \in w.interest
          BY <2>1, <4>1, <4>2
        <4>4. e.sock # s
          BY <2>2, <4>1, <4>2
        <4> QED BY <1>4, <4>3, <4>4
      <3> HIDE DEF kept
      <3> QED BY <3>1, <3>2
    <2>4. \A d \in r.active : d \in Used(r) /\ [sock |-> r.fd[d], conn |-> d, instance |-> r.instance[d]] = E(d)
      BY <1>4, <1>5, <1>9, <2>1
    <2>5. r.edges \subseteq r.interest
      BY <1>4, <2>1
    <2>6. r.interest = {[sock |-> r.fd[d], conn |-> d, instance |-> r.instance[d]] : d \in r.active}
      BY ZenonT(60), <2>3, <2>4
    <2> QED BY <2>4, <2>5, <2>6 DEF EpollOK
  <1> QED BY <1>4, <1>6, <1>7, <1>8, <1>11, <1>12 DEF Consistent, MemoryOK, r, s

\* What close_connection() does before it gives the slot back.
Untied(w, c) ==
  LET u == IF c \in w.timer_set THEN EventDelTimer(w, c) ELSE w
      p == IF c \in u.posted THEN DeletePostedEvent(u, c) ELSE u
  IN  ReusableConnection(p, c, FALSE)

LEMMA CloseConnectionReleases ==
  ASSUME NEW w, Consistent(w), NEW c \in Used(w)
  PROVE  LET q == Untied(w, c)
         IN  /\ Consistent(q) /\ q.fd = w.fd /\ q.open = w.open /\ c \in Used(q)
             /\ c \notin q.timer_set /\ c \notin q.posted /\ c \notin q.reusable
             /\ CloseConnection(w, c) = Released(q, c)
  <1> DEFINE u == IF c \in w.timer_set THEN EventDelTimer(w, c) ELSE w
             p == IF c \in u.posted THEN DeletePostedEvent(u, c) ELSE u
             q == ReusableConnection(p, c, FALSE)
             r == CloseConnection(w, c)
  <1>1. w \in Worker /\ c \in Conns /\ w.fd[c] # NoSock
    BY DEF Consistent, Used
  <1>2. Consistent(u) /\ u.fd = w.fd /\ u.open = w.open /\ c \notin u.timer_set /\ c \in Used(u)
    <2>1. Consistent(u) /\ u.fd = w.fd /\ u.open = w.open
      BY EventDelTimerConsistent
    <2>2. c \notin u.timer_set
      BY <1>1 DEF Worker, EventDelTimer
    <2> QED BY <1>1, <2>1, <2>2 DEF Used
  <1> HIDE DEF u
  <1>3. /\ Consistent(p) /\ p.fd = w.fd /\ p.open = w.open /\ c \in Used(p)
        /\ c \notin p.timer_set /\ c \notin p.posted
    <2>1. Consistent(p) /\ p.fd = u.fd /\ p.open = u.open
      BY <1>2, DeletePostedEventConsistent
    <2>2. c \notin p.timer_set /\ c \notin p.posted
      BY <1>2 DEF Consistent, Worker, DeletePostedEvent
    <2> QED BY <1>1, <1>2, <2>1, <2>2 DEF Used
  <1>4. /\ r = CloseFd([FreeConnection(ReusableConnection(
                       IF c \in u.posted THEN DeletePostedEvent([u EXCEPT !.active = @ \ {c}], c)
                                         ELSE [u EXCEPT !.active = @ \ {c}],
                       c, FALSE), c) EXCEPT !.fd[c] = NoSock], w.fd[c])
    <2>1. [u EXCEPT !.active = @ \ {c}].posted = u.posted
      BY <1>2 DEF Consistent, Worker
    <2> QED BY <1>1, <2>1 DEF CloseConnection, u
  <1>5. (IF c \in u.posted THEN DeletePostedEvent([u EXCEPT !.active = @ \ {c}], c)
                           ELSE [u EXCEPT !.active = @ \ {c}])
        = [p EXCEPT !.active = @ \ {c}]
    BY <1>2 DEF Consistent, Worker, DeletePostedEvent
  <1> HIDE DEF p, r
  <1>6. ReusableConnection([p EXCEPT !.active = @ \ {c}], c, FALSE) = [q EXCEPT !.active = @ \ {c}]
    BY ZenonT(60), <1>3 DEF Consistent, Worker, ReusableConnection
  <1>7. /\ Consistent(q) /\ q.fd = w.fd /\ q.open = w.open /\ c \in Used(q)
        /\ c \notin q.timer_set /\ c \notin q.posted /\ c \notin q.reusable
    <2>1. Consistent(q) /\ q.fd = p.fd /\ q.open = p.open
      BY <1>3, ReusableConnectionConsistent
    <2>2. c \notin q.timer_set /\ c \notin q.posted /\ c \notin q.reusable
      BY <1>3 DEF Consistent, Worker, ReusableConnection
    <2> QED BY <1>1, <1>3, <2>1, <2>2 DEF Used
  <1> HIDE DEF q
  <1>8. [FreeConnection([q EXCEPT !.active = @ \ {c}], c) EXCEPT !.fd[c] = NoSock]
        = [FreeConnection(q, c) EXCEPT !.active = @ \ {c}, !.fd[c] = NoSock]
    BY <1>1, <1>7 DEF Consistent, Worker, FreeConnection
  <1>9. r = Released(q, c)
    BY <1>4, <1>5, <1>6, <1>7, <1>8 DEF Released
  <1>10. q = Untied(w, c)
    BY DEF Untied, u, p, q
  <1> QED BY <1>7, <1>9, <1>10 DEF r

LEMMA CloseConnectionConsistent ==
  ASSUME NEW w, Consistent(w), NEW c \in Used(w)
  PROVE  LET r == CloseConnection(w, c)
         IN  Consistent(r) /\ r.fd = [w.fd EXCEPT ![c] = NoSock] /\ r.open = w.open \ {w.fd[c]}
  <1> DEFINE q == Untied(w, c)
  <1>1. /\ Consistent(q) /\ q.fd = w.fd /\ q.open = w.open /\ c \in Used(q)
        /\ c \notin q.timer_set /\ c \notin q.posted /\ c \notin q.reusable
        /\ CloseConnection(w, c) = Released(q, c)
    BY CloseConnectionReleases
  <1> HIDE DEF q
  <1> QED BY <1>1, SlotReleased

\* close_accepted_connection() takes back a slot just taken.
LEMMA CloseAcceptedConnectionConsistent ==
  ASSUME NEW w, Consistent(w), NEW c \in Used(w),
         c \notin w.active, c \notin w.timer_set, c \notin w.posted, c \notin w.reusable
  PROVE  LET r == CloseAcceptedConnection(w, c)
         IN  Consistent(r) /\ r.fd = [w.fd EXCEPT ![c] = NoSock] /\ r.open = w.open \ {w.fd[c]}
  <1>1. w \in Worker /\ FreeConnection(w, c).active = w.active /\ w.active \ {c} = w.active
    BY DEF Consistent, Worker, FreeConnection
  <1>2. [FreeConnection(w, c) EXCEPT !.fd[c] = NoSock]
        = [FreeConnection(w, c) EXCEPT !.active = @ \ {c}, !.fd[c] = NoSock]
    BY <1>1 DEF Worker, FreeConnection
  <1>3. CloseAcceptedConnection(w, c) = Released(w, c)
    BY <1>2 DEF CloseAcceptedConnection, Released
  <1> QED BY <1>3, SlotReleased

\* Closing a socket that is in no slot.
LEMMA CloseFdConsistent ==
  ASSUME NEW w, Consistent(w), NEW s, \A d \in Used(w) : w.fd[d] # s
  PROVE  LET r == CloseFd(w, s)
         IN  Consistent(r) /\ r.fd = w.fd /\ r.open = w.open \ {s}
  <1> DEFINE r == CloseFd(w, s)
  <1>1. w \in Worker
    BY DEF Consistent
  <1>2. /\ w.interest = {[sock |-> w.fd[d], conn |-> d, instance |-> w.instance[d]] : d \in w.active}
        /\ w.active \subseteq Used(w) /\ w.edges \subseteq w.interest
    BY DEF Consistent, MemoryOK, EpollOK
  <1>3. \A e \in w.interest : e.sock # s
    BY <1>2
  <1>4. {e \in w.interest : e.sock # s} = w.interest /\ {e \in w.edges : e.sock # s} = w.edges
    BY <1>2, <1>3
  <1>5. r = [w EXCEPT !.open = @ \ {s}]
    BY <1>1, <1>4 DEF CloseFd, Worker
  <1> HIDE DEF r
  <1>6. r \in Worker /\ r.fd = w.fd /\ r.open = w.open \ {s}
    BY <1>1, <1>5 DEF Worker
  <1>7. MemoryOK(r)
    BY <1>1, <1>5 DEF Consistent, Worker, Used, MemoryOK, PoolOK, ReusableOK, PostedOK,
                      TimersOK, DescriptorsOK, EpollOK
  <1> QED BY <1>6, <1>7 DEF Consistent, r

\* event_process_init() leaves a consistent memory.
LEMMA NewWorkerConsistent == Consistent(NewWorker)
  <1> DEFINE free == [i \in 1..N |-> i]
  <1>1. N \in Nat /\ 0 \in 0..Timeout
    BY ConnectionsAssumption
  <1>2. free \in Seq(Conns) /\ Len(free) = N /\ Elems(free) = Conns /\ Injective(free)
    BY <1>1 DEF Elems, Injective, Conns
  <1>3. <<>> \in Seq(Conns) /\ Len(<<>>) = 0 /\ Elems(<<>>) = {} /\ Injective(<<>>)
    BY DEF Elems, Injective
  <1> HIDE DEF free
  <1>4. NewWorker \in Worker
    BY <1>1, <1>2, <1>3 DEF NewWorker, Worker, free
  <1>5. Used(NewWorker) = {}
    BY DEF NewWorker, Used
  <1>6. MemoryOK(NewWorker)
    BY <1>1, <1>2, <1>3, <1>5 DEF NewWorker, MemoryOK, PoolOK, ReusableOK, PostedOK, TimersOK,
                                  DescriptorsOK, EpollOK, free
  <1> QED BY <1>4, <1>6 DEF Consistent

-----------------------------------------------------------------------------
(* The steps of the event loop.                                            *)

\* The descriptors of the process are those of its slots and h.
InSlots(w) == {w.fd[c] : c \in Used(w)}
Owned(w, h) ==
  /\ w.open = InSlots(w) \cup ({h} \ {NoSock})
  /\ h \notin InSlots(w)

\* What an operation does to the descriptors: nothing, or it closes slot c's.
SameFds(w, r) == r.fd = w.fd /\ r.open = w.open
Closes(w, r, c) == r.fd = [w.fd EXCEPT ![c] = NoSock] /\ r.open = w.open \ {w.fd[c]}

QueueFresh ==
  /\ Injective(backlog)
  /\ \A s \in m.open \cup Elems(backlog) : peer[s] # "new"
  /\ m.open \cap Elems(backlog) = {}

HandlerInUse == pc = "mywrite" => call.conn \in Used(m) /\ call.back # "lock"

HandOK == (hand # NoSock) = (pc \in {"drain", "serve"})

IInv ==
  /\ TypeOK
  /\ Consistent(m)
  /\ Owned(m, hand)
  /\ HandOK
  /\ QueueFresh
  /\ HandlerInUse

\* The invariant is as strong as the properties.
LEMMA IInvSuffices == IInv => TypeOK /\ MemoryConsistent /\ DescriptorsOwned
  BY DEF IInv, MemoryConsistent, Consistent, DescriptorsOwned, Owned, InSlots, QueueFresh, HandOK

-----------------------------------------------------------------------------
(* Descriptors. *)

LEMMA SameFdsOwned ==
  ASSUME NEW w, NEW r, NEW h, Owned(w, h), SameFds(w, r)
  PROVE  Owned(r, h) /\ Used(r) = Used(w)
  BY DEF Owned, InSlots, SameFds, Used

LEMMA ClosesOwned ==
  ASSUME NEW w, Consistent(w), NEW c \in Used(w), NEW r, NEW h, Owned(w, h), Closes(w, r, c)
  PROVE  Owned(r, h) /\ r.open \subseteq w.open
  <1>1. w.fd \in [Conns -> Socks \cup {NoSock}] /\ c \in Conns /\ w.fd[c] # NoSock
    BY DEF Consistent, Worker, Used
  <1>2. Used(r) = Used(w) \ {c}
    BY <1>1 DEF Closes, Used
  <1>3. \A d \in Used(r) : r.fd[d] = w.fd[d] /\ w.fd[d] # w.fd[c]
    BY <1>1, <1>2 DEF Closes, Consistent, MemoryOK, DescriptorsOK, Used
  <1>4. InSlots(r) = InSlots(w) \ {w.fd[c]}
    <2>1. InSlots(r) \subseteq InSlots(w) \ {w.fd[c]}
      BY <1>2, <1>3 DEF InSlots
    <2>2. ASSUME NEW s \in InSlots(w) \ {w.fd[c]} PROVE s \in InSlots(r)
      BY <1>2, <1>3 DEF InSlots
    <2> QED BY <2>1, <2>2
  <1>5. h # w.fd[c]
    BY DEF Owned, InSlots
  <1> QED BY <1>4, <1>5 DEF Owned, Closes

\* What happens to the rest of the invariant when the memory changes so.
LEMMA QueueFreshStep ==
  ASSUME QueueFresh, m'.open \subseteq m.open, UNCHANGED <<backlog, peer>>
  PROVE  QueueFresh'
  BY DEF QueueFresh

-----------------------------------------------------------------------------
(* The handlers. *)

LEMMA ReceivedConsistent ==
  ASSUME NEW w, Consistent(w), NEW c \in Used(w), NEW got \in BOOLEAN
  PROVE  Consistent(Received(w, c, got)) /\ SameFds(w, Received(w, c, got))
  <1> DEFINE b == IF got THEN "data" ELSE IF w.buffer[c] = "none" THEN "empty" ELSE w.buffer[c]
             u == [w EXCEPT !.buffer[c] = b, !.ready = @ \ {c}]
  <1>1. w \in Worker /\ c \in Conns
    BY DEF Consistent, Used
  <1>2. b \in {"none", "empty", "data"}
    BY <1>1 DEF Worker
  <1>3. Received(w, c, got) = ReusableConnection(u, c, FALSE)
    BY <1>1 DEF Received, Worker
  <1> HIDE DEF b
  <1>4. u \in Worker
    BY <1>1, <1>2 DEF Worker
  <1>5. MemoryOK(u)
    BY <1>1 DEF Consistent, Worker, Used, MemoryOK, PoolOK, ReusableOK, PostedOK, TimersOK,
                DescriptorsOK, EpollOK
  <1>6. u.fd = w.fd /\ u.open = w.open /\ c \in Used(u)
    BY <1>1 DEF Worker, Used
  <1> HIDE DEF u
  <1>7. Consistent(u)
    BY <1>4, <1>5 DEF Consistent
  <1> QED BY <1>3, <1>6, <1>7, ReusableConnectionConsistent DEF SameFds

LEMMA UntimedConsistent ==
  ASSUME NEW w, Consistent(w), NEW c \in Used(w)
  PROVE  Consistent(Untimed(w, c)) /\ SameFds(w, Untimed(w, c))
  BY EventDelTimerConsistent DEF Untimed, SameFds

LEMMA HandleReadEventConsistent ==
  ASSUME NEW w, Consistent(w), NEW c \in Used(w)
  PROVE  Consistent(HandleReadEvent(w, c)) /\ SameFds(w, HandleReadEvent(w, c))
  <1>1. Readable(w.fd[c]) \in BOOLEAN
    BY DEF Readable
  <1> QED BY <1>1, EpollAddEventConsistent DEF HandleReadEvent, SameFds

\* myread() leaves the memory consistent and closes at most its own connection.
LEMMA MyReadStep ==
  ASSUME NEW w, Consistent(w), NEW c \in Used(w), NEW back,
         unread \subseteq Socks, MyRead(w, c, back)
  PROVE  /\ Consistent(m')
         /\ SameFds(w, m') \/ Closes(w, m', c)
         /\ unread' \subseteq Socks
         /\ \/ pc' = back /\ call' = call
            \/ /\ pc' = "mywrite" /\ call' = [conn |-> c, back |-> back]
               /\ SameFds(w, m') /\ c \notin w.closing
  <1>1. CASE c \in w.timedout
    BY <1>1 DEF MyRead, SameFds
  <1>2. CASE m' = CloseConnection(w, c) /\ unread' = unread \ {w.fd[c]} /\ pc' = back /\ UNCHANGED call
    BY <1>2, CloseConnectionConsistent DEF Closes
  <1>3. CASE /\ c \notin w.timedout \cup w.closing
             /\ m' = Received(w, c, w.fd[c] \in unread) /\ unread' = unread \ {w.fd[c]}
             /\ pc' = "mywrite" /\ call' = [conn |-> c, back |-> back]
    <2> DEFINE got == w.fd[c] \in unread
    <2>1. got \in BOOLEAN
      OBVIOUS
    <2>2. m' = Received(w, c, got)
      BY <1>3
    <2> HIDE DEF got
    <2>3. Consistent(m') /\ SameFds(w, m')
      BY <2>1, <2>2, ReceivedConsistent
    <2> QED BY <1>3, <2>3
  <1> QED BY <1>1, <1>2, <1>3 DEF MyRead

-----------------------------------------------------------------------------
(* The initial state. *)

LEMMA InitIInv == Init => IInv
  <1> SUFFICES ASSUME Init PROVE IInv
    OBVIOUS
  <1>1. Consistent(m)
    BY NewWorkerConsistent DEF Init
  <1>2. m.open = {} /\ Used(m) = {}
    BY DEF Init, NewWorker, Used
  <1>3. Elems(backlog) = {} /\ Injective(backlog)
    BY DEF Init, Elems, Injective
  <1>4. TypeOK
    <2>1. call \in [conn : 0..N, back : {"lock", "dispatch", "posted"}]
      BY ConnectionsAssumption DEF Init, NoCall
    <2>2. listener \in [active : BOOLEAN, posted : BOOLEAN] /\ elapsed \in 0..Timeout
      BY ConnectionsAssumption DEF Init
    <2>3. m \in Worker
      BY <1>1 DEF Consistent
    <2>4. batch \subseteq Entry \cup {ListenerEntry} /\ backlog \in Seq(Socks) /\ todo \in Nat
          /\ peer \in [Socks -> {"new", "up", "fin", "rst", "gone"}] /\ disabled \in Int
      BY DEF Init
    <2> QED BY <2>1, <2>2, <2>3, <2>4 DEF Init, TypeOK
  <1> QED BY <1>1, <1>2, <1>3, <1>4 DEF Init, IInv, Owned, InSlots, HandOK, QueueFresh, HandlerInUse

-----------------------------------------------------------------------------
(* The steps that leave the worker's memory alone. *)

LEMMA MutexSteps ==
  ASSUME IInv, SkipMutex \/ TrylockWins \/ TrylockLoses
  PROVE  IInv'
  <1>1. CASE SkipMutex
    <2>1. TypeOK'
      BY <1>1 DEF IInv, TypeOK, SkipMutex, acceptVars
    <2> QED BY <1>1, <2>1 DEF IInv, SkipMutex, acceptVars, HandOK, QueueFresh, HandlerInUse
  <1>2. CASE TrylockWins
    <2>1. TypeOK'
      BY <1>2 DEF IInv, TypeOK, TrylockWins, acceptVars
    <2> QED BY <1>2, <2>1 DEF IInv, TrylockWins, acceptVars, HandOK, QueueFresh, HandlerInUse
  <1>3. CASE TrylockLoses
    <2>1. TypeOK'
      BY <1>3 DEF IInv, TypeOK, TrylockLoses, acceptVars
    <2> QED BY <1>3, <2>1 DEF IInv, TrylockLoses, acceptVars, HandOK, QueueFresh, HandlerInUse
  <1> QED BY <1>1, <1>2, <1>3

LEMMA AcceptReturns ==
  ASSUME IInv, DispatchListener \/ RunPostedAccept \/ AcceptAgain \/ AcceptFails \/ AcceptNoFiles
  PROVE  IInv'
  <1>1. CASE DispatchListener
    <2>1. TypeOK'
      <3>1. listener' \in [active : BOOLEAN, posted : BOOLEAN] /\ pc' \in {"dispatch", "accept"}
        <4>1. listener \in [active : BOOLEAN, posted : BOOLEAN]
          BY DEF IInv, TypeOK
        <4>2. CASE listener' = [listener EXCEPT !.posted = TRUE] /\ pc' = pc /\ pc = "dispatch"
          BY <4>1, <4>2
        <4>3. CASE pc' = "accept" /\ UNCHANGED listener
          BY <4>1, <4>3
        <4> QED BY <1>1, <4>2, <4>3 DEF DispatchListener
      <3>2. batch' \subseteq Entry \cup {ListenerEntry}
        BY <1>1 DEF IInv, TypeOK, DispatchListener
      <3> QED BY <1>1, <3>1, <3>2 DEF IInv, TypeOK, DispatchListener, acceptVars
    <2> QED BY <1>1, <2>1 DEF IInv, DispatchListener, acceptVars, mutexVars, HandOK, QueueFresh, HandlerInUse
  <1>2. CASE RunPostedAccept
    <2>1. TypeOK'
      BY <1>2 DEF IInv, TypeOK, RunPostedAccept, acceptVars, mutexVars
    <2> QED BY <1>2, <2>1 DEF IInv, RunPostedAccept, acceptVars, mutexVars, HandOK, QueueFresh, HandlerInUse
  <1>3. CASE AcceptAgain
    <2>1. TypeOK'
      BY <1>3 DEF IInv, TypeOK, AcceptAgain, acceptVars, mutexVars
    <2> QED BY <1>3, <2>1 DEF IInv, AcceptAgain, acceptVars, mutexVars, HandOK, QueueFresh, HandlerInUse
  <1>4. CASE AcceptNoFiles
    <2>1. TypeOK'
      <3>1. listener' \in [active : BOOLEAN, posted : BOOLEAN] /\ disabled' \in Int
            /\ held' \in BOOLEAN /\ own' \in BOOLEAN
        <4>1. listener \in [active : BOOLEAN, posted : BOOLEAN]
          BY DEF IInv, TypeOK
        <4>2. CASE listener' = [listener EXCEPT !.active = FALSE] /\ own' = FALSE /\ held' = FALSE /\ disabled' = 1
          <5>1. listener' \in [active : BOOLEAN, posted : BOOLEAN]
            BY <4>1, <4>2
          <5>2. disabled' \in Int
            BY <4>2
          <5> QED BY <4>2, <5>1, <5>2
        <4>3. CASE UNCHANGED <<listener, own, held, disabled>>
          BY <4>3 DEF IInv, TypeOK
        <4> QED BY <1>4, <4>2, <4>3 DEF AcceptNoFiles
      <3> QED BY <1>4, <3>1 DEF IInv, TypeOK, AcceptNoFiles, acceptVars
    <2> QED BY <1>4, <2>1 DEF IInv, AcceptNoFiles, acceptVars, mutexVars, HandOK, QueueFresh, HandlerInUse
  <1>5. CASE AcceptFails
    <2>1. TypeOK'
      BY <1>5 DEF IInv, TypeOK, AcceptFails, acceptVars, mutexVars
    <2> QED BY <1>5, <2>1 DEF IInv, AcceptFails, acceptVars, mutexVars, HandOK, QueueFresh, HandlerInUse
  <1> QED BY <1>1, <1>2, <1>3, <1>4, <1>5

LEMMA DoneSteps ==
  ASSUME IInv, DrainDone \/ PostedDone \/ Alarm
  PROVE  IInv'
  <1>1. CASE DrainDone
    <2>1. TypeOK'
      BY <1>1 DEF IInv, TypeOK, DrainDone, acceptVars, mutexVars, workerVars
    <2> QED BY <1>1, <2>1 DEF IInv, DrainDone, acceptVars, mutexVars, workerVars, HandOK, QueueFresh, HandlerInUse
  <1>2. CASE PostedDone
    <2>1. TypeOK'
      BY <1>2 DEF IInv, TypeOK, PostedDone, acceptVars, mutexVars, workerVars
    <2> QED BY <1>2, <2>1 DEF IInv, PostedDone, acceptVars, mutexVars, workerVars, HandOK, QueueFresh, HandlerInUse
  <1>3. CASE Alarm
    <2>1. TypeOK'
      BY <1>3 DEF IInv, TypeOK, Alarm, acceptVars, mutexVars, workerVars
    <2> QED BY <1>3, <2>1 DEF IInv, Alarm, acceptVars, mutexVars, workerVars, HandOK, QueueFresh, HandlerInUse
  <1> QED BY <1>1, <1>2, <1>3

\* The head of the accept queue leaves it, for another worker or because
\* its client is gone.
LEMMA QueueHeadLeaves ==
  ASSUME IInv, AcceptAborted \/ OtherAccepts
  PROVE  IInv'
  <1>1. backlog \in Seq(Socks) /\ backlog # <<>> /\ backlog' = Tail(backlog)
    BY DEF IInv, TypeOK, AcceptAborted, OtherAccepts
  <1>2. /\ backlog' \in Seq(Socks) /\ Elems(backlog') \subseteq Elems(backlog)
        /\ Injective(backlog) => Injective(backlog')
    BY <1>1, TailElems
  <1>3. TypeOK'
    BY <1>2 DEF IInv, TypeOK, AcceptAborted, OtherAccepts, mutexVars, workerVars
  <1> QED
    BY <1>2, <1>3 DEF IInv, AcceptAborted, OtherAccepts, mutexVars, workerVars, HandOK, QueueFresh, HandlerInUse

LEMMA ConnectStep ==
  ASSUME IInv, NEW s \in Socks, Connect(s)
  PROVE  IInv'
  <1>1. backlog \in Seq(Socks) /\ backlog' = Append(backlog, s)
    BY DEF IInv, TypeOK, Connect
  <1>2. s \notin Elems(backlog) /\ s \notin m.open
    BY DEF IInv, QueueFresh, Connect
  <1>3. backlog' \in Seq(Socks) /\ Elems(backlog') = Elems(backlog) \cup {s}
    BY <1>1, AppendElems
  <1>4. Injective(backlog')
    BY <1>1, <1>2, AppendElems DEF IInv, QueueFresh
  <1>5. TypeOK'
    BY <1>3 DEF IInv, TypeOK, Connect, mutexVars, workerVars
  <1>6. QueueFresh'
    BY <1>2, <1>3, <1>4 DEF IInv, TypeOK, Connect, mutexVars, workerVars, QueueFresh
  <1> QED
    BY <1>5, <1>6 DEF IInv, Connect, mutexVars, workerVars, HandOK, HandlerInUse

-----------------------------------------------------------------------------
(* Edges and time. *)

\* Changing the ready list within the interest list, or the timers' keys.
LEMMA EdgesConsistent ==
  ASSUME NEW w, Consistent(w), NEW E \in SUBSET w.interest
  PROVE  LET r == [w EXCEPT !.edges = E] IN Consistent(r) /\ SameFds(w, r)
  <1> DEFINE r == [w EXCEPT !.edges = E]
  <1>1. w \in Worker /\ E \subseteq Entry
    BY DEF Consistent, Worker
  <1>2. r \in Worker
    BY <1>1 DEF Worker
  <1>3. MemoryOK(r)
    BY <1>1 DEF Consistent, Worker, Used, MemoryOK, PoolOK, ReusableOK, PostedOK, TimersOK,
                DescriptorsOK, EpollOK
  <1>4. SameFds(w, r)
    BY <1>1 DEF Worker, SameFds
  <1> QED BY <1>2, <1>3, <1>4 DEF Consistent

LEMMA TickConsistent ==
  ASSUME NEW w, Consistent(w), NEW d \in 0..Timeout
  PROVE  Consistent(Tick(w, d)) /\ SameFds(w, Tick(w, d)) /\ Tick(w, d).interest = w.interest
  <1> DEFINE L == [c \in Conns |-> IF w.left[c] > d THEN w.left[c] - d ELSE 0]
             r == Tick(w, d)
  <1>1. w \in Worker
    BY DEF Consistent
  <1>2. L \in [Conns -> 0..Timeout]
    <2>1. \A c \in Conns : w.left[c] \in 0..Timeout
      BY <1>1 DEF Worker
    <2> QED BY <2>1, ConnectionsAssumption
  <1>3. r = [w EXCEPT !.left = L]
    BY <1>1 DEF Tick, Worker
  <1> HIDE DEF L, r
  <1>4. r \in Worker /\ SameFds(w, r) /\ r.interest = w.interest
    BY <1>1, <1>2, <1>3 DEF Worker, SameFds
  <1>5. MemoryOK(r)
    BY <1>1, <1>3 DEF Consistent, Worker, Used, MemoryOK, PoolOK, ReusableOK, PostedOK, TimersOK,
                      DescriptorsOK, EpollOK
  <1> QED BY <1>4, <1>5 DEF Consistent, r

\* The interest list has entries, so the ready list and a batch have too.
LEMMA PollEventsStep ==
  ASSUME IInv, PollEvents
  PROVE  IInv'
  <1>1. PICK d \in 0..Timeout : m' = [Tick(m, d) EXCEPT !.edges = {}] /\ elapsed' = d
    <2>1. (IF alarm THEN 0..Timeout ELSE {0}) \subseteq 0..Timeout
      BY ConnectionsAssumption
    <2> QED BY <2>1 DEF PollEvents
  <1>2. Consistent(m') /\ SameFds(m, m')
    <2>1. Consistent(Tick(m, d)) /\ SameFds(m, Tick(m, d))
      BY TickConsistent DEF IInv
    <2> QED BY <1>1, <2>1, EdgesConsistent DEF SameFds
  <1>3. batch' \subseteq Entry \cup {ListenerEntry}
    BY DEF PollEvents, ReadyEvents, IInv, Consistent, Worker
  <1>4. TypeOK'
    BY <1>1, <1>2, <1>3 DEF IInv, TypeOK, Consistent, PollEvents, acceptVars, mutexVars
  <1>5. Owned(m', hand) /\ m'.open = m.open
    BY <1>2, SameFdsOwned DEF IInv, SameFds
  <1> QED BY <1>2, <1>4, <1>5 DEF IInv, PollEvents, acceptVars, mutexVars, HandOK, QueueFresh, HandlerInUse

LEMMA WaitSteps ==
  ASSUME IInv, PollTimeout \/ PollInterrupted
  PROVE  IInv'
  <1>1. PICK d \in 0..Timeout : m' = Tick(m, d) /\ elapsed' = d
    <2>1. /\ (IF alarm THEN 0..Timeout ELSE {0}) \subseteq 0..Timeout
          /\ (IF alarm THEN 0 ELSE 1)..Timeout \subseteq 0..Timeout
      BY ConnectionsAssumption
    <2> QED BY <2>1 DEF PollTimeout, PollInterrupted
  <1>2. Consistent(m') /\ SameFds(m, m')
    BY <1>1, TickConsistent DEF IInv
  <1>3. Owned(m', hand) /\ m'.open = m.open
    BY <1>2, SameFdsOwned DEF IInv, SameFds
  <1>4. CASE PollTimeout
    <2>1. TypeOK'
      BY <1>1, <1>2, <1>4 DEF IInv, TypeOK, Consistent, PollTimeout, acceptVars, mutexVars
    <2> QED
      BY <1>2, <1>3, <1>4, <2>1 DEF IInv, PollTimeout, acceptVars, mutexVars, HandOK, QueueFresh, HandlerInUse
  <1>5. CASE PollInterrupted
    <2>1. TypeOK'
      BY <1>1, <1>2, <1>5 DEF IInv, TypeOK, Consistent, PollInterrupted, acceptVars, mutexVars
    <2> QED
      BY <1>2, <1>3, <1>5, <2>1 DEF IInv, PollInterrupted, acceptVars, mutexVars, HandOK, QueueFresh, HandlerInUse
  <1> QED BY <1>4, <1>5

\* Clients only put entries of the interest list on the ready list.
LEMMA PeerSteps ==
  ASSUME IInv, NEW s \in Socks, PeerSends(s) \/ PeerCloses(s) \/ PeerResets(s)
  PROVE  IInv'
  <1> DEFINE E == m.edges \cup {e \in m.interest : e.sock = s}
  <1>1. m' = [m EXCEPT !.edges = E]
    BY DEF PeerSends, PeerCloses, PeerResets, Wake, IInv, Consistent, Worker
  <1>2. E \subseteq m.interest
    BY DEF IInv, Consistent, MemoryOK, EpollOK
  <1> HIDE DEF E
  <1>3. Consistent(m') /\ SameFds(m, m')
    BY <1>1, <1>2, EdgesConsistent DEF IInv
  <1>4. Owned(m', hand) /\ m'.open = m.open /\ Used(m') = Used(m)
    BY <1>3, SameFdsOwned DEF IInv, SameFds
  <1>5. /\ unread' \subseteq Socks
        /\ peer' \in [Socks -> {"new", "up", "fin", "rst", "gone"}]
        /\ \A r \in Socks : peer[r] # "new" => peer'[r] # "new"
    BY DEF IInv, TypeOK, PeerSends, PeerCloses, PeerResets
  <1>6. UNCHANGED <<listener, held, own, disabled, mode, pc, batch, elapsed, alarm, hand, todo, backlog, call>>
    BY DEF PeerSends, PeerCloses, PeerResets, mutexVars, acceptVars
  <1>7. TypeOK'
    BY <1>3, <1>5, <1>6 DEF IInv, TypeOK, Consistent
  <1>8. m.open \cup Elems(backlog) \subseteq Socks
    BY DEF IInv, TypeOK, Consistent, Worker, Elems
  <1>9. QueueFresh'
    BY <1>4, <1>5, <1>6, <1>8 DEF IInv, QueueFresh
  <1> QED BY <1>3, <1>4, <1>6, <1>7, <1>9 DEF IInv, HandOK, HandlerInUse

-----------------------------------------------------------------------------
(* Accepting. *)

\* A socket enters the process: it is held by event_accept() alone.
LEMMA AcceptOkStep ==
  ASSUME IInv, AcceptOk
  PROVE  IInv'
  <1> DEFINE s == Head(backlog)
  <1>1. backlog \in Seq(Socks) /\ backlog # <<>> /\ backlog' = Tail(backlog) /\ hand' = s
    BY DEF IInv, TypeOK, AcceptOk
  <1>2. /\ s \in Socks /\ s \in Elems(backlog) /\ backlog' \in Seq(Socks)
        /\ Elems(backlog) = Elems(backlog') \cup {s}
    BY <1>1, TailElems
  <1>3. Injective(backlog') /\ s \notin Elems(backlog') /\ s \notin m.open /\ s # NoSock
    BY <1>1, <1>2, TailElems, ConnectionsAssumption DEF IInv, QueueFresh
  <1>4. m \in Worker /\ hand = NoSock
    BY DEF IInv, Consistent, HandOK, AcceptOk
  <1>5. m' = [m EXCEPT !.open = @ \cup {s}]
    BY DEF AcceptOk
  <1> HIDE DEF s
  <1>6. m'.fd = m.fd /\ m'.open = m.open \cup {s} /\ Used(m') = Used(m)
    BY <1>4, <1>5 DEF Worker, Used
  <1>7. Consistent(m')
    <2>1. m' \in Worker
      BY <1>2, <1>4, <1>5 DEF Worker
    <2>2. MemoryOK(m')
      BY <1>4, <1>5 DEF IInv, Consistent, Worker, Used, MemoryOK, PoolOK, ReusableOK, PostedOK,
                        TimersOK, DescriptorsOK, EpollOK
    <2> QED BY <2>1, <2>2 DEF Consistent
  <1>8. Owned(m', s)
    <2>1. m.open = InSlots(m) /\ InSlots(m') = InSlots(m)
      BY <1>4, <1>6 DEF IInv, Owned, InSlots
    <2> QED BY <1>3, <1>6, <2>1 DEF Owned
  <1>9. disabled' \in Int /\ todo' \in Nat /\ pc' \in {"drain", "serve"}
    <2>1. m.free_n \in Int /\ m.reusable_n \in Nat
      BY <1>4 DEF IInv, Consistent, Worker, MemoryOK, ReusableOK
    <2>2. (N + 1) \div ReserveDiv \in Int /\ m.reusable_n \div DrainDiv \in Nat
      BY <2>1, ConnectionsAssumption, EventLoopAssumption
    <2>3. DrainCount \in Nat
      BY <2>2, EventLoopAssumption DEF DrainCount
    <2> QED BY <2>1, <2>2, <2>3 DEF IInv, TypeOK, AcceptOk
  <1>10. TypeOK'
    BY <1>1, <1>2, <1>7, <1>9 DEF IInv, TypeOK, Consistent, AcceptOk
  <1>11. QueueFresh'
    BY <1>2, <1>3, <1>6 DEF IInv, QueueFresh, AcceptOk
  <1> QED BY <1>1, <1>3, <1>7, <1>8, <1>9, <1>10, <1>11 DEF IInv, HandOK, HandlerInUse

\* drain_connections() closes a reusable connection, or leaves it if it has
\* timed out.
LEMMA DrainConnectionStep ==
  ASSUME IInv, DrainConnection
  PROVE  IInv'
  <1> DEFINE c == m.reusableq[Len(m.reusableq)]
             w == [m EXCEPT !.closing = @ \cup {c}]
  <1>1. Consistent(m) /\ m \in Worker
    BY DEF IInv, Consistent
  <1>2. c \in Used(m) /\ c \in Conns
    <2>1. m.reusableq \in Seq(Conns) /\ m.reusableq # <<>>
      BY <1>1 DEF Worker, DrainConnection
    <2>2. Len(m.reusableq) \in DOMAIN m.reusableq
      BY <2>1
    <2> QED BY <1>1, <2>2 DEF Consistent, MemoryOK, ReusableOK, Elems, Used
  <1>3. MyRead(w, c, "drain")
    BY DEF DrainConnection
  <1> HIDE DEF c
  <1>4. Consistent(w) /\ c \in Used(w) /\ SameFds(m, w) /\ c \in w.closing
    <2>1. w \in Worker /\ SameFds(m, w) /\ Used(w) = Used(m) /\ c \in w.closing
      BY <1>1, <1>2 DEF Worker, SameFds, Used
    <2>2. MemoryOK(w)
      BY <1>1 DEF Consistent, Worker, Used, MemoryOK, PoolOK, ReusableOK, PostedOK,
                  TimersOK, DescriptorsOK, EpollOK
    <2> QED BY <1>2, <2>1, <2>2 DEF Consistent
  <1> HIDE DEF w
  <1>5. /\ Consistent(m') /\ (SameFds(w, m') \/ Closes(w, m', c))
        /\ unread' \subseteq Socks /\ pc' = "drain" /\ call' = call
    BY <1>3, <1>4, MyReadStep DEF IInv, TypeOK
  <1>6. Owned(m', hand) /\ m'.open \subseteq m.open
    BY <1>4, <1>5, SameFdsOwned, ClosesOwned DEF IInv, SameFds
  <1>7. /\ pc = "drain" /\ todo' \in Nat
        /\ UNCHANGED <<listener, held, own, disabled, mode, hand, backlog, batch, elapsed, alarm, peer>>
    BY DEF IInv, TypeOK, DrainConnection, mutexVars
  <1>8. m' \in Worker /\ unread' \subseteq Socks /\ pc' = "drain" /\ call' = call /\ Consistent(m')
    BY <1>5 DEF Consistent
  <1>9. TypeOK'
    BY <1>7, <1>8 DEF IInv, TypeOK
  <1> QED BY <1>6, <1>7, <1>8, <1>9 DEF IInv, HandOK, QueueFresh, HandlerInUse

\* The accepted socket is closed, in no slot or in one just taken for it.
LEMMA RefuseClientStep ==
  ASSUME IInv, RefuseClient
  PROVE  IInv'
  <1>1. m' = CloseFd(m, hand) /\ hand \notin InSlots(m) /\ m.open = InSlots(m) \cup {hand} /\ hand # NoSock
    BY DEF IInv, Owned, HandOK, RefuseClient
  <1>2. Consistent(m') /\ m'.fd = m.fd /\ m'.open = m.open \ {hand}
    BY <1>1, CloseFdConsistent DEF IInv, InSlots
  <1>3. NoSock \notin InSlots(m)
    BY DEF InSlots, Used
  <1>4. Owned(m', NoSock)
    BY <1>1, <1>2, <1>3 DEF Owned, InSlots, Used
  <1>5. TypeOK'
    BY <1>2 DEF IInv, TypeOK, Consistent, RefuseClient, mutexVars
  <1> QED
    BY <1>2, <1>4, <1>5 DEF IInv, RefuseClient, mutexVars, HandOK, QueueFresh, HandlerInUse

\* What get_connection() makes of the accepted socket.
LEMMA SlotTaken ==
  ASSUME IInv, pc = "serve", m.free # <<>>
  PROVE  LET c == Head(m.free)
             w == GetConnection(m, hand)
         IN  /\ Consistent(w) /\ c \in Used(w)
             /\ w.fd[c] = hand /\ w.open = m.open /\ Owned(w, NoSock)
             /\ c \notin w.active \cup w.posted \cup w.reusable \cup w.timer_set
  <1> DEFINE c == Head(m.free)
             w == GetConnection(m, hand)
  <1>1. /\ Consistent(m) /\ hand \in m.open /\ hand # NoSock /\ hand \notin InSlots(m)
        /\ m.open = InSlots(m) \cup {hand}
    BY DEF IInv, Owned, HandOK
  <1>2. /\ Consistent(w) /\ c \in Used(w) /\ w.fd = [m.fd EXCEPT ![c] = hand] /\ w.open = m.open
        /\ c \notin w.active \cup w.posted \cup w.reusable \cup w.timer_set
    BY <1>1, GetConnectionConsistent DEF InSlots
  <1>3. c \in Conns \ Used(m)
    <2>1. m.free \in Seq(Conns) /\ Elems(m.free) = Conns \ Used(m)
      BY <1>1 DEF Consistent, Worker, MemoryOK, PoolOK
    <2> QED BY <2>1, TailElems
  <1>4. m.fd \in [Conns -> Socks \cup {NoSock}]
    BY <1>1 DEF Consistent, Worker
  <1> HIDE DEF c, w
  <1>5. w.fd[c] = hand /\ Used(w) = Used(m) \cup {c} /\ \A d \in Used(m) : w.fd[d] = m.fd[d]
    BY <1>1, <1>2, <1>3, <1>4 DEF Used
  <1>6. InSlots(w) = InSlots(m) \cup {hand}
    BY <1>5 DEF InSlots
  <1>7. NoSock \notin InSlots(w)
    BY DEF InSlots, Used
  <1> QED BY <1>1, <1>2, <1>5, <1>6, <1>7 DEF Owned, c, w

LEMMA DropClientStep ==
  ASSUME IInv, DropClient
  PROVE  IInv'
  <1> DEFINE c == Head(m.free)
             w == GetConnection(m, hand)
  <1>1. /\ Consistent(w) /\ c \in Used(w) /\ w.open = m.open /\ Owned(w, NoSock)
        /\ c \notin w.active /\ c \notin w.posted /\ c \notin w.reusable /\ c \notin w.timer_set
    BY SlotTaken DEF DropClient
  <1>2. m' = CloseAcceptedConnection(w, c)
    BY DEF DropClient
  <1> HIDE DEF c, w
  <1>3. Consistent(m') /\ Closes(w, m', c)
    BY <1>1, <1>2, CloseAcceptedConnectionConsistent DEF Closes
  <1>4. Owned(m', NoSock) /\ m'.open \subseteq m.open
    BY <1>1, <1>3, ClosesOwned
  <1>5. TypeOK'
    BY <1>3 DEF IInv, TypeOK, Consistent, DropClient, mutexVars
  <1> QED
    BY <1>3, <1>4, <1>5 DEF IInv, DropClient, mutexVars, HandOK, QueueFresh, HandlerInUse

LEMMA CallbackStep ==
  ASSUME IInv, Callback
  PROVE  IInv'
  <1> DEFINE c == Head(m.free)
             g == GetConnection(m, hand)
             w == EventAddTimer(g, c)
             r == ReusableConnection(w, c, TRUE)
             p == [w EXCEPT !.ready = @ \cup {c}]
  <1>1. Consistent(g) /\ c \in Used(g) /\ g.open = m.open /\ Owned(g, NoSock)
    BY SlotTaken DEF Callback
  <1>2. \/ m' = PostEvent(p, c) /\ UNCHANGED unread
        \/ m' = HandleReadEvent(r, c) /\ UNCHANGED unread
        \/ m' = CloseConnection(r, c) /\ unread' = unread \ {hand}
    BY DEF Callback
  <1>3. /\ pc = "serve" /\ hand' = NoSock /\ pc' = "accept"
        /\ UNCHANGED <<listener, held, own, disabled, mode, todo, backlog, batch, elapsed, alarm, call, peer>>
    BY DEF Callback, mutexVars
  <1> HIDE DEF c, g
  <1>4. Consistent(w) /\ SameFds(g, w) /\ c \in Used(w)
    BY <1>1, EventAddTimerConsistent DEF SameFds, Used
  <1> HIDE DEF w
  <1>5. Consistent(r) /\ SameFds(g, r) /\ c \in Used(r)
    BY <1>4, ReusableConnectionConsistent DEF SameFds, Used
  <1> HIDE DEF r
  <1>6. Consistent(p) /\ SameFds(g, p) /\ c \in Used(p)
    <2>1. w \in Worker /\ c \in Conns
      BY <1>4 DEF Consistent, Used
    <2>2. p \in Worker /\ p.fd = w.fd /\ p.open = w.open
      BY <2>1 DEF Worker
    <2>3. MemoryOK(p)
      BY <1>4, <2>1 DEF Consistent, Worker, Used, MemoryOK, PoolOK, ReusableOK, PostedOK,
                        TimersOK, DescriptorsOK, EpollOK
    <2> QED BY <1>4, <2>2, <2>3 DEF Consistent, SameFds, Used
  <1> HIDE DEF p
  <1>7. Consistent(m') /\ Owned(m', NoSock) /\ m'.open \subseteq m.open /\ unread' \subseteq Socks
    <2>0. unread \subseteq Socks
      BY DEF IInv, TypeOK
    <2>1. CASE m' = PostEvent(p, c) /\ UNCHANGED unread
      <3>1. Consistent(m') /\ SameFds(g, m')
        BY <1>6, <2>1, PostEventConsistent DEF SameFds
      <3> QED BY <1>1, <2>0, <2>1, <3>1, SameFdsOwned DEF SameFds
    <2>2. CASE m' = HandleReadEvent(r, c) /\ UNCHANGED unread
      <3>1. Consistent(m') /\ SameFds(g, m')
        BY <1>5, <2>2, HandleReadEventConsistent DEF SameFds
      <3> QED BY <1>1, <2>0, <2>2, <3>1, SameFdsOwned DEF SameFds
    <2>3. CASE m' = CloseConnection(r, c) /\ unread' = unread \ {hand}
      <3>1. Consistent(m') /\ Closes(r, m', c)
        BY <1>5, <2>3, CloseConnectionConsistent DEF Closes
      <3>2. Owned(r, NoSock) /\ r.open = m.open
        BY <1>1, <1>5, SameFdsOwned DEF SameFds
      <3> QED BY <1>5, <2>0, <2>3, <3>1, <3>2, ClosesOwned
    <2> QED BY <1>2, <2>1, <2>2, <2>3
  <1>8. TypeOK'
    BY <1>3, <1>7 DEF IInv, TypeOK, Consistent
  <1> QED BY <1>3, <1>7, <1>8 DEF IInv, HandOK, QueueFresh, HandlerInUse

-----------------------------------------------------------------------------
(* Handlers and timers. *)

\* A handler run with memory w, the worker's memory but for flags and queues
\* that concern slot c.
LEMMA HandlerStep ==
  ASSUME IInv, NEW w, Consistent(w), SameFds(m, w), NEW c \in Used(w),
         NEW back \in {"dispatch", "posted"}, pc = back, MyRead(w, c, back),
         UNCHANGED <<mutexVars, acceptVars, elapsed, alarm, peer>>,
         batch' \subseteq batch
  PROVE  IInv'
  <1>1. /\ Consistent(m') /\ (SameFds(w, m') \/ Closes(w, m', c)) /\ unread' \subseteq Socks
        /\ \/ pc' = back /\ call' = call
           \/ pc' = "mywrite" /\ call' = [conn |-> c, back |-> back] /\ SameFds(w, m')
    BY MyReadStep DEF IInv, TypeOK
  <1>2. Owned(w, hand) /\ w.open = m.open
    BY SameFdsOwned DEF IInv, SameFds
  <1>3. Owned(m', hand) /\ m'.open \subseteq m.open
    BY <1>1, <1>2, SameFdsOwned, ClosesOwned DEF SameFds
  <1>4. /\ UNCHANGED <<listener, held, own, disabled, mode, hand, todo, backlog, elapsed, alarm, peer>>
        /\ hand = NoSock
    BY DEF mutexVars, acceptVars, IInv, HandOK
  <1>5. m' \in Worker /\ Consistent(m') /\ unread' \subseteq Socks
    BY <1>1 DEF Consistent
  <1>6. c \in 1..N
    BY DEF Used, Conns
  <1>7. call' \in [conn : 0..N, back : {"lock", "dispatch", "posted"}] /\ pc' \in {"mywrite", back}
    BY <1>1, <1>6, ConnectionsAssumption DEF IInv, TypeOK
  <1>8. TypeOK'
    BY <1>4, <1>5, <1>7 DEF IInv, TypeOK
  <1>9. HandlerInUse'
    <2>1. CASE pc' = back
      BY <2>1 DEF HandlerInUse
    <2>2. CASE pc' = "mywrite" /\ call' = [conn |-> c, back |-> back] /\ SameFds(w, m')
      BY <2>2 DEF HandlerInUse, SameFds, Used
    <2> QED BY <1>1, <2>1, <2>2
  <1>10. HandOK' /\ QueueFresh'
    BY <1>3, <1>4, <1>7 DEF IInv, HandOK, QueueFresh
  <1> QED BY <1>3, <1>4, <1>5, <1>8, <1>9, <1>10 DEF IInv

LEMMA DispatchConnectionStep ==
  ASSUME IInv, NEW e \in batch, DispatchConnection(e)
  PROVE  IInv'
  <1> DEFINE c == e.conn
             w == [m EXCEPT !.ready = @ \cup {c}]
  <1>1. c \in Conns
    BY DEF IInv, TypeOK, DispatchConnection, ListenerEntry, Entry
  <1>2. Consistent(w) /\ SameFds(m, w)
    <2>1. m \in Worker
      BY DEF IInv, Consistent
    <2>2. w \in Worker /\ SameFds(m, w)
      BY <1>1, <2>1 DEF Worker, SameFds
    <2>3. MemoryOK(w)
      BY <1>1, <2>1 DEF IInv, Consistent, Worker, Used, MemoryOK, PoolOK, ReusableOK, PostedOK,
                  TimersOK, DescriptorsOK, EpollOK
    <2> QED BY <2>2, <2>3 DEF Consistent
  <1>3. /\ pc = "dispatch" /\ batch' \subseteq batch
        /\ UNCHANGED <<mutexVars, acceptVars, elapsed, alarm, peer>>
        /\ \/ UNCHANGED <<m, pc, call, unread>>
           \/ c \in m.active /\ m' = PostEvent(w, c) /\ UNCHANGED <<pc, call, unread>>
           \/ c \in m.active /\ MyRead(w, c, "dispatch")
    BY DEF DispatchConnection
  <1> HIDE DEF c, w
  <1>4. c \in m.active => c \in Used(w)
    BY <1>2 DEF IInv, Consistent, MemoryOK, EpollOK, SameFds, Used
  <1>5. CASE UNCHANGED <<m, pc, call, unread>>
    <2>1. TypeOK'
      BY <1>3, <1>5 DEF IInv, TypeOK, mutexVars, acceptVars
    <2> QED BY <1>3, <1>5, <2>1 DEF IInv, mutexVars, acceptVars, HandOK, QueueFresh, HandlerInUse
  <1>6. CASE c \in m.active /\ m' = PostEvent(w, c) /\ UNCHANGED <<pc, call, unread>>
    <2>1. Consistent(m') /\ SameFds(m, m')
      BY <1>2, <1>4, <1>6, PostEventConsistent DEF SameFds
    <2>2. Owned(m', hand) /\ m'.open = m.open
      BY <2>1, SameFdsOwned DEF IInv, SameFds
    <2>3. TypeOK'
      BY <1>3, <1>6, <2>1 DEF IInv, TypeOK, Consistent, mutexVars, acceptVars
    <2> QED
      BY <1>3, <1>6, <2>1, <2>2, <2>3 DEF IInv, mutexVars, acceptVars, HandOK, QueueFresh, HandlerInUse
  <1>7. CASE c \in m.active /\ MyRead(w, c, "dispatch")
    BY <1>2, <1>3, <1>4, <1>7, HandlerStep
  <1> QED BY <1>3, <1>5, <1>6, <1>7

LEMMA RunPostedStep ==
  ASSUME IInv, RunPosted
  PROVE  IInv'
  <1> DEFINE c == Head(m.postedq)
             w == DeletePostedEvent(m, c)
  <1>1. c \in m.posted /\ c \in Used(m)
    <2>1. m.postedq \in Seq(Conns) /\ m.postedq # <<>>
      BY DEF IInv, Consistent, Worker, RunPosted
    <2> QED BY <2>1, TailElems DEF IInv, Consistent, MemoryOK, PostedOK
  <1>2. pc = "posted" /\ MyRead(w, c, "posted") /\ UNCHANGED <<mutexVars, acceptVars, batch, elapsed, alarm, peer>>
    BY DEF RunPosted
  <1> HIDE DEF c
  <1>3. Consistent(w) /\ SameFds(m, w) /\ c \in Used(w)
    BY <1>1, DeletePostedEventConsistent DEF IInv, SameFds, Used
  <1> HIDE DEF w
  <1> QED BY <1>2, <1>3, HandlerStep

\* mywrite() closes at most its own connection.
LEMMA MyWriteStep ==
  ASSUME IInv, MyWrite
  PROVE  IInv'
  <1> DEFINE c == call.conn
  <1>1. c \in Used(m) /\ call.back \in {"dispatch", "posted"} /\ Consistent(m)
    BY DEF IInv, TypeOK, HandlerInUse, MyWrite
  <1>2. /\ pc = "mywrite" /\ pc' = call.back /\ call' = NoCall
        /\ UNCHANGED <<listener, held, own, disabled, mode, hand, todo, backlog, batch, elapsed, alarm, peer>>
    BY DEF MyWrite, mutexVars, acceptVars
  <1>3. \/ m' \in {m, Untimed(m, c), HandleReadEvent(Untimed(m, c), c)} /\ UNCHANGED unread
        \/ m' = CloseConnection(m, c) /\ unread' = unread \ {m.fd[c]}
    BY DEF MyWrite
  <1> HIDE DEF c
  <1>4. Consistent(Untimed(m, c)) /\ SameFds(m, Untimed(m, c)) /\ c \in Used(Untimed(m, c))
    BY <1>1, UntimedConsistent DEF SameFds, Used
  <1>5. /\ Consistent(HandleReadEvent(Untimed(m, c), c))
        /\ SameFds(m, HandleReadEvent(Untimed(m, c), c))
    BY <1>4, HandleReadEventConsistent DEF SameFds
  <1>6. Consistent(m') /\ (SameFds(m, m') \/ Closes(m, m', c)) /\ unread' \subseteq Socks
    <2>1. CASE m' \in {m, Untimed(m, c), HandleReadEvent(Untimed(m, c), c)} /\ UNCHANGED unread
      BY <1>1, <1>4, <1>5, <2>1 DEF IInv, TypeOK, SameFds
    <2>2. CASE m' = CloseConnection(m, c) /\ unread' = unread \ {m.fd[c]}
      BY <1>1, <2>2, CloseConnectionConsistent DEF IInv, TypeOK, Closes
    <2> QED BY <1>3, <2>1, <2>2
  <1>7. Owned(m', hand) /\ m'.open \subseteq m.open
    BY <1>1, <1>6, SameFdsOwned, ClosesOwned DEF IInv, SameFds
  <1>8. call' \in [conn : 0..N, back : {"lock", "dispatch", "posted"}]
    BY <1>2, ConnectionsAssumption DEF NoCall
  <1>9. TypeOK'
    BY <1>1, <1>2, <1>6, <1>8 DEF IInv, TypeOK, Consistent
  <1> QED BY <1>1, <1>2, <1>6, <1>7, <1>9 DEF IInv, HandOK, QueueFresh, HandlerInUse

\* A worker that is killed leaves nothing but the lock word and, if other
\* workers share it, the accept queue.
LEMMA KilledStep ==
  ASSUME IInv, KilledBySigpipe
  PROVE  IInv'
  <1>1. /\ m' = NewWorker /\ pc' = "dead" /\ UNCHANGED <<own, peer>>
        /\ listener' = [active |-> FALSE, posted |-> FALSE]
        /\ held' = FALSE /\ disabled' = 0 /\ mode' = "lost"
        /\ batch' = {} /\ elapsed' = 0 /\ alarm' = FALSE
        /\ hand' = NoSock /\ todo' = 0 /\ call' = NoCall
        /\ backlog' \in {backlog, <<>>} /\ unread' \subseteq unread
    BY DEF KilledBySigpipe
  <1>2. Consistent(m') /\ m' \in Worker
    BY <1>1, NewWorkerConsistent DEF Consistent
  <1>3. m'.open = {} /\ Used(m') = {}
    BY <1>1 DEF NewWorker, Used
  <1>4. backlog' \in Seq(Socks) /\ Elems(backlog') \subseteq Elems(backlog) /\ Injective(backlog')
    <2>1. <<>> \in Seq(Socks) /\ Elems(<<>>) = {} /\ Injective(<<>>)
      BY DEF Elems, Injective
    <2> QED BY <1>1, <2>1 DEF IInv, TypeOK, QueueFresh
  <1>5. TypeOK'
    <2>1. call' \in [conn : 0..N, back : {"lock", "dispatch", "posted"}]
      BY <1>1, ConnectionsAssumption DEF NoCall
    <2>2. /\ listener' \in [active : BOOLEAN, posted : BOOLEAN] /\ elapsed' \in 0..Timeout
          /\ disabled' \in Int /\ todo' \in Nat /\ batch' \subseteq Entry \cup {ListenerEntry}
      BY <1>1, ConnectionsAssumption
    <2> QED BY <1>1, <1>2, <1>4, <2>1, <2>2 DEF IInv, TypeOK
  <1>6. Owned(m', hand')
    BY <1>1, <1>3 DEF Owned, InSlots
  <1>7. QueueFresh'
    BY <1>1, <1>3, <1>4 DEF IInv, QueueFresh
  <1> QED BY <1>1, <1>2, <1>5, <1>6, <1>7 DEF IInv, HandOK, HandlerInUse

\* The timers that are due leave the tree.
LEMMA ReleaseStep ==
  ASSUME IInv, Release
  PROVE  IInv'
  <1> DEFINE due == {c \in m.tree : m.left[c] = 0}
             r == ExpireTimers(m)
  <1>1. m \in Worker /\ Consistent(m)
    BY DEF IInv, Consistent
  <1>2. r = [m EXCEPT !.tree = @ \ due, !.timer_set = @ \ due, !.timedout = @ \cup due] /\ due \subseteq Conns
    BY <1>1 DEF ExpireTimers, Worker
  <1> HIDE DEF due, r
  <1>3. r \in Worker /\ SameFds(m, r)
    BY <1>1, <1>2 DEF Worker, SameFds
  <1>4. MemoryOK(r)
    BY <1>1, <1>2 DEF Consistent, Worker, Used, MemoryOK, PoolOK, ReusableOK, PostedOK,
                      TimersOK, DescriptorsOK, EpollOK
  <1>5. Consistent(m') /\ SameFds(m, m')
    BY <1>1, <1>3, <1>4 DEF Release, Consistent, SameFds, r
  <1>6. Owned(m', hand) /\ m'.open = m.open
    BY <1>5, SameFdsOwned DEF IInv, SameFds
  <1>7. TypeOK'
    BY <1>5, ConnectionsAssumption DEF IInv, TypeOK, Consistent, Release, acceptVars
  <1> QED BY <1>5, <1>6, <1>7 DEF IInv, Release, acceptVars, HandOK, QueueFresh, HandlerInUse

-----------------------------------------------------------------------------
(* The theorems. *)

LEMMA NextIInv == IInv /\ [Next]_vars => IInv'
  <1> SUFFICES ASSUME IInv, [Next]_vars PROVE IInv'
    OBVIOUS
  <1>1. CASE UNCHANGED vars
    <2>1. TypeOK'
      BY <1>1 DEF IInv, TypeOK, vars
    <2> QED BY <1>1, <2>1 DEF IInv, vars, HandOK, QueueFresh, HandlerInUse
  <1>2. CASE SkipMutex \/ TrylockWins \/ TrylockLoses
    BY <1>2, MutexSteps
  <1>3. CASE PollEvents
    BY <1>3, PollEventsStep
  <1>4. CASE PollTimeout \/ PollInterrupted
    BY <1>4, WaitSteps
  <1>5. CASE \E e \in batch : DispatchConnection(e)
    BY <1>5, DispatchConnectionStep
  <1>6. CASE DispatchListener \/ RunPostedAccept \/ AcceptAgain \/ AcceptFails \/ AcceptNoFiles
    BY <1>6, AcceptReturns
  <1>7. CASE AcceptAborted \/ OtherAccepts
    BY <1>7, QueueHeadLeaves
  <1>8. CASE AcceptOk
    BY <1>8, AcceptOkStep
  <1>9. CASE DrainConnection
    BY <1>9, DrainConnectionStep
  <1>10. CASE DrainDone \/ PostedDone \/ Alarm
    BY <1>10, DoneSteps
  <1>11. CASE RefuseClient
    BY <1>11, RefuseClientStep
  <1>12. CASE DropClient
    BY <1>12, DropClientStep
  <1>13. CASE Callback
    BY <1>13, CallbackStep
  <1>14. CASE Release
    BY <1>14, ReleaseStep
  <1>15. CASE RunPosted
    BY <1>15, RunPostedStep
  <1>16. CASE MyWrite
    BY <1>16, MyWriteStep
  <1>17. CASE \E s \in Socks : Connect(s) \/ PeerSends(s) \/ PeerCloses(s) \/ PeerResets(s)
    BY <1>17, ConnectStep, PeerSteps
  <1>18. CASE KilledBySigpipe
    BY <1>18, KilledStep
  <1> QED
    BY <1>1, <1>2, <1>3, <1>4, <1>5, <1>6, <1>7, <1>8, <1>9, <1>10, <1>11, <1>12, <1>13, <1>14,
       <1>15, <1>16, <1>17, <1>18 DEF Next, WorkerNext, Environment, Terminated

LEMMA SpecIInv == Spec => []IInv
  BY InitIInv, NextIInv, PTL DEF Spec

\* Every variable keeps its type: no counter of the free list or of the
\* reusable queue, no timer and no slot index leaves its range.
THEOREM SpecTypeOK == Spec => []TypeOK
  BY SpecIInv, IInvSuffices, PTL

\* However accept, drain, read, write, timeouts and failures follow each
\* other, the flags of the connections and the structures that hold them agree.
THEOREM SpecMemoryConsistent == Spec => []MemoryConsistent
  BY SpecIInv, IInvSuffices, PTL

\* The worker loses no descriptor and closes none twice.
THEOREM SpecDescriptorsOwned == Spec => []DescriptorsOwned
  BY SpecIInv, IInvSuffices, PTL

-----------------------------------------------------------------------------
(* The accept mutex.  MutexDiscipline is inductive together with where a    *)
(* listening event can be in each kind of iteration.                        *)

MutexInv ==
  /\ MutexDiscipline
  /\ mode = "lost" => ~listener.active
  /\ mode = "post" /\ pc = "wait" => own
  /\ mode = "post" /\ pc = "dispatch" /\ (ListenerEntry \in batch \/ listener.posted) => own
  /\ listener.posted => mode = "post" /\ pc = "dispatch"
  /\ ListenerEntry \in batch => mode # "lost"
  /\ pc \in {"lock", "wait", "posted"} => batch = {}
  /\ pc = "mywrite" /\ call.back = "posted" => batch = {}
  /\ pc = "mywrite" /\ call.back = "dispatch" => mode # "post"
  /\ pc \in {"accept", "drain", "serve"} /\ mode = "post" => batch = {}

\* Where myread() goes: back, or on to mywrite().
LEMMA MyReadGoes ==
  ASSUME NEW w, NEW c, NEW back, MyRead(w, c, back)
  PROVE  \/ pc' = back /\ call' = call
         \/ pc' = "mywrite" /\ call' = [conn |-> c, back |-> back] /\ c \notin w.closing
  BY DEF MyRead

\* drain_connections() sets c->close: myread() does not get to its recv().
LEMMA DrainStays == IInv /\ DrainConnection => pc' = "drain"
  <1> SUFFICES ASSUME IInv, DrainConnection PROVE pc' = "drain"
    OBVIOUS
  <1> DEFINE c == m.reusableq[Len(m.reusableq)]
             w == [m EXCEPT !.closing = @ \cup {c}]
  <1>1. MyRead(w, c, "drain")
    BY DEF DrainConnection
  <1>2. c \in w.closing
    BY DEF IInv, Consistent, Worker
  <1> HIDE DEF c, w
  <1> QED BY <1>1, <1>2, MyReadGoes

\* The listening event is not an entry of a client.
LEMMA ListenerNotEntry == ListenerEntry \notin Entry
  <1>1. ListenerEntry.conn = 0
    BY DEF ListenerEntry
  <1>2. \A e \in Entry : e.conn \in 1..N
    BY DEF Entry, Conns
  <1> QED BY <1>1, <1>2, ConnectionsAssumption

LEMMA InitMutexInv == Init => MutexInv
  <1> SUFFICES ASSUME Init PROVE MutexInv
    OBVIOUS
  <1>1. listener.active = FALSE /\ listener.posted = FALSE
    BY DEF Init
  <1>2. held = FALSE /\ own = FALSE /\ pc = "lock" /\ mode = "lost" /\ batch = {}
    BY DEF Init
  <1> QED BY <1>1, <1>2 DEF MutexInv, MutexDiscipline

LEMMA NextMutexInv == IInv /\ MutexInv /\ [Next]_vars => MutexInv'
  <1> SUFFICES ASSUME IInv, MutexInv, [Next]_vars PROVE MutexInv'
    OBVIOUS
  <1> USE DEF MutexInv, MutexDiscipline
  <1>1. listener \in [active : BOOLEAN, posted : BOOLEAN]
    BY DEF IInv, TypeOK
  <1>2. CASE UNCHANGED vars
    BY <1>2 DEF vars
  <1>3. CASE SkipMutex
    <2>1. pc = "lock" /\ pc' = "wait" /\ mode' = "skip" /\ UNCHANGED <<listener, held, own, batch>>
      BY <1>3 DEF SkipMutex
    <2> QED BY <2>1
  <1>4. CASE TrylockWins
    BY <1>1, <1>4 DEF TrylockWins
  <1>5. CASE TrylockLoses
    <2>1. /\ pc = "lock" /\ pc' = "wait" /\ mode' = "lost" /\ held' = FALSE
          /\ UNCHANGED <<own, batch>>
      BY <1>5 DEF TrylockLoses
    <2>2. listener'.active = FALSE /\ listener'.posted = listener.posted
      BY <1>1, <1>5 DEF TrylockLoses
    <2> QED BY <2>1, <2>2
  <1>6. CASE PollEvents
    <2>1. m.edges \subseteq Entry
      BY DEF IInv, Consistent, Worker
    <2>2. ListenerEntry \in batch' => listener.active
      BY <1>6, <2>1, ListenerNotEntry DEF PollEvents, ReadyEvents
    <2> QED BY <1>6, <2>2 DEF PollEvents, mutexVars
  <1>7. CASE PollTimeout
    BY <1>7 DEF PollTimeout, mutexVars
  <1>8. CASE PollInterrupted
    BY <1>8 DEF PollInterrupted, mutexVars
  <1>9. ASSUME NEW e \in batch, DispatchConnection(e) PROVE MutexInv'
    <2>1. pc = "dispatch" /\ batch' \subseteq batch /\ UNCHANGED mutexVars
      BY <1>9 DEF DispatchConnection
    <2>2. \/ pc' = pc /\ call' = call
          \/ pc' = "mywrite" /\ call' = [conn |-> e.conn, back |-> "dispatch"] /\ mode # "post"
      <3>1. CASE UNCHANGED <<pc, call>>
        BY <3>1
      <3>2. CASE mode # "post" /\ MyRead([m EXCEPT !.ready = @ \cup {e.conn}], e.conn, "dispatch")
        BY <2>1, <3>2, MyReadGoes
      <3> QED BY <1>9, <3>1, <3>2 DEF DispatchConnection
    <2>3. CASE pc' = pc /\ call' = call
      BY <2>1, <2>3 DEF mutexVars
    <2>4. CASE pc' = "mywrite" /\ call' = [conn |-> e.conn, back |-> "dispatch"] /\ mode # "post"
      <3>1. call'.back = "dispatch"
        BY <2>4
      <3>2. own = FALSE
        BY <2>4 DEF IInv, TypeOK
      <3> QED BY <2>1, <2>4, <3>1, <3>2 DEF mutexVars
    <2> QED BY <2>2, <2>3, <2>4
  <1>10. CASE DispatchListener
    <2>1. /\ pc = "dispatch" /\ ListenerEntry \in batch /\ batch' = batch \ {ListenerEntry}
          /\ UNCHANGED <<held, own, mode, call>> /\ listener'.active = listener.active
      BY <1>1, <1>10 DEF DispatchListener
    <2>2. CASE mode = "post"
      <3>1. pc' = "dispatch" /\ own
        BY <1>10, <2>1, <2>2 DEF DispatchListener
      <3> QED BY <2>1, <2>2, <3>1
    <2>3. CASE mode # "post"
      <3>1. pc' = "accept" /\ listener' = listener
        BY <1>10, <2>3 DEF DispatchListener
      <3>2. mode = "skip"
        BY <2>1, <2>3 DEF IInv, TypeOK
      <3> QED BY <2>1, <2>3, <3>1, <3>2
    <2> QED BY <2>2, <2>3
  <1>11. CASE RunPostedAccept
    BY <1>1, <1>11 DEF RunPostedAccept
  <1>12. CASE AcceptAgain
    BY <1>12 DEF AcceptAgain, mutexVars
  <1>13. CASE AcceptAborted
    BY <1>13 DEF AcceptAborted, mutexVars
  <1>14. CASE AcceptNoFiles
    <2>1. pc = "accept" /\ pc' = "dispatch" /\ UNCHANGED <<mode, batch>> /\ ~listener.posted
      BY <1>14 DEF AcceptNoFiles
    <2>2. CASE listener' = [listener EXCEPT !.active = FALSE] /\ own' = FALSE /\ held' = FALSE
      <3>1. listener'.active = FALSE /\ listener'.posted = listener.posted
        BY <1>1, <2>2
      <3> QED BY <2>1, <2>2, <3>1
    <2>3. CASE UNCHANGED <<listener, own, held>>
      BY <2>1, <2>3
    <2> QED BY <1>14, <2>2, <2>3 DEF AcceptNoFiles
  <1>15. CASE AcceptOk
    BY <1>15 DEF AcceptOk
  <1>16. CASE DrainConnection
    <2>1. pc = "drain" /\ UNCHANGED <<mutexVars, batch>>
      BY <1>16 DEF DrainConnection
    <2> QED BY <1>16, <2>1, DrainStays DEF mutexVars
  <1>17. CASE DrainDone
    BY <1>17 DEF DrainDone, mutexVars
  <1>18. CASE RefuseClient
    BY <1>18 DEF RefuseClient, mutexVars
  <1>19. CASE DropClient
    BY <1>19 DEF DropClient, mutexVars
  <1>20. CASE Callback
    <2>1. pc = "serve" /\ pc' = "accept" /\ UNCHANGED <<mutexVars, batch, call>>
      BY <1>20 DEF Callback
    <2> QED BY <2>1 DEF mutexVars
  <1>21. CASE Release
    BY <1>21 DEF Release
  <1>22. CASE RunPosted
    <2>1. pc = "posted" /\ UNCHANGED <<mutexVars, batch>>
      BY <1>22 DEF RunPosted
    <2>2. pc' = "posted" \/ (pc' = "mywrite" /\ call'.back = "posted")
      BY <1>22, MyReadGoes DEF RunPosted
    <2> QED BY <2>1, <2>2 DEF mutexVars
  <1>23. CASE PostedDone
    BY <1>23 DEF PostedDone, mutexVars
  <1>24. CASE MyWrite
    <2>1. pc = "mywrite" /\ pc' = call.back /\ UNCHANGED <<mutexVars, batch>>
      BY <1>24 DEF MyWrite
    <2>2. call' = NoCall
      BY <1>24 DEF MyWrite
    <2>3. call.back \in {"dispatch", "posted"}
      BY <2>1 DEF IInv, HandlerInUse, TypeOK
    <2> QED BY <2>1, <2>3 DEF mutexVars
  <1>25. CASE OtherAccepts
    BY <1>25 DEF OtherAccepts, workerVars, mutexVars
  <1>26. CASE Alarm
    BY <1>26 DEF Alarm, workerVars, mutexVars
  <1>27. ASSUME NEW s \in Socks, Connect(s) \/ PeerSends(s) \/ PeerCloses(s) \/ PeerResets(s)
         PROVE  MutexInv'
    <2>1. UNCHANGED <<mutexVars, pc, batch, call>>
      BY <1>27 DEF Connect, PeerSends, PeerCloses, PeerResets, workerVars
    <2> QED BY <2>1 DEF mutexVars
  <1>28. CASE AcceptFails
    BY <1>28 DEF AcceptFails, mutexVars
  <1>29. CASE KilledBySigpipe
    <2>1. /\ pc = "mywrite" /\ pc' = "dead" /\ own' = own /\ held' = FALSE /\ mode' = "lost"
          /\ batch' = {} /\ listener'.active = FALSE /\ listener'.posted = FALSE
      BY <1>29 DEF KilledBySigpipe
    <2> QED BY <2>1
  <1> QED
    BY <1>2, <1>3, <1>4, <1>5, <1>6, <1>7, <1>8, <1>9, <1>10, <1>11, <1>12, <1>13, <1>14, <1>15,
       <1>16, <1>17, <1>18, <1>19, <1>20, <1>21, <1>22, <1>23, <1>24, <1>25, <1>26, <1>27, <1>28,
       <1>29
    DEF Next, WorkerNext, Environment, Terminated

\* accept_mutex_held, the registration of the listening event and the lock
\* word stay in step, and clients are accepted with the mutex or in an
\* iteration that skipped it.
THEOREM SpecMutexDiscipline == Spec => []MutexDiscipline
  <1>1. MutexInv => MutexDiscipline
    BY DEF MutexInv
  <1>2. IInv /\ MutexInv /\ [Next]_vars => MutexInv'
    BY NextMutexInv
  <1> QED BY <1>1, <1>2, InitMutexInv, SpecIInv, PTL DEF Spec

-----------------------------------------------------------------------------
(* What clients can rely on. *)

\* The worker learns of bytes for slot c: it has an event of c's present user.
Woken(w, B, U, c) ==
  w.fd[c] \in U =>
    \/ c \in w.posted
    \/ \E e \in w.edges \cup B : e.conn = c /\ e.sock = w.fd[c] /\ e.instance = w.instance[c]

Waiting(w) == w.active \ w.timedout
AllWoken(w, B, U) == \A c \in Waiting(w) : Woken(w, B, U, c)
OthersWoken(w, B, U, c) == \A d \in Waiting(w) \ {c} : Woken(w, B, U, d)

Answered(w) == w.active \cap (w.tree \cup w.timedout) = {}
Kept(w) == Used(w) \subseteq w.active \cup w.tree \cup w.timedout

\* Timers are kept where nothing but the timer leads back to a connection.
TimersKept(w, r) == (Answered(w) => Answered(r)) /\ (Kept(w) => Kept(r))

\* A slot that changes hands is empty then, or has the other instance.
HandsOver(w, r) ==
  \A c \in Conns : r.fd[c] = w.fd[c] \/ r.fd[c] = NoSock \/ r.instance[c] # w.instance[c]

Cause(w) == w.reusable = {} \/ w.reusableq[Len(w.reusableq)] \in w.timedout

\* A handler at its send() is not done for another event, and has not timed out.
CallOK == pc = "mywrite" => call.conn \notin m.ready \cup m.timedout

RefusalOK ==
  m.free = <<>> =>
    /\ pc = "drain" => todo > 0 \/ Cause(m)
    /\ pc = "serve" => Cause(m)

SInv ==
  /\ AllWoken(m, batch, unread)
  /\ DeferredAccept => Answered(m)
  /\ Faults \cap {"ctl", "send"} = {} => Kept(m)
  /\ CallOK
  /\ RefusalOK

-----------------------------------------------------------------------------
(* The calls. *)

Untouched(w, r) ==
  /\ r.fd = w.fd /\ r.instance = w.instance
  /\ r.active = w.active /\ r.ready = w.ready /\ r.timedout = w.timedout
  /\ r.tree = w.tree /\ r.posted = w.posted /\ r.edges = w.edges
  /\ r.free = w.free

Closed(w, r, c) ==
  /\ r.fd = [w.fd EXCEPT ![c] = NoSock] /\ r.instance = w.instance
  /\ r.active = w.active \ {c} /\ r.ready = w.ready /\ r.timedout = w.timedout
  /\ r.tree = w.tree \ {c} /\ r.posted = w.posted \ {c}
  /\ r.edges = {e \in w.edges : e.sock # w.fd[c]}
  /\ r.free # <<>>

\* reusable_connection() moves a slot in one queue, and that counts for none.
LEMMA ReusableConnectionFrame ==
  ASSUME NEW w \in Worker, NEW c, NEW reusable \in BOOLEAN
  PROVE  LET r == ReusableConnection(w, c, reusable)
         IN  Untouched(w, r) /\ r.timer_set = w.timer_set
BY DEF ReusableConnection, Worker, Untouched

LEMMA EventDelTimerFrame ==
  ASSUME NEW w \in Worker, NEW c \in Conns
  PROVE  LET r == EventDelTimer(w, c)
         IN  /\ r.fd = w.fd /\ r.instance = w.instance
             /\ r.active = w.active /\ r.ready = w.ready /\ r.timedout = w.timedout
             /\ r.tree = w.tree \ {c} /\ r.posted = w.posted /\ r.edges = w.edges
             /\ r.free = w.free
BY DEF EventDelTimer, Worker

LEMMA EventAddTimerFrame ==
  ASSUME NEW w \in Worker, NEW c \in Conns
  PROVE  LET r == EventAddTimer(w, c)
         IN  /\ r.fd = w.fd /\ r.instance = w.instance
             /\ r.active = w.active /\ r.ready = w.ready /\ r.timedout = w.timedout
             /\ r.tree = w.tree \cup {c} /\ r.posted = w.posted /\ r.edges = w.edges
BY DEF EventAddTimer, Worker

LEMMA PostEventFrame ==
  ASSUME NEW w \in Worker, NEW c \in Conns
  PROVE  LET r == PostEvent(w, c)
         IN  /\ r.fd = w.fd /\ r.instance = w.instance
             /\ r.active = w.active /\ r.timedout = w.timedout /\ r.ready = w.ready
             /\ r.tree = w.tree /\ r.posted = w.posted \cup {c} /\ r.edges = w.edges
             /\ r.free = w.free
BY DEF PostEvent, Worker

LEMMA DeletePostedEventFrame ==
  ASSUME NEW w \in Worker, NEW c
  PROVE  LET r == DeletePostedEvent(w, c)
         IN  /\ r.fd = w.fd /\ r.instance = w.instance
             /\ r.active = w.active /\ r.timedout = w.timedout /\ r.ready = w.ready
             /\ r.tree = w.tree /\ r.posted = w.posted \ {c} /\ r.edges = w.edges
             /\ r.free = w.free
BY DEF DeletePostedEvent, Worker

\* A slot goes back to the free list and its descriptor is closed.
LEMMA ReleasedFrame ==
  ASSUME NEW w \in Worker, NEW c \in Conns
  PROVE  LET r == Released(w, c)
         IN  /\ r.fd = [w.fd EXCEPT ![c] = NoSock] /\ r.instance = w.instance
             /\ r.active = w.active \ {c} /\ r.ready = w.ready /\ r.timedout = w.timedout
             /\ r.tree = w.tree /\ r.posted = w.posted
             /\ r.edges = {e \in w.edges : e.sock # w.fd[c]}
             /\ r.free # <<>>
<1>1. w.free \in Seq(Conns)
  BY DEF Worker
<1>2. <<c>> \o w.free # <<>>
  BY <1>1
<1> DEFINE f == <<c>> \o w.free
           r == Released(w, c)
<1>3. r = [w EXCEPT !.free = f, !.free_n = @ + 1, !.active = @ \ {c}, !.fd[c] = NoSock,
                    !.open = @ \ {w.fd[c]}, !.interest = {e \in @ : e.sock # w.fd[c]},
                    !.edges = {e \in @ : e.sock # w.fd[c]}]
  BY DEF Worker, CloseFd, FreeConnection, Released
<1> HIDE DEF f, r
<1>4. /\ r.fd = [w.fd EXCEPT ![c] = NoSock] /\ r.instance = w.instance
      /\ r.active = w.active \ {c} /\ r.ready = w.ready /\ r.timedout = w.timedout
      /\ r.tree = w.tree /\ r.posted = w.posted
      /\ r.edges = {e \in w.edges : e.sock # w.fd[c]}
      /\ r.free = f
  BY <1>3 DEF Worker
<1> QED BY <1>2, <1>4 DEF f, r

LEMMA CloseConnectionFrame ==
  ASSUME NEW w, Consistent(w), NEW c \in Used(w)
  PROVE  Closed(w, CloseConnection(w, c), c)
<1> DEFINE u == IF c \in w.timer_set THEN EventDelTimer(w, c) ELSE w
           p == IF c \in u.posted THEN DeletePostedEvent(u, c) ELSE u
           q == Untied(w, c)
<1>1. w \in Worker /\ c \in Conns /\ w.tree = w.timer_set
  BY DEF Consistent, Used, MemoryOK, TimersOK
<1>2. Consistent(u)
  BY EventDelTimerConsistent
<1>3. /\ u.fd = w.fd /\ u.instance = w.instance
      /\ u.active = w.active /\ u.ready = w.ready /\ u.timedout = w.timedout
      /\ u.tree = w.tree \ {c} /\ u.posted = w.posted /\ u.edges = w.edges
  BY <1>1, EventDelTimerFrame
<1> HIDE DEF u
<1>4. Consistent(p)
  BY <1>2, DeletePostedEventConsistent
<1>5. /\ p.fd = w.fd /\ p.instance = w.instance
      /\ p.active = w.active /\ p.ready = w.ready /\ p.timedout = w.timedout
      /\ p.tree = w.tree \ {c} /\ p.posted = w.posted \ {c} /\ p.edges = w.edges
  <2>1. CASE c \in u.posted
    BY <1>2, <1>3, <2>1, DeletePostedEventFrame DEF Consistent
  <2>2. CASE c \notin u.posted
    BY <1>3, <2>2
  <2> QED BY <2>1, <2>2
<1>6. q = ReusableConnection(p, c, FALSE)
  BY DEF Untied, u, p
<1> HIDE DEF p
<1>7. Untouched(p, q)
  BY <1>4, <1>6, ReusableConnectionFrame DEF Consistent
<1>8. Consistent(q) /\ CloseConnection(w, c) = Released(q, c)
  BY CloseConnectionReleases
<1> HIDE DEF q
<1> QED BY <1>1, <1>5, <1>7, <1>8, ReleasedFrame DEF Consistent, Untouched, Closed

\* get_connection() changes nothing of the other slots.
LEMMA GetConnectionFrame ==
  ASSUME NEW w, Consistent(w), w.free # <<>>, NEW s
  PROVE  LET c == Head(w.free)
             r == GetConnection(w, s)
         IN  /\ c \in Conns \ Used(w)
             /\ r.fd = [w.fd EXCEPT ![c] = s]
             /\ r.instance = [w.instance EXCEPT ![c] = 1 - @]
             /\ r.active = w.active /\ r.ready = w.ready \ {c} /\ r.timedout = w.timedout \ {c}
             /\ r.tree = w.tree /\ r.posted = w.posted /\ r.edges = w.edges
<1> DEFINE c == Head(w.free)
<1>1. w \in Worker /\ c \in Conns \ Used(w)
  <2>1. w.free \in Seq(Conns) /\ Elems(w.free) = Conns \ Used(w)
    BY DEF Consistent, Worker, MemoryOK, PoolOK
  <2> QED BY <2>1, TailElems DEF Consistent
<1>2. c \notin w.active /\ c \notin w.posted
  BY <1>1 DEF Consistent, MemoryOK, PostedOK, EpollOK
<1> HIDE DEF c
<1>3. GetConnection(w, s) =
        [w EXCEPT !.free = Tail(@), !.free_n = @ - 1, !.fd[c] = s, !.instance[c] = 1 - @, !.buffer[c] = "none",
                  !.active = @ \ {c}, !.ready = @ \ {c}, !.timedout = @ \ {c}, !.timer_set = @ \ {c},
                  !.posted = @ \ {c}, !.closing = @ \ {c}, !.reusable = @ \ {c}]
  BY DEF GetConnection, c
<1> QED BY <1>1, <1>2, <1>3 DEF Worker, c

\* handle_read_event() registers, if the event is not registered nor ready.
LEMMA HandleReadEventFrame ==
  ASSUME NEW w \in Worker, NEW c \in Conns
  PROVE  LET r == HandleReadEvent(w, c)
             e == [sock |-> w.fd[c], conn |-> c, instance |-> w.instance[c]]
         IN  /\ r.fd = w.fd /\ r.instance = w.instance /\ r.ready = w.ready /\ r.timedout = w.timedout
             /\ r.tree = w.tree /\ r.posted = w.posted /\ r.free = w.free
             /\ IF c \in w.active \cup w.ready THEN r.active = w.active /\ r.edges = w.edges
                ELSE r.active = w.active \cup {c} /\ w.edges \subseteq r.edges
                     /\ (w.fd[c] \in unread => e \in r.edges)
BY DEF HandleReadEvent, EpollAddEvent, Worker, Readable

LEMMA ReceivedFrame ==
  ASSUME NEW w \in Worker, NEW c \in Conns, NEW got \in BOOLEAN
  PROVE  LET r == Received(w, c, got)
         IN  /\ r.fd = w.fd /\ r.instance = w.instance /\ r.ready = w.ready \ {c}
             /\ r.active = w.active /\ r.timedout = w.timedout
             /\ r.tree = w.tree /\ r.posted = w.posted /\ r.edges = w.edges
<1> DEFINE b == IF got THEN "data" ELSE IF w.buffer[c] = "none" THEN "empty" ELSE w.buffer[c]
           u == [w EXCEPT !.buffer[c] = b, !.ready = @ \ {c}]
<1>1. b \in {"none", "empty", "data"}
  BY DEF Worker
<1>2. Received(w, c, got) = ReusableConnection(u, c, FALSE)
  BY DEF Received, Worker
<1> HIDE DEF b
<1>3. u \in Worker
  BY <1>1 DEF Worker
<1>4. /\ u.fd = w.fd /\ u.instance = w.instance /\ u.ready = w.ready \ {c}
      /\ u.active = w.active /\ u.timedout = w.timedout
      /\ u.tree = w.tree /\ u.posted = w.posted /\ u.edges = w.edges
  BY DEF Worker
<1> HIDE DEF u
<1>5. Untouched(u, ReusableConnection(u, c, FALSE))
  BY <1>3, ReusableConnectionFrame
<1> QED BY <1>2, <1>4, <1>5 DEF Untouched
-----------------------------------------------------------------------------
(* What the calls mean for those who wait. *)

\* Two slots have different descriptors.
LEMMA OwnFd ==
  ASSUME NEW w, Consistent(w), NEW c \in Used(w), NEW d \in Used(w), c # d
  PROVE  w.fd[c] # w.fd[d]
BY DEF Consistent, MemoryOK, DescriptorsOK

\* A slot is closed.
LEMMA ClosedKeeps ==
  ASSUME NEW w, Consistent(w), NEW c \in Used(w), NEW r, Closed(w, r, c),
         NEW B, NEW U, OthersWoken(w, B, U, c)
  PROVE  AllWoken(r, B, U \ {w.fd[c]}) /\ TimersKept(w, r) /\ HandsOver(w, r) /\ r.free # <<>>
<1>1. w \in Worker /\ w.active \subseteq Used(w) /\ c \in Conns
  BY DEF Consistent, MemoryOK, EpollOK, Used
<1>2. \A d \in Conns \ {c} : r.fd[d] = w.fd[d]
  BY <1>1 DEF Closed, Worker
<1>3. r.fd[c] = NoSock /\ Used(r) = Used(w) \ {c}
  BY <1>1, <1>2 DEF Closed, Worker, Used
<1>4. AllWoken(r, B, U \ {w.fd[c]})
  <2> SUFFICES ASSUME NEW d \in Waiting(r), r.fd[d] \in U
               PROVE  \/ d \in r.posted
                      \/ \E e \in r.edges \cup B :
                           e.conn = d /\ e.sock = r.fd[d] /\ e.instance = r.instance[d]
    BY DEF AllWoken, Woken
  <2>1. d \in Waiting(w) \ {c} /\ d \in Used(w) /\ d \in Conns
    BY <1>1 DEF Waiting, Closed, Used
  <2>2. r.fd[d] = w.fd[d] /\ w.fd[d] # w.fd[c] /\ r.instance = w.instance
    BY <1>2, <2>1, OwnFd DEF Closed
  <2>3. \/ d \in w.posted
        \/ \E e \in w.edges \cup B : e.conn = d /\ e.sock = w.fd[d] /\ e.instance = w.instance[d]
    BY <2>1, <2>2 DEF OthersWoken, Woken
  <2> QED BY <2>1, <2>2, <2>3 DEF Closed
<1>5. TimersKept(w, r)
  BY <1>3 DEF TimersKept, Answered, Kept, Closed
<1>6. HandsOver(w, r) /\ r.free # <<>>
  BY <1>2, <1>3 DEF HandsOver, Closed
<1> QED BY <1>4, <1>5, <1>6

\* myread() for slot c, all other slots being cared for.
LEMMA MyReadKeeps ==
  ASSUME NEW w, Consistent(w), NEW c \in Used(w), NEW back, back # "mywrite", MyRead(w, c, back),
         NEW B, OthersWoken(w, B, unread, c)
  PROVE  /\ AllWoken(m', B, unread') /\ TimersKept(w, m') /\ HandsOver(w, m')
         /\ \/ pc' = back
            \/ pc' = "mywrite" /\ call'.conn \notin m'.ready \cup m'.timedout
<1>1. w \in Worker /\ c \in Conns
  BY DEF Consistent, Used
<1>2. CASE c \in w.timedout /\ m' = w /\ pc' = back /\ unread' = unread
  BY <1>2 DEF OthersWoken, AllWoken, Waiting, TimersKept, HandsOver
<1>3. CASE m' = CloseConnection(w, c) /\ unread' = unread \ {w.fd[c]} /\ pc' = back
  BY <1>3, CloseConnectionFrame, ClosedKeeps
<1>4. CASE /\ c \notin w.timedout \cup w.closing
           /\ m' = Received(w, c, w.fd[c] \in unread) /\ unread' = unread \ {w.fd[c]}
           /\ pc' = "mywrite" /\ call' = [conn |-> c, back |-> back]
  <2> DEFINE got == w.fd[c] \in unread
  <2>1. m' = Received(w, c, got) /\ got \in BOOLEAN
    BY <1>4
  <2> HIDE DEF got
  <2>2. /\ m'.fd = w.fd /\ m'.instance = w.instance /\ m'.ready = w.ready \ {c}
        /\ m'.active = w.active /\ m'.timedout = w.timedout
        /\ m'.tree = w.tree /\ m'.posted = w.posted /\ m'.edges = w.edges
    BY <1>1, <2>1, ReceivedFrame
  <2>3. AllWoken(m', B, unread')
    BY <1>4, <2>2 DEF AllWoken, OthersWoken, Woken, Waiting
  <2>4. TimersKept(w, m') /\ HandsOver(w, m')
    BY <2>2 DEF TimersKept, Answered, Kept, Used, HandsOver
  <2>5. call'.conn \notin m'.ready \cup m'.timedout
    BY <1>4, <2>2
  <2> QED BY <1>4, <2>3, <2>4, <2>5
<1> QED BY <1>2, <1>3, <1>4 DEF MyRead

\* The same where the worker's memory m differs from w in nothing but flags of
\* slot c that do not count here.
LEMMA HandlerKeeps ==
  ASSUME IInv, SInv, NEW w, Consistent(w), NEW c \in Used(w), NEW back \in {"dispatch", "posted"},
         MyRead(w, c, back), OthersWoken(w, batch', unread, c),
         w.fd = m.fd, w.instance = m.instance, w.active = m.active, w.tree = m.tree,
         w.timedout = m.timedout
  PROVE  SInv' /\ HandsOver(m, m')
<1>1. /\ AllWoken(m', batch', unread') /\ TimersKept(w, m') /\ HandsOver(w, m')
      /\ \/ pc' = back
         \/ pc' = "mywrite" /\ call'.conn \notin m'.ready \cup m'.timedout
  BY MyReadKeeps
<1>2. TimersKept(m, m') /\ HandsOver(m, m')
  BY <1>1 DEF TimersKept, Answered, Kept, Used, HandsOver
<1>3. CallOK' /\ RefusalOK'
  BY <1>1 DEF CallOK, RefusalOK
<1> QED BY <1>1, <1>2, <1>3 DEF SInv, TimersKept

-----------------------------------------------------------------------------
(* The steps. *)

\* Slot 0 of the listening socket is none of a client.
LEMMA ListenerIsNone == \A c \in Conns : ListenerEntry.conn # c
BY DEF ListenerEntry, Conns

\* The worker's memory stays, and nothing arrives.
LEMMA QuietStep ==
  ASSUME IInv, SInv, m' = m, unread' \subseteq unread, batch' = batch \/ batch' = batch \ {ListenerEntry},
         pc' \in {"lock", "wait", "dispatch", "accept", "posted"} \/ UNCHANGED <<pc, todo, call>>
  PROVE  SInv' /\ HandsOver(m, m')
<1>1. AllWoken(m', batch', unread')
  <2> SUFFICES ASSUME NEW c \in Waiting(m), m.fd[c] \in unread
               PROVE  \/ c \in m.posted
                      \/ \E e \in m.edges \cup batch' :
                           e.conn = c /\ e.sock = m.fd[c] /\ e.instance = m.instance[c]
    BY DEF AllWoken, Woken
  <2>1. c \in Conns
    BY DEF Waiting, IInv, Consistent, Worker
  <2>2. \/ c \in m.posted
        \/ \E e \in m.edges \cup batch :
             e.conn = c /\ e.sock = m.fd[c] /\ e.instance = m.instance[c]
    BY DEF SInv, AllWoken, Woken
  <2> QED BY <2>1, <2>2, ListenerIsNone
<1>2. CallOK' /\ RefusalOK'
  BY DEF SInv, CallOK, RefusalOK
<1> QED BY <1>1, <1>2 DEF SInv, HandsOver

LEMMA QuietSteps ==
  ASSUME IInv, SInv,
         \/ SkipMutex \/ TrylockWins \/ TrylockLoses
         \/ DispatchListener \/ RunPostedAccept
         \/ AcceptAgain \/ AcceptAborted \/ AcceptFails \/ AcceptNoFiles
         \/ PostedDone \/ Alarm \/ OtherAccepts
         \/ \E s \in Socks : Connect(s)
  PROVE  SInv' /\ HandsOver(m, m')
<1>1. CASE SkipMutex \/ TrylockWins \/ TrylockLoses
  BY <1>1, QuietStep DEF SkipMutex, TrylockWins, TrylockLoses
<1>2. CASE DispatchListener
  <2>1. pc' \in {"dispatch", "accept"}
    BY <1>2 DEF DispatchListener
  <2> QED BY <1>2, <2>1, QuietStep DEF DispatchListener
<1>3. CASE \/ RunPostedAccept \/ AcceptAgain \/ AcceptAborted \/ AcceptFails \/ AcceptNoFiles
           \/ PostedDone
  BY <1>3, QuietStep DEF RunPostedAccept, AcceptAgain, AcceptAborted, AcceptFails, AcceptNoFiles,
                         PostedDone
<1>4. CASE Alarm \/ OtherAccepts \/ \E s \in Socks : Connect(s)
  BY <1>4, QuietStep DEF Alarm, OtherAccepts, Connect, workerVars
<1> QED BY <1>1, <1>2, <1>3, <1>4

\* stime_update() leaves everything but the remaining times.
LEMMA TickFrame ==
  ASSUME NEW w \in Worker, NEW d, NEW E
  PROVE  LET r == [Tick(w, d) EXCEPT !.edges = E]
         IN  /\ Untouched(w, Tick(w, d)) /\ Untouched([w EXCEPT !.edges = E], r)
             /\ r.edges = E
<1> DEFINE L == [c \in Conns |-> IF w.left[c] > d THEN w.left[c] - d ELSE 0]
<1>1. Tick(w, d) = [w EXCEPT !.left = L]
  BY DEF Tick, Worker
<1> HIDE DEF L
<1> QED BY <1>1 DEF Worker, Untouched

\* epoll_wait() moves the ready list into an empty batch.
LEMMA PollSteps ==
  ASSUME IInv, MutexInv, SInv, PollEvents \/ PollTimeout \/ PollInterrupted
  PROVE  SInv' /\ HandsOver(m, m')
<1>1. batch = {} /\ pc' = "dispatch" /\ unread' = unread
  BY DEF MutexInv, PollEvents, PollTimeout, PollInterrupted
<1>2. m \in Worker
  BY DEF IInv, Consistent
<1>3. \E d, E : \/ m' = Tick(m, d) /\ batch' = batch
                \/ m' = [Tick(m, d) EXCEPT !.edges = E] /\ m.edges \subseteq batch'
  BY DEF PollEvents, PollTimeout, PollInterrupted, ReadyEvents
<1>4. /\ m'.fd = m.fd /\ m'.instance = m.instance /\ m'.active = m.active /\ m'.timedout = m.timedout
      /\ m'.tree = m.tree /\ m'.posted = m.posted
      /\ m.edges \subseteq m'.edges \cup batch'
  <2>1. PICK d : \E E : \/ m' = Tick(m, d) /\ batch' = batch
                        \/ m' = [Tick(m, d) EXCEPT !.edges = E] /\ m.edges \subseteq batch'
    BY <1>3
  <2>2. PICK E : \/ m' = Tick(m, d) /\ batch' = batch
                 \/ m' = [Tick(m, d) EXCEPT !.edges = E] /\ m.edges \subseteq batch'
    BY <2>1
  <2>3. /\ Untouched(m, Tick(m, d))
        /\ Untouched([m EXCEPT !.edges = E], [Tick(m, d) EXCEPT !.edges = E])
    BY <1>2, TickFrame
  <2> QED BY <1>2, <2>2, <2>3 DEF Untouched, Worker
<1>5. AllWoken(m', batch', unread')
  BY <1>1, <1>4 DEF SInv, AllWoken, Woken, Waiting
<1>6. Answered(m) => Answered(m')
  BY <1>4 DEF Answered
<1>7. Kept(m) => Kept(m')
  BY <1>4 DEF Kept, Used
<1>8. CallOK' /\ RefusalOK'
  BY <1>1 DEF CallOK, RefusalOK
<1> QED BY <1>4, <1>5, <1>6, <1>7, <1>8 DEF SInv, HandsOver

\* An event of the batch is looked at: it was not the one that counts, or its
\* connection is in posted_events now, or is read.
LEMMA DispatchConnectionServes ==
  ASSUME IInv, SInv, NEW e \in batch, DispatchConnection(e)
  PROVE  SInv' /\ HandsOver(m, m')
<1> DEFINE c == e.conn
           w == [m EXCEPT !.ready = @ \cup {c}]
<1>1. /\ m \in Worker /\ c \in Conns /\ c # 0 /\ m.active \subseteq Used(m)
      /\ pc = "dispatch" /\ batch' = batch \ {e}
  <2>1. c \in Conns
    BY DEF IInv, TypeOK, DispatchConnection, ListenerEntry, Entry
  <2> QED BY <2>1 DEF DispatchConnection, IInv, Consistent, MemoryOK, EpollOK
<1>2. /\ w.fd = m.fd /\ w.instance = m.instance /\ w.active = m.active /\ w.tree = m.tree
      /\ w.timedout = m.timedout /\ w.posted = m.posted /\ w.edges = m.edges /\ w.free = m.free
      /\ w \in Worker
  BY <1>1 DEF Worker
<1>3. OthersWoken(w, batch', unread, c)
  BY <1>1, <1>2 DEF SInv, AllWoken, OthersWoken, Woken, Waiting
<1>4. CASE (Stale(e) \/ c \notin m.active) /\ UNCHANGED <<m, pc, call, unread>>
  <2>1. AllWoken(m, batch', unread)
    <3> SUFFICES ASSUME NEW d \in Waiting(m), m.fd[d] \in unread
                 PROVE  \/ d \in m.posted
                        \/ \E x \in m.edges \cup batch' :
                             x.conn = d /\ x.sock = m.fd[d] /\ x.instance = m.instance[d]
      BY DEF AllWoken, Woken
    <3>1. \/ d \in m.posted
          \/ \E x \in m.edges \cup batch :
               x.conn = d /\ x.sock = m.fd[d] /\ x.instance = m.instance[d]
      BY DEF SInv, AllWoken, Woken
    <3>2. d \in m.active /\ m.fd[d] # NoSock
      BY <1>1 DEF Waiting, Used
    <3> QED BY <1>1, <1>4, <3>1, <3>2 DEF Stale
  <2>2. CallOK' /\ RefusalOK'
    BY <1>1, <1>4 DEF CallOK, RefusalOK
  <2> QED BY <1>4, <2>1, <2>2 DEF SInv, HandsOver
<1>5. CASE m' = PostEvent(w, c) /\ UNCHANGED <<pc, call, unread>>
  <2>1. /\ m'.fd = m.fd /\ m'.instance = m.instance /\ m'.active = m.active
        /\ m'.timedout = m.timedout /\ m'.tree = m.tree /\ m'.posted = m.posted \cup {c}
        /\ m'.edges = m.edges
    BY <1>1, <1>2, <1>5, PostEventFrame
  <2> HIDE DEF c, w
  <2>2. AllWoken(m', batch', unread')
    <3> SUFFICES ASSUME NEW d \in Waiting(m), d # c PROVE Woken(m', batch', unread', d)
      BY <2>1 DEF AllWoken, Waiting, Woken
    <3>1. Woken(w, batch', unread, d)
      BY <1>2, <1>3 DEF OthersWoken, Waiting
    <3> QED BY <1>2, <1>5, <2>1, <3>1 DEF Woken
  <2>3. TimersKept(m, m') /\ HandsOver(m, m')
    BY <2>1 DEF TimersKept, Answered, Kept, Used, HandsOver
  <2>4. CallOK' /\ RefusalOK'
    BY <1>1, <1>5 DEF CallOK, RefusalOK
  <2> QED BY <2>2, <2>3, <2>4 DEF SInv, TimersKept
<1>6. CASE ~Stale(e) /\ c \in m.active /\ MyRead(w, c, "dispatch")
  <2>1. Consistent(w) /\ c \in Used(w)
    <3>1. MemoryOK(w)
      BY <1>1 DEF IInv, Consistent, Worker, Used, MemoryOK, PoolOK, ReusableOK, PostedOK,
                  TimersOK, DescriptorsOK, EpollOK
    <3> QED BY <1>1, <1>2, <1>6, <3>1 DEF Consistent, Used
  <2> HIDE DEF c, w
  <2> QED BY <1>2, <1>3, <1>6, <2>1, HandlerKeeps
<1> QED BY <1>4, <1>5, <1>6 DEF DispatchConnection

LEMMA RunPostedServes ==
  ASSUME IInv, SInv, RunPosted
  PROVE  SInv' /\ HandsOver(m, m')
<1> DEFINE c == Head(m.postedq)
           w == DeletePostedEvent(m, c)
<1>1. m \in Worker /\ c \in m.posted /\ c \in Used(m)
  <2>1. m.postedq \in Seq(Conns) /\ m.postedq # <<>>
    BY DEF IInv, Consistent, Worker, RunPosted
  <2> QED BY <2>1, TailElems DEF IInv, Consistent, MemoryOK, PostedOK
<1>2. MyRead(w, c, "posted") /\ UNCHANGED batch
  BY DEF RunPosted
<1> HIDE DEF c
<1>3. Consistent(w) /\ c \in Used(w)
  BY <1>1, DeletePostedEventConsistent DEF IInv, Used
<1>4. /\ w.fd = m.fd /\ w.instance = m.instance /\ w.active = m.active /\ w.tree = m.tree
      /\ w.timedout = m.timedout /\ w.posted = m.posted \ {c} /\ w.edges = m.edges
  BY <1>1, DeletePostedEventFrame
<1> HIDE DEF w
<1>5. OthersWoken(w, batch', unread, c)
  BY <1>2, <1>4 DEF SInv, AllWoken, OthersWoken, Woken, Waiting
<1> QED BY <1>2, <1>3, <1>4, <1>5, HandlerKeeps

\* The last of the reusable queue is closed, or it has timed out and then so
\* it will have at the next turn.
LEMMA DrainConnectionServes ==
  ASSUME IInv, SInv, DrainConnection
  PROVE  SInv' /\ HandsOver(m, m')
<1> DEFINE c == m.reusableq[Len(m.reusableq)]
           w == [m EXCEPT !.closing = @ \cup {c}]
<1>1. m \in Worker /\ c \in Used(m) /\ c \in Conns
  <2>1. m.reusableq \in Seq(Conns) /\ m.reusableq # <<>>
    BY DEF IInv, Consistent, Worker, DrainConnection
  <2>2. Len(m.reusableq) \in DOMAIN m.reusableq
    BY <2>1
  <2> QED BY <2>2 DEF IInv, Consistent, MemoryOK, ReusableOK, Elems, Used
<1>2. MyRead(w, c, "drain") /\ UNCHANGED <<batch, hand>> /\ pc = "drain"
  BY DEF DrainConnection, mutexVars
<1>3. /\ w.fd = m.fd /\ w.instance = m.instance /\ w.active = m.active /\ w.tree = m.tree
      /\ w.timedout = m.timedout /\ w.posted = m.posted /\ w.edges = m.edges /\ w.free = m.free
      /\ w.reusableq = m.reusableq /\ c \in w.closing /\ w \in Worker
  BY <1>1 DEF Worker
<1>4. Consistent(w) /\ c \in Used(w)
  <2>1. MemoryOK(w)
    BY <1>1 DEF IInv, Consistent, Worker, Used, MemoryOK, PoolOK, ReusableOK, PostedOK,
                TimersOK, DescriptorsOK, EpollOK
  <2> QED BY <1>1, <1>3, <2>1 DEF Consistent, Used
<1>5. OthersWoken(w, batch', unread, c)
  BY <1>2, <1>3 DEF SInv, AllWoken, OthersWoken, Woken, Waiting
<1>6. c = w.reusableq[Len(w.reusableq)]
  BY <1>3
<1> HIDE DEF c, w
<1>7. /\ AllWoken(m', batch', unread') /\ TimersKept(w, m') /\ HandsOver(w, m')
      /\ \/ pc' = "drain"
         \/ pc' = "mywrite" /\ call'.conn \notin m'.ready \cup m'.timedout
  BY <1>2, <1>4, <1>5, MyReadKeeps
<1>8. pc' = "drain" /\ (m'.free = <<>> => Cause(m'))
  <2>1. CASE c \in w.timedout /\ m' = w /\ pc' = "drain"
    BY <1>6, <2>1 DEF Cause
  <2>2. CASE m' = CloseConnection(w, c) /\ pc' = "drain"
    BY ZenonT(60), <1>4, <2>2, CloseConnectionFrame DEF Closed
  <2> QED BY <1>2, <1>3, <2>1, <2>2 DEF MyRead
<1>9. CallOK' /\ RefusalOK'
  BY <1>8 DEF CallOK, RefusalOK
<1>10. TimersKept(m, m') /\ HandsOver(m, m')
  BY <1>3, <1>7 DEF TimersKept, Answered, Kept, Used, HandsOver
<1> QED BY <1>7, <1>9, <1>10 DEF SInv, TimersKept

\* The memory but for what does not count here.
LEMMA UntouchedKeeps ==
  ASSUME NEW w, NEW r, Untouched(w, r), NEW B, NEW U, AllWoken(w, B, U)
  PROVE  AllWoken(r, B, U) /\ TimersKept(w, r) /\ HandsOver(w, r)
BY DEF Untouched, AllWoken, Woken, Waiting, TimersKept, Answered, Kept, Used, HandsOver

\* drain_connections() gets to try at least one connection.
LEMMA AcceptOkServes ==
  ASSUME IInv, SInv, AcceptOk
  PROVE  SInv' /\ HandsOver(m, m')
<1>1. m \in Worker /\ m' = [m EXCEPT !.open = @ \cup {Head(backlog)}] /\ UNCHANGED <<batch, unread>>
  BY DEF AcceptOk, IInv, Consistent
<1>2. Untouched(m, m')
  BY <1>1 DEF Untouched, Worker
<1>3. AllWoken(m', batch', unread') /\ TimersKept(m, m') /\ HandsOver(m, m')
  BY <1>1, <1>2, UntouchedKeeps DEF SInv
<1>4. \/ m.free = <<>> /\ pc' = "drain" /\ todo' = DrainCount
      \/ m.free # <<>> /\ pc' = "serve"
  BY DEF AcceptOk
<1>5. DrainCount > 0
  <2> DEFINE share == m.reusable_n \div DrainDiv
             least == IF share < DrainMax THEN share ELSE DrainMax
  <2>1. m.reusable_n \in Int /\ DrainDiv \in Nat \ {0} /\ DrainMax \in Nat
    BY <1>1, EventLoopAssumption DEF Worker
  <2>2. share \in Int
    BY <2>1
  <2> HIDE DEF share
  <2>3. least \in Int
    BY <2>1, <2>2
  <2>4. DrainCount = IF least > 1 THEN least ELSE 1
    BY DEF DrainCount, share
  <2> QED BY <2>3, <2>4
<1>6. CallOK' /\ RefusalOK'
  BY <1>2, <1>4, <1>5 DEF CallOK, RefusalOK, Untouched
<1> QED BY <1>3, <1>6 DEF SInv, TimersKept

LEMMA DrainDoneServes ==
  ASSUME IInv, SInv, DrainDone
  PROVE  SInv' /\ HandsOver(m, m')
<1>1. UNCHANGED <<m, batch, unread>> /\ pc = "drain" /\ pc' = "serve"
  BY DEF DrainDone
<1>2. m.free = <<>> => Cause(m)
  <2>1. CASE todo = 0
    BY <1>1, <2>1 DEF SInv, RefusalOK
  <2>2. CASE m.reusableq = <<>>
    <3>1. m.reusable = Elems(m.reusableq) /\ Elems(<<>>) = {}
      BY DEF IInv, Consistent, MemoryOK, ReusableOK, Elems
    <3> QED BY <2>2, <3>1 DEF Cause
  <2> QED BY <2>1, <2>2 DEF DrainDone
<1> QED BY <1>1, <1>2 DEF SInv, HandsOver, CallOK, RefusalOK

\* The refused client was in no slot.
LEMMA RefuseClientServes ==
  ASSUME IInv, SInv, RefuseClient
  PROVE  SInv' /\ HandsOver(m, m')
<1>1. /\ hand \notin InSlots(m) /\ m' = CloseFd(m, hand) /\ pc' = "dispatch"
      /\ batch' = batch /\ unread' \subseteq unread
  BY DEF IInv, Owned, RefuseClient
<1>2. /\ m'.fd = m.fd /\ m'.instance = m.instance /\ m'.active = m.active
      /\ m'.timedout = m.timedout /\ m'.tree = m.tree /\ m'.posted = m.posted
      /\ m'.edges = {e \in m.edges : e.sock # hand}
  BY <1>1 DEF CloseFd, IInv, Consistent, Worker
<1>3. AllWoken(m', batch', unread')
  <2>1. \A c \in Waiting(m) : m.fd[c] # hand
    BY <1>1 DEF Waiting, InSlots, IInv, Consistent, MemoryOK, EpollOK
  <2> QED BY <1>1, <1>2, <2>1 DEF SInv, AllWoken, Woken, Waiting
<1>4. TimersKept(m, m') /\ HandsOver(m, m')
  BY <1>2 DEF TimersKept, Answered, Kept, Used, HandsOver
<1>5. CallOK' /\ RefusalOK'
  BY <1>1 DEF CallOK, RefusalOK
<1> QED BY <1>3, <1>4, <1>5 DEF SInv, TimersKept

\* A new client gets a slot, which nobody waits for.
LEMMA SlotGiven ==
  ASSUME IInv, SInv, pc = "serve", m.free # <<>>
  PROVE  LET c == Head(m.free)
             g == GetConnection(m, hand)
         IN  /\ Consistent(g) /\ c \in Used(g) /\ g.fd[c] = hand
             /\ c \notin g.active \cup g.tree \cup g.timedout \cup g.ready
             /\ AllWoken(g, batch, unread)
             /\ Answered(m) => Answered(g)
             /\ Kept(m) => Used(g) \ {c} \subseteq g.active \cup g.tree \cup g.timedout
             /\ \A d \in Conns : g.fd[d] = m.fd[d] \/ g.instance[d] # m.instance[d]
             /\ c \notin g.posted /\ c \notin g.reusable /\ c \notin g.timer_set
             /\ g.fd[c] # NoSock /\ m.fd[c] = NoSock /\ g.instance[c] # m.instance[c]
             /\ \A d \in Conns \ {c} : g.fd[d] = m.fd[d] /\ g.instance[d] = m.instance[d]
<1> DEFINE c == Head(m.free)
           g == GetConnection(m, hand)
<1>1. /\ Consistent(g) /\ c \in Used(g) /\ g.fd[c] = hand
      /\ c \notin g.active \cup g.posted \cup g.reusable \cup g.timer_set
  BY SlotTaken
<1>2. Consistent(m) /\ m \in Worker
  BY DEF IInv, Consistent
<1>3. /\ c \in Conns \ Used(m)
      /\ g.fd = [m.fd EXCEPT ![c] = hand]
      /\ g.instance = [m.instance EXCEPT ![c] = 1 - @]
      /\ g.active = m.active /\ g.ready = m.ready \ {c} /\ g.timedout = m.timedout \ {c}
      /\ g.tree = m.tree /\ g.posted = m.posted /\ g.edges = m.edges
  BY <1>2, GetConnectionFrame
<1> HIDE DEF c, g
<1>4. c \notin m.active /\ c \notin m.tree /\ c \notin g.tree
  BY <1>2, <1>3 DEF Consistent, MemoryOK, EpollOK, TimersOK
<1>5. /\ \A d \in Conns \ {c} : g.fd[d] = m.fd[d] /\ g.instance[d] = m.instance[d]
      /\ m.instance[c] \in {0, 1} /\ g.instance[c] = 1 - m.instance[c]
  BY <1>2, <1>3 DEF Worker
<1>6. AllWoken(g, batch, unread)
  <2> SUFFICES ASSUME NEW d \in Waiting(g) PROVE Woken(g, batch, unread, d)
    BY DEF AllWoken
  <2>1. d \in Waiting(m) /\ d \in Conns \ {c}
    BY <1>2, <1>3, <1>4 DEF Waiting, Worker
  <2>2. Woken(m, batch, unread, d)
    BY <2>1 DEF SInv, AllWoken
  <2> QED BY <1>3, <1>5, <2>1, <2>2 DEF Woken
<1>7. Answered(m) => Answered(g)
  BY <1>3 DEF Answered
<1>8. Kept(m) => Used(g) \ {c} \subseteq g.active \cup g.tree \cup g.timedout
  BY <1>3, <1>5 DEF Kept, Used
<1>9. g.instance[c] # m.instance[c] /\ g.fd[c] # NoSock /\ m.fd[c] = NoSock
  BY <1>1, <1>3, <1>5 DEF Used
<1> QED BY <1>1, <1>3, <1>4, <1>5, <1>6, <1>7, <1>8, <1>9 DEF c, g

LEMMA DropClientServes ==
  ASSUME IInv, SInv, DropClient
  PROVE  SInv' /\ HandsOver(m, m')
<1> DEFINE c == Head(m.free)
           g == GetConnection(m, hand)
<1>1. /\ Consistent(g) /\ c \in Used(g) /\ g.fd[c] = hand
      /\ c \notin g.active \cup g.tree \cup g.timedout \cup g.ready
      /\ AllWoken(g, batch, unread)
      /\ Answered(m) => Answered(g)
      /\ Kept(m) => Used(g) \ {c} \subseteq g.active \cup g.tree \cup g.timedout
      /\ c \notin g.posted
      /\ \A d \in Conns \ {c} : g.fd[d] = m.fd[d]
  BY SlotGiven DEF DropClient
<1>2. m' = CloseAcceptedConnection(g, c) /\ pc' = "dispatch" /\ batch' = batch /\ unread' = unread \ {hand}
  BY DEF DropClient
<1> HIDE DEF c, g
<1>3. Released(g, c) = m'
  <2>1. FreeConnection(g, c).active \ {c} = FreeConnection(g, c).active
    BY <1>1 DEF FreeConnection, Consistent, Worker
  <2>2. g \in Worker
    BY <1>1 DEF Consistent
  <2> QED BY ZenonT(60), <1>2, <2>1, <2>2 DEF Released, CloseAcceptedConnection, FreeConnection, CloseFd, Worker
<1>4. Closed(g, m', c)
  BY <1>1, <1>3, ReleasedFrame DEF Consistent, Closed, Used
<1>5. OthersWoken(g, batch, unread, c)
  BY <1>1 DEF OthersWoken, AllWoken, Waiting
<1>6. AllWoken(m', batch, unread \ {g.fd[c]}) /\ m'.free # <<>>
  BY <1>1, <1>4, <1>5, ClosedKeeps
<1>7. /\ Answered(g) => Answered(m')
      /\ m'.fd = [g.fd EXCEPT ![c] = NoSock] /\ c \in Conns /\ g.fd \in [Conns -> Socks \cup {NoSock}]
  BY <1>1, <1>4 DEF Closed, Answered, Used, Consistent, Worker
<1>8. Kept(m) => Kept(m')
  <2>1. Used(m') = Used(g) \ {c}
    BY <1>7 DEF Used
  <2> QED BY <1>1, <1>4, <2>1 DEF Kept, Closed
<1>9. HandsOver(m, m')
  BY <1>1, <1>7 DEF HandsOver
<1>10. CallOK' /\ RefusalOK'
  BY <1>2 DEF CallOK, RefusalOK
<1> QED BY <1>1, <1>2, <1>6, <1>7, <1>8, <1>9, <1>10 DEF SInv

\* callback(): posted, or registered with the timer running, or closed again.
LEMMA CallbackServes ==
  ASSUME IInv, SInv, Callback
  PROVE  SInv' /\ HandsOver(m, m')
<1> DEFINE c == Head(m.free)
           g == GetConnection(m, hand)
           w == EventAddTimer(g, c)
           p == [w EXCEPT !.ready = @ \cup {c}]
           r == ReusableConnection(w, c, TRUE)
<1>1. /\ Consistent(g) /\ c \in Used(g) /\ g.fd[c] = hand
      /\ c \notin g.active \cup g.tree \cup g.timedout \cup g.ready
      /\ AllWoken(g, batch, unread)
      /\ Answered(m) => Answered(g)
      /\ Kept(m) => Used(g) \ {c} \subseteq g.active \cup g.tree \cup g.timedout
      /\ \A d \in Conns : g.fd[d] = m.fd[d] \/ g.instance[d] # m.instance[d]
  BY SlotGiven DEF Callback
<1>2. /\ batch' = batch /\ pc' = "accept"
      /\ \/ DeferredAccept /\ m' = PostEvent(p, c) /\ UNCHANGED unread
         \/ ~DeferredAccept /\ m' = HandleReadEvent(r, c) /\ UNCHANGED unread
         \/ /\ ~DeferredAccept /\ "ctl" \in Faults /\ m' = CloseConnection(r, c)
            /\ unread' = unread \ {hand}
  BY DEF Callback
<1> HIDE DEF c, g
<1>3. /\ w.fd = g.fd /\ w.instance = g.instance /\ w.active = g.active /\ w.ready = g.ready
      /\ w.timedout = g.timedout /\ w.tree = g.tree \cup {c} /\ w.posted = g.posted /\ w.edges = g.edges
      /\ Consistent(w) /\ c \in Used(w) /\ c \in Conns
  BY <1>1, EventAddTimerFrame, EventAddTimerConsistent DEF Consistent, Used
<1> HIDE DEF w
<1>4. CallOK' /\ RefusalOK'
  BY <1>2 DEF CallOK, RefusalOK
<1>5. CASE DeferredAccept /\ m' = PostEvent(p, c) /\ UNCHANGED unread
  <2>1. /\ p.fd = w.fd /\ p.instance = w.instance /\ p.active = w.active /\ p.timedout = w.timedout
        /\ p.tree = w.tree /\ p.posted = w.posted /\ p.edges = w.edges /\ p \in Worker
    BY <1>3 DEF Consistent, Worker
  <2> HIDE DEF p
  <2>2. /\ m'.fd = g.fd /\ m'.instance = g.instance /\ m'.active = g.active /\ m'.timedout = g.timedout
        /\ m'.tree = g.tree \cup {c} /\ m'.posted = g.posted \cup {c} /\ m'.edges = g.edges
    BY <1>3, <1>5, <2>1, PostEventFrame
  <2>3. AllWoken(m', batch', unread')
    BY <1>1, <1>2, <1>5, <2>2 DEF AllWoken, Woken, Waiting
  <2>4. Answered(m) => Answered(m')
    BY <1>1, <2>2 DEF Answered
  <2>5. Kept(m) => Kept(m')
    BY <1>1, <2>2 DEF Kept, Used
  <2>6. HandsOver(m, m')
    BY <1>1, <2>2 DEF HandsOver
  <2> QED BY <1>4, <2>3, <2>4, <2>5, <2>6 DEF SInv
<1>6. Consistent(r) /\ c \in Used(r) /\ Untouched(w, r)
  BY <1>3, ReusableConnectionConsistent, ReusableConnectionFrame DEF Consistent, Used
<1>7. /\ r.fd = g.fd /\ r.instance = g.instance /\ r.active = g.active /\ r.ready = g.ready
      /\ r.timedout = g.timedout /\ r.tree = g.tree \cup {c} /\ r.posted = g.posted /\ r.edges = g.edges
  BY <1>3, <1>6 DEF Untouched
<1> HIDE DEF r
<1>8. CASE ~DeferredAccept /\ m' = HandleReadEvent(r, c) /\ UNCHANGED unread
  <2> DEFINE e == [sock |-> r.fd[c], conn |-> c, instance |-> r.instance[c]]
  <2>1. /\ m'.fd = g.fd /\ m'.instance = g.instance /\ m'.timedout = g.timedout
        /\ m'.tree = g.tree \cup {c} /\ m'.posted = g.posted
        /\ m'.active = g.active \cup {c} /\ g.edges \subseteq m'.edges
        /\ r.fd[c] \in unread => e \in m'.edges
    BY <1>1, <1>3, <1>6, <1>7, <1>8, HandleReadEventFrame DEF Consistent
  <2>2. AllWoken(m', batch', unread')
    <3>1. Woken(m', batch', unread', c)
      BY <1>7, <1>8, <2>1 DEF Woken
    <3>2. ASSUME NEW d \in Waiting(m'), d # c PROVE Woken(m', batch', unread', d)
      BY <1>1, <1>2, <1>8, <2>1, <3>2 DEF AllWoken, Woken, Waiting
    <3> QED BY <3>1, <3>2 DEF AllWoken
  <2>3. Kept(m) => Kept(m')
    BY <1>1, <2>1 DEF Kept, Used
  <2>4. HandsOver(m, m')
    BY <1>1, <2>1 DEF HandsOver
  <2> QED BY <1>4, <1>8, <2>2, <2>3, <2>4 DEF SInv
<1>9. CASE /\ ~DeferredAccept /\ "ctl" \in Faults /\ m' = CloseConnection(r, c)
           /\ unread' = unread \ {hand}
  <2>1. OthersWoken(r, batch, unread, c)
    BY <1>1, <1>7 DEF OthersWoken, AllWoken, Woken, Waiting
  <2>2. Closed(r, m', c)
    BY <1>6, <1>9, CloseConnectionFrame
  <2>3. AllWoken(m', batch, unread \ {hand}) /\ HandsOver(r, m')
    BY <1>1, <1>6, <1>7, <2>1, <2>2, ClosedKeeps
  <2>4. HandsOver(m, m')
    <3>1. \A d \in Conns : m'.fd[d] = NoSock \/ (m'.fd[d] = g.fd[d] /\ m'.instance = g.instance)
      BY <1>3, <1>6, <1>7, <2>2 DEF Closed, Consistent, Worker
    <3> QED BY <1>1, <3>1 DEF HandsOver
  <2> QED BY <1>2, <1>4, <1>9, <2>3, <2>4 DEF SInv
<1> QED BY <1>2, <1>5, <1>8, <1>9

\* A timer that expires leaves a connection to its timeout.
LEMMA ReleaseServes ==
  ASSUME IInv, SInv, Release
  PROVE  SInv' /\ HandsOver(m, m')
<1> DEFINE due == {c \in m.tree : m.left[c] = 0}
<1>1. \/ m' = m
      \/ m' = [m EXCEPT !.tree = @ \ due, !.timer_set = @ \ due, !.timedout = @ \cup due]
  BY DEF Release, ExpireTimers, IInv, Consistent, Worker
<1>2. UNCHANGED <<batch, unread>> /\ pc' = "posted" /\ m \in Worker /\ due \subseteq m.tree
  BY DEF Release, IInv, Consistent
<1> HIDE DEF due
<1>3. /\ m'.fd = m.fd /\ m'.instance = m.instance /\ m'.active = m.active
      /\ m'.posted = m.posted /\ m'.edges = m.edges
      /\ m.timedout \subseteq m'.timedout /\ m'.tree \cup m'.timedout = m.tree \cup m.timedout
  <2>1. CASE m' = m
    BY <2>1
  <2>2. CASE m' = [m EXCEPT !.tree = @ \ due, !.timer_set = @ \ due, !.timedout = @ \cup due]
    <3>1. /\ m'.fd = m.fd /\ m'.instance = m.instance /\ m'.active = m.active
          /\ m'.posted = m.posted /\ m'.edges = m.edges
          /\ m'.tree = m.tree \ due /\ m'.timedout = m.timedout \cup due
      BY <1>2, <2>2 DEF Worker
    <3> QED BY <1>2, <3>1
  <2> QED BY <1>1, <2>1, <2>2
<1>4. AllWoken(m', batch', unread')
  BY <1>2, <1>3 DEF SInv, AllWoken, Woken, Waiting
<1>5. TimersKept(m, m') /\ HandsOver(m, m')
  BY <1>3 DEF TimersKept, Answered, Kept, Used, HandsOver
<1>6. CallOK' /\ RefusalOK'
  BY <1>2 DEF CallOK, RefusalOK
<1> QED BY <1>4, <1>5, <1>6 DEF SInv, TimersKept

\* mywrite(): the answer is sent and the connection registered, or it is
\* closed, or, after a failure, left.
LEMMA MyWriteServes ==
  ASSUME IInv, SInv, MyWrite
  PROVE  SInv' /\ HandsOver(m, m')
<1> DEFINE c == call.conn
           u == Untimed(m, c)
<1>1. /\ Consistent(m) /\ m \in Worker /\ c \in Used(m) /\ c \in Conns /\ m.tree = m.timer_set
      /\ c \notin m.ready /\ c \notin m.timedout
  BY DEF IInv, HandlerInUse, MyWrite, SInv, CallOK, Consistent, MemoryOK, TimersOK, Used
<1>2. /\ batch' = batch /\ pc' \in {"dispatch", "posted"}
      /\ \/ m' = m /\ UNCHANGED unread
         \/ m' = HandleReadEvent(u, c) /\ UNCHANGED unread
         \/ Faults \cap {"ctl", "send"} # {} /\ m' = u /\ UNCHANGED unread
         \/ m' = CloseConnection(m, c) /\ unread' = unread \ {m.fd[c]}
  BY DEF MyWrite, IInv, HandlerInUse, TypeOK
<1>3. u \in Worker /\ u.fd = m.fd /\ u.instance = m.instance
      /\ u.active = m.active /\ u.ready = m.ready /\ u.timedout = m.timedout
      /\ u.tree = m.tree \ {c} /\ u.posted = m.posted /\ u.edges = m.edges
  BY <1>1, EventDelTimerFrame, UntimedConsistent DEF Untimed, Consistent
<1> HIDE DEF c, u
<1>4. CallOK' /\ RefusalOK'
  BY <1>2 DEF CallOK, RefusalOK
<1>5. CASE m' = m /\ UNCHANGED unread
  BY <1>2, <1>4, <1>5 DEF SInv, HandsOver
<1>6. CASE m' = HandleReadEvent(u, c) /\ UNCHANGED unread
  <2> DEFINE e == [sock |-> u.fd[c], conn |-> c, instance |-> u.instance[c]]
  <2>1. /\ m'.fd = m.fd /\ m'.instance = m.instance /\ m'.timedout = m.timedout
        /\ m'.tree = m.tree \ {c} /\ m'.posted = m.posted
        /\ m'.active = m.active \cup {c} /\ m.edges \subseteq m'.edges
        /\ c \notin m.active /\ u.fd[c] \in unread => e \in m'.edges
    BY <1>1, <1>3, <1>6, HandleReadEventFrame
  <2>2. AllWoken(m', batch', unread')
    <3> SUFFICES ASSUME NEW d \in Waiting(m') PROVE Woken(m', batch', unread', d)
      BY DEF AllWoken
    <3>1. CASE d \in Waiting(m)
      BY <1>2, <1>6, <2>1, <3>1 DEF SInv, AllWoken, Woken
    <3>2. CASE d = c /\ c \notin m.active
      BY <1>3, <1>6, <2>1, <3>2 DEF Woken
    <3> QED BY <2>1, <3>1, <3>2 DEF Waiting
  <2>3. TimersKept(m, m') /\ HandsOver(m, m')
    BY <1>1, <2>1 DEF TimersKept, Answered, Kept, Used, HandsOver
  <2> QED BY <1>4, <2>2, <2>3 DEF SInv, TimersKept
<1>7. CASE Faults \cap {"ctl", "send"} # {} /\ m' = u /\ UNCHANGED unread
  <2>1. AllWoken(m', batch', unread')
    BY <1>2, <1>3, <1>7 DEF SInv, AllWoken, Woken, Waiting
  <2>2. (Answered(m) => Answered(m')) /\ HandsOver(m, m')
    BY <1>3, <1>7 DEF Answered, HandsOver
  <2> QED BY <1>4, <1>7, <2>1, <2>2 DEF SInv
<1>8. CASE m' = CloseConnection(m, c) /\ unread' = unread \ {m.fd[c]}
  <2>1. Closed(m, m', c)
    BY <1>1, <1>8, CloseConnectionFrame
  <2>2. OthersWoken(m, batch, unread, c)
    BY DEF SInv, AllWoken, OthersWoken
  <2>3. AllWoken(m', batch, unread \ {m.fd[c]}) /\ TimersKept(m, m') /\ HandsOver(m, m')
    BY <1>1, <2>1, <2>2, ClosedKeeps
  <2> QED BY <1>2, <1>4, <1>8, <2>3 DEF SInv, TimersKept
<1> QED BY <1>2, <1>5, <1>6, <1>7, <1>8

\* What a client does to a registered socket is an edge.
LEMMA PeersServe ==
  ASSUME IInv, SInv, NEW s \in Socks, PeerSends(s) \/ PeerCloses(s) \/ PeerResets(s)
  PROVE  SInv' /\ HandsOver(m, m')
<1> DEFINE E == m.edges \cup {e \in m.interest : e.sock = s}
<1>1. /\ m \in Worker /\ m' = [m EXCEPT !.edges = E] /\ unread' \subseteq unread \cup {s}
      /\ UNCHANGED <<batch, pc, todo, call>>
  BY DEF PeerSends, PeerCloses, PeerResets, Wake, IInv, Consistent, mutexVars, acceptVars
<1>2. \A c \in m.active :
        m.fd[c] = s => [sock |-> m.fd[c], conn |-> c, instance |-> m.instance[c]] \in E
  BY DEF IInv, Consistent, MemoryOK, EpollOK
<1>3. m.edges \subseteq E
  OBVIOUS
<1> HIDE DEF E
<1>4. /\ m'.fd = m.fd /\ m'.instance = m.instance /\ m'.active = m.active /\ m'.ready = m.ready
      /\ m'.timedout = m.timedout /\ m'.tree = m.tree /\ m'.posted = m.posted /\ m'.edges = E
      /\ m'.free = m.free /\ m'.reusable = m.reusable /\ m'.reusableq = m.reusableq
  BY <1>1 DEF Worker
<1>5. AllWoken(m', batch', unread')
  <2> SUFFICES ASSUME NEW c \in Waiting(m), m.fd[c] \in unread'
               PROVE  \/ c \in m.posted
                      \/ \E e \in E \cup batch :
                           e.conn = c /\ e.sock = m.fd[c] /\ e.instance = m.instance[c]
    BY <1>1, <1>4 DEF AllWoken, Woken, Waiting
  <2>1. CASE m.fd[c] \in unread
    BY <1>3, <2>1 DEF SInv, AllWoken, Woken
  <2>2. CASE m.fd[c] = s
    <3> DEFINE x == [sock |-> m.fd[c], conn |-> c, instance |-> m.instance[c]]
    <3>1. x \in E
      BY <1>2, <2>2 DEF Waiting
    <3>2. x.conn = c /\ x.sock = m.fd[c] /\ x.instance = m.instance[c]
      OBVIOUS
    <3> QED BY <3>1, <3>2
  <2> QED BY <1>1, <2>1, <2>2
<1>6. TimersKept(m, m') /\ HandsOver(m, m')
  BY <1>4 DEF TimersKept, Answered, Kept, Used, HandsOver
<1>7. CallOK' /\ RefusalOK'
  BY <1>1, <1>4 DEF SInv, CallOK, RefusalOK, Cause
<1> QED BY <1>5, <1>6, <1>7 DEF SInv, TimersKept

\* A killed worker has no connections left to serve.
LEMMA KilledServes ==
  ASSUME KilledBySigpipe
  PROVE  SInv' /\ HandsOver(m, m')
<1>1. m' = NewWorker /\ pc' = "dead"
  BY DEF KilledBySigpipe
<1>2. Used(m') = {} /\ m'.active = {} /\ \A c \in Conns : m'.fd[c] = NoSock
  BY <1>1 DEF NewWorker, Used
<1> QED
  BY <1>1, <1>2 DEF SInv, AllWoken, Waiting, Answered, Kept, CallOK, RefusalOK, HandsOver

-----------------------------------------------------------------------------
LEMMA InitSInv == Init => SInv
<1> SUFFICES ASSUME Init PROVE SInv
  OBVIOUS
<1>1. m = NewWorker /\ pc = "lock"
  BY DEF Init
<1>2. Used(m) = {} /\ m.active = {}
  BY <1>1 DEF NewWorker, Used
<1> QED BY <1>1, <1>2 DEF SInv, AllWoken, Waiting, Answered, Kept, CallOK, RefusalOK

LEMMA NextSInv ==
  ASSUME IInv, MutexInv, SInv, [Next]_vars
  PROVE  SInv' /\ HandsOver(m, m')
<1>1. CASE UNCHANGED vars
  BY <1>1 DEF vars, SInv, CallOK, RefusalOK, HandsOver
<1>2. CASE \/ SkipMutex \/ TrylockWins \/ TrylockLoses
           \/ DispatchListener \/ RunPostedAccept
           \/ AcceptAgain \/ AcceptAborted \/ AcceptFails \/ AcceptNoFiles
           \/ PostedDone \/ Alarm \/ OtherAccepts
           \/ \E s \in Socks : Connect(s)
  BY <1>2, QuietSteps
<1>3. CASE PollEvents \/ PollTimeout \/ PollInterrupted
  BY <1>3, PollSteps
<1>4. CASE \E e \in batch : DispatchConnection(e)
  BY <1>4, DispatchConnectionServes
<1>5. CASE AcceptOk
  BY <1>5, AcceptOkServes
<1>6. CASE DrainConnection
  BY <1>6, DrainConnectionServes
<1>7. CASE DrainDone
  BY <1>7, DrainDoneServes
<1>8. CASE RefuseClient
  BY <1>8, RefuseClientServes
<1>9. CASE DropClient
  BY <1>9, DropClientServes
<1>10. CASE Callback
  BY <1>10, CallbackServes
<1>11. CASE Release
  BY <1>11, ReleaseServes
<1>12. CASE RunPosted
  BY <1>12, RunPostedServes
<1>13. CASE MyWrite
  BY <1>13, MyWriteServes
<1>14. CASE \E s \in Socks : PeerSends(s) \/ PeerCloses(s) \/ PeerResets(s)
  BY <1>14, PeersServe
<1>15. CASE KilledBySigpipe
  BY <1>15, KilledServes
<1> QED
  BY <1>1, <1>2, <1>3, <1>4, <1>5, <1>6, <1>7, <1>8, <1>9, <1>10, <1>11, <1>12, <1>13, <1>14, <1>15
  DEF Next, WorkerNext, Environment, Terminated

LEMMA SpecSInv == Spec => [](IInv /\ MutexInv /\ SInv)
<1>1. IInv /\ MutexInv /\ [Next]_vars => MutexInv'
  BY NextMutexInv
<1>2. IInv /\ MutexInv /\ SInv /\ [Next]_vars => SInv'
  BY NextSInv
<1> QED BY <1>1, <1>2, InitMutexInv, InitSInv, SpecIInv, PTL DEF Spec

\* In every order of arriving bytes, batches, postponed handlers and closed
\* and reused slots, the one edge of a registered connection is kept until
\* its handler has run.
THEOREM SpecNoLostWakeup == Spec => []NoLostWakeup
<1>1. SInv => NoLostWakeup
  BY DEF SInv, AllWoken, Woken, Waiting, NoLostWakeup
<1> QED BY <1>1, SpecSInv, PTL

\* With deferred accept no timer outlives the answer and none is started after.
THEOREM SpecAnsweredNeverTimesOut ==
  ASSUME DeferredAccept
  PROVE  Spec => []AnsweredNeverTimesOut
<1>1. SInv => AnsweredNeverTimesOut
  BY DEF SInv, Answered, AnsweredNeverTimesOut
<1> QED BY <1>1, SpecSInv, PTL

\* Where neither send() nor epoll_ctl() fails, no slot stays in use without
\* a way back to it: epoll, its timer, or its timeout.
THEOREM SpecNoneForgotten ==
  ASSUME Faults \cap {"ctl", "send"} = {}
  PROVE  Spec => []NoneForgotten
<1>1. SInv => NoneForgotten
  BY DEF SInv, Kept, NoneForgotten
<1> QED BY <1>1, SpecSInv, PTL

\* drain_connections() frees a slot unless nothing is reusable or the last of
\* the queue has timed out.
THEOREM SpecRefusedForCause == Spec => []RefusedForCause
<1>1. SInv => RefusedForCause
  BY DEF SInv, RefusalOK, Cause, RefusedForCause
<1> QED BY <1>1, SpecSInv, PTL

\* Every path that closes a slot or gives it to another client makes the
\* events of its previous user stale.
THEOREM SpecReuseMakesStale == Spec => ReuseMakesStale
<1> DEFINE Recognised ==
             \A e \in (batch \cap batch') \ {ListenerEntry} :
               /\ m.instance[e.conn] = e.instance
               /\ m'.fd[e.conn] # m.fd[e.conn]
               => Stale(e)'
<1>1. IInv /\ MutexInv /\ SInv /\ [Next]_vars => [Recognised]_vars
  <2> SUFFICES ASSUME IInv, MutexInv, SInv, [Next]_vars,
                      NEW e \in (batch \cap batch') \ {ListenerEntry},
                      m.instance[e.conn] = e.instance, m'.fd[e.conn] # m.fd[e.conn]
               PROVE  Stale(e)'
    OBVIOUS
  <2>1. e.conn \in Conns
    BY DEF IInv, TypeOK, Entry
  <2>2. HandsOver(m, m')
    BY NextSInv
  <2> QED BY <2>1, <2>2 DEF HandsOver, Stale
<1> QED BY <1>1, SpecSInv, PTL DEF Spec, ReuseMakesStale
=============================================================================
