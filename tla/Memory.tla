------------------------------- MODULE Memory -------------------------------
(***************************************************************************)
(* A pool in use: plain allocations, arrays (array.c), lists (list.c) and  *)
(* buffers (buf.c), by one thread.  Callers give back by pfree() what they *)
(* got from palloc(), once, and use nothing after reset_pool().            *)
(***************************************************************************)
EXTENDS Pool, FiniteSets

CONSTANTS
  Sizes,     \* what callers ask palloc(), pnalloc() and pmemalign() for
  Arrays,    \* array_t pointers
  Lists,     \* list_t pointers
  EltSizes,  \* sizes of their elements
  Counts,    \* numbers of elements at creation and in array_push_n()
  MaxHeld    \* bound: callers ask for more while they have fewer chunks

SizeofArray == 40
SizeofList == 56
SizeofListPart == 24
SizeofBuf == 72

\* array_push() doubles, so that an array created for no elements stays at no
\* elements; callers give at least one.
ASSUME MemoryAssumption ==
  /\ Sizes \subseteq Nat \ {0} /\ EltSizes \subseteq Nat \ {0} /\ Counts \subseteq Nat \ {0}
  /\ Null \notin Arrays /\ Null \notin Lists
  /\ MaxHeld \in Nat

VARIABLES
  pool,
  held,    \* the memory that callers have been given since create or reset
  arrays,  \* array_t by pointer, Null if there is none
  lists    \* list_t by pointer, Null if there is none

vars == <<pool, held, arrays, lists>>

NoArrays == [a \in Arrays |-> Null]
NoLists == [l \in Lists |-> Null]

Init == pool = NoPool /\ held = {} /\ arrays = NoArrays /\ lists = NoLists

-----------------------------------------------------------------------------
\* What array and list elements lie in, and array_t and list_t themselves.
OfArrays == UNION {{arrays[a].at, arrays[a].elts} : a \in {b \in Arrays : arrays[b] # Null}}
OfLists ==
  UNION {{lists[l].at} \cup
         UNION {{lists[l].parts[i].at, lists[l].parts[i].elts} : i \in DOMAIN lists[l].parts} :
           l \in {k \in Lists : lists[k] # Null}}
Plain == held \ (OfArrays \cup OfLists)

Given(chunks) ==
  /\ Cardinality(held) < MaxHeld
  /\ held' = held \cup (chunks \ {Null})

CreatePool ==
  /\ pool.n = 0
  /\ pool' = [NewPool EXCEPT !.heap = pool.heap]
  /\ UNCHANGED <<held, arrays, lists>>

\* Memory of a pool is no memory after these.
Forget == held' = {} /\ arrays' = NoArrays /\ lists' = NoLists

Reset == pool.n > 0 /\ pool' = ResetPool(pool) /\ Forget
Destroy == pool.n > 0 /\ pool' = DestroyPool(pool) /\ Forget

\* palloc(), pcalloc(), pnalloc()
Alloc(size, aligned, os) ==
  LET r == Palloc(pool, size, aligned, os)
  IN  /\ pool.n > 0
      /\ pool' = r.pool /\ Given({r.at})
      /\ UNCHANGED <<arrays, lists>>

AllocAligned(size, os) ==
  LET r == Pmemalign(pool, size, os)
  IN  /\ pool.n > 0
      /\ pool' = r.pool /\ Given({r.at})
      /\ UNCHANGED <<arrays, lists>>

Free(c) ==
  /\ c \in Plain /\ c.blk \in Heap
  /\ pool' = Pfree(pool, c.blk)
  /\ held' = held \ {c}
  /\ UNCHANGED <<arrays, lists>>

-----------------------------------------------------------------------------
\* Two allocations, the second if the first succeeds.  If the second fails the
\* first stays allocated, and nobody has it.
Two(p, size1, size2, os1, os2) ==
  LET first  == Palloc(p, size1, TRUE, os1)
      second == Palloc(first.pool, size2, TRUE, os2)
  IN  IF first.at = Null THEN [pool |-> first.pool, head |-> Null, data |-> Null]
      ELSE [pool |-> second.pool, head |-> first.at, data |-> second.at]

Taken(r) == pool' = r.pool /\ Given({r.head, r.data})

\* create_temp_buf()
CreateTempBuf(size, os1, os2) ==
  /\ pool.n > 0
  /\ Taken(Two(pool, SizeofBuf, size, os1, os2))
  /\ UNCHANGED <<arrays, lists>>

\* array_create() and array_init()
ArrayCreate(a, n, size, os1, os2) ==
  LET r == Two(pool, SizeofArray, n * size, os1, os2)
  IN  /\ pool.n > 0 /\ arrays[a] = Null
      /\ Taken(r)
      /\ arrays' = IF r.data = Null THEN arrays
                   ELSE [arrays EXCEPT ![a] =
                     [at |-> r.head, elts |-> r.data, nelts |-> 0, nalloc |-> n, size |-> size]]
      /\ UNCHANGED lists

\* p->d.last, and not that of another block: the pool's first.
IsLast(c) == c.blk = 1 /\ c.to = pool.last[1]

\* Elements for which there is space.
ArrayFill(a, n) ==
  /\ arrays[a] # Null /\ arrays[a].nelts + n <= arrays[a].nalloc
  /\ arrays' = [arrays EXCEPT ![a].nelts = @ + n]
  /\ UNCHANGED <<pool, held, lists>>

\* Faulty variant: the space behind the elements is not checked.
CanGrowUnbounded(r, n) == IsLast(r.elts)

\* The elements are the last allocation in the pool, and there is space.
CanGrow(r, n) == IsLast(r.elts) /\ pool.last[1] + n * r.size <= PoolSize

ArrayGrow(a, n) ==
  LET r    == arrays[a]
      elts == [r.elts EXCEPT !.to = @ + n * r.size]
  IN  /\ r # Null /\ r.nelts + n > r.nalloc
      /\ CanGrow(r, n)
      /\ pool' = [pool EXCEPT !.last[1] = @ + n * r.size]
      /\ held' = (held \ {r.elts}) \cup {elts}
      /\ arrays' = [arrays EXCEPT ![a] =
           [r EXCEPT !.elts = elts, !.nelts = @ + n, !.nalloc = @ + n]]
      /\ UNCHANGED lists

\* Faulty variant: twice what there was, also for many new elements.
TwiceOld(nalloc, n) == 2 * nalloc

\* nalloc of the new elements in array_push_n().  For one element it is the
\* 2 * nalloc of array_push().
Twice(nalloc, n) == 2 * (IF n >= nalloc THEN n ELSE nalloc)

\* The elements are copied to new memory; the old stays allocated.
ArrayMove(a, n, os) ==
  LET r      == arrays[a]
      nalloc == Twice(r.nalloc, n)
      new    == Palloc(pool, nalloc * r.size, TRUE, os)
  IN  /\ r # Null /\ r.nelts + n > r.nalloc
      /\ ~CanGrow(r, n)
      /\ pool' = new.pool /\ Given({new.at})
      /\ arrays' = IF new.at = Null THEN arrays
                   ELSE [arrays EXCEPT ![a] =
                     [r EXCEPT !.elts = new.at, !.nelts = @ + n, !.nalloc = nalloc]]
      /\ UNCHANGED lists

\* array_destroy(): elements, then header, each if it is the last allocation.
ArrayDestroy(a) ==
  LET r    == arrays[a]
      mid  == IF IsLast(r.elts) THEN r.elts.from ELSE pool.last[1]
      back == {c \in {r.elts} : IsLast(c)} \cup {c \in {r.at} : c.blk = 1 /\ c.to = mid}
  IN  /\ r # Null
      /\ pool' = [pool EXCEPT !.last[1] = IF r.at \in back THEN r.at.from ELSE mid]
      /\ held' = held \ back
      /\ arrays' = [arrays EXCEPT ![a] = Null]
      /\ UNCHANGED lists

-----------------------------------------------------------------------------
\* list_create() and list_init().  The first part is inside of list_t.
ListCreate(l, n, size, os1, os2) ==
  LET r == Two(pool, SizeofList, n * size, os1, os2)
  IN  /\ pool.n > 0 /\ lists[l] = Null
      /\ Taken(r)
      /\ lists' = IF r.data = Null THEN lists
                  ELSE [lists EXCEPT ![l] =
                    [at |-> r.head, parts |-> <<[at |-> r.head, elts |-> r.data, nelts |-> 0]>>,
                     nalloc |-> n, size |-> size]]
      /\ UNCHANGED arrays

LastPart(l) == lists[l].parts[Len(lists[l].parts)]

ListFill(l) ==
  /\ lists[l] # Null /\ LastPart(l).nelts < lists[l].nalloc
  /\ lists' = [lists EXCEPT ![l].parts[Len(lists[l].parts)].nelts = @ + 1]
  /\ UNCHANGED <<pool, held, arrays>>

\* Faulty variant: the part is linked before there is memory for its elements.
ListExtendEarly(l, os1, os2) ==
  LET r == Two(pool, SizeofListPart, lists[l].nalloc * lists[l].size, os1, os2)
  IN  /\ lists[l] # Null /\ LastPart(l).nelts = lists[l].nalloc
      /\ Taken(r)
      /\ lists' = IF r.head = Null THEN lists
                  ELSE [lists EXCEPT ![l].parts =
                    Append(@, [at |-> r.head, elts |-> r.data, nelts |-> IF r.data = Null THEN 0 ELSE 1])]
      /\ UNCHANGED arrays

\* list_push() when the last part is full: a new part with one element.
ListExtend(l, os1, os2) ==
  LET r == Two(pool, SizeofListPart, lists[l].nalloc * lists[l].size, os1, os2)
  IN  /\ lists[l] # Null /\ LastPart(l).nelts = lists[l].nalloc
      /\ Taken(r)
      /\ lists' = IF r.data = Null THEN lists
                  ELSE [lists EXCEPT ![l].parts =
                    Append(@, [at |-> r.head, elts |-> r.data, nelts |-> 1])]
      /\ UNCHANGED arrays

\* What the operating system may answer to palloc(pool, size), and to a second
\* call of it.
AnswersTo(size) == Answers(pool, size > Max(pool))
AnswersAfter(size1, os1, size2) ==
  LET p == Palloc(pool, size1, TRUE, os1).pool IN Answers(p, size2 > Max(p))

Next ==
  \/ CreatePool \/ Reset \/ Destroy
  \/ \E size \in Sizes :
       \/ \E os \in AnswersTo(size), aligned \in BOOLEAN : Alloc(size, aligned, os)
       \/ \E os \in Answers(pool, TRUE) : AllocAligned(size, os)
       \/ \E os1 \in AnswersTo(SizeofBuf) : \E os2 \in AnswersAfter(SizeofBuf, os1, size) :
            CreateTempBuf(size, os1, os2)
  \/ \E c \in held : Free(c)
  \/ \E a \in Arrays :
       \/ ArrayDestroy(a)
       \/ \E n \in Counts :
            \/ ArrayFill(a, n) \/ ArrayGrow(a, n)
            \/ \E os \in Answers(pool, TRUE) : ArrayMove(a, n, os)
            \/ \E size \in EltSizes, os1 \in AnswersTo(SizeofArray) :
                 \E os2 \in AnswersAfter(SizeofArray, os1, n * size) : ArrayCreate(a, n, size, os1, os2)
  \/ \E l \in Lists :
       \/ ListFill(l)
       \/ \E os1 \in AnswersTo(SizeofListPart) : \E os2 \in AnswersAfter(SizeofListPart, os1, PoolSize) :
            ListExtend(l, os1, os2)
       \/ \E n \in Counts, size \in EltSizes, os1 \in AnswersTo(SizeofList) :
            \E os2 \in AnswersAfter(SizeofList, os1, n * size) : ListCreate(l, n, size, os1, os2)

Spec == Init /\ [][Next]_vars

-----------------------------------------------------------------------------
\* The nodes of pool->large are memory of the pool as well.
InUse == held \cup {pool.large[i].at : i \in DOMAIN pool.large}

\* Whatever is allocated, grown in place, moved, given back or reset in which
\* order, memory in use never overlaps, leaves its block or moves.
A == INSTANCE Allocator WITH HeaderSize <- SizeofPoolData, BlockSize <- PoolSize, inUse <- InUse
ImplementsAllocator == A!Spec

\* What malloc() gave and free() has not taken back is in exactly one node of
\* pool->large and with one caller: the pool frees all of it, each once.
LargeAccounted ==
  /\ pool.heap = Allocs(pool)
  /\ \A i, j \in DOMAIN pool.large :
       i # j /\ pool.large[i].alloc # Null => pool.large[i].alloc # pool.large[j].alloc
  /\ pool.heap = {c.blk : c \in held} \cap Heap

\* palloc_small() starts at pool->current: the blocks it leaves out are those
\* that had no room often enough, and no others are lost to it.
BlocksPassedOver ==
  \A i \in 1..pool.n : i < pool.current <=> pool.failed[i] > FailedLimit

\* Elements that have been pushed lie in memory that the array or the part
\* has for itself, however often it moved or grew next to other memory.
ElementsHeld ==
  LET runs == {[elts |-> arrays[a].elts, nelts |-> arrays[a].nelts, nalloc |-> arrays[a].nalloc,
                size |-> arrays[a].size] : a \in {b \in Arrays : arrays[b] # Null}}
              \cup
              UNION {{[elts |-> p.elts, nelts |-> p.nelts, nalloc |-> lists[l].nalloc,
                       size |-> lists[l].size] : p \in {lists[l].parts[i] : i \in DOMAIN lists[l].parts}} :
                     l \in {k \in Lists : lists[k] # Null}}
  IN  /\ \A r \in runs :
           r.elts \in held /\ r.elts.to - r.elts.from = r.nalloc * r.size /\ r.nelts <= r.nalloc
      /\ \A r, s \in runs : r # s => r.elts # s.elts
      /\ \A a \in Arrays : arrays[a] # Null => arrays[a].at \in held

\* The loop that list.h:8-30 gives for going through a list does not ask, when
\* it comes to the next part, whether it has elements: there is no part without
\* but the first, also after a list_push() that found no memory.
IterationMeetsElements ==
  \A l \in Lists : lists[l] # Null =>
    LET parts == lists[l].parts
    IN  /\ \A i \in 2..Len(parts) : parts[i].nelts > 0
        /\ \A i \in 1..(Len(parts) - 1) : parts[i].nelts = lists[l].nalloc
=============================================================================
