-------------------------------- MODULE Pool --------------------------------
(***************************************************************************)
(* palloc.c: memory handed out from a chain of blocks of equal size, each  *)
(* with a pointer d.last behind what is in use, and from malloc() for what *)
(* is larger than a block.                                                 *)
(*                                                                         *)
(* An operator takes a pool and the answers of the operating system and    *)
(* yields [pool, at]: the pool after the call, and the memory returned or  *)
(* Null.  Sizes are bytes of a 64-bit build.                               *)
(***************************************************************************)
EXTENDS Integers, Sequences

CONSTANTS
  PoolSize,    \* the size given to create_pool()
  SizeRange,   \* a size_t is less than this
  MaxSmall,    \* MAX_ALLOC_FROM_POOL
  FailedLimit, \* palloc_block() passes a block over for having failed before so often: 5
  LargeTries,  \* nodes that palloc_large() looks at before it adds one: 5
  MaxBlocks,   \* bound: memalign() grants a pool no more blocks
  Heap,        \* what malloc() and memalign() return for large memory
  Null

Alignment == 8
SizeofPool == 56
SizeofPoolData == 32
SizeofLarge == 16
MinPoolSize == 96

\* Memory: from, up to but not including to, in block number blk of a pool or
\* in what malloc() returned at blk.  Memory of palloc() is aligned.
Chunks == [blk : Nat \cup Heap, from : Nat, to : Nat, aligned : BOOLEAN]

\* Callers create pools of 256 and of DEFAULT_POOL_SIZE bytes.  The end of a
\* block is aligned then, so that aligning d.last does not pass it.
ASSUME PoolAssumption ==
  /\ PoolSize \in Nat /\ PoolSize >= MinPoolSize /\ PoolSize % Alignment = 0
  /\ SizeRange \in Nat /\ SizeRange > 2 * PoolSize
  /\ MaxSmall \in Nat \ {0}
  /\ {FailedLimit, LargeTries, MaxBlocks} \subseteq Nat
  /\ \A h \in Heap : h \notin Nat
  /\ Null \notin Heap \cup Chunks

-----------------------------------------------------------------------------
Chunk(b, m, size, aligned) == [blk |-> b, from |-> m, to |-> m + size, aligned |-> aligned]

\* A pool: n blocks, the first of which is the pool's; per block d.last and
\* d.failed; pool->current; pool->large, the last node being the first of the
\* C list; and what it has from malloc() and memalign() for large memory.
NoPool == [n |-> 0, last |-> <<>>, failed |-> <<>>, current |-> 1, large |-> <<>>, heap |-> {}]

NewPool ==
  [n |-> 1, last |-> <<SizeofPool>>, failed |-> <<0>>, current |-> 1, large |-> <<>>, heap |-> {}]

Result(p, at) == [pool |-> p, at |-> at]
Max(p) == IF PoolSize - SizeofPool < MaxSmall THEN PoolSize - SizeofPool ELSE MaxSmall

\* align_ptr(m, ALIGNMENT)
AlignUp(m) == m + (Alignment - 1) - ((m + (Alignment - 1)) % Alignment)

\* (size_t)(p->d.end - m): behind the end it is huge.
Room(m) == IF m <= PoolSize THEN PoolSize - m ELSE SizeRange + PoolSize - m

\* Where block i would put the next memory.
Start(p, i, aligned) == IF aligned THEN AlignUp(p.last[i]) ELSE p.last[i]
Fits(p, i, size, aligned) == Room(Start(p, i, aligned)) >= size

\* Faulty variant: a block that is passed over is not counted as tried.
FailedOfKept(p, passed) ==
  [i \in 1..(p.n + 1) |->
     IF i \in (p.current..(p.n - 1)) \ passed THEN p.failed[i] + 1
     ELSE IF i <= p.n THEN p.failed[i] ELSE 0]

\* p->d.failed++ along the chain, and 0 for the new block.
FailedAfter(p, passed) ==
  [i \in 1..(p.n + 1) |->
     IF i \in p.current..(p.n - 1) THEN p.failed[i] + 1
     ELSE IF i <= p.n THEN p.failed[i] ELSE 0]

\* palloc_block(): a new block at the end of the chain, and pool->current moved
\* behind the last block that has been tried in vain too often.
PallocBlock(p, size, aligned, granted) ==
  LET m       == AlignUp(SizeofPoolData)
      passed  == {i \in p.current..(p.n - 1) : p.failed[i] >= FailedLimit}
      current == CHOOSE i \in {p.current} \cup {j + 1 : j \in passed} : \A j \in passed : j < i
  IN  IF granted
      THEN Result([p EXCEPT !.n = @ + 1,
                            !.last = [i \in 1..(p.n + 1) |-> IF i <= p.n THEN p.last[i] ELSE m + size],
                            !.failed = FailedAfter(p, passed),
                            !.current = current],
                  Chunk(p.n + 1, m, size, aligned))
      ELSE Result(p, Null)

\* palloc_small(): the first block from pool->current on that has room.
PallocSmall(p, size, aligned, granted) ==
  IF \E i \in p.current..p.n : Fits(p, i, size, aligned)
  THEN LET i == CHOOSE i \in p.current..p.n :
                  Fits(p, i, size, aligned) /\ \A j \in p.current..(i - 1) : ~Fits(p, j, size, aligned)
           m == Start(p, i, aligned)
       IN  Result([p EXCEPT !.last[i] = m + size], Chunk(i, m, size, aligned))
  ELSE PallocBlock(p, size, aligned, granted)

\* A node of pool->large, itself from the pool, for what is at h.
AddLarge(p, size, h, granted) ==
  LET node == PallocSmall(p, SizeofLarge, TRUE, granted)
  IN  IF node.at = Null THEN Result(p, Null)
      ELSE Result([node.pool EXCEPT !.large = Append(@, [at |-> node.at, alloc |-> h]),
                                    !.heap = @ \cup {h}],
                  Chunk(h, 0, size, TRUE))

\* palloc_large(): a node whose memory was freed is used again, if it is among
\* the first.
PallocLarge(p, size, h, granted) ==
  LET empty == {i \in DOMAIN p.large : i > Len(p.large) - LargeTries /\ p.large[i].alloc = Null}
  IN  IF h = Null THEN Result(p, Null)
      ELSE IF empty = {} THEN AddLarge(p, size, h, granted)
      ELSE LET i == CHOOSE i \in empty : \A j \in empty : j <= i
           IN  Result([p EXCEPT !.large[i].alloc = h, !.heap = @ \cup {h}], Chunk(h, 0, size, TRUE))

\* The answers of the operating system to one call: what malloc() returns, if
\* it is called, and whether memalign() grants a block.
Answers(p, large) ==
  [area : IF large THEN (Heap \ p.heap) \cup {Null} ELSE {Null},
   block : {b \in BOOLEAN : b => p.n < MaxBlocks}]

\* palloc() and, for what need not be aligned, pnalloc().
Palloc(p, size, aligned, os) ==
  IF size <= Max(p)
  THEN PallocSmall(p, size, aligned, os.block)
  ELSE PallocLarge(p, size, os.area, os.block)

\* pmemalign(): always large.
Pmemalign(p, size, os) ==
  IF os.area = Null THEN Result(p, Null) ELSE AddLarge(p, size, os.area, os.block)

\* Faulty variant: the memory is freed, the node keeps its pointer.
PfreeKeepsPointer(p, h) == [p EXCEPT !.heap = @ \ {h}]

\* pfree(): for memory of malloc() only; -1 and no change for all other.
Pfree(p, h) ==
  [p EXCEPT !.large = [i \in DOMAIN @ |-> IF @[i].alloc = h THEN [@[i] EXCEPT !.alloc = Null] ELSE @[i]],
            !.heap = @ \ {h}]

Allocs(p) == {p.large[i].alloc : i \in DOMAIN p.large} \ {Null}

\* reset_pool(): all large memory is freed, all blocks are kept, and each of
\* them loses as much as the header of the first takes.
ResetPool(p) ==
  [p EXCEPT !.last = [i \in 1..p.n |-> SizeofPool], !.failed = [i \in 1..p.n |-> 0],
            !.current = 1, !.large = <<>>, !.heap = @ \ Allocs(p)]

\* destroy_pool()
DestroyPool(p) == [NoPool EXCEPT !.heap = p.heap \ Allocs(p)]
=============================================================================
