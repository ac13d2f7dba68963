----------------------------- MODULE MemoryPool -----------------------------
(***************************************************************************)
(* AllocatorPool of memory_pool.h: blocks of N chunks, added when needed   *)
(* and never given back, whose chunks are numbered in the order of the     *)
(* blocks.  A released chunk heads the free list and is handed out next.   *)
(* The list is threaded through the chunks themselves; here it is the      *)
(* sequence of their numbers.                                              *)
(*                                                                         *)
(* The clients are the trees: they release a chunk they hold, once.        *)
(***************************************************************************)
EXTENDS Integers, Sequences, FiniteSets

CONSTANTS
  N,          \* chunks in a block
  MaxChunks   \* bound on the numbers of chunks used

ASSUME PoolAssumption == N \in Nat \ {0, 1} /\ MaxChunks \in Nat

VARIABLES
  size,        \* chunks in the blocks
  nbElements,
  maxAllocatedIndex,
  freeList,
  held         \* the chunks that hold an object of a client

vars == <<size, nbElements, maxAllocatedIndex, freeList, held>>

Init ==
  /\ size = 0
  /\ nbElements = 0
  /\ maxAllocatedIndex = 0
  /\ freeList = <<>>
  /\ held = {}

\* The size of the pool once reserve(n) has added blocks for index n.
MutReserved(n) == IF n <= size THEN size ELSE ((n + N - 1) \div N) * N
Reserved(n) == IF n < size THEN size ELSE (n \div N + 1) * N

Reserve(n) ==
  /\ size' = Reserved(n)
  /\ UNCHANGED <<nbElements, maxAllocatedIndex, freeList, held>>

Recycle ==
  /\ freeList # <<>>
  /\ held' = held \union {Head(freeList)}
  /\ freeList' = Tail(freeList)
  /\ nbElements' = nbElements + 1
  /\ UNCHANGED <<size, maxAllocatedIndex>>

\* The next chunk never used: its number is the count of the objects held.
MutExtend ==
  /\ nbElements < MaxChunks
  /\ nbElements' = nbElements + 1
  /\ held' = held \union {nbElements}
  /\ size' = Reserved(nbElements)
  /\ UNCHANGED <<freeList, maxAllocatedIndex>>
Extend ==
  /\ freeList = <<>>
  /\ nbElements < MaxChunks
  /\ nbElements' = nbElements + 1
  /\ held' = held \union {nbElements}
  /\ size' = Reserved(nbElements)
  /\ maxAllocatedIndex' = IF nbElements > maxAllocatedIndex THEN nbElements
                          ELSE maxAllocatedIndex
  /\ UNCHANGED freeList

Allocate == Recycle \/ Extend

Release(c) ==
  /\ c \in held
  /\ held' = held \ {c}
  /\ freeList' = <<c>> \o freeList
  /\ nbElements' = nbElements - 1
  /\ UNCHANGED <<size, maxAllocatedIndex>>

FreeChunks == {freeList[i] : i \in DOMAIN freeList}

MutDoomed == {i \in 0 .. maxAllocatedIndex : i < size} \intersect FreeChunks
\* What destroyAll destroys: nothing while no index above 0 has been used.
Doomed ==
  IF maxAllocatedIndex = 0 THEN {}
  ELSE {i \in 0 .. maxAllocatedIndex : i < size} \ FreeChunks

DestroyAll ==
  /\ maxAllocatedIndex # 0
  /\ held' = held \ Doomed
  /\ nbElements' = 0
  /\ freeList' = <<>>
  /\ UNCHANGED <<size, maxAllocatedIndex>>

Next ==
  \/ \E n \in 0 .. MaxChunks - 1 : Reserve(n)
  \/ Allocate
  \/ \E c \in held : Release(c)
  \/ DestroyAll

Spec == Init /\ [][Next]_vars

-----------------------------------------------------------------------------

TypeOK ==
  /\ size \in Nat /\ nbElements \in Nat /\ maxAllocatedIndex \in Nat
  /\ freeList \in Seq(Nat)
  /\ held \subseteq Nat

\* Every chunk used so far is either held or on the free list, and there once:
\* the next allocation cannot hand out a chunk that is in use.  The counter
\* that doubles as the number of the next new chunk is the count of the held.
Accounted ==
  /\ \A i, j \in DOMAIN freeList : freeList[i] = freeList[j] => i = j
  /\ held \intersect FreeChunks = {}
  /\ held \union FreeChunks = 0 .. nbElements + Len(freeList) - 1
  /\ IsFiniteSet(held) /\ nbElements = Cardinality(held)

\* No object lies beyond the blocks, and the high-water mark destroyAll stops
\* at is above every chunk in use.
InBlocks ==
  \A c \in held \union FreeChunks : c < size /\ c <= maxAllocatedIndex

\* The chunks in use and the chunks to be used again are told apart, and none is
\* missed by the counter, by the blocks or by destroyAll.
ChunksSound == Accounted /\ InBlocks

\* An allocation hands out a chunk that nobody holds.
GivesFresh ==
  [][nbElements' > nbElements => \E c \in held' : held' = held \union {c} /\ c \notin held]_vars
=============================================================================
