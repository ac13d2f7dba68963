-------------------------- MODULE MemoryPoolProofs --------------------------
(* Proofs about MemoryPool: what is handed out was free, whatever the size *)
(* of a block and however many chunks are used.                            *)
EXTENDS MemoryPool, SequenceTheorems, FiniteSetTheorems, TLAPS

High == nbElements + Len(freeList)

Inv == TypeOK /\ Accounted /\ InBlocks

LEMMA ReservedLemma ==
  ASSUME NEW n \in Nat, size \in Nat
  PROVE  Reserved(n) \in Nat /\ Reserved(n) > n /\ Reserved(n) >= size
<1>1. CASE n < size
  BY <1>1 DEF Reserved
<1>2. CASE ~(n < size)
  <2> DEFINE q == n \div N
  <2>1. N \in Nat /\ N > 0
    BY PoolAssumption
  <2>2. q \in Nat /\ n = N * q + (n % N) /\ n % N \in 0 .. N - 1
    BY <2>1, SMT
  <2> HIDE DEF q
  <2>3. (q + 1) * N = N * q + N
    BY <2>1, <2>2, SMT
  <2>4. N * q \in Nat
    BY <2>1, <2>2, SMT
  <2>5. (q + 1) * N > n
    BY <2>1, <2>2, <2>3, <2>4, SMT
  <2>6. Reserved(n) = (q + 1) * N
    BY <1>2 DEF Reserved, q
  <2> QED
    BY <1>2, <2>1, <2>3, <2>4, <2>5, <2>6
<1> QED
  BY <1>1, <1>2

LEMMA InitLemma ==
  ASSUME Init
  PROVE  Inv
<1>1. TypeOK
  BY EmptySeq DEF Init, TypeOK
<1>2. FreeChunks = {} /\ Len(freeList) = 0 /\ DOMAIN freeList = {}
  BY EmptySeq DEF Init, FreeChunks
<1>3. 0 .. nbElements + Len(freeList) - 1 = {}
  BY <1>2 DEF Init
<1>4. Accounted
  BY <1>2, <1>3, FS_EmptySet DEF Init, Accounted
<1> QED
  BY <1>1, <1>2, <1>4 DEF Inv, InBlocks, Init

\* The free list as the invariant sees it, by position.
LEMMA FreeChunksLemma ==
  ASSUME TypeOK
  PROVE  /\ Len(freeList) \in Nat /\ DOMAIN freeList = 1 .. Len(freeList)
         /\ FreeChunks = {freeList[i] : i \in 1 .. Len(freeList)}
         /\ FreeChunks \subseteq Nat
<1>1. Len(freeList) \in Nat /\ DOMAIN freeList = 1 .. Len(freeList)
  BY LenProperties DEF TypeOK
<1>2. \A i \in 1 .. Len(freeList) : freeList[i] \in Nat
  BY ElementOfSeq DEF TypeOK
<1> QED
  BY <1>1, <1>2 DEF FreeChunks

LEMMA ReserveLemma ==
  ASSUME Inv, NEW n \in 0 .. MaxChunks - 1, Reserve(n)
  PROVE  Inv'
<1>1. n \in Nat
  BY PoolAssumption
<1>2. size' \in Nat /\ size' >= size
  BY <1>1, ReservedLemma DEF Reserve, Inv, TypeOK
<1>3. TypeOK'
  BY <1>2 DEF Reserve, Inv, TypeOK
<1>4. FreeChunks' = FreeChunks
  BY DEF Reserve, FreeChunks
<1>5. Accounted'
  BY <1>4 DEF Reserve, Inv, Accounted
<1>6. \A c \in held \union FreeChunks : c \in Nat
  BY FreeChunksLemma DEF Inv, TypeOK
<1>7. InBlocks'
  BY <1>2, <1>4, <1>6 DEF Reserve, Inv, InBlocks, TypeOK
<1> QED
  BY <1>3, <1>5, <1>7 DEF Inv

LEMMA RecycleLemma ==
  ASSUME Inv, Recycle
  PROVE  Inv' /\ Head(freeList) \notin held
<1> DEFINE c == Head(freeList)
           n == Len(freeList)
<1>0. /\ TypeOK /\ Accounted /\ InBlocks /\ freeList # <<>>
      /\ held' = held \union {c} /\ freeList' = Tail(freeList)
      /\ nbElements' = nbElements + 1
      /\ size' = size /\ maxAllocatedIndex' = maxAllocatedIndex
  BY DEF Inv, Recycle
<1>1. /\ n \in Nat /\ DOMAIN freeList = 1 .. n
      /\ FreeChunks = {freeList[i] : i \in 1 .. n} /\ FreeChunks \subseteq Nat
  BY <1>0, FreeChunksLemma
<1>2. n > 0 /\ c = freeList[1]
  BY <1>0, <1>1, EmptySeq DEF TypeOK
<1>3. /\ freeList' \in Seq(Nat) /\ Len(freeList') = n - 1
      /\ \A i \in 1 .. n - 1 : freeList'[i] = freeList[i + 1]
  BY <1>0, HeadTailProperties DEF TypeOK
<1>4. DOMAIN freeList' = 1 .. n - 1
  BY <1>3, LenProperties
<1>5. c \in FreeChunks /\ c \notin held /\ c \in Nat
  <2>1. 1 \in 1 .. n
    BY <1>1, <1>2
  <2>2. c \in FreeChunks
    BY <1>1, <1>2, <2>1
  <2>3. held \intersect FreeChunks = {}
    BY <1>0 DEF Accounted
  <2>4. c \notin held
    BY <2>2, <2>3
  <2>5. c \in Nat
    BY <1>1, <2>2
  <2> QED
    BY <2>2, <2>4, <2>5
<1>6. TypeOK'
  <2>1. nbElements' \in Nat
    BY <1>0 DEF TypeOK
  <2>2. held' \subseteq Nat
    BY <1>0, <1>5 DEF TypeOK
  <2> QED
    BY <1>0, <1>3, <2>1, <2>2 DEF TypeOK
<1>7. FreeChunks' = FreeChunks \ {c}
  <2>1. FreeChunks' = {freeList[i + 1] : i \in 1 .. n - 1}
    BY <1>3, <1>4 DEF FreeChunks
  <2>2. \A i \in 1 .. n - 1 : i + 1 \in 1 .. n /\ i + 1 # 1
    BY <1>1
  <2>3. \A j \in 2 .. n : j - 1 \in 1 .. n - 1 /\ (j - 1) + 1 = j
    BY <1>1
  <2>4. \A i, j \in 1 .. n : freeList[i] = freeList[j] => i = j
    BY <1>0, <1>1 DEF Accounted
  <2>5. \A j \in 1 .. n : j = 1 \/ j \in 2 .. n
    BY <1>1
  <2>6. \A i \in 1 .. n - 1 : freeList[i + 1] \in FreeChunks /\ freeList[i + 1] # c
    BY <1>1, <1>2, <2>2, <2>4
  <2>7. \A f \in FreeChunks \ {c} : \E i \in 1 .. n - 1 : f = freeList[i + 1]
    BY <1>1, <1>2, <2>3, <2>5
  <2> QED
    BY <2>1, <2>6, <2>7
<1>8. Accounted'
  <2>1. \A i, j \in DOMAIN freeList' : freeList'[i] = freeList'[j] => i = j
    <3>1. \A i \in 1 .. n - 1 : i + 1 \in 1 .. n
      BY <1>1
    <3> QED
      BY <1>0, <1>1, <1>3, <1>4, <3>1 DEF Accounted
  <2>2. held' \intersect FreeChunks' = {}
    BY <1>0, <1>7 DEF Accounted
  <2>3. nbElements' + Len(freeList') = nbElements + Len(freeList)
    BY <1>0, <1>1, <1>3 DEF TypeOK
  <2>4. held' \union FreeChunks' = 0 .. nbElements' + Len(freeList') - 1
    <3>1. held' \union FreeChunks' = held \union FreeChunks
      BY <1>0, <1>5, <1>7
    <3>2. held \union FreeChunks = 0 .. nbElements + Len(freeList) - 1
      BY <1>0 DEF Accounted
    <3>3. nbElements' + Len(freeList') - 1 = nbElements + Len(freeList) - 1
      BY <1>0, <1>1, <1>3 DEF TypeOK
    <3> QED
      BY <3>1, <3>2, <3>3, Zenon
  <2>5. IsFiniteSet(held') /\ Cardinality(held') = nbElements'
    <3>1. IsFiniteSet(held) /\ Cardinality(held) = nbElements
      BY <1>0 DEF Accounted
    <3>2. IsFiniteSet(held \union {c}) /\ Cardinality(held \union {c}) = Cardinality(held) + 1
      BY <1>5, <3>1, FS_AddElement
    <3> QED
      BY <1>0, <3>1, <3>2
  <2> QED
    BY <2>1, <2>2, <2>4, <2>5 DEF Accounted
<1>9. InBlocks'
  BY <1>0, <1>5, <1>7 DEF InBlocks
<1> QED
  BY <1>5, <1>6, <1>8, <1>9 DEF Inv

LEMMA ExtendLemma ==
  ASSUME Inv, Extend
  PROVE  Inv' /\ nbElements \notin held
<1>0. /\ TypeOK /\ Accounted /\ InBlocks /\ freeList = <<>> /\ freeList' = <<>>
      /\ held' = held \union {nbElements} /\ nbElements' = nbElements + 1
      /\ size' = Reserved(nbElements)
      /\ maxAllocatedIndex' = IF nbElements > maxAllocatedIndex THEN nbElements
                              ELSE maxAllocatedIndex
  BY DEF Inv, Extend
<1>1. Len(freeList) = 0 /\ FreeChunks = {} /\ FreeChunks' = {} /\ DOMAIN freeList' = {}
  BY <1>0, EmptySeq DEF FreeChunks
<1>2. nbElements \in Nat
  BY <1>0 DEF TypeOK
<1>3. held = 0 .. nbElements - 1
  BY <1>0, <1>1, <1>2 DEF Accounted
<1>4. nbElements \notin held /\ held' = 0 .. nbElements
  BY <1>0, <1>2, <1>3
<1>5. size' \in Nat /\ size' > nbElements
  BY <1>0, <1>2, ReservedLemma DEF TypeOK
<1>6. TypeOK'
  BY <1>0, <1>2, <1>4, <1>5, EmptySeq DEF TypeOK
<1>7. Accounted'
  <2>1. IsFiniteSet(held') /\ Cardinality(held') = nbElements'
    <3>1. IsFiniteSet(held) /\ Cardinality(held) = nbElements
      BY <1>0 DEF Accounted
    <3>2. /\ IsFiniteSet(held \union {nbElements})
          /\ Cardinality(held \union {nbElements}) = Cardinality(held) + 1
      BY <1>4, <3>1, FS_AddElement
    <3> QED
      BY <1>0, <3>1, <3>2
  <2>2. held' \union FreeChunks' = 0 .. nbElements' + Len(freeList') - 1
    BY <1>0, <1>1, <1>2, <1>4
  <2> QED
    BY <1>1, <2>1, <2>2 DEF Accounted
<1>8. InBlocks'
  <2>1. maxAllocatedIndex' \in Nat /\ maxAllocatedIndex' >= nbElements
    BY <1>0, <1>2 DEF TypeOK
  <2> QED
    BY <1>1, <1>2, <1>4, <1>5, <2>1 DEF InBlocks
<1> QED
  BY <1>4, <1>6, <1>7, <1>8 DEF Inv

LEMMA ReleaseLemma ==
  ASSUME Inv, NEW c \in held, Release(c)
  PROVE  Inv'
<1> DEFINE n == Len(freeList)
<1>0. /\ TypeOK /\ Accounted /\ InBlocks
      /\ held' = held \ {c} /\ freeList' = <<c>> \o freeList
      /\ nbElements' = nbElements - 1
      /\ size' = size /\ maxAllocatedIndex' = maxAllocatedIndex
  BY DEF Inv, Release
<1>1. /\ n \in Nat /\ DOMAIN freeList = 1 .. n
      /\ FreeChunks = {freeList[i] : i \in 1 .. n} /\ FreeChunks \subseteq Nat
  BY <1>0, FreeChunksLemma
<1>2. c \in Nat /\ c \notin FreeChunks
  BY <1>0 DEF TypeOK, Accounted
<1>3. /\ freeList' \in Seq(Nat) /\ Len(freeList') = n + 1
      /\ freeList'[1] = c
      /\ \A i \in 2 .. n + 1 : freeList'[i] = freeList[i - 1]
  <2>1. <<c>> \in Seq(Nat) /\ Len(<<c>>) = 1 /\ <<c>>[1] = c
    BY <1>2
  <2>2. /\ freeList' \in Seq(Nat) /\ Len(freeList') = 1 + n
        /\ \A i \in 1 .. 1 + n : freeList'[i] = IF i <= 1 THEN <<c>>[i] ELSE freeList[i - 1]
    BY <1>0, <2>1, ConcatProperties DEF TypeOK
  <2> QED
    BY <1>1, <2>1, <2>2
<1>4. DOMAIN freeList' = 1 .. n + 1
  BY <1>3, LenProperties
<1>5. \A i \in 1 .. n + 1 : i = 1 \/ (i \in 2 .. n + 1 /\ i - 1 \in 1 .. n)
  BY <1>1
<1>6. FreeChunks' = FreeChunks \union {c}
  <2>1. FreeChunks' = {freeList'[i] : i \in 1 .. n + 1}
    BY <1>4 DEF FreeChunks
  <2>2. \A i \in 1 .. n : i + 1 \in 2 .. n + 1 /\ (i + 1) - 1 = i /\ i + 1 \in 1 .. n + 1
    BY <1>1
  <2>3. \A i \in 1 .. n + 1 : freeList'[i] \in FreeChunks \union {c}
    BY <1>1, <1>3, <1>5
  <2>4. \A f \in FreeChunks : \E i \in 1 .. n + 1 : f = freeList'[i]
    <3> SUFFICES ASSUME NEW k \in 1 .. n
                 PROVE  \E i \in 1 .. n + 1 : freeList[k] = freeList'[i]
      BY <1>1
    <3>1. freeList'[k + 1] = freeList[(k + 1) - 1]
      BY <1>3, <2>2
    <3> QED
      BY <2>2, <3>1
  <2>5. 1 \in 1 .. n + 1
    BY <1>1
  <2> QED
    BY <1>3, <2>1, <2>3, <2>4, <2>5
<1>7. IsFiniteSet(held') /\ Cardinality(held') = nbElements - 1 /\ nbElements \in Nat
  <2>1. IsFiniteSet(held) /\ Cardinality(held) = nbElements
    BY <1>0 DEF Accounted
  <2>2. IsFiniteSet(held \ {c}) /\ Cardinality(held \ {c}) = Cardinality(held) - 1
    BY <2>1, FS_RemoveElement
  <2> QED
    BY <1>0, <2>1, <2>2 DEF TypeOK
<1>8. nbElements' \in Nat
  BY <1>0, <1>7, FS_CardinalityType
<1>9. TypeOK'
  BY <1>0, <1>3, <1>8 DEF TypeOK
<1>10. Accounted'
  <2>1. \A i, j \in 1 .. n + 1 : freeList'[i] = freeList'[j] => i = j
    <3> SUFFICES ASSUME NEW i \in 1 .. n + 1, NEW j \in 1 .. n + 1,
                        freeList'[i] = freeList'[j]
                 PROVE  i = j
      OBVIOUS
    <3>1. CASE i = 1 /\ j = 1
      BY <3>1
    <3>2. CASE i \in 2 .. n + 1 /\ j \in 2 .. n + 1
      <4>1. freeList[i - 1] = freeList[j - 1] /\ i - 1 \in 1 .. n /\ j - 1 \in 1 .. n
        BY <1>1, <1>3, <3>2
      <4>2. i - 1 = j - 1
        BY <1>0, <1>1, <4>1 DEF Accounted
      <4> QED
        BY <4>2
    <3>3. CASE i = 1 /\ j \in 2 .. n + 1
      <4>1. freeList[j - 1] = c /\ j - 1 \in 1 .. n
        BY <1>1, <1>3, <3>3
      <4> QED
        BY <1>1, <1>2, <4>1
    <3>4. CASE j = 1 /\ i \in 2 .. n + 1
      <4>1. freeList[i - 1] = c /\ i - 1 \in 1 .. n
        BY <1>1, <1>3, <3>4
      <4> QED
        BY <1>1, <1>2, <4>1
    <3> QED
      BY <1>5, <3>1, <3>2, <3>3, <3>4
  <2>2. held' \intersect FreeChunks' = {}
    BY <1>0, <1>6 DEF Accounted
  <2>3. nbElements' + Len(freeList') = nbElements + n
    BY <1>0, <1>1, <1>3, <1>7
  <2>4. held' \union FreeChunks' = 0 .. nbElements' + Len(freeList') - 1
    <3>1. held' \union FreeChunks' = held \union FreeChunks
      BY <1>0, <1>6
    <3>2. held \union FreeChunks = 0 .. nbElements + Len(freeList) - 1
      BY <1>0 DEF Accounted
    <3>3. nbElements' + Len(freeList') - 1 = nbElements + Len(freeList) - 1
      BY <1>0, <1>1, <1>3, <1>7
    <3> QED
      BY <3>1, <3>2, <3>3, Zenon
  <2> QED
    BY <1>0, <1>4, <1>7, <2>1, <2>2, <2>4 DEF Accounted
<1>11. InBlocks'
  BY <1>0, <1>6 DEF InBlocks
<1> QED
  BY <1>9, <1>10, <1>11 DEF Inv

\* While an index above 0 has been used, what is doomed takes in all the held.
LEMMA DestroyAllLemma ==
  ASSUME Inv, DestroyAll
  PROVE  Inv'
<1>0. /\ TypeOK /\ Accounted /\ InBlocks /\ maxAllocatedIndex # 0
      /\ held' = held \ Doomed /\ nbElements' = 0 /\ freeList' = <<>>
      /\ size' = size /\ maxAllocatedIndex' = maxAllocatedIndex
  BY DEF Inv, DestroyAll
<1>1. held \subseteq Doomed
  BY <1>0 DEF TypeOK, Accounted, InBlocks, Doomed
<1>2. held' = {}
  BY <1>0, <1>1
<1>3. Len(freeList') = 0 /\ FreeChunks' = {} /\ DOMAIN freeList' = {}
  BY <1>0, EmptySeq DEF FreeChunks
<1>4. TypeOK'
  BY <1>0, <1>2, EmptySeq DEF TypeOK
<1>5. 0 .. nbElements' + Len(freeList') - 1 = {}
  BY <1>0, <1>3
<1>6. Accounted'
  BY <1>0, <1>2, <1>3, <1>5, FS_EmptySet DEF Accounted
<1> QED
  BY <1>2, <1>3, <1>4, <1>6 DEF Inv, InBlocks

LEMMA NextLemma ==
  ASSUME Inv, [Next]_vars
  PROVE  Inv'
<1>1. CASE Next
  BY <1>1, ReserveLemma, RecycleLemma, ExtendLemma, ReleaseLemma, DestroyAllLemma
  DEF Next, Allocate
<1>2. CASE UNCHANGED vars
  BY <1>2 DEF vars, Inv, TypeOK, Accounted, InBlocks, FreeChunks
<1> QED
  BY <1>1, <1>2

\* The pool's bookkeeping is exact in every reachable state: a chunk is held,
\* or free, or was never used, and every chunk in use lies in a block.
THEOREM PoolInvariant == Spec => []Inv
<1>1. Init => Inv
  BY InitLemma
<1>2. Inv /\ [Next]_vars => Inv'
  BY NextLemma
<1> QED
  BY <1>1, <1>2, PTL DEF Spec

\* Type correctness.
THEOREM PoolTypeCorrect == Spec => []TypeOK
<1>1. Inv => TypeOK
  BY DEF Inv
<1> QED
  BY <1>1, PoolInvariant, PTL

\* Held, free and unused chunks are told apart, and the counter is exact.
THEOREM PoolAccounted == Spec => []Accounted
<1>1. Inv => Accounted
  BY DEF Inv
<1> QED
  BY <1>1, PoolInvariant, PTL

\* Every chunk in use lies in a block and below the high-water mark.
THEOREM PoolInBlocks == Spec => []InBlocks
<1>1. Inv => InBlocks
  BY DEF Inv
<1> QED
  BY <1>1, PoolInvariant, PTL

\* Both: what is in use, free and still unused is told apart.
THEOREM PoolSound == Spec => []ChunksSound
<1>1. Inv => ChunksSound
  BY DEF Inv, ChunksSound
<1> QED
  BY <1>1, PoolInvariant, PTL

\* An allocation never hands out a chunk that somebody holds.
THEOREM PoolGivesFresh == Spec => GivesFresh
<1> DEFINE Fresh == nbElements' > nbElements =>
                      \E c \in held' : held' = held \union {c} /\ c \notin held
<1>1. Inv /\ [Next]_vars => [Fresh]_vars
  <2> SUFFICES ASSUME Inv, Next
               PROVE  Fresh
    BY DEF vars
  <2>1. CASE Recycle
    <3>1. Head(freeList) \notin held
      BY <2>1, RecycleLemma
    <3> QED
      BY <2>1, <3>1 DEF Recycle
  <2>2. CASE Extend
    <3>1. nbElements \notin held
      BY <2>2, ExtendLemma
    <3> QED
      BY <2>2, <3>1 DEF Extend
  <2>3. CASE nbElements' <= nbElements
    BY <2>3, NextLemma DEF Inv, TypeOK, vars
  <2>4. nbElements \in Nat
    BY DEF Inv, TypeOK
  <2>5. ASSUME NEW n \in 0 .. MaxChunks - 1, Reserve(n)
        PROVE  nbElements' <= nbElements
    BY <2>4, <2>5 DEF Reserve
  <2>6. ASSUME NEW c \in held, Release(c)
        PROVE  nbElements' <= nbElements
    BY <2>4, <2>6 DEF Release
  <2>7. CASE DestroyAll
    BY <2>3, <2>4, <2>7 DEF DestroyAll
  <2> QED
    BY <2>1, <2>2, <2>3, <2>5, <2>6, <2>7 DEF Next, Allocate
<1> QED
  BY <1>1, PoolInvariant, PTL DEF Spec, GivesFresh
=============================================================================
