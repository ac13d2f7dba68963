------------------------------ MODULE PinNode -------------------------------
(***************************************************************************)
(* pin_node.h: a block of N order slots, the occupied ones linked in       *)
(* priority order, the others in a free list threaded through the same     *)
(* next links.  An order is represented by its id.                         *)
(*                                                                         *)
(* What a free slot held, and its prev link, are never read again and are  *)
(* blanked here when the slot is freed.                                    *)
(***************************************************************************)
EXTENDS Naturals

CONSTANTS
  N,       \* kNodeCapacity
  NoOrder  \* an unoccupied slot

Slots == 0 .. N - 1
npos == N   \* any value that is no slot

\* The constructor threads the free list through all slots.
FreshNode ==
  [slot |-> [s \in Slots |-> NoOrder],
   next |-> [s \in Slots |-> IF s = N - 1 THEN npos ELSE s + 1],
   prev |-> [s \in Slots |-> npos],
   head |-> npos, tail |-> npos, free |-> 0, size |-> 0]

IsFull(nd) == nd.size = N
IsEmpty(nd) == nd.size = 0

\* alloc takes the first free slot, nd.free; asserted, and not checked in a
\* release build: there is one.
Alloc(nd, x) ==
  [nd EXCEPT !.free = nd.next[nd.free], !.slot[nd.free] = x, !.size = @ + 1]

LinkFront(nd, s) ==
  [nd EXCEPT !.prev = [t \in Slots |-> IF t = s THEN npos
                                       ELSE IF t = nd.head THEN s
                                       ELSE nd.prev[t]],
             !.next[s] = nd.head,
             !.tail = IF nd.head = npos THEN s ELSE @,
             !.head = s]

LinkBack(nd, s) ==
  [nd EXCEPT !.next = [t \in Slots |-> IF t = s THEN npos
                                       ELSE IF t = nd.tail THEN s
                                       ELSE nd.next[t]],
             !.prev[s] = nd.tail,
             !.head = IF nd.tail = npos THEN s ELSE @,
             !.tail = s]

SpliceAfter(nd, ref, s) ==
  LET n == nd.next[ref] IN
  [nd EXCEPT !.prev = [t \in Slots |-> IF t = s THEN ref
                                       ELSE IF t = n THEN s
                                       ELSE nd.prev[t]],
             !.next = [t \in Slots |-> IF t = s THEN n
                                       ELSE IF t = ref THEN s
                                       ELSE nd.next[t]],
             !.tail = IF n = npos THEN s ELSE @]

\* append, prepend and insert_after put the order in slot nd.free.
NodeAppend(nd, x) == LinkBack(Alloc(nd, x), nd.free)
NodePrepend(nd, x) == LinkFront(Alloc(nd, x), nd.free)
NodeInsertAfter(nd, ref, x) == SpliceAfter(Alloc(nd, x), ref, nd.free)

FreeSlot(nd, s) ==
  [nd EXCEPT !.next[s] = nd.free, !.free = s, !.size = @ - 1,
             !.slot[s] = NoOrder, !.prev[s] = npos]

\* The last order of the node is put in the slot that is freed.
MutNodeErase(nd, s) ==
  LET t == nd.tail
      p == nd.prev[t]
  IN  FreeSlot([nd EXCEPT !.slot[s] = nd.slot[t],
                          !.tail = p,
                          !.head = IF p = npos THEN npos ELSE @,
                          !.next = [u \in Slots |-> IF u = p THEN npos
                                                    ELSE nd.next[u]]], t)

NodeErase(nd, s) ==
  LET p == nd.prev[s]
      n == nd.next[s]
  IN  FreeSlot([nd EXCEPT
                  !.head = IF p = npos THEN n ELSE @,
                  !.tail = IF n = npos THEN p ELSE @,
                  !.next = [t \in Slots |-> IF t = p THEN n ELSE nd.next[t]],
                  !.prev = [t \in Slots |-> IF t = n THEN p ELSE nd.prev[t]]], s)
=============================================================================
