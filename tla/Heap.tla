--------------------------------- MODULE Heap ---------------------------------
(***************************************************************************)
(* jk_heap.c: a binary heap in an array that grows by a fixed number of    *)
(* places and is cut to one and a half times its content when items leave. *)
(* comp is positive when its first item has the higher priority.  A place  *)
(* that holds no item of the heap is Junk: nothing may depend on it.       *)
(*                                                                         *)
(* A caller inserts an item that is not in the heap, and the heap hands it *)
(* back or, when the heap is destroyed, passes it to the destroy function. *)
(***************************************************************************)
EXTENDS Integers, FiniteSets

CONSTANTS
    HeapItems,
    Prio,               \* what comp compares
    Junk,
    HeapInitSize,       \* JK_HEAP_INIT_SIZE
    HeapIncrSize        \* JK_HEAP_INCR_SIZE

ASSUME HeapAssumption ==
    /\ Junk \notin HeapItems
    /\ Prio \in [HeapItems -> Int]
    /\ HeapInitSize \in Nat \ {0} /\ HeapIncrSize \in Nat \ {0}

VARIABLE heap           \* the fields tree, size and used of jk_heap_t

NoTree(size) == [p \in 0..size-1 |-> Junk]

\* no heap is a heap with no array
NoHeap == [tree |-> NoTree(0), size |-> 0, used |-> 0]

HeapInit == heap = NoHeap

Comp(x, y) == Prio[x] - Prio[y]

(* realloc: n items are moved to an array of "size" places.                *)
Resized(T, n, size) == [p \in 0..size-1 |-> IF p < n THEN T[p] ELSE Junk]

-----------------------------------------------------------------------------
(* Faulty variants, named for the fault, stand before the definition they  *)
(* would replace; no specification uses them.                              *)
ParentFromOne(pos) == pos \div 2
Parent(pos) == IF pos = 0 THEN 0 ELSE (pos - 1) \div 2
LeftPlace(pos) == pos * 2 + 1
RightPlace(pos) == pos * 2 + 2

(* Where x, at place i, changes places with its parent.                    *)
LowerParent(T, x, i) == IF i > 0 /\ Comp(T[Parent(i)], x) < 0 THEN Parent(i) ELSE i

(***************************************************************************)
(* The item x put at place "last" of the tree T, and moved up as long as   *)
(* it has a parent of lower priority.                                      *)
(***************************************************************************)
SiftUp(T, x, last) ==
    LET ipos[k \in 0..last] == IF k = 0 THEN last ELSE LowerParent(T, x, ipos[k-1])
        moved == {k \in 1..last : ipos[k] # ipos[k-1]}
    IN  [p \in DOMAIN T |->
            IF p = ipos[last] THEN x
            ELSE IF \E k \in moved : p = ipos[k-1] THEN T[Parent(p)]
            ELSE T[p]]

(* Where x, at place i among the first n, changes places with a child.     *)
RightUnlessLeft(T, n, x, i) ==
    IF LeftPlace(i) < n /\ Comp(T[LeftPlace(i)], x) > 0 THEN LeftPlace(i)
    ELSE IF RightPlace(i) < n /\ Comp(T[RightPlace(i)], x) > 0 THEN RightPlace(i) ELSE i
HighestChild(T, n, x, i) ==
    LET lpos == LeftPlace(i)
        rpos == RightPlace(i)
        left == lpos < n /\ Comp(T[lpos], x) > 0
    IN  IF rpos < n /\ Comp(T[rpos], IF left THEN T[lpos] ELSE x) > 0 THEN rpos
        ELSE IF left THEN lpos ELSE i

(***************************************************************************)
(* The item x put at the root of the first n places, and moved down as     *)
(* long as it has a child of higher priority.                              *)
(***************************************************************************)
SiftDown(T, n, x) ==
    LET ipos[k \in 0..n] == IF k = 0 THEN 0
                            ELSE HighestChild(T, n, x, ipos[k-1])
        moved == {k \in 1..n : ipos[k] # ipos[k-1]}
    IN  [p \in DOMAIN T |->
            IF p = ipos[n] THEN x
            ELSE IF \E k \in moved : p = ipos[k-1]
                 THEN T[ipos[CHOOSE k \in moved : p = ipos[k-1]]]
            ELSE T[p]]

-----------------------------------------------------------------------------
HeapMembers == {heap.tree[p] : p \in 0..heap.used-1}

(* jk_heap_create; when malloc fails there is no heap.                     *)
HeapCreate == /\ heap = NoHeap
              /\ heap' = [tree |-> NoTree(HeapInitSize), size |-> HeapInitSize, used |-> 0]

(* jk_heap_insert.  It changes nothing when realloc fails.                 *)
HeapInsert(x) ==
    /\ heap # NoHeap /\ x \notin HeapMembers
    /\ LET size == IF heap.used >= heap.size THEN heap.size + HeapIncrSize ELSE heap.size
       IN  heap' = [tree |-> SiftUp(Resized(heap.tree, heap.used, size), x, heap.used),
                    size |-> size,
                    used |-> heap.used + 1]

CutSize(size, used) == IF used = 0 THEN HeapInitSize
                       ELSE IF 2 * size > 3 * used THEN (3 * used) \div 2
                       ELSE size

(* jk_heap_extract: the item x is handed to the caller.  The array keeps   *)
(* its size when realloc fails.                                            *)
HeapExtract(x) ==
    /\ heap.used > 0 /\ x = heap.tree[0]
    /\ LET used == heap.used - 1
           save == heap.tree[used]
       IN  \E size \in {heap.size, CutSize(heap.size, used)} :
              LET tree == Resized(heap.tree, used, size)
              IN  heap' = [tree |-> IF used = 0 THEN tree ELSE SiftDown(tree, used, save),
                           size |-> size,
                           used |-> used]

(* jk_heap_free                                                            *)
HeapFree == heap # NoHeap /\ heap' = NoHeap

HeapNext == \/ HeapCreate \/ HeapFree
            \/ \E x \in HeapItems : HeapInsert(x) \/ HeapExtract(x)

HeapSpec == HeapInit /\ [][HeapNext]_heap

-----------------------------------------------------------------------------
(* The items fit into the array, whatever it has been cut to.              *)
HeapFits == /\ heap.size \in Nat /\ heap.used \in 0..heap.size
            /\ heap.tree \in [0..heap.size-1 -> HeapItems \cup {Junk}]

(* No item is doubled or overwritten by the exchanges.                     *)
HoldsOnce == /\ HeapMembers \subseteq HeapItems
             /\ \A p, q \in 0..heap.used-1 : heap.tree[p] = heap.tree[q] => p = q

(* No item has a higher priority than the one it hangs from.               *)
HeapOrdered == \A p, q \in 0..heap.used-1 :
                    q \in {2 * p + 1, 2 * p + 2} => Prio[heap.tree[p]] >= Prio[heap.tree[q]]

(***************************************************************************)
(* After any sequence of insertions and extractions, through every growth  *)
(* and every cut of the array and whichever realloc fails, the array is a  *)
(* heap of the items that were inserted and not extracted, each one once.  *)
(***************************************************************************)
HeapShape == HeapFits /\ HoldsOnce /\ HeapOrdered

Queue == INSTANCE PriorityQueue WITH Items <- HeapItems, members <- HeapMembers

(* What jk_heap_extract returns is an item of the highest priority.        *)
ImplementsPriorityQueue == Queue!Spec
=============================================================================
