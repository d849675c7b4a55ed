--------------------------------- MODULE Avl ---------------------------------
(***************************************************************************)
(* jk_avl.c as operators on a tree value.  The nodes belong to the caller  *)
(* and a tree is a root pointer and the fields of the nodes, so a value    *)
(* has what every pointer points to:                                       *)
(*   at[place]   the node a jk_avl_node_t ** points to; the places are the *)
(*               root and the left and right fields of each node           *)
(*   key[n], height[n]                                                     *)
(* A stack of nodeplaces is a sequence of places.                          *)
(*                                                                         *)
(* Faulty variants, named for the fault, stand before the definition they  *)
(* would replace; no specification uses them.                              *)
(***************************************************************************)
EXTENDS Integers, SequencesExt

CONSTANTS
    Nodes,          \* the nodes a caller may insert
    Nil,            \* jk_avl_empty_node
    MaxHeight       \* JK_AVL_MAX_HEIGHT, the size of the stacks

ASSUME AvlAssumption == Nil \notin Nodes /\ MaxHeight \in Nat

Root == <<"root">>
Child(n, side) == <<n, side>>
Left(n) == Child(n, "left")
Right(n) == Child(n, "right")
Other(side) == IF side = "left" THEN "right" ELSE "left"
Places == {Root} \cup {Left(n) : n \in Nodes} \cup {Right(n) : n \in Nodes}

EmptyTree == [at |-> [p \in Places |-> Nil],
              key |-> [n \in Nodes |-> 0],
              height |-> [n \in Nodes |-> 0]]

LeftOf(T, n) == T.at[Left(n)]
RightOf(T, n) == T.at[Right(n)]
HeightOf(T, n) == IF n = Nil THEN 0 ELSE T.height[n]

-----------------------------------------------------------------------------
(* jk_avl_find_min and jk_avl_find_max                                     *)
FirstNode(T) == T.at[Root]
RECURSIVE Leftmost(_, _), Rightmost(_, _)
Leftmost(T, n) == IF LeftOf(T, n) = Nil THEN n ELSE Leftmost(T, LeftOf(T, n))
Rightmost(T, n) == IF RightOf(T, n) = Nil THEN n ELSE Rightmost(T, RightOf(T, n))
FindMin(T) == IF T.at[Root] = Nil THEN Nil ELSE Leftmost(T, T.at[Root])
FindMax(T) == IF T.at[Root] = Nil THEN Nil ELSE Rightmost(T, T.at[Root])

\* where the three searches look for key k below node n
Toward(T, k, n) == IF k < T.key[n] THEN Left(n) ELSE Right(n)

(* jk_avl_find_node                                                        *)
RECURSIVE FindFrom(_, _, _)
FindFrom(T, k, n) == IF n = Nil \/ T.key[n] = k THEN n
                     ELSE FindFrom(T, k, T.at[Toward(T, k, n)])
FindNode(T, k) == FindFrom(T, k, T.at[Root])

-----------------------------------------------------------------------------
LeansOutStrictly(T, outer, inner) == HeightOf(T, outer) > HeightOf(T, inner)

\* whether a single rotation is enough
LeansOut(T, outer, inner) == HeightOf(T, outer) >= HeightOf(T, inner)

(***************************************************************************)
(* The two rotations of jk_avl_rebalance, for the node at a place whose    *)
(* subtree on the side "high" is too high.                                 *)
(***************************************************************************)
RotateOnce(T, place, high) ==
    LET node == T.at[place]
        child == T.at[Child(node, high)]
        inner == T.at[Child(child, Other(high))]
        h == 1 + HeightOf(T, inner)
    IN  [T EXCEPT !.at[Child(node, high)] = inner,
                  !.at[Child(child, Other(high))] = node,
                  !.at[place] = child,
                  !.height[node] = h,
                  !.height[child] = 1 + h]

RotateTwice(T, place, high) ==
    LET node == T.at[place]
        child == T.at[Child(node, high)]
        inner == T.at[Child(child, Other(high))]
        h == HeightOf(T, inner)
    IN  [T EXCEPT !.at[Child(child, Other(high))] = T.at[Child(inner, high)],
                  !.at[Child(node, high)] = T.at[Child(inner, Other(high))],
                  !.at[Child(inner, high)] = child,
                  !.at[Child(inner, Other(high))] = node,
                  !.at[place] = inner,
                  !.height[child] = h,
                  !.height[node] = h,
                  !.height[inner] = T.height[child]]

Rotate(T, place, high) ==
    LET child == T.at[Child(T.at[place], high)]
    IN  IF LeansOut(T, T.at[Child(child, high)], T.at[Child(child, Other(high))])
        THEN RotateOnce(T, place, high)
        ELSE RotateTwice(T, place, high)

(* jk_avl_rebalance: from the top of the stack until a height is right.    *)
RECURSIVE Rebalance(_, _)
Rebalance(T, stack) ==
    IF stack = <<>> THEN T
    ELSE LET place == Last(stack)
             node == T.at[place]
             hl == HeightOf(T, LeftOf(T, node))
             hr == HeightOf(T, RightOf(T, node))
             h == 1 + IF hl < hr THEN hr ELSE hl
         IN  CASE hr + 1 < hl -> Rebalance(Rotate(T, place, "left"), Front(stack))
               [] hl + 1 < hr -> Rebalance(Rotate(T, place, "right"), Front(stack))
               [] OTHER -> IF h = T.height[node] THEN T
                           ELSE Rebalance([T EXCEPT !.height[node] = h], Front(stack))

-----------------------------------------------------------------------------
RECURSIVE InsertPath(_, _, _), RemovePath(_, _, _), PredecessorPath(_, _)

\* the places jk_avl_insert passes on its way to the empty one, which is last
InsertPath(T, k, place) ==
    IF T.at[place] = Nil THEN <<place>>
    ELSE <<place>> \o InsertPath(T, k, Toward(T, k, T.at[place]))

(* jk_avl_insert of node n, whose key the caller has set to k              *)
InsertInto(T, n, k) ==
    LET path == InsertPath(T, k, Root)
    IN  Rebalance([T EXCEPT !.key[n] = k,
                            !.at[Left(n)] = Nil,
                            !.at[Right(n)] = Nil,
                            !.height[n] = 1,
                            !.at[Last(path)] = n],
                  Front(path))

\* the places jk_avl_remove passes until it meets the key, which is not
\* necessarily where the node to delete is
RemovePath(T, k, place) ==
    IF T.key[T.at[place]] = k THEN <<place>>
    ELSE <<place>> \o RemovePath(T, k, Toward(T, k, T.at[place]))

\* the places from one to that of the rightmost node below it
PredecessorPath(T, place) ==
    IF RightOf(T, T.at[place]) = Nil THEN <<place>>
    ELSE <<place>> \o PredecessorPath(T, Right(T.at[place]))

\* the stack still names the left field of the deleted node
StackNotPatched(path, down, m) == path \o Front(down)

\* *stack_ptr_to_delete = &node->left
StackThrough(path, down, m) ==
    path \o [i \in 1..(Len(down) - 1) |-> IF i = 1 THEN Left(m) ELSE down[i]]

RightChildForgotten(T, n) == [T EXCEPT !.at[Last(RemovePath(T, T.key[n], Root))] = Nil]

(***************************************************************************)
(* jk_avl_remove.  A node without a left child gives its place to its      *)
(* right child; otherwise its predecessor m takes its place.               *)
(***************************************************************************)
RemoveFrom(T, n) ==
    LET path == RemovePath(T, T.key[n], Root)
        place == Last(path)
        down == PredecessorPath(T, Left(n))
        m == T.at[Last(down)]
        cut == [T EXCEPT !.at[Last(down)] = LeftOf(T, m)]
        moved == [cut EXCEPT !.at[Left(m)] = LeftOf(cut, n),
                             !.at[Right(m)] = RightOf(cut, n),
                             !.height[m] = cut.height[n],
                             !.at[place] = m]
    IN  IF LeftOf(T, n) = Nil
        THEN Rebalance([T EXCEPT !.at[place] = RightOf(T, n)], Front(path))
        ELSE Rebalance(moved, StackThrough(path, down, m))

-----------------------------------------------------------------------------
(* The reference the checks compare with: the nodes below n, itself        *)
(* included, and what makes them a search tree, balanced, with heights.    *)
RECURSIVE Below(_, _), TrueHeight(_, _)
Below(T, n) == IF n = Nil THEN {}
               ELSE {n} \cup Below(T, LeftOf(T, n)) \cup Below(T, RightOf(T, n))
TrueHeight(T, n) ==
    IF n = Nil THEN 0
    ELSE LET hl == TrueHeight(T, LeftOf(T, n))
             hr == TrueHeight(T, RightOf(T, n))
         IN  1 + IF hl < hr THEN hr ELSE hl

Linked(T) == Below(T, T.at[Root])

Ordered(T) == \A n \in Linked(T) :
                 /\ \A m \in Below(T, LeftOf(T, n)) : T.key[m] <= T.key[n]
                 /\ \A m \in Below(T, RightOf(T, n)) : T.key[m] >= T.key[n]

Balanced(T) == \A n \in Linked(T) :
                  /\ T.height[n] = TrueHeight(T, n)
                  /\ HeightOf(T, LeftOf(T, n)) - HeightOf(T, RightOf(T, n)) \in {-1, 0, 1}
=============================================================================
