----------------------------- MODULE MCContainers -----------------------------
(* The instance of Containers that TLC checks.                             *)
EXTENDS Containers, MCBloom

\* each node of the tree with a key of its own: a node is named by its key
OwnKey == [n \in Nodes |-> n]

\* items of the heap, some of the same priority
SomePrios == [x \in HeapItems |-> x \div 2]

(***************************************************************************)
(* The arrays of JK_AVL_MAX_HEIGHT = 41 places are scaled down to          *)
(* MaxHeight.  A balanced tree of height h has at least FewestNodes[h][1]  *)
(* nodes, and one that is higher by one FewestNodes[h][2]: here as many as *)
(* the instance has and more, in the code more than 700 million before a   *)
(* path is longer than the arrays.                                         *)
(***************************************************************************)
FewestNodes[h \in 0..41] ==
    IF h = 0 THEN <<0, 1>>
    ELSE LET less == FewestNodes[h-1]
         IN  <<less[2], less[1] + less[2] + 1>>

ASSUME TallestTree == /\ FewestNodes[MaxHeight][1] <= Cardinality(Nodes)
                      /\ Cardinality(Nodes) < FewestNodes[MaxHeight][2]

ASSUME LongestPath == FewestNodes[41][2] > 700000000
=============================================================================
