------------------------------- MODULE AvlTree -------------------------------
(***************************************************************************)
(* A user of jk_avl.c that inserts and removes nodes in any order, through *)
(* all the trees it can build.  The user frees a node when it has removed  *)
(* it, so the fields of a removed node are forgotten.                      *)
(***************************************************************************)
EXTENDS Avl

CONSTANT
    KeyOf           \* the key the user gives each node

ASSUME AvlTreeAssumption == KeyOf \in [Nodes -> Nat]

Keys == {KeyOf[n] : n \in Nodes}

VARIABLES
    tree,           \* the root pointer and the nodes
    members         \* history: the nodes that were inserted and not removed

vars == <<tree, members>>

Init == tree = EmptyTree /\ members = {}

InsertNode(n) == /\ n \notin members
                 /\ tree' = InsertInto(tree, n, KeyOf[n])
                 /\ members' = members \cup {n}

Forget(T, n) == [T EXCEPT !.at[Left(n)] = Nil, !.at[Right(n)] = Nil,
                          !.key[n] = 0, !.height[n] = 0]

RemoveNode(n) == /\ n \in members
                 /\ tree' = Forget(RemoveFrom(tree, n), n)
                 /\ members' = members \ {n}

Next == \E n \in Nodes : InsertNode(n) \/ RemoveNode(n)

Spec == Init /\ [][Next]_vars

-----------------------------------------------------------------------------
(* Every field keeps its type, and no path outgrows the stack arrays.      *)
TypeOK == /\ tree.at \in [Places -> Nodes \cup {Nil}]
          /\ tree.key \in [Nodes -> Keys \cup {0}]
          /\ tree.height \in [Nodes -> 0..MaxHeight]
          /\ members \subseteq Nodes

(***************************************************************************)
(* Every height that is stored is the height of the subtree and no node    *)
(* leans by more than one, although jk_avl_rebalance stops at the first    *)
(* node of the path whose height it finds right; the stack arrays, which   *)
(* nothing checks, are long enough.                                        *)
(***************************************************************************)
StaysBalanced == TypeOK /\ Balanced(tree)

(* What hangs from the root is what was inserted and not removed, once.    *)
LinkedExact == /\ Linked(tree) = members
               /\ Cardinality({p \in Places : tree.at[p] # Nil}) = Cardinality(members)

(* The minimum, the maximum, and a node of the key asked for, if any.      *)
SearchesAgree ==
    /\ IF members = {} THEN FindMin(tree) = Nil /\ FindMax(tree) = Nil
       ELSE /\ FindMin(tree) \in members /\ FindMax(tree) \in members
            /\ \A n \in members : /\ KeyOf[FindMin(tree)] <= KeyOf[n]
                                  /\ KeyOf[FindMax(tree)] >= KeyOf[n]
    /\ \A k \in Keys : IF \E n \in members : KeyOf[n] = k
                       THEN FindNode(tree, k) \in members /\ KeyOf[FindNode(tree, k)] = k
                       ELSE FindNode(tree, k) = Nil

(***************************************************************************)
(* No rotation and no removal, with its patched stack of places, loses a   *)
(* node or links one twice; the keys stay in order, and so the searches    *)
(* agree with the set they search.                                         *)
(***************************************************************************)
TreeExact == LinkedExact /\ Ordered(tree) /\ SearchesAgree
=============================================================================
