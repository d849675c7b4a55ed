---------------------------- MODULE PriorityQueue ----------------------------
(***************************************************************************)
(* What jk_heap promises its users, with no array: a set of items from     *)
(* which one of the highest priority is taken.                             *)
(***************************************************************************)
EXTENDS Integers

CONSTANTS
    Items,
    Prio            \* the priority of each item

VARIABLE members

Init == members = {}

Insert(x) == x \notin members /\ members' = members \cup {x}

TakeTop(x) == /\ x \in members
              /\ \A y \in members : Prio[y] <= Prio[x]
              /\ members' = members \ {x}

Clear == members' = {}

Next == Clear \/ \E x \in Items : Insert(x) \/ TakeTop(x)

Spec == Init /\ [][Next]_members
=============================================================================
