----------------------------- MODULE KeyedStacks -----------------------------
(***************************************************************************)
(* What jk_skip promises its users, with no levels: under each key a stack *)
(* of values.  A key that is inserted again hides the value it had until   *)
(* the new one is deleted.                                                 *)
(***************************************************************************)
EXTENDS Sequences

CONSTANTS
    Keys,
    Values

VARIABLE stacks

Init == stacks = [k \in Keys |-> <<>>]

Push(k) == /\ stacks'[k] # <<>> /\ Tail(stacks'[k]) = stacks[k]
           /\ Head(stacks'[k]) \in Values
           /\ stacks' = [stacks EXCEPT ![k] = stacks'[k]]

Pop(k) == /\ stacks[k] # <<>>
          /\ stacks' = [stacks EXCEPT ![k] = Tail(@)]

Clear == stacks' = [k \in Keys |-> <<>>]

Next == Clear \/ \E k \in Keys : Pop(k) \/ Push(k)

Spec == Init /\ [][Next]_stacks
=============================================================================
