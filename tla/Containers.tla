------------------------------ MODULE Containers ------------------------------
(***************************************************************************)
(* The containers of the library, which share no state and no thread: in a *)
(* behaviour the program uses one of them, through every sequence of calls *)
(* that its module allows.                                                 *)
(***************************************************************************)
EXTENDS AvlTree, Heap, SkipList, List, Bloom

VARIABLE used           \* the container of this behaviour

InUse(name) == used = name /\ UNCHANGED used

containersVars == <<used, vars, heap, skipVars, listVars, bloomVars>>

ContainersInit == /\ used \in {"avl", "heap", "skip", "list", "bloom"}
                  /\ Init /\ HeapInit /\ SkipInit /\ ListInit /\ BloomInit

UseAvl == InUse("avl") /\ Next /\ UNCHANGED <<heap, skipVars, listVars, bloomVars>>
UseHeap == InUse("heap") /\ HeapNext /\ UNCHANGED <<vars, skipVars, listVars, bloomVars>>
UseSkip == InUse("skip") /\ SkipNext /\ UNCHANGED <<vars, heap, listVars, bloomVars>>
UseList == InUse("list") /\ ListNext /\ UNCHANGED <<vars, heap, skipVars, bloomVars>>
UseBloom == InUse("bloom") /\ BloomNext /\ UNCHANGED <<vars, heap, skipVars, listVars>>

ContainersNext == UseAvl \/ UseHeap \/ UseSkip \/ UseList \/ UseBloom

ContainersSpec == ContainersInit /\ [][ContainersNext]_containersVars
=============================================================================
