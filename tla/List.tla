--------------------------------- MODULE List ---------------------------------
(***************************************************************************)
(* jk_list.h: circular lists with a head, linked through a pair of         *)
(* pointers in the caller's structures.  A node that is taken out keeps    *)
(* its pointers, so what they last led to is part of the state.            *)
(*                                                                         *)
(* One loop of the jk_list_for_each family runs at a time.  Its body may   *)
(* append nodes to any list and take out the node it is at; in a safe      *)
(* loop, which steps to a pointer it saved before the body ran, it may     *)
(* append that node again, to this list or to another.                     *)
(***************************************************************************)
EXTENDS Integers, Sequences, SequencesExt

CONSTANTS
    Heads,
    ListNodes,
    Nowhere,            \* a pointer that was never set, or no pointer
    MaxAppends          \* bound on what the body of one loop appends

ASSUME ListAssumption ==
    /\ Heads \cap ListNodes = {}
    /\ Nowhere \notin Heads \cup ListNodes
    /\ MaxAppends \in Nat

VARIABLES
    next, prev,         \* the pointers of every head and node
    order,              \* history: what the caller put into each list
    loop,               \* the loop that runs, if any
    todo,               \* history: the nodes the loop has still to visit
    appends             \* history: how many nodes its body has appended

listVars == <<next, prev, order, loop, todo, appends>>

NoLoop == [head |-> Nowhere, node |-> Nowhere, n |-> Nowhere,
           safe |-> FALSE, back |-> FALSE]

\* jk_list_init of every head
ListInit == /\ next = [x \in Heads \cup ListNodes |-> IF x \in Heads THEN x ELSE Nowhere]
            /\ prev = next
            /\ order = [h \in Heads |-> <<>>]
            /\ loop = NoLoop
            /\ todo = {}
            /\ appends = 0

InAList(x) == \E h \in Heads : x \in ToSet(order[h])

-----------------------------------------------------------------------------
(* jk_list_add, by the body of a loop or outside of one                    *)
ListAdd(h, x) ==
    /\ ~InAList(x)
    /\ loop # NoLoop => appends < MaxAppends /\ (x = loop.node => loop.safe)
    /\ next' = [next EXCEPT ![x] = h, ![prev[h]] = x]
    /\ prev' = [prev EXCEPT ![x] = prev[h], ![h] = x]
    /\ order' = [order EXCEPT ![h] = Append(@, x)]
    /\ appends' = IF loop = NoLoop THEN 0 ELSE appends + 1
    /\ UNCHANGED <<loop, todo>>

(* jk_list_del                                                             *)
ListDel(x) ==
    \E h \in Heads : \E i \in DOMAIN order[h] :
        /\ order[h][i] = x
        /\ loop # NoLoop => x = loop.node
        /\ next' = [next EXCEPT ![prev[x]] = next[x]]
        /\ prev' = [prev EXCEPT ![next[x]] = prev[x]]
        /\ order' = [order EXCEPT ![h] = RemoveAt(@, i)]
        /\ UNCHANGED <<loop, todo, appends>>

Beyond(x, back) == IF back THEN prev[x] ELSE next[x]

(* A loop begins; over an empty list it is over at once.                   *)
LoopBegin(h, safe, back) ==
    LET first == Beyond(h, back)
    IN  /\ loop = NoLoop /\ first # h
        /\ loop' = [head |-> h, node |-> first, safe |-> safe, back |-> back,
                    n |-> IF safe THEN Beyond(first, back) ELSE Nowhere]
        /\ todo' = ToSet(order[h]) \ {first}
        /\ appends' = 0
        /\ UNCHANGED <<next, prev, order>>

(* Faulty variants, named for the fault, stand before the definition they  *)
(* would replace; no specification uses them.                              *)
NeverSaved == Beyond(loop.node, loop.back)
NextNode == IF loop.safe THEN loop.n ELSE Beyond(loop.node, loop.back)

(* The body has run: the loop steps on, and is over when it is at the head. *)
LoopStep ==
    /\ loop # NoLoop
    /\ loop' = IF NextNode = loop.head THEN NoLoop
               ELSE [loop EXCEPT !.node = NextNode,
                                 !.n = IF loop.safe THEN Beyond(NextNode, loop.back)
                                       ELSE Nowhere]
    /\ todo' = todo \ {NextNode}
    /\ appends' = IF NextNode = loop.head THEN 0 ELSE appends
    /\ UNCHANGED <<next, prev, order>>

ListNext == \/ LoopStep
            \/ \E h \in Heads, safe, back \in BOOLEAN : LoopBegin(h, safe, back)
            \/ \E x \in ListNodes : ListDel(x) \/ \E h \in Heads : ListAdd(h, x)

ListSpec == ListInit /\ [][ListNext]_listVars

-----------------------------------------------------------------------------
(* The links of a head lead through its nodes in both directions.          *)
RingsClosed ==
    \A h \in Heads : LET ring == <<h>> \o order[h] \o <<h>>
                     IN  \A i \in 1..Len(ring)-1 : /\ next[ring[i]] = ring[i + 1]
                                                   /\ prev[ring[i + 1]] = ring[i]

(***************************************************************************)
(* A loop visits every node that was in the list when it began, and is     *)
(* never led out of the list, also when the body takes out the node it is  *)
(* at, moves it to another list or to the end of this one, or appends      *)
(* behind it; and the rings stay closed.                                   *)
(***************************************************************************)
LoopsComplete ==
    /\ RingsClosed
    /\ loop = NoLoop => todo = {}
    /\ loop # NoLoop => /\ todo \subseteq ToSet(order[loop.head])
                        /\ (IF loop.safe THEN loop.n ELSE Beyond(loop.node, loop.back))
                               \in {loop.head} \cup ToSet(order[loop.head])
=============================================================================
