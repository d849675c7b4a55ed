-------------------------------- MODULE Timer --------------------------------
(***************************************************************************)
(* jk_timer.c: timers in an AVL tree whose key is the millisecond at which *)
(* they expire.  One thread pushes timers and calls                        *)
(* jk_timer_process_timeout; callbacks run inside that call and may push   *)
(* timers.  The clock moves at any moment, and need not move forward.      *)
(***************************************************************************)
EXTENDS Avl

CONSTANTS
    MaxTime,        \* bound on the clock and on the times timers expire
    Timeouts,       \* the timeouts of pushes
    Retvals,        \* the jk_uint64_t values callbacks return
    IntBits,        \* the width of int
    Ties,           \* whether two armed timers may expire at the same time
    ClockMayGoBack  \* whether the system time may be set back

ASSUME TimerAssumption ==
    /\ MaxTime \in Nat
    /\ Timeouts \subseteq Nat /\ Retvals \subseteq Nat
    /\ IntBits \in Nat \ {0}
    /\ Ties \in BOOLEAN /\ ClockMayGoBack \in BOOLEAN

VARIABLES
    tree,           \* timer->root and the timer_node of every timer
    now,            \* the time of day in milliseconds
    current,        \* the time jk_timer_process_timeout last read
    tpc,            \* where the thread is in jk_timer_process_timeout
    node,           \* the timer whose callback runs
    mem             \* the malloc state of every timer

vars == <<tree, now, current, tpc, node, mem>>

Init == /\ tree = EmptyTree
        /\ now \in 0..MaxTime
        /\ current = 0
        /\ tpc = "idle"
        /\ node = Nil
        /\ mem = [n \in Nodes |-> "free"]

(* gettimeofday                                                            *)
Clock == \E t \in 0..MaxTime :
            /\ t = now + 1 \/ (ClockMayGoBack /\ t < now)
            /\ now' = t
            /\ UNCHANGED <<tree, current, tpc, node, mem>>

Linkable(k) == /\ k <= MaxTime
               /\ Ties \/ \A n \in Linked(tree) : tree.key[n] # k

(* jk_timer_push, outside jk_timer_process_timeout or in a callback.  When *)
(* malloc fails nothing changes.                                           *)
Push(n, timeout) == /\ tpc \in {"idle", "callback"}
                    /\ mem[n] = "free"
                    /\ Linkable(timeout + now)
                    /\ mem' = [mem EXCEPT ![n] = "live"]
                    /\ tree' = InsertInto(tree, n, timeout + now)
                    /\ UNCHANGED <<now, current, tpc, node>>

Call == /\ tpc = "idle"
        /\ tpc' = "loop"
        /\ UNCHANGED <<tree, now, current, node, mem>>

(* jk_timer_min_node                                                       *)
MinNode(T) == FindMin(T)

\* no elements timeout
NoneTimedOutStrictly(time) == MinNode(tree) # Nil => tree.key[MinNode(tree)] >= time
NoneTimedOut(time) == MinNode(tree) # Nil => tree.key[MinNode(tree)] > time

(* The loop of jk_timer_process_timeout reads the clock, and returns or    *)
(* takes the first timer out of the tree.                                  *)
Leave == /\ tpc = "loop"
         /\ current' = now
         /\ NoneTimedOut(now)
         /\ tpc' = "idle"
         /\ UNCHANGED <<tree, now, node, mem>>

Expire == /\ tpc = "loop"
          /\ current' = now
          /\ ~NoneTimedOut(now)
          /\ node' = MinNode(tree)
          /\ tree' = RemoveFrom(tree, MinNode(tree))
          /\ tpc' = "callback"
          /\ UNCHANGED <<now, mem>>

(* The callback returns a jk_uint64_t, which is stored in an int.          *)
ToInt(v) == LET low == v % 2^IntBits
            IN  IF low < 2^(IntBits - 1) THEN low ELSE low - 2^IntBits

\* the memory of a timer that is freed: its fields are forgotten
Forget(T, n) == [T EXCEPT !.at[Left(n)] = Nil, !.at[Right(n)] = Nil,
                          !.key[n] = 0, !.height[n] = 0]

Rearm(v) == /\ tpc = "callback" /\ ToInt(v) > 0
            /\ Linkable(ToInt(v) + now)
            /\ tree' = InsertInto(tree, node, ToInt(v) + now)
            /\ node' = Nil
            /\ tpc' = "loop"
            /\ UNCHANGED <<now, current, mem>>

GiveUp(v) == /\ tpc = "callback" /\ ToInt(v) <= 0
             /\ tree' = Forget(tree, node)
             /\ mem' = [mem EXCEPT ![node] = "free"]
             /\ node' = Nil
             /\ tpc' = "loop"
             /\ UNCHANGED <<now, current>>

(* jk_timer_free: every node is freed after its children.                  *)
Destroy == /\ tpc = "idle"
           /\ mem' = [n \in Nodes |-> IF n \in Linked(tree) THEN "free" ELSE mem[n]]
           /\ tree' = EmptyTree
           /\ tpc' = "gone"
           /\ UNCHANGED <<now, current, node>>

Next == \/ Clock \/ Call \/ Leave \/ Expire \/ Destroy
        \/ \E n \in Nodes, timeout \in Timeouts : Push(n, timeout)
        \/ \E v \in Retvals : Rearm(v) \/ GiveUp(v)

Spec == Init /\ [][Next]_vars

(***************************************************************************)
(* Time passes, jk_timer_process_timeout is called again and again, and    *)
(* callbacks return.  The clock is set back a finite number of times.      *)
(***************************************************************************)
Fairness == /\ WF_vars(Clock /\ now' > now)
            /\ <>[][now' > now]_now
            /\ WF_vars(Call)
            /\ WF_vars(Leave \/ Expire)
            /\ WF_vars(\E v \in Retvals : Rearm(v) \/ GiveUp(v))

FairSpec == Spec /\ Fairness

-----------------------------------------------------------------------------
(* Every field and local variable keeps its type.                          *)
TypeOK == /\ tree.at \in [Places -> Nodes \cup {Nil}]
          /\ tree.key \in [Nodes -> 0..MaxTime]
          /\ tree.height \in [Nodes -> 0..MaxHeight]
          /\ now \in 0..MaxTime /\ current \in 0..MaxTime
          /\ tpc \in {"idle", "loop", "callback", "gone"}
          /\ node \in Nodes \cup {Nil}
          /\ mem \in [Nodes -> {"free", "live"}]

(***************************************************************************)
(* A timer that was allocated hangs in the tree or is the one whose        *)
(* callback runs, never both: none is lost, and none is freed while the    *)
(* tree still points to it, whatever number a callback returned.           *)
(***************************************************************************)
NoTimerLost == /\ TypeOK
               /\ Linked(tree) \cap {node} = {}
               /\ Linked(tree) \cup ({node} \ {Nil}) = {n \in Nodes : mem[n] = "live"}

(***************************************************************************)
(* When jk_timer_process_timeout returns, no timer that was pushed and not *)
(* yet given up had expired at the time it last read: "no elements         *)
(* timeout", as its comment says.                                          *)
(***************************************************************************)
NoElementsTimeout ==
    [][tpc = "loop" /\ tpc' = "idle" =>
           \A n \in Nodes : mem'[n] = "live" => tree'.key[n] > current']_vars

(* A timer that was pushed fires, or the timers are destroyed.             *)
Waiting(n) == mem[n] = "live" /\ node # n
EveryTimerFires == \A n \in Nodes : Waiting(n) ~> (node = n \/ tpc = "gone")

-----------------------------------------------------------------------------
(* The timers as a TimerSet.  A timer that is allocated but cannot be      *)
(* reached would still be armed, and would be in the way of later ones.    *)
Off == Nil
due == [n \in Nodes |-> IF Waiting(n) THEN tree.key[n] ELSE Off]
Promise == INSTANCE TimerSet WITH Timers <- Nodes, firing <- {node} \ {Nil}

(* The tree of timers implements the set of timers.                        *)
ImplementsTimerSet == Promise!Spec
=============================================================================
