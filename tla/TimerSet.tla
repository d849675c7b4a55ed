------------------------------ MODULE TimerSet ------------------------------
(***************************************************************************)
(* What jk_timer promises its users, with no tree: a set of timers, each   *)
(* with the time it is due; the timers that fire are due and fire in the   *)
(* order of their times, and each one is then armed anew or given up.      *)
(***************************************************************************)
EXTENDS Integers

CONSTANTS
    Timers,
    Off             \* the time of a timer that is not armed

VARIABLES
    now,            \* the clock
    due,            \* when each timer fires
    firing          \* the timers whose callback runs: at most one

vars == <<now, due, firing>>

Init == /\ now \in Nat
        /\ due = [n \in Timers |-> Off]
        /\ firing = {}

Armed == {n \in Timers : due[n] # Off}

Clock == now' # now /\ now' \in Nat /\ UNCHANGED <<due, firing>>

\* a timer gets a time, no earlier than the one given
ArmFrom(n, t) == /\ due' = [due EXCEPT ![n] = due'[n]]
                 /\ due'[n] \in Nat /\ due'[n] >= t

Arm(n) == /\ n \notin Armed \cup firing
          /\ ArmFrom(n, now)
          /\ UNCHANGED <<now, firing>>

Fire(n) == /\ n \in Armed /\ firing = {}
           /\ due[n] <= now
           /\ \A m \in Armed : due[n] <= due[m]
           /\ due' = [due EXCEPT ![n] = Off]
           /\ firing' = {n}
           /\ UNCHANGED now

(* The callback of a timer returns: it is armed anew, or given up.         *)
Return(n) == /\ n \in firing
             /\ firing' = {}
             /\ UNCHANGED due \/ ArmFrom(n, now + 1)
             /\ UNCHANGED now

Destroy == /\ firing = {}
           /\ due' = [n \in Timers |-> Off]
           /\ UNCHANGED <<now, firing>>

Next == \/ Clock \/ Destroy
        \/ \E n \in Timers : Arm(n) \/ Fire(n) \/ Return(n)

Spec == Init /\ [][Next]_vars
=============================================================================
