------------------------------- MODULE Spinlock -------------------------------
(***************************************************************************)
(* jk_spinlock.c: a lock in an int, taken by a compare-and-swap from 0 to  *)
(* the caller's number and given back by one from that number to 0.        *)
(*                                                                         *)
(* Each read of *lock and each compare-and-swap is a step of its own.      *)
(* With more than one processor the code spins in an inner loop whose      *)
(* counter n starts at 1 and is "advanced" by the expression n << 1, which *)
(* changes nothing: the loop condition n < 129 always holds, and a thread  *)
(* leaves that loop only with the lock.                                    *)
(***************************************************************************)
EXTENDS Integers

CONSTANTS
    Threads,
    Which           \* the number each thread passes as "which"

ASSUME SpinlockAssumption ==
    /\ Which \in [Threads -> Int \ {0}]
    /\ \A p, q \in Threads : Which[p] = Which[q] => p = q

VARIABLES
    lock,           \* *lock
    ncpu,           \* the static variable, 0 until jk_spinlock_init
    pc              \* where each thread is

vars == <<lock, ncpu, pc>>

Init == /\ lock = 0
        /\ ncpu = 0
        /\ pc = [p \in Threads |-> "out"]

(* sysconf reports a number of processors, or fails.                       *)
SpinlockInit == \E n \in {1, 2} : ncpu' = n /\ UNCHANGED <<lock, pc>>

Goto(p, from, to) == pc[p] = from /\ pc' = [pc EXCEPT ![p] = to]

\* jk_spinlock is called
Lock(p) == Goto(p, "out", "look") /\ UNCHANGED <<lock, ncpu>>

(* *lock == 0 is false: spin if there are processors to wait for, or yield *)
(* and begin again.                                                        *)
Busy(p) == /\ lock # 0
           /\ Goto(p, "look", IF ncpu > 1 THEN "spin" ELSE "look")
           /\ UNCHANGED <<lock, ncpu>>
Idle(p) == /\ lock = 0
           /\ Goto(p, "look", "swap")
           /\ UNCHANGED <<lock, ncpu>>

(* Faulty variants, named for the fault, stand before the definition they  *)
(* would replace; no specification uses them.                              *)
SwapBlindly(p, old, new) == lock' = new
NeverCleared(p, old, new) == lock' = IF lock = old /\ new # 0 THEN new ELSE lock

\* __sync_bool_compare_and_swap(lock, old, new)
Swap(p, old, new) == lock' = IF lock = old THEN new ELSE lock

SwapIn(p) == /\ Swap(p, 0, Which[p])
             /\ Goto(p, "swap", IF lock = 0 THEN "in"
                                ELSE IF ncpu > 1 THEN "spin" ELSE "look")
             /\ UNCHANGED ncpu

(* The inner loop pauses, looks and swaps.                                 *)
SpinBusy(p) == lock # 0 /\ Goto(p, "spin", "spin") /\ UNCHANGED <<lock, ncpu>>
SpinIdle(p) == lock = 0 /\ Goto(p, "spin", "spinswap") /\ UNCHANGED <<lock, ncpu>>
SpinSwap(p) == /\ Swap(p, 0, Which[p])
               /\ Goto(p, "spinswap", IF lock = 0 THEN "in" ELSE "spin")
               /\ UNCHANGED ncpu

(* jk_spinunlock by the thread that has the lock, and by one that has not. *)
Unlock(p) == /\ Swap(p, Which[p], 0)
             /\ Goto(p, "in", "out")
             /\ UNCHANGED ncpu
UnlockOutside(p) == /\ Swap(p, Which[p], 0)
                    /\ Goto(p, "out", "out")
                    /\ UNCHANGED ncpu

Try(p) == \/ Busy(p) \/ Idle(p) \/ SwapIn(p)
          \/ SpinBusy(p) \/ SpinIdle(p) \/ SpinSwap(p)

Next == \/ SpinlockInit
        \/ \E p \in Threads : Lock(p) \/ Try(p) \/ Unlock(p) \/ UnlockOutside(p)

Spec == Init /\ [][Next]_vars

(* Threads that want the lock run, and threads that have it give it back.  *)
Fairness == \A p \in Threads : WF_vars(Try(p)) /\ WF_vars(Unlock(p))
FairSpec == Spec /\ Fairness

-----------------------------------------------------------------------------
(* Every variable keeps its type.                                          *)
TypeOK == /\ lock \in {0} \cup {Which[p] : p \in Threads}
          /\ ncpu \in 0..2
          /\ pc \in [Threads -> {"out", "look", "swap", "spin", "spinswap", "in"}]

(* No two threads are between jk_spinlock and jk_spinunlock, though any    *)
(* thread may call jk_spinunlock with its own number when it has no lock.  *)
MutualExclusion == \A p, q \in Threads : pc[p] = "in" /\ pc[q] = "in" => p = q

(* The word names the thread that has the lock and is 0 when none has, so  *)
(* an unlock is never lost.                                                *)
WordNamesOwner == \A p \in Threads : pc[p] = "in" <=> lock = Which[p]

(* As long as some thread wants the lock, some thread gets it.             *)
LockIsTaken == (\E p \in Threads : pc[p] \notin {"out", "in"})
                  ~> (\E p \in Threads : pc[p] = "in")
=============================================================================
