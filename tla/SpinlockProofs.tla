---------------------------- MODULE SpinlockProofs ----------------------------
(***************************************************************************)
(* The spinlock excludes for any set of threads with numbers of their own, *)
(* whatever the number of processors and whoever else calls jk_spinunlock. *)
(*                                                                         *)
(* The read of *lock before the compare-and-swap plays no part in the      *)
(* argument: what a thread read is forgotten when it swaps.                *)
(***************************************************************************)
EXTENDS Spinlock, TLAPS

Inv == TypeOK /\ WordNamesOwner

LEMMA InvInit == Init => Inv
  BY SpinlockAssumption DEF Init, Inv, TypeOK, WordNamesOwner

(***************************************************************************)
(* A compare-and-swap from 0 puts the number of its thread into the word   *)
(* exactly when no thread had the lock.                                    *)
(***************************************************************************)
LEMMA Acquiring ==
    ASSUME Inv, NEW p \in Threads, pc[p] # "in", Swap(p, 0, Which[p]), UNCHANGED ncpu,
           NEW failed \in {"spin", "look"},
           pc' = [pc EXCEPT ![p] = IF lock = 0 THEN "in" ELSE failed]
    PROVE  Inv'
  <1>1. Which[p] # 0 /\ \A q \in Threads : Which[q] = Which[p] => q = p
    BY SpinlockAssumption
  <1>2. pc \in [Threads -> {"out", "look", "swap", "spin", "spinswap", "in"}]
    BY DEF Inv, TypeOK
  <1>3. CASE lock = 0
    <2>1. lock' = Which[p] /\ pc' = [pc EXCEPT ![p] = "in"]
      BY <1>3 DEF Swap
    <2>2. \A q \in Threads : pc[q] # "in"
      BY <1>3, SpinlockAssumption DEF Inv, WordNamesOwner
    <2> QED
      BY <1>1, <1>2, <2>1, <2>2 DEF Inv, TypeOK, WordNamesOwner
  <1>4. CASE lock # 0
    <2>1. lock' = lock /\ pc' = [pc EXCEPT ![p] = failed]
      BY <1>4 DEF Swap
    <2> QED
      BY <1>2, <2>1 DEF Inv, TypeOK, WordNamesOwner
  <1> QED
    BY <1>3, <1>4

LEMMA InvStep == Inv /\ [Next]_vars => Inv'
  <1> SUFFICES ASSUME Inv, [Next]_vars PROVE Inv'
    OBVIOUS
  <1> USE SpinlockAssumption
  <1>1. ASSUME NEW p \in Threads, SwapIn(p) PROVE Inv'
    <2>1. pc[p] # "in" /\ \E failed \in {"spin", "look"} :
              pc' = [pc EXCEPT ![p] = IF lock = 0 THEN "in" ELSE failed]
      BY <1>1 DEF SwapIn, Goto
    <2> QED
      BY <1>1, <2>1, Acquiring DEF SwapIn
  <1>2. ASSUME NEW p \in Threads, SpinSwap(p) PROVE Inv'
    BY <1>2, Acquiring DEF SpinSwap, Goto
  <1>3. ASSUME NEW p \in Threads, Unlock(p) PROVE Inv'
    <2>1. lock = Which[p] /\ lock' = 0 /\ pc' = [pc EXCEPT ![p] = "out"]
      BY <1>3 DEF Unlock, Swap, Goto, Inv, WordNamesOwner
    <2> QED
      BY <1>3, <2>1 DEF Unlock, Inv, TypeOK, WordNamesOwner
  <1>4. ASSUME NEW p \in Threads, UnlockOutside(p) PROVE Inv'
    BY <1>4 DEF UnlockOutside, Swap, Goto, Inv, TypeOK, WordNamesOwner
  <1>5. ASSUME NEW p \in Threads,
               Lock(p) \/ Busy(p) \/ Idle(p) \/ SpinBusy(p) \/ SpinIdle(p)
        PROVE  Inv'
    BY <1>5 DEF Lock, Busy, Idle, SpinBusy, SpinIdle, Goto, Inv, TypeOK, WordNamesOwner
  <1>6. ASSUME SpinlockInit \/ UNCHANGED vars PROVE Inv'
    BY <1>6 DEF SpinlockInit, vars, Inv, TypeOK, WordNamesOwner
  <1> QED
    BY <1>1, <1>2, <1>3, <1>4, <1>5, <1>6 DEF Next, Try

(* The word names the thread that has the lock, and is 0 when none has.    *)
THEOREM WordIsOwner == Spec => []WordNamesOwner
  <1>1. Inv => WordNamesOwner
    BY DEF Inv
  <1> QED
    BY <1>1, InvInit, InvStep, PTL DEF Spec

(* No two threads are between jk_spinlock and jk_spinunlock.               *)
THEOREM Exclusion == Spec => []MutualExclusion
  <1>1. WordNamesOwner => MutualExclusion
    BY SpinlockAssumption DEF WordNamesOwner, MutualExclusion
  <1> QED
    BY <1>1, WordIsOwner, PTL
=============================================================================
