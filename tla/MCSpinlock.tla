------------------------------ MODULE MCSpinlock ------------------------------
(* The instances of Spinlock that TLC checks.                              *)
EXTENDS Spinlock

\* each thread passes its own number
OwnNumber == [p \in Threads |-> p]
=============================================================================
