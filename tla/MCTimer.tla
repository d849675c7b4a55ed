------------------------------- MODULE MCTimer -------------------------------
(* The instances of Timer that TLC checks.                                 *)
EXTENDS Timer, TLC

\* malloc may hand out any block
TimerSymmetry == Permutations(Nodes)
=============================================================================
