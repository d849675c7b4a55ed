-------------------------------- MODULE MCAio --------------------------------
(* The instances of Aio that TLC checks.                                   *)
EXTENDS Aio, TLC

\* workers are interchangeable, and so are requests of the same kind and
\* threads with the same role
AioSymmetry == Permutations(Workers) \cup Permutations(PathOps)
               \cup Permutations(Tasks \ PathOps)
               \cup Permutations(Pollers) \cup Permutations(Clients \ Pollers)
=============================================================================
