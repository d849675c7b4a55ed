----------------------------- MODULE MCThreadPool -----------------------------
(* The instances of ThreadPool that TLC checks.                            *)
EXTENDS ThreadPool, TLC

\* workers are interchangeable, and so are tasks with the same callbacks
PoolSymmetry == Permutations(Workers) \cup Permutations(Clients) \cup Permutations(HasFinish)
                \cup Permutations(Tasks \ HasFinish)
=============================================================================
