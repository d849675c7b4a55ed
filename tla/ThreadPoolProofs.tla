--------------------------- MODULE ThreadPoolProofs ---------------------------
(***************************************************************************)
(* Theorems about ThreadPool, for any number of workers, clients and       *)
(* tasks.                                                                  *)
(***************************************************************************)
EXTENDS ThreadPool, TLAPS, FiniteSetTheorems

(***************************************************************************)
(* The discipline of thd->lock: its owner is the thread between its read   *)
(* and its write of the list, and what that thread has read still holds.   *)
(***************************************************************************)
LockDiscipline ==
    /\ \A w \in Workers : pc[w] = "pop" => lock = w
    /\ \A p \in Pushers : ppc[p] = "link" => lock = p
    /\ lock # NoThread => \/ lock \in Workers /\ pc[lock] = "pop"
                          \/ lock \in Pushers /\ ppc[lock] = "link"
    /\ \A w \in Workers : pc[w] = "pop" => task[w] = wait_tasks /\ wait_tasks # <<>>
    /\ \A p \in Pushers : ppc[p] = "link" => next[p] = wait_tasks

(* Who pushes: a worker in a callback, and a client while the pool is open *)
PushersInPlace ==
    /\ \A w \in Workers : ppc[w] # "idle" => pc[w] \in {"call", "finish"}
    /\ \A c \in Clients : ppc[c] # "idle" => mpc = "running"
    /\ \A p \in Pushers : ppc[p] # "idle" => node[p] \in Tasks
    /\ \A w \in Workers : Holding(w) => task[w] # <<>>

(* The workers that have not reported to jk_thread_pool_new.               *)
Unreported == {w \in Workers : pc[w] \in {"none", "start"}}

(* What every other invariant rests on.                                    *)
Core == /\ TypeOK
        /\ task_nums = Len(wait_tasks)
        /\ LockDiscipline
        /\ PushersInPlace
        /\ wait_threads = Cardinality(Unreported)
        /\ \A w \in Workers : w \notin asked => pc[w] = "none"

-----------------------------------------------------------------------------
(* A task that is linked in front of the list makes it one longer.         *)
LEMMA LinkedInFront ==
    ASSUME NEW S, NEW s \in Seq(S), NEW t \in S
    PROVE  /\ <<t>> \o s \in Seq(S)
           /\ Len(<<t>> \o s) = Len(s) + 1
           /\ <<t>> \o s # <<>>
           /\ \A i \in 1..Len(s) : (<<t>> \o s)[i + 1] = s[i]
           /\ (<<t>> \o s)[1] = t
  OBVIOUS

(* What is left of a list when its head is taken off.                      *)
LEMMA HeadTakenOff ==
    ASSUME NEW S, NEW s \in Seq(S), s # <<>>
    PROVE  /\ Head(s) \in S /\ Head(s) = s[1]
           /\ Tail(s) \in Seq(S)
           /\ Len(Tail(s)) = Len(s) - 1
           /\ Len(s) \in Nat \ {0}
           /\ \A i \in 1..(Len(s) - 1) : Tail(s)[i] = s[i + 1]
           /\ <<Head(s)>> \in Seq(S) /\ <<Head(s)>> # <<>>
           /\ Head(<<Head(s)>>) = Head(s)
  OBVIOUS

(* The counter of unreported workers never passes zero.                    *)
LEMMA ReportCounts ==
    ASSUME TypeOK, NEW w \in Workers, pc[w] = "start",
           wait_threads = Cardinality(Unreported), Report(w)
    PROVE  wait_threads' \in Nat /\ wait_threads' = Cardinality(Unreported')
  <1>1. IsFiniteSet(Unreported)
    BY FS_Subset, PoolAssumption DEF Unreported
  <1>2. w \in Unreported /\ Unreported' = Unreported \ {w}
    BY DEF TypeOK, Unreported, Report
  <1>3. Cardinality(Unreported') = Cardinality(Unreported) - 1
    BY <1>1, <1>2, FS_RemoveElement
  <1>4. Cardinality(Unreported') \in Nat
    BY <1>1, <1>2, FS_Subset, FS_CardinalityType
  <1> QED
    BY <1>3, <1>4 DEF Report

LEMMA CoreStep == Core /\ [Next]_vars => Core'
  <1> SUFFICES ASSUME Core, [Next]_vars PROVE Core'
    OBVIOUS
  <1> USE DEF Core
  <1>1. ASSUME NewNoMem PROVE Core'
    <2> USE <1>1 DEF NewNoMem, mainVars, pushVars, histVars, vars
    <2>1. TypeOK' /\ task_nums' = Len(wait_tasks')
      BY PoolAssumption DEF TypeOK, Pushers
    <2>2. LockDiscipline'
      BY PoolAssumption DEF TypeOK, LockDiscipline, PushersInPlace, Pushers
    <2>3. PushersInPlace'
      BY PoolAssumption DEF TypeOK, PushersInPlace, Pushers, Holding
    <2>4. wait_threads' = Cardinality(Unreported')
      BY DEF TypeOK, Unreported
    <2>5. \A v \in Workers : v \notin asked' => pc'[v] = "none"
      BY DEF TypeOK
    <2> QED
      BY <2>1, <2>2, <2>3, <2>4, <2>5 DEF Core
  <1>2. ASSUME AwaitWorkers PROVE Core'
    <2> USE <1>2 DEF AwaitWorkers, WorkersMissing, mainVars, pushVars, histVars, vars
    <2>1. TypeOK' /\ task_nums' = Len(wait_tasks')
      BY PoolAssumption DEF TypeOK, Pushers
    <2>2. LockDiscipline'
      BY PoolAssumption DEF TypeOK, LockDiscipline, PushersInPlace, Pushers
    <2>3. PushersInPlace'
      BY PoolAssumption DEF TypeOK, PushersInPlace, Pushers, Holding
    <2>4. wait_threads' = Cardinality(Unreported')
      BY DEF TypeOK, Unreported
    <2>5. \A v \in Workers : v \notin asked' => pc'[v] = "none"
      BY DEF TypeOK
    <2> QED
      BY <2>1, <2>2, <2>3, <2>4, <2>5 DEF Core
  <1>3. ASSUME CreatorWakeup PROVE Core'
    <2> USE <1>3 DEF CreatorWakeup, mainVars, pushVars, histVars, vars
    <2>1. TypeOK' /\ task_nums' = Len(wait_tasks')
      BY PoolAssumption DEF TypeOK, Pushers
    <2>2. LockDiscipline'
      BY PoolAssumption DEF TypeOK, LockDiscipline, PushersInPlace, Pushers
    <2>3. PushersInPlace'
      BY PoolAssumption DEF TypeOK, PushersInPlace, Pushers, Holding
    <2>4. wait_threads' = Cardinality(Unreported')
      BY DEF TypeOK, Unreported
    <2>5. \A v \in Workers : v \notin asked' => pc'[v] = "none"
      BY DEF TypeOK
    <2> QED
      BY <2>1, <2>2, <2>3, <2>4, <2>5 DEF Core
  <1>4. ASSUME Destroy PROVE Core'
    <2> USE <1>4 DEF Destroy, WakeAll, Sleepers, MutexFree, mainVars, pushVars, histVars, vars
    <2>1. TypeOK' /\ task_nums' = Len(wait_tasks')
      BY PoolAssumption DEF TypeOK, Pushers
    <2>2. LockDiscipline'
      BY PoolAssumption DEF TypeOK, LockDiscipline, PushersInPlace, Pushers
    <2>3. PushersInPlace'
      BY PoolAssumption DEF TypeOK, PushersInPlace, Pushers, Holding
    <2>4. wait_threads' = Cardinality(Unreported')
      BY DEF TypeOK, Unreported
    <2>5. \A v \in Workers : v \notin asked' => pc'[v] = "none"
      BY DEF TypeOK
    <2> QED
      BY <2>1, <2>2, <2>3, <2>4, <2>5 DEF Core
  <1>5. ASSUME Reap PROVE Core'
    <2> USE <1>5 DEF Reap, AllJoined, mainVars, pushVars, histVars, vars
    <2>1. TypeOK' /\ task_nums' = Len(wait_tasks')
      BY PoolAssumption DEF TypeOK, Pushers
    <2>2. LockDiscipline'
      BY PoolAssumption DEF TypeOK, LockDiscipline, PushersInPlace, Pushers
    <2>3. PushersInPlace'
      BY PoolAssumption DEF TypeOK, PushersInPlace, Pushers, Holding
    <2>4. wait_threads' = Cardinality(Unreported')
      BY DEF TypeOK, Unreported
    <2>5. \A v \in Workers : v \notin asked' => pc'[v] = "none"
      BY DEF TypeOK
    <2> QED
      BY <2>1, <2>2, <2>3, <2>4, <2>5 DEF Core
  <1>6. ASSUME Over PROVE Core'
    <2> USE <1>6 DEF Over, mainVars, pushVars, histVars, vars
    <2>1. TypeOK' /\ task_nums' = Len(wait_tasks')
      BY PoolAssumption DEF TypeOK, Pushers
    <2>2. LockDiscipline'
      BY PoolAssumption DEF TypeOK, LockDiscipline, PushersInPlace, Pushers
    <2>3. PushersInPlace'
      BY PoolAssumption DEF TypeOK, PushersInPlace, Pushers, Holding
    <2>4. wait_threads' = Cardinality(Unreported')
      BY DEF TypeOK, Unreported
    <2>5. \A v \in Workers : v \notin asked' => pc'[v] = "none"
      BY DEF TypeOK
    <2> QED
      BY <2>1, <2>2, <2>3, <2>4, <2>5 DEF Core
  <1>7. ASSUME NEW w \in Workers, Create(w) PROVE Core'
    <2> USE <1>7 DEF Create, mainVars, pushVars, histVars, vars
    <2>1. TypeOK' /\ task_nums' = Len(wait_tasks')
      BY PoolAssumption DEF TypeOK, Pushers
    <2>2. LockDiscipline'
      BY PoolAssumption DEF TypeOK, LockDiscipline, PushersInPlace, Pushers
    <2>3. PushersInPlace'
      BY PoolAssumption DEF TypeOK, PushersInPlace, Pushers, Holding
    <2>4. wait_threads' = Cardinality(Unreported')
      BY DEF TypeOK, Unreported
    <2>5. \A v \in Workers : v \notin asked' => pc'[v] = "none"
      BY DEF TypeOK
    <2> QED
      BY <2>1, <2>2, <2>3, <2>4, <2>5 DEF Core
  <1>8. ASSUME NEW w \in Workers, CreateError(w) PROVE Core'
    <2> USE <1>8 DEF CreateError, mainVars, pushVars, histVars, vars
    <2>1. TypeOK' /\ task_nums' = Len(wait_tasks')
      BY PoolAssumption DEF TypeOK, Pushers
    <2>2. LockDiscipline'
      BY PoolAssumption DEF TypeOK, LockDiscipline, PushersInPlace, Pushers
    <2>3. PushersInPlace'
      BY PoolAssumption DEF TypeOK, PushersInPlace, Pushers, Holding
    <2>4. wait_threads' = Cardinality(Unreported')
      BY DEF TypeOK, Unreported
    <2>5. \A v \in Workers : v \notin asked' => pc'[v] = "none"
      BY DEF TypeOK
    <2> QED
      BY <2>1, <2>2, <2>3, <2>4, <2>5 DEF Core
  <1>9. ASSUME NEW w \in Workers, SpuriousWakeup(w) PROVE Core'
    <2> USE <1>9 DEF SpuriousWakeup, mainVars, pushVars, histVars, vars
    <2>1. TypeOK' /\ task_nums' = Len(wait_tasks')
      BY PoolAssumption DEF TypeOK, Pushers
    <2>2. LockDiscipline'
      BY PoolAssumption DEF TypeOK, LockDiscipline, PushersInPlace, Pushers
    <2>3. PushersInPlace'
      BY PoolAssumption DEF TypeOK, PushersInPlace, Pushers, Holding
    <2>4. wait_threads' = Cardinality(Unreported')
      BY DEF TypeOK, Unreported
    <2>5. \A v \in Workers : v \notin asked' => pc'[v] = "none"
      BY DEF TypeOK
    <2> QED
      BY <2>1, <2>2, <2>3, <2>4, <2>5 DEF Core
  <1>10. ASSUME NEW w \in Workers, Report(w) PROVE Core'
    <2> USE <1>10 DEF Report, WakeCreator, mainVars, pushVars, histVars, vars
    <2>0. wait_threads' \in Nat /\ wait_threads' = Cardinality(Unreported')
      BY ReportCounts
    <2>1. TypeOK' /\ task_nums' = Len(wait_tasks')
      BY <2>0, PoolAssumption DEF TypeOK, Pushers
    <2>2. LockDiscipline'
      BY <2>0, PoolAssumption DEF TypeOK, LockDiscipline, PushersInPlace, Pushers
    <2>3. PushersInPlace'
      BY <2>0, PoolAssumption DEF TypeOK, PushersInPlace, Pushers, Holding
    <2>4. wait_threads' = Cardinality(Unreported')
      BY <2>0
    <2>5. \A v \in Workers : v \notin asked' => pc'[v] = "none"
      BY DEF TypeOK
    <2> QED
      BY <2>1, <2>2, <2>3, <2>4, <2>5 DEF Core
  <1>11. ASSUME NEW w \in Workers, Sleep(w) PROVE Core'
    <2> USE <1>11 DEF Sleep, MutexFree, MustWait, mainVars, pushVars, histVars, vars
    <2>1. TypeOK' /\ task_nums' = Len(wait_tasks')
      BY PoolAssumption DEF TypeOK, Pushers
    <2>2. LockDiscipline'
      BY PoolAssumption DEF TypeOK, LockDiscipline, PushersInPlace, Pushers
    <2>3. PushersInPlace'
      BY PoolAssumption DEF TypeOK, PushersInPlace, Pushers, Holding
    <2>4. wait_threads' = Cardinality(Unreported')
      BY DEF TypeOK, Unreported
    <2>5. \A v \in Workers : v \notin asked' => pc'[v] = "none"
      BY DEF TypeOK
    <2> QED
      BY <2>1, <2>2, <2>3, <2>4, <2>5 DEF Core
  <1>12. ASSUME NEW w \in Workers, Exit(w) PROVE Core'
    <2> USE <1>12 DEF Exit, MutexFree, MustExit, mainVars, pushVars, histVars, vars
    <2>1. TypeOK' /\ task_nums' = Len(wait_tasks')
      BY PoolAssumption DEF TypeOK, Pushers
    <2>2. LockDiscipline'
      BY PoolAssumption DEF TypeOK, LockDiscipline, PushersInPlace, Pushers
    <2>3. PushersInPlace'
      BY PoolAssumption DEF TypeOK, PushersInPlace, Pushers, Holding
    <2>4. wait_threads' = Cardinality(Unreported')
      BY DEF TypeOK, Unreported
    <2>5. \A v \in Workers : v \notin asked' => pc'[v] = "none"
      BY DEF TypeOK
    <2> QED
      BY <2>1, <2>2, <2>3, <2>4, <2>5 DEF Core
  <1>13. ASSUME NEW w \in Workers, Take(w) PROVE Core'
    <2> USE <1>13 DEF Take, MutexFree, MustWait, MustExit, mainVars, pushVars, histVars, vars
    <2>1. TypeOK' /\ task_nums' = Len(wait_tasks')
      BY PoolAssumption DEF TypeOK, Pushers
    <2>2. LockDiscipline'
      BY PoolAssumption DEF TypeOK, LockDiscipline, PushersInPlace, Pushers
    <2>3. PushersInPlace'
      BY PoolAssumption DEF TypeOK, PushersInPlace, Pushers, Holding
    <2>4. wait_threads' = Cardinality(Unreported')
      BY DEF TypeOK, Unreported
    <2>5. \A v \in Workers : v \notin asked' => pc'[v] = "none"
      BY DEF TypeOK
    <2> QED
      BY <2>1, <2>2, <2>3, <2>4, <2>5 DEF Core
  <1>14. ASSUME NEW w \in Workers, Pop(w) PROVE Core'
    <2> USE <1>14 DEF Pop, Holding, mainVars, pushVars, histVars, vars
    <2>0. /\ task[w] = wait_tasks /\ wait_tasks # <<>> /\ wait_tasks \in Seq(Tasks)
          /\ Tail(wait_tasks) \in Seq(Tasks)
          /\ Len(Tail(wait_tasks)) = Len(wait_tasks) - 1 /\ Len(wait_tasks) - 1 \in Nat
          /\ <<Head(wait_tasks)>> \in Seq(Tasks) /\ <<Head(wait_tasks)>> # <<>>
      BY HeadTakenOff DEF TypeOK, LockDiscipline
    <2>1. TypeOK' /\ task_nums' = Len(wait_tasks')
      BY <2>0, PoolAssumption DEF TypeOK, Pushers
    <2>2. LockDiscipline'
      BY <2>0, PoolAssumption DEF TypeOK, LockDiscipline, PushersInPlace, Pushers
    <2>3. PushersInPlace'
      BY <2>0, PoolAssumption DEF TypeOK, PushersInPlace, Pushers, Holding
    <2>4. wait_threads' = Cardinality(Unreported')
      BY DEF TypeOK, Unreported
    <2>5. \A v \in Workers : v \notin asked' => pc'[v] = "none"
      BY DEF TypeOK
    <2> QED
      BY <2>1, <2>2, <2>3, <2>4, <2>5 DEF Core
  <1>15. ASSUME NEW w \in Workers, Call(w) PROVE Core'
    <2> USE <1>15 DEF Call, Held, Holding, mainVars, pushVars, histVars, vars
    <2>a. Held(w) \in Tasks
      BY HeadTakenOff DEF TypeOK, PushersInPlace
    <2>0. calls' \in [Tasks -> Nat]
      <3>1. calls \in [Tasks -> Nat] /\ calls' = [calls EXCEPT ![Held(w)] = @ + 1]
        BY DEF TypeOK
      <3> HIDE DEF Held
      <3> QED
        BY <2>a, <3>1
    <2>1. TypeOK' /\ task_nums' = Len(wait_tasks')
      BY <2>a, <2>0, PoolAssumption DEF TypeOK, Pushers
    <2>2. LockDiscipline'
      BY <2>a, <2>0, PoolAssumption DEF TypeOK, LockDiscipline, PushersInPlace, Pushers
    <2>3. PushersInPlace'
      BY <2>a, <2>0, PoolAssumption DEF TypeOK, PushersInPlace, Pushers, Holding
    <2>4. wait_threads' = Cardinality(Unreported')
      BY DEF TypeOK, Unreported
    <2>5. \A v \in Workers : v \notin asked' => pc'[v] = "none"
      BY DEF TypeOK
    <2> QED
      BY <2>1, <2>2, <2>3, <2>4, <2>5 DEF Core
  <1>16. ASSUME NEW w \in Workers, Finish(w) PROVE Core'
    <2> USE <1>16 DEF Finish, Held, Holding, mainVars, pushVars, histVars, vars
    <2>a. Held(w) \in Tasks
      BY HeadTakenOff DEF TypeOK, PushersInPlace
    <2>0. fins' \in [Tasks -> Nat]
      <3>1. fins \in [Tasks -> Nat] /\ fins' = [fins EXCEPT ![Held(w)] = @ + 1]
        BY DEF TypeOK
      <3> HIDE DEF Held
      <3> QED
        BY <2>a, <3>1
    <2>1. TypeOK' /\ task_nums' = Len(wait_tasks')
      BY <2>a, <2>0, PoolAssumption DEF TypeOK, Pushers
    <2>2. LockDiscipline'
      BY <2>a, <2>0, PoolAssumption DEF TypeOK, LockDiscipline, PushersInPlace, Pushers
    <2>3. PushersInPlace'
      BY <2>a, <2>0, PoolAssumption DEF TypeOK, PushersInPlace, Pushers, Holding
    <2>4. wait_threads' = Cardinality(Unreported')
      BY DEF TypeOK, Unreported
    <2>5. \A v \in Workers : v \notin asked' => pc'[v] = "none"
      BY DEF TypeOK
    <2> QED
      BY <2>1, <2>2, <2>3, <2>4, <2>5 DEF Core
  <1>17. ASSUME NEW w \in Workers, Free(w) PROVE Core'
    <2> USE <1>17 DEF Free, Held, Holding, mainVars, pushVars, histVars, vars
    <2>0. Held(w) \in Tasks
      BY HeadTakenOff DEF TypeOK, PushersInPlace
    <2>1. TypeOK' /\ task_nums' = Len(wait_tasks')
      BY <2>0, PoolAssumption DEF TypeOK, Pushers
    <2>2. LockDiscipline'
      BY <2>0, PoolAssumption DEF TypeOK, LockDiscipline, PushersInPlace, Pushers
    <2>3. PushersInPlace'
      BY <2>0, PoolAssumption DEF TypeOK, PushersInPlace, Pushers, Holding
    <2>4. wait_threads' = Cardinality(Unreported')
      BY DEF TypeOK, Unreported
    <2>5. \A v \in Workers : v \notin asked' => pc'[v] = "none"
      BY DEF TypeOK
    <2> QED
      BY <2>1, <2>2, <2>3, <2>4, <2>5 DEF Core
  <1>18. ASSUME NEW p \in Pushers, PushLock(p) PROVE Core'
    <2> USE <1>18 DEF PushLock, MutexFree, mainVars, pushVars, histVars, vars
    <2>1. TypeOK' /\ task_nums' = Len(wait_tasks')
      BY PoolAssumption DEF TypeOK, Pushers
    <2>2. LockDiscipline'
      BY PoolAssumption DEF TypeOK, LockDiscipline, PushersInPlace, Pushers
    <2>3. PushersInPlace'
      BY PoolAssumption DEF TypeOK, PushersInPlace, Pushers, Holding
    <2>4. wait_threads' = Cardinality(Unreported')
      BY DEF TypeOK, Unreported
    <2>5. \A v \in Workers : v \notin asked' => pc'[v] = "none"
      BY DEF TypeOK
    <2> QED
      BY <2>1, <2>2, <2>3, <2>4, <2>5 DEF Core
  <1>19. ASSUME NEW p \in Pushers, PushLink(p) PROVE Core'
    <2> USE <1>19 DEF PushLink, SignalWorker, Sleepers, mainVars, pushVars, histVars, vars
    <2>0. /\ next[p] = wait_tasks /\ node[p] \in Tasks /\ lock = p
          /\ <<node[p]>> \o wait_tasks \in Seq(Tasks)
          /\ Len(<<node[p]>> \o wait_tasks) = Len(wait_tasks) + 1
          /\ <<node[p]>> \o wait_tasks # <<>>
      BY LinkedInFront DEF TypeOK, LockDiscipline, PushersInPlace
    <2>a. /\ pc' \in [Workers -> {"none", "start", "lock", "sleep", "pop", "call",
                                "finish", "free", "exited"}]
          /\ \A w \in Workers : pc'[w] # pc[w] => pc[w] = "sleep" /\ pc'[w] = "lock"
      BY DEF TypeOK
    <2>b. \A w \in Workers : pc'[w] # "pop" /\ pc[w] # "pop"
      BY <2>0, <2>a, PoolAssumption DEF LockDiscipline, PushersInPlace
    <2>1. TypeOK' /\ task_nums' = Len(wait_tasks')
      <3>1. /\ wait_tasks' \in Seq(Tasks)
            /\ task_nums' = Len(wait_tasks') /\ task_nums' \in Nat
        BY <2>0 DEF TypeOK
      <3>2. /\ next' \in [Pushers -> Seq(Tasks)]
            /\ node' \in [Pushers -> Tasks \cup {NoTask}]
            /\ ppc' \in [Pushers -> {"idle", "lock", "link"}]
        BY DEF TypeOK
      <3> QED
        BY <2>a, <3>1, <3>2 DEF TypeOK
    <2>2. LockDiscipline'
      BY <2>0, <2>a, <2>b, PoolAssumption DEF TypeOK, LockDiscipline, PushersInPlace, Pushers
    <2>3. PushersInPlace'
      BY <2>0, <2>a, <2>b, PoolAssumption DEF TypeOK, PushersInPlace, Pushers, Holding
    <2>4. wait_threads' = Cardinality(Unreported')
      BY DEF TypeOK, Unreported
    <2>5. \A v \in Workers : v \notin asked' => pc'[v] = "none"
      BY DEF TypeOK
    <2> QED
      BY <2>1, <2>2, <2>3, <2>4, <2>5 DEF Core
  <1>20. ASSUME NEW p \in Pushers, NEW t \in Tasks, PushAlloc(p, t) PROVE Core'
    <2> USE <1>20 DEF PushAlloc, MayPush, mainVars, pushVars, histVars, vars
    <2>1. TypeOK' /\ task_nums' = Len(wait_tasks')
      BY PoolAssumption DEF TypeOK, Pushers
    <2>2. LockDiscipline'
      BY PoolAssumption DEF TypeOK, LockDiscipline, PushersInPlace, Pushers
    <2>3. PushersInPlace'
      BY PoolAssumption DEF TypeOK, PushersInPlace, Pushers, Holding
    <2>4. wait_threads' = Cardinality(Unreported')
      BY DEF TypeOK, Unreported
    <2>5. \A v \in Workers : v \notin asked' => pc'[v] = "none"
      BY DEF TypeOK
    <2> QED
      BY <2>1, <2>2, <2>3, <2>4, <2>5 DEF Core
  <1>21. ASSUME NEW p \in Pushers, NEW t \in Tasks, PushNoMem(p, t) PROVE Core'
    <2> USE <1>21 DEF PushNoMem, MayPush, mainVars, pushVars, histVars, vars
    <2>1. TypeOK' /\ task_nums' = Len(wait_tasks')
      BY PoolAssumption DEF TypeOK, Pushers
    <2>2. LockDiscipline'
      BY PoolAssumption DEF TypeOK, LockDiscipline, PushersInPlace, Pushers
    <2>3. PushersInPlace'
      BY PoolAssumption DEF TypeOK, PushersInPlace, Pushers, Holding
    <2>4. wait_threads' = Cardinality(Unreported')
      BY DEF TypeOK, Unreported
    <2>5. \A v \in Workers : v \notin asked' => pc'[v] = "none"
      BY DEF TypeOK
    <2> QED
      BY <2>1, <2>2, <2>3, <2>4, <2>5 DEF Core
  <1>22. CASE UNCHANGED vars
    BY <1>22 DEF vars, mainVars, pushVars, histVars, Core, TypeOK, LockDiscipline,
         PushersInPlace, Unreported, Holding
  <1> QED
    BY <1>1, <1>2, <1>3, <1>4, <1>5, <1>6, <1>7, <1>8, <1>9, <1>10, <1>11, <1>12, <1>13, <1>14, <1>15, <1>16, <1>17, <1>18, <1>19, <1>20, <1>21, <1>22 DEF Next, WorkerStep, PushStep

LEMMA CoreInit == Init => Core
  <1> SUFFICES ASSUME Init PROVE Core
    OBVIOUS
  <1>1. Cardinality(Workers) \in Nat /\ Unreported = Workers
    BY FS_CardinalityType, PoolAssumption DEF Init, Unreported
  <1>2. TypeOK
    <2>1. wait_threads \in Nat /\ spurious \in 0..MaxSpurious
      BY <1>1, PoolAssumption DEF Init
    <2>2. /\ wait_tasks \in Seq(Tasks) /\ task \in [Workers -> Seq(Tasks)]
          /\ next \in [Pushers -> Seq(Tasks)]
      BY DEF Init
    <2> QED
      BY <2>1, <2>2 DEF Init, TypeOK
  <1> QED
    BY <1>1, <1>2, PoolAssumption
    DEF Init, Core, LockDiscipline, PushersInPlace, Holding, Pushers

(***************************************************************************)
(* Every variable keeps its type: in particular jk_thread_loop never takes *)
(* task_nums or wait_threads below zero.                                   *)
(***************************************************************************)
THEOREM CoreInvariant == Spec => []Core
  BY CoreInit, CoreStep, PTL DEF Spec

THEOREM TypeCorrect == Spec => []TypeOK
  BY CoreInvariant, PTL DEF Core

(***************************************************************************)
(* task_nums is the length of the list, and a worker that passed the test  *)
(* of task_nums reads a list head that is not NULL.                        *)
(***************************************************************************)
THEOREM CountIsLength == Spec => []CountMatchesList
  <1>1. Core => CountMatchesList
    BY DEF Core, LockDiscipline, CountMatchesList
  <1> QED
    BY <1>1, CoreInvariant, PTL

(***************************************************************************)
(* The list, its counter and all other variables stay consistent.          *)
(***************************************************************************)
THEOREM ListStaysConsistent == Spec => []ListConsistent
  BY TypeCorrect, CountIsLength, PTL DEF ListConsistent

-----------------------------------------------------------------------------
(* What holds in each phase of the pool's life.                            *)
Phases ==
    /\ quit_flag <=> mpc \in {"join", "gone"}
    /\ \A w \in Workers : quit_flag => pc[w] \notin {"sleep", "pop"}
    /\ \A w \in Workers : pc[w] = "exited" => quit_flag
    /\ mpc \in {"running", "join", "gone"} =>
          \A w \in Workers : pc[w] \notin {"none", "start"}
    /\ mpc = "gone" => wait_tasks = <<>> /\ lock = NoThread
                       /\ \A w \in Workers : pc[w] = "exited"

LEMMA PhasesStep == Core /\ Phases /\ [Next]_vars => Phases'
  <1> SUFFICES ASSUME Core, Phases, [Next]_vars PROVE Phases'
    OBVIOUS
  <1>1. ASSUME NewNoMem PROVE Phases'
    BY <1>1, PoolAssumption DEF NewNoMem, mainVars, pushVars, histVars, vars,
       Core, TypeOK, LockDiscipline, PushersInPlace, Pushers, Phases
  <1>2. ASSUME AwaitWorkers PROVE Phases'
    <2>1. mpc' = "running" => Unreported = {}
      <3>1. IsFiniteSet(Unreported)
        BY FS_Subset, PoolAssumption DEF Unreported
      <3>2. mpc' = "running" => Cardinality(Unreported) = 0
        BY <1>2 DEF AwaitWorkers, WorkersMissing, Core, TypeOK
      <3> QED
        BY <3>1, <3>2, FS_EmptySet
    <2>2. mpc = "handshake" /\ mpc' \in {"waiting", "running"} /\ UNCHANGED <<quit_flag, pc>>
      BY <1>2 DEF AwaitWorkers
    <2> QED
      BY <2>1, <2>2 DEF Phases, Unreported
  <1>3. ASSUME CreatorWakeup PROVE Phases'
    BY <1>3, PoolAssumption DEF CreatorWakeup, mainVars, pushVars, histVars, vars,
       Core, TypeOK, LockDiscipline, PushersInPlace, Pushers, Phases
  <1>4. ASSUME Destroy PROVE Phases'
    BY <1>4, PoolAssumption DEF Destroy, WakeAll, Sleepers, MutexFree, mainVars, pushVars, histVars, vars,
       Core, TypeOK, LockDiscipline, PushersInPlace, Pushers, Phases
  <1>5. ASSUME Reap PROVE Phases'
    BY <1>5, PoolAssumption DEF Reap, AllJoined, mainVars, pushVars, histVars, vars,
       Core, TypeOK, LockDiscipline, PushersInPlace, Pushers, Phases
  <1>6. ASSUME Over PROVE Phases'
    BY <1>6, PoolAssumption DEF Over, vars, mainVars, pushVars, histVars, vars,
       Core, TypeOK, LockDiscipline, PushersInPlace, Pushers, Phases
  <1>7. ASSUME NEW w \in Workers, Create(w) PROVE Phases'
    BY <1>7, PoolAssumption DEF Create, mainVars, pushVars, histVars, vars,
       Core, TypeOK, LockDiscipline, PushersInPlace, Pushers, Phases
  <1>8. ASSUME NEW w \in Workers, CreateError(w) PROVE Phases'
    BY <1>8, PoolAssumption DEF CreateError, mainVars, pushVars, histVars, vars,
       Core, TypeOK, LockDiscipline, PushersInPlace, Pushers, Phases
  <1>9. ASSUME NEW w \in Workers, SpuriousWakeup(w) PROVE Phases'
    BY <1>9, PoolAssumption DEF SpuriousWakeup, mainVars, pushVars, histVars, vars,
       Core, TypeOK, LockDiscipline, PushersInPlace, Pushers, Phases
  <1>10. ASSUME NEW w \in Workers, Report(w) PROVE Phases'
    BY <1>10, PoolAssumption DEF Report, WakeCreator, mainVars, pushVars, histVars, vars,
       Core, TypeOK, LockDiscipline, PushersInPlace, Pushers, Phases
  <1>11. ASSUME NEW w \in Workers, Sleep(w) PROVE Phases'
    BY <1>11, PoolAssumption DEF Sleep, MutexFree, MustWait, mainVars, pushVars, histVars, vars,
       Core, TypeOK, LockDiscipline, PushersInPlace, Pushers, Phases
  <1>12. ASSUME NEW w \in Workers, Exit(w) PROVE Phases'
    BY <1>12, PoolAssumption DEF Exit, MutexFree, MustExit, mainVars, pushVars, histVars, vars,
       Core, TypeOK, LockDiscipline, PushersInPlace, Pushers, Phases
  <1>13. ASSUME NEW w \in Workers, Take(w) PROVE Phases'
    BY <1>13, PoolAssumption DEF Take, MutexFree, MustWait, MustExit, mainVars, pushVars, histVars, vars,
       Core, TypeOK, LockDiscipline, PushersInPlace, Pushers, Phases
  <1>14. ASSUME NEW w \in Workers, Pop(w) PROVE Phases'
    BY <1>14, PoolAssumption DEF Pop, Holding, mainVars, pushVars, histVars, vars,
       Core, TypeOK, LockDiscipline, PushersInPlace, Pushers, Phases
  <1>15. ASSUME NEW w \in Workers, Call(w) PROVE Phases'
    BY <1>15, PoolAssumption DEF Call, Held, Holding, mainVars, pushVars, histVars, vars,
       Core, TypeOK, LockDiscipline, PushersInPlace, Pushers, Phases
  <1>16. ASSUME NEW w \in Workers, Finish(w) PROVE Phases'
    BY <1>16, PoolAssumption DEF Finish, Held, Holding, mainVars, pushVars, histVars, vars,
       Core, TypeOK, LockDiscipline, PushersInPlace, Pushers, Phases
  <1>17. ASSUME NEW w \in Workers, Free(w) PROVE Phases'
    BY <1>17, PoolAssumption DEF Free, Held, Holding, mainVars, pushVars, histVars, vars,
       Core, TypeOK, LockDiscipline, PushersInPlace, Pushers, Phases
  <1>18. ASSUME NEW p \in Pushers, PushLock(p) PROVE Phases'
    BY <1>18, PoolAssumption DEF PushLock, MutexFree, mainVars, pushVars, histVars, vars,
       Core, TypeOK, LockDiscipline, PushersInPlace, Pushers, Phases
  <1>19. ASSUME NEW p \in Pushers, PushLink(p) PROVE Phases'
    <2>1. \A w \in Workers : pc'[w] = pc[w] \/ (pc[w] = "sleep" /\ pc'[w] = "lock")
      BY <1>19 DEF PushLink, SignalWorker, Sleepers, Core, TypeOK
    <2>2. mpc # "gone" /\ UNCHANGED <<mpc, quit_flag>>
      BY <1>19 DEF PushLink, mainVars, Core, PushersInPlace, Phases, Pushers
    <2> QED
      BY <2>1, <2>2 DEF Phases
  <1>20. ASSUME NEW p \in Pushers, NEW t \in Tasks, PushAlloc(p, t) PROVE Phases'
    BY <1>20, PoolAssumption DEF PushAlloc, MayPush, mainVars, pushVars, histVars, vars,
       Core, TypeOK, LockDiscipline, PushersInPlace, Pushers, Phases
  <1>21. ASSUME NEW p \in Pushers, NEW t \in Tasks, PushNoMem(p, t) PROVE Phases'
    BY <1>21, PoolAssumption DEF PushNoMem, MayPush, mainVars, pushVars, histVars, vars,
       Core, TypeOK, LockDiscipline, PushersInPlace, Pushers, Phases
  <1>22. CASE UNCHANGED vars
    BY <1>22 DEF vars, mainVars, pushVars, histVars, Phases
  <1> QED
    BY <1>1, <1>2, <1>3, <1>4, <1>5, <1>6, <1>7, <1>8, <1>9, <1>10, <1>11, <1>12, <1>13, <1>14, <1>15, <1>16, <1>17, <1>18, <1>19, <1>20, <1>21, <1>22 DEF Next, WorkerStep, PushStep

LEMMA PhasesInit == Init => Phases
  BY DEF Init, Phases

THEOREM PhasesInvariant == Spec => []Phases
  BY CoreInvariant, PhasesInit, PhasesStep, PTL DEF Spec

(***************************************************************************)
(* jk_thread_pool_new returns a pool only when all of its workers have     *)
(* reported and none has left, even though the code does not notice when   *)
(* pthread_create fails.                                                   *)
(***************************************************************************)
THEOREM PoolIsComplete == Spec => []HandedOutComplete
  <1>1. Phases => HandedOutComplete
    BY DEF Phases, HandedOutComplete
  <1> QED
    BY <1>1, PhasesInvariant, PTL

(***************************************************************************)
(* After jk_thread_pool_destroy has set quit_flag no worker begins a task: *)
(* none is left between the test of the flag and the call.                 *)
(***************************************************************************)
THEOREM NothingStartsAfterQuit == Spec => NoStartAfterQuit
  <1> DEFINE Starts == \E w \in Workers : pc'[w] = "call" /\ pc[w] # "call"
  <1>1. Core /\ Phases /\ [Next]_vars =>
           (quit_flag => \A w \in Workers : pc'[w] = "call" => pc[w] = "call")
    <2> SUFFICES ASSUME Core, Phases, [Next]_vars, quit_flag, NEW w \in Workers,
                        pc'[w] = "call"
                 PROVE  pc[w] = "call"
      OBVIOUS
    <2>1. pc[w] # "pop" /\ pc \in [Workers -> {"none", "start", "lock", "sleep", "pop",
                                    "call", "finish", "free", "exited"}]
      BY DEF Phases, Core, TypeOK
    <2>2. CASE UNCHANGED vars
      BY <2>2 DEF vars
    <2>3. CASE Next
      BY <2>1, <2>3
      DEF Next, WorkerStep, PushStep, NewNoMem, Create, CreateError, AwaitWorkers,
          CreatorWakeup, Report, Sleep, Exit, Take, Pop, Call, Finish, Free,
          SpuriousWakeup, PushAlloc, PushNoMem, PushLock, PushLink, SignalWorker,
          Sleepers, Destroy, WakeAll, Reap, Over, vars
    <2> QED
      BY <2>2, <2>3
  <1> QED
    BY <1>1, CoreInvariant, PhasesInvariant, PTL DEF Spec, NoStartAfterQuit

-----------------------------------------------------------------------------
(***************************************************************************)
(* A step that takes no worker off the way to the list, puts none to sleep *)
(* and makes the list no longer.                                           *)
(***************************************************************************)
LEMMA NoFewerAwake ==
    ASSUME WorkerPerTask, Awake \subseteq Awake',
           Sleepers' \subseteq Sleepers,
           Len(wait_tasks') \in Nat, Len(wait_tasks) \in Nat,
           Len(wait_tasks') <= Len(wait_tasks)
    PROVE  WorkerPerTask'
  <1>1. IsFiniteSet(Awake) /\ IsFiniteSet(Awake')
    BY FS_Subset, PoolAssumption DEF Awake
  <1>2. Cardinality(Awake) <= Cardinality(Awake')
        /\ Cardinality(Awake) \in Nat /\ Cardinality(Awake') \in Nat
    BY <1>1, FS_Subset, FS_CardinalityType
  <1> QED
    BY <1>2 DEF WorkerPerTask

LEMMA WorkerPerTaskStep ==
    ASSUME Core, Phases, WorkerPerTask, [Next]_vars
    PROVE  WorkerPerTask'
  <1> DEFINE States == {"none", "start", "lock", "sleep", "pop", "call", "finish",
                        "free", "exited"}
  <1>1. /\ pc \in [Workers -> States]
        /\ wait_tasks \in Seq(Tasks) /\ Len(wait_tasks) \in Nat
        /\ task_nums = Len(wait_tasks)
    BY DEF Core, TypeOK
  <1>2. IsFiniteSet(Awake) /\ Cardinality(Awake) \in Nat
    BY FS_Subset, FS_CardinalityType, PoolAssumption DEF Awake
  <1>3. ASSUME NEW w \in Workers, Sleep(w) PROVE WorkerPerTask'
    <2>1. Len(wait_tasks') = 0
      BY <1>1, <1>3 DEF Sleep, MustWait
    <2>2. Cardinality(Awake') \in Nat
      BY FS_Subset, FS_CardinalityType, PoolAssumption DEF Awake
    <2> QED
      BY <2>1, <2>2 DEF WorkerPerTask
  <1>4. ASSUME NEW w \in Workers, Exit(w) PROVE WorkerPerTask'
    <2>1. Sleepers' = {}
      BY <1>1, <1>4 DEF Exit, MustExit, Phases, Sleepers
    <2> QED
      BY <2>1 DEF WorkerPerTask
  <1>5. ASSUME NEW w \in Workers, Pop(w) PROVE WorkerPerTask'
    <2>1. w \in Awake /\ Awake' = Awake \ {w} /\ Sleepers' = Sleepers
      BY <1>1, <1>5 DEF Pop, Awake, Sleepers
    <2>2. Cardinality(Awake') = Cardinality(Awake) - 1
      BY <1>2, <2>1, FS_RemoveElement
    <2>3. Len(wait_tasks') = Len(wait_tasks) - 1
      BY <1>1, <1>5, HeadTakenOff DEF Pop, Core, LockDiscipline
    <2> QED
      BY <1>1, <1>2, <2>1, <2>2, <2>3 DEF WorkerPerTask
  <1>6. ASSUME NEW p \in Pushers, PushLink(p) PROVE WorkerPerTask'
    <2>1. Len(wait_tasks') = Len(wait_tasks) + 1
      BY <1>1, <1>6, LinkedInFront DEF PushLink, Core, LockDiscipline, PushersInPlace
    <2>2. CASE Sleepers = {}
      BY <1>6, <2>2 DEF PushLink, SignalWorker, WorkerPerTask, Sleepers
    <2>3. ASSUME NEW w \in Sleepers, pc' = [pc EXCEPT ![w] = "lock"]
          PROVE  WorkerPerTask'
      <3>1. w \notin Awake /\ Awake' = Awake \cup {w}
        BY <1>1, <2>3 DEF Awake, Sleepers
      <3>2. Cardinality(Awake') = Cardinality(Awake) + 1
        BY <1>2, <3>1, FS_AddElement
      <3> QED
        BY <1>1, <1>2, <2>1, <3>2 DEF WorkerPerTask
    <2> QED
      BY <1>6, <2>2, <2>3 DEF PushLink, SignalWorker
  <1>7. ASSUME Reap PROVE WorkerPerTask'
    <2>1. Len(wait_tasks') = 0 /\ Cardinality(Awake') \in Nat
      BY <1>7, FS_Subset, FS_CardinalityType, PoolAssumption DEF Reap, Awake
    <2> QED
      BY <2>1 DEF WorkerPerTask
  <1>8. ASSUME UNCHANGED wait_tasks, Awake \subseteq Awake', Sleepers' \subseteq Sleepers
        PROVE  WorkerPerTask'
    BY <1>1, <1>8, NoFewerAwake
  <1>9. ASSUME NewNoMem \/ AwaitWorkers \/ CreatorWakeup \/ Over \/ UNCHANGED vars
        PROVE  WorkerPerTask'
    <2>1. UNCHANGED <<wait_tasks, pc>>
      BY <1>9 DEF NewNoMem, AwaitWorkers, CreatorWakeup, Over, vars
    <2> QED
      BY <1>8, <2>1 DEF Awake, Sleepers
  <1>10. ASSUME Destroy PROVE WorkerPerTask'
    BY <1>1, <1>8, <1>10 DEF Destroy, WakeAll, Awake, Sleepers
  <1>11. ASSUME NEW w \in Workers,
                \/ Create(w) \/ CreateError(w) \/ SpuriousWakeup(w)
                \/ Report(w) \/ Take(w) \/ Call(w) \/ Finish(w) \/ Free(w)
         PROVE  WorkerPerTask'
    <2>1. Create(w) => pc[w] = "none"
      BY DEF Core, Create
    <2>2. UNCHANGED wait_tasks /\ Awake \subseteq Awake' /\ Sleepers' \subseteq Sleepers
      BY <1>1, <1>11, <2>1
      DEF Create, CreateError, SpuriousWakeup, Report, Take, Call, Finish, Free,
          Awake, Sleepers
    <2> QED
      BY <1>8, <2>2
  <1>12. ASSUME NEW p \in Pushers,
                \/ PushLock(p)
                \/ \E t \in Tasks : PushAlloc(p, t) \/ PushNoMem(p, t)
         PROVE  WorkerPerTask'
    <2>1. UNCHANGED <<wait_tasks, pc>>
      BY <1>12 DEF PushLock, PushAlloc, PushNoMem
    <2> QED
      BY <1>8, <2>1 DEF Awake, Sleepers
  <1> QED
    BY <1>3, <1>4, <1>5, <1>6, <1>7, <1>9, <1>10, <1>11, <1>12
    DEF Next, WorkerStep, PushStep

(***************************************************************************)
(* No wakeup is lost: while a worker sleeps, every task in the list has an *)
(* awake worker of its own, with one signal per push.                      *)
(***************************************************************************)
THEOREM NoLostWakeup == Spec => []WorkerPerTask
  <1>1. Init => WorkerPerTask
    BY DEF Init, WorkerPerTask, Sleepers
  <1> QED
    BY <1>1, WorkerPerTaskStep, CoreInvariant, PhasesInvariant, PTL DEF Spec

-----------------------------------------------------------------------------
(***************************************************************************)
(* What follows one task: who can reach it, and how often it is run.  From *)
(* that: the threads, the list, the mutex and the condition variable       *)
(* implement TaskPool.  Linking a task accepts it, taking it off the list  *)
(* starts it, freeing its block completes it, and everything else is       *)
(* invisible to those who use the pool.                                    *)
(***************************************************************************)
Listed(s, t) == \E i \in DOMAIN s : s[i] = t
NoRepeats(s) == \A i, j \in DOMAIN s : s[i] = s[j] => i = j

LEMMA ListedInFront ==
    ASSUME NEW S, NEW s \in Seq(S), NEW t \in S
    PROVE  /\ \A u : Listed(<<t>> \o s, u) <=> u = t \/ Listed(s, u)
           /\ NoRepeats(s) /\ ~Listed(s, t) => NoRepeats(<<t>> \o s)
  <1> DEFINE r == <<t>> \o s
  <1>1. /\ DOMAIN s = 1..Len(s) /\ Len(s) \in Nat /\ DOMAIN r = 1..(Len(s) + 1)
        /\ r[1] = t
        /\ \A i \in 1..Len(s) : r[i + 1] = s[i]
    BY LinkedInFront
  <1> HIDE DEF r
  <1>2. \A i \in DOMAIN r : i = 1 \/ (i - 1 \in DOMAIN s /\ r[i] = s[i - 1])
    BY <1>1
  <1>3. ASSUME NEW u PROVE Listed(r, u) <=> u = t \/ Listed(s, u)
    <2>1. Listed(r, u) => u = t \/ Listed(s, u)
      BY <1>1, <1>2 DEF Listed
    <2>2. Listed(s, u) => Listed(r, u)
      <3>1. \A i \in DOMAIN s : i + 1 \in DOMAIN r /\ r[i + 1] = s[i]
        BY <1>1
      <3> QED
        BY <3>1 DEF Listed
    <2>3. Listed(r, t)
      BY <1>1 DEF Listed
    <2> QED
      BY <2>1, <2>2, <2>3
  <1>4. ASSUME NoRepeats(s), ~Listed(s, t), NEW i \in DOMAIN r, NEW j \in DOMAIN r,
               r[i] = r[j]
        PROVE  i = j
    BY <1>1, <1>2, <1>4 DEF NoRepeats, Listed
  <1> QED
    BY <1>3, <1>4 DEF NoRepeats, r

LEMMA ListedBehind ==
    ASSUME NEW S, NEW s \in Seq(S), s # <<>>, NEW r, r = Tail(s), NoRepeats(s)
    PROVE  /\ \A u : Listed(r, u) <=> Listed(s, u) /\ u # Head(s)
           /\ NoRepeats(r)
           /\ Listed(s, Head(s))
  <1>1. /\ DOMAIN s = 1..Len(s) /\ Len(s) \in Nat \ {0} /\ DOMAIN r = 1..(Len(s) - 1)
        /\ Head(s) = s[1]
        /\ \A i \in 1..(Len(s) - 1) : r[i] = s[i + 1]
    BY HeadTakenOff
  <1>2. \A i \in DOMAIN r : i + 1 \in DOMAIN s /\ i + 1 # 1 /\ r[i] = s[i + 1]
    BY <1>1
  <1>3. \A i \in DOMAIN s : i = 1 \/ (i - 1 \in DOMAIN r /\ s[i] = r[i - 1])
    BY <1>1
  <1>4. 1 \in DOMAIN s
    BY <1>1
  <1>5. ASSUME NEW u PROVE Listed(r, u) <=> Listed(s, u) /\ u # Head(s)
    <2>1. ASSUME NEW i \in DOMAIN r, r[i] = u PROVE Listed(s, u) /\ u # Head(s)
      <3>1. i + 1 \in DOMAIN s /\ i + 1 # 1 /\ s[i + 1] = u
        BY <1>2, <2>1
      <3>2. s[i + 1] # s[1]
        BY <1>4, <3>1 DEF NoRepeats
      <3> QED
        BY <1>1, <3>1, <3>2 DEF Listed
    <2>2. ASSUME NEW i \in DOMAIN s, s[i] = u, u # Head(s) PROVE Listed(r, u)
      BY <1>1, <1>3, <2>2 DEF Listed
    <2> QED
      BY <2>1, <2>2 DEF Listed
  <1>6. NoRepeats(r)
    BY <1>1, <1>2 DEF NoRepeats
  <1> QED
    BY <1>1, <1>4, <1>5, <1>6 DEF Listed

-----------------------------------------------------------------------------
(* A step that moves no task from one place to another.                    *)
Unmoved == /\ UNCHANGED wait_tasks
           /\ \A t \in Tasks : /\ block'[t] = "live" <=> block[t] = "live"
                               /\ \A w \in Workers : HeldBy(w, t)' <=> HeldBy(w, t)
                               /\ \A p \in Pushers : PushedBy(p, t)' <=> PushedBy(p, t)

LEMMA UnmovedKeepsOwner == OneOwner /\ Unmoved => OneOwner'
  <1> SUFFICES ASSUME OneOwner, Unmoved PROVE OneOwner'
    OBVIOUS
  <1>1. \A t \in Tasks : Queued(t)' <=> Queued(t)
    BY DEF Unmoved, Queued
  <1> QED
    BY <1>1 DEF Unmoved, OneOwner

LEMMA OneOwnerStep ==
    ASSUME Core, Phases, OneOwner, [Next]_vars
    PROVE  OneOwner'
  <1> USE PoolAssumption
  <1> DEFINE States == {"none", "start", "lock", "sleep", "pop", "call", "finish",
                        "free", "exited"}
  <1>1. /\ pc \in [Workers -> States] /\ ppc \in [Pushers -> {"idle", "lock", "link"}]
        /\ block \in [Tasks -> {"none", "live", "refused", "freed"}]
        /\ node \in [Pushers -> Tasks \cup {NoTask}]
        /\ task \in [Workers -> Seq(Tasks)]
        /\ wait_tasks \in Seq(Tasks)
        /\ \A w \in Workers : w \notin asked => pc[w] = "none"
    BY DEF Core, TypeOK
  <1>2. /\ NoRepeats(wait_tasks)
        /\ \A t : Queued(t) <=> Listed(wait_tasks, t)
        /\ \A t : Queued(t)' <=> Listed(wait_tasks', t)
    BY <1>1 DEF OneOwner, NoRepeats, Listed, Queued
  <1>3. ASSUME UNCHANGED <<wait_tasks, block, pc, task, ppc, node>> PROVE OneOwner'
    BY <1>3, UnmovedKeepsOwner DEF Unmoved, HeldBy, PushedBy, Holding, Held
  <1>4. ASSUME NEW w \in Workers, UNCHANGED <<wait_tasks, block, ppc, node>>,
               \A v \in Workers : v # w => pc'[v] = pc[v] /\ task'[v] = task[v],
               Holding(w)' <=> Holding(w), Holding(w) => task'[w] = task[w]
        PROVE  OneOwner'
    BY <1>4, UnmovedKeepsOwner DEF Unmoved, HeldBy, PushedBy, Holding, Held
  <1>5. ASSUME NEW w \in Workers, Pop(w) PROVE OneOwner'
    <2>0. /\ task[w] = wait_tasks /\ wait_tasks # <<>> /\ ~Holding(w)
          /\ wait_tasks' = Tail(wait_tasks)
          /\ Head(wait_tasks) \in Tasks /\ Head(<<Head(wait_tasks)>>) = Head(wait_tasks)
      BY <1>1, <1>5, HeadTakenOff DEF Pop, Core, LockDiscipline, Holding
    <2> DEFINE h == Head(wait_tasks)
    <2>1. /\ \A t \in Tasks : Queued(t)' <=> Queued(t) /\ t # h
          /\ NoRepeats(wait_tasks') /\ Queued(h)
      BY <1>1, <1>2, <2>0, ListedBehind
    <2>2. \A v \in Workers, t \in Tasks : HeldBy(v, t)' <=> HeldBy(v, t) \/ (v = w /\ t = h)
      BY <1>1, <1>5, <2>0 DEF Pop, HeldBy, Holding, Held
    <2>3. /\ \A p \in Pushers, t \in Tasks : PushedBy(p, t)' <=> PushedBy(p, t)
          /\ block' = block
      BY <1>5 DEF Pop, pushVars, PushedBy
    <2>4. \A t \in Tasks : ~HeldBy(w, t)
      BY <2>0 DEF HeldBy
    <2> QED
      BY <2>0, <2>1, <2>2, <2>3, <2>4 DEF OneOwner, NoRepeats
  <1>6. ASSUME NEW w \in Workers, Free(w) PROVE OneOwner'
    <2>0. Held(w) \in Tasks /\ Holding(w) /\ HeldBy(w, Held(w))
      BY <1>1, <1>6, HeadTakenOff DEF Free, Holding, Held, HeldBy, Core, PushersInPlace
    <2>1. \A v \in Workers, t \in Tasks :
              HeldBy(v, t)' <=> HeldBy(v, t) /\ v # w
      BY <1>1, <1>6 DEF Free, HeldBy, Holding, Held
    <2>2. \A t \in Tasks : block'[t] = "live" <=> block[t] = "live" /\ t # Held(w)
      BY <1>1, <1>6, <2>0 DEF Free
    <2>3. /\ \A p \in Pushers, t \in Tasks : PushedBy(p, t)' <=> PushedBy(p, t)
          /\ wait_tasks' = wait_tasks /\ \A t \in Tasks : Queued(t)' <=> Queued(t)
      BY <1>6 DEF Free, pushVars, PushedBy, Queued
    <2>4. \A t \in Tasks : HeldBy(w, t) <=> t = Held(w)
      BY <2>0 DEF HeldBy
    <2> QED
      BY <2>0, <2>1, <2>2, <2>3, <2>4 DEF OneOwner
  <1>7. ASSUME NEW p \in Pushers, PushLink(p) PROVE OneOwner'
    <2>0. /\ next[p] = wait_tasks /\ node[p] \in Tasks /\ PushedBy(p, node[p])
          /\ wait_tasks' = <<node[p]>> \o wait_tasks
      BY <1>7 DEF PushLink, Core, LockDiscipline, PushersInPlace, PushedBy
    <2>1. ~Queued(node[p])
      BY <2>0 DEF OneOwner
    <2>2. /\ \A t \in Tasks : Queued(t)' <=> Queued(t) \/ t = node[p]
          /\ NoRepeats(wait_tasks')
      <3>1. NoRepeats(wait_tasks) /\ ~Listed(wait_tasks, node[p])
        BY <1>2, <2>1
      <3>2. /\ \A u : Listed(<<node[p]>> \o wait_tasks, u)
                        <=> u = node[p] \/ Listed(wait_tasks, u)
            /\ NoRepeats(<<node[p]>> \o wait_tasks)
        BY <1>1, <2>0, <3>1, ListedInFront
      <3> QED
        BY <1>2, <2>0, <3>2
    <2>3. \A q \in Pushers, t \in Tasks : PushedBy(q, t)' <=> PushedBy(q, t) /\ q # p
      BY <1>1, <1>7 DEF PushLink, PushedBy
    <2>4. \A w \in Workers, t \in Tasks : HeldBy(w, t)' <=> HeldBy(w, t)
      <3>1. \A w \in Workers : Holding(w)' <=> Holding(w)
        BY <1>1, <1>7 DEF PushLink, SignalWorker, Sleepers, Holding
      <3>2. task' = task
        BY <1>7 DEF PushLink
      <3> QED
        BY <3>1, <3>2 DEF HeldBy, Held
    <2>5. /\ block' = block
          /\ \A t \in Tasks : PushedBy(p, t) <=> t = node[p]
      BY <1>7, <2>0 DEF PushLink, PushedBy
    <2> QED
      BY <2>0, <2>1, <2>2, <2>3, <2>4, <2>5 DEF OneOwner, NoRepeats
  <1>8. ASSUME NEW p \in Pushers, NEW t \in Tasks, PushAlloc(p, t) PROVE OneOwner'
    <2>1. \A q \in Pushers, u \in Tasks :
              PushedBy(q, u)' <=> PushedBy(q, u) \/ (q = p /\ u = t)
      BY <1>1, <1>8 DEF PushAlloc, MayPush, PushedBy
    <2>2. /\ \A u \in Tasks : block'[u] = "live" <=> block[u] = "live" \/ u = t
          /\ block[t] # "live"
      BY <1>1, <1>8 DEF PushAlloc
    <2>3. /\ \A w \in Workers, u \in Tasks : HeldBy(w, u)' <=> HeldBy(w, u)
          /\ wait_tasks' = wait_tasks /\ \A u \in Tasks : Queued(u)' <=> Queued(u)
      BY <1>8 DEF PushAlloc, HeldBy, Holding, Held, Queued
    <2>4. \A u \in Tasks : ~PushedBy(p, u)
      BY <1>8 DEF PushAlloc, MayPush, PushedBy
    <2> QED
      BY <2>1, <2>2, <2>3, <2>4 DEF OneOwner
  <1>9. ASSUME NEW p \in Pushers, NEW t \in Tasks, PushNoMem(p, t) PROVE OneOwner'
    <2>1. \A u \in Tasks : block'[u] = "live" <=> block[u] = "live"
      BY <1>1, <1>9 DEF PushNoMem
    <2> QED
      BY <1>9, <2>1, UnmovedKeepsOwner
      DEF PushNoMem, pushVars, Unmoved, HeldBy, PushedBy, Holding, Held
  <1>10. ASSUME NEW p \in Pushers, PushLock(p) PROVE OneOwner'
    <2>1. \A q \in Pushers, t \in Tasks : PushedBy(q, t)' <=> PushedBy(q, t)
      BY <1>1, <1>10 DEF PushLock, PushedBy
    <2> QED
      BY <1>10, <2>1, UnmovedKeepsOwner
      DEF PushLock, Unmoved, HeldBy, Holding, Held
  <1>11. ASSUME Destroy PROVE OneOwner'
    <2>1. \A w \in Workers : Holding(w)' <=> Holding(w)
      BY <1>1, <1>11 DEF Destroy, WakeAll, Sleepers, Holding
    <2> QED
      BY <1>11, <2>1, UnmovedKeepsOwner
      DEF Destroy, pushVars, Unmoved, HeldBy, PushedBy, Held
  <1>12. ASSUME Reap PROVE OneOwner'
    <2>1. \A t \in Tasks : ~Queued(t)'
      BY <1>12 DEF Reap, Queued
    <2>2. \A t \in Tasks : block'[t] = "live" <=> block[t] = "live" /\ ~Queued(t)
      BY <1>1, <1>12 DEF Reap, Queued
    <2>3. \A t \in Tasks : /\ \A w \in Workers : HeldBy(w, t)' <=> HeldBy(w, t)
                           /\ \A p \in Pushers : PushedBy(p, t)' <=> PushedBy(p, t)
      BY <1>12 DEF Reap, pushVars, HeldBy, PushedBy, Holding, Held
    <2>4. wait_tasks' = <<>>
      BY <1>12 DEF Reap
    <2> QED
      BY <2>1, <2>2, <2>3, <2>4 DEF OneOwner
  <1>13. ASSUME NEW w \in Workers,
                \/ Create(w) \/ CreateError(w) \/ SpuriousWakeup(w) \/ Report(w)
                \/ Sleep(w) \/ Exit(w) \/ Take(w) \/ Call(w) \/ Finish(w)
         PROVE  OneOwner'
    <2>1. Create(w) => pc[w] = "none"
      BY <1>1 DEF Create
    <2>2. /\ UNCHANGED <<wait_tasks, block, ppc, node>>
          /\ \A v \in Workers : v # w => pc'[v] = pc[v] /\ task'[v] = task[v]
          /\ Holding(w)' <=> Holding(w)
          /\ Holding(w) => task'[w] = task[w]
      BY <1>1, <1>13, <2>1
      DEF Create, CreateError, SpuriousWakeup, Report, Sleep, Exit, Take, Call, Finish,
          Holding, pushVars
    <2> QED
      BY <1>4, <2>2
  <1>14. ASSUME NewNoMem \/ AwaitWorkers \/ CreatorWakeup \/ Over \/ UNCHANGED vars
         PROVE  OneOwner'
    BY <1>3, <1>14 DEF NewNoMem, AwaitWorkers, CreatorWakeup, Over, vars, pushVars
  <1> QED
    BY <1>5, <1>6, <1>7, <1>8, <1>9, <1>10, <1>11, <1>12, <1>13, <1>14
    DEF Next, WorkerStep, PushStep

(***************************************************************************)
(* A task that was pushed is in one place, so no two workers ever run or   *)
(* free the same task and none is lost.                                    *)
(***************************************************************************)
THEOREM TasksHaveOneOwner == Spec => []OneOwner
  <1>1. Init => OneOwner
    BY DEF Init, OneOwner, Queued, HeldBy, PushedBy, Holding
  <1> QED
    BY <1>1, OneOwnerStep, CoreInvariant, PhasesInvariant, PTL DEF Spec

(***************************************************************************)
(* When jk_thread_pool_destroy frees the pool no thread is left that could *)
(* use it, its mutex is free, and no task block was leaked.                *)
(***************************************************************************)
THEOREM DestroyLeavesNothing == Spec => []GoneIsQuiet
  <1>1. Core /\ Phases /\ OneOwner => GoneIsQuiet
    <2> SUFFICES ASSUME Core, Phases, OneOwner, mpc = "gone" PROVE GoneIsQuiet
      BY DEF GoneIsQuiet
    <2>1. lock = NoThread /\ wait_tasks = <<>> /\ \A w \in Workers : pc[w] = "exited"
      BY DEF Phases
    <2>2. \A p \in Pushers : ppc[p] = "idle"
      BY <2>1 DEF Core, PushersInPlace, Pushers
    <2>3. \A t \in Tasks : block[t] # "live"
      BY <2>1, <2>2 DEF OneOwner, Queued, HeldBy, PushedBy, Holding
    <2> QED
      BY <2>1, <2>2, <2>3 DEF GoneIsQuiet
  <1> QED
    BY <1>1, CoreInvariant, PhasesInvariant, TasksHaveOneOwner, PTL

-----------------------------------------------------------------------------
(* How often the callbacks of a task have run, by where the task is.       *)
ServedAt(t) ==
    /\ block[t] # "freed" /\ (\A w \in Workers : ~HeldBy(w, t))
          => calls[t] = 0 /\ fins[t] = 0
    /\ \A w \in Workers : HeldBy(w, t) =>
          /\ pc[w] = "call" => calls[t] = 0 /\ fins[t] = 0
          /\ pc[w] = "finish" => calls[t] = 1 /\ fins[t] = 0 /\ t \in HasFinish
          /\ pc[w] = "free" => /\ calls[t] = 1
                               /\ fins[t] = IF t \in HasFinish THEN 1 ELSE 0
    /\ block[t] = "freed" =>
          \/ calls[t] = 1 /\ fins[t] = IF t \in HasFinish THEN 1 ELSE 0
          \/ calls[t] = 0 /\ fins[t] = 0 /\ mpc = "gone"

Served == \A t \in Tasks : ServedAt(t)

LEMMA ServedStep ==
    ASSUME Core, Phases, OneOwner, Served, [Next]_vars
    PROVE  Served'
  <1> USE PoolAssumption
  <1> DEFINE States == {"none", "start", "lock", "sleep", "pop", "call", "finish",
                        "free", "exited"}
  <1>1. /\ pc \in [Workers -> States]
        /\ block \in [Tasks -> {"none", "live", "refused", "freed"}]
        /\ calls \in [Tasks -> Nat] /\ fins \in [Tasks -> Nat]
        /\ task \in [Workers -> Seq(Tasks)]
        /\ wait_tasks \in Seq(Tasks)
        /\ \A w \in Workers : w \notin asked => pc[w] = "none"
    BY DEF Core, TypeOK
  <1>2. /\ \A t \in Tasks, v, w \in Workers : HeldBy(v, t) /\ HeldBy(w, t) => v = w
        /\ \A t \in Tasks, w \in Workers : HeldBy(w, t) => block[t] = "live"
    BY DEF OneOwner
  <1>3. ASSUME UNCHANGED <<calls, fins>>, mpc = "gone" => mpc' = "gone",
               \A t \in Tasks : block'[t] = "freed" <=> block[t] = "freed",
               \A t \in Tasks, w \in Workers : HeldBy(w, t)' <=> HeldBy(w, t),
               \A w \in Workers : Holding(w) => pc'[w] = pc[w]
        PROVE  Served'
    BY <1>3 DEF Served, ServedAt, HeldBy
  <1>4. ASSUME NEW w \in Workers, Pop(w) PROVE Served'
    <2>0. /\ task[w] = wait_tasks /\ wait_tasks # <<>> /\ ~Holding(w)
          /\ Head(wait_tasks) \in Tasks /\ Head(<<Head(wait_tasks)>>) = Head(wait_tasks)
          /\ Queued(Head(wait_tasks))
      BY <1>1, <1>4, HeadTakenOff DEF Pop, Core, LockDiscipline, Holding, Queued
    <2> DEFINE h == Head(wait_tasks)
    <2>1. \A v \in Workers, t \in Tasks : HeldBy(v, t)' <=> HeldBy(v, t) \/ (v = w /\ t = h)
      BY <1>1, <1>4, <2>0 DEF Pop, HeldBy, Holding, Held
    <2>2. calls[h] = 0 /\ fins[h] = 0
      BY <2>0 DEF OneOwner, Served, ServedAt
    <2>3. /\ UNCHANGED <<calls, fins, block, mpc>> /\ pc'[w] = "call"
          /\ \A v \in Workers : v # w => pc'[v] = pc[v]
      BY <1>1, <1>4 DEF Pop, mainVars, histVars
    <2>4. \A t \in Tasks : ~HeldBy(w, t)
      BY <2>0 DEF HeldBy
    <2> QED
      BY <2>1, <2>2, <2>3, <2>4 DEF Served, ServedAt
  <1>5. ASSUME NEW w \in Workers, Call(w) \/ Finish(w) PROVE Served'
    <2>1. /\ Held(w) \in Tasks /\ HeldBy(w, Held(w))
      BY <1>1, <1>5, HeadTakenOff DEF Call, Finish, HeldBy, Holding, Held, Core, PushersInPlace
    <2>2. PICK h \in Tasks : h = Held(w)
      BY <2>1
    <2>3. \A v \in Workers, t \in Tasks : HeldBy(v, t)' <=> HeldBy(v, t)
      BY <1>1, <1>5 DEF Call, Finish, HeldBy, Holding, Held
    <2>4. /\ UNCHANGED <<block, mpc>>
          /\ \A v \in Workers : v # w => pc'[v] = pc[v]
          /\ \A t \in Tasks : t # h => calls'[t] = calls[t] /\ fins'[t] = fins[t]
      BY <1>1, <1>5, <2>2 DEF Call, Finish, mainVars
    <2>5. \/ /\ calls'[h] = 1 /\ fins'[h] = 0
             /\ pc'[w] = IF h \in HasFinish THEN "finish" ELSE "free"
          \/ /\ calls'[h] = 1 /\ fins'[h] = 1 /\ h \in HasFinish
             /\ pc'[w] = "free"
      <3>1. CASE Call(w)
        <4>1. calls[h] = 0 /\ fins[h] = 0
          BY <2>1, <2>2, <3>1 DEF Call, Served, ServedAt
        <4> QED
          BY <1>1, <2>2, <3>1, <4>1 DEF Call
      <3>2. CASE Finish(w)
        <4>1. calls[h] = 1 /\ fins[h] = 0 /\ h \in HasFinish
          BY <2>1, <2>2, <3>2 DEF Finish, Served, ServedAt
        <4> QED
          BY <1>1, <2>2, <3>2, <4>1 DEF Finish
      <3> QED
        BY <1>5, <3>1, <3>2
    <2>6. \A t \in Tasks : HeldBy(w, t) => t = h
      BY <2>2 DEF HeldBy
    <2>7. \A v \in Workers : HeldBy(v, h) => v = w
      BY <1>2, <2>1, <2>2
    <2>8. block[h] = "live"
      BY <1>2, <2>1, <2>2
    <2>9. h \in Tasks /\ HeldBy(w, h)
      BY <2>1, <2>2
    <2>10. ASSUME NEW t \in Tasks, t # h PROVE ServedAt(t)'
      <3>1. ServedAt(t)
        BY DEF Served
      <3>2. \A v \in Workers : HeldBy(v, t)' => HeldBy(v, t) /\ pc'[v] = pc[v]
        BY <2>3, <2>4, <2>6, <2>10
      <3>3. (\A v \in Workers : ~HeldBy(v, t)') => (\A v \in Workers : ~HeldBy(v, t))
        BY <2>3
      <3> QED
        BY <2>4, <2>10, <3>1, <3>2, <3>3 DEF ServedAt
    <2>11. ServedAt(h)'
      <3>1. HeldBy(w, h)' /\ \A v \in Workers : HeldBy(v, h)' => v = w
        BY <2>3, <2>7, <2>9
      <3> QED
        BY <2>4, <2>5, <2>8, <3>1 DEF ServedAt
    <2> QED
      BY <2>10, <2>11 DEF Served
  <1>6. ASSUME NEW w \in Workers, Free(w) PROVE Served'
    <2>0. /\ Held(w) \in Tasks /\ HeldBy(w, Held(w)) /\ pc[w] = "free"
      BY <1>1, <1>6, HeadTakenOff DEF Free, HeldBy, Holding, Held, Core, PushersInPlace
    <2>1. \A v \in Workers, t \in Tasks : HeldBy(v, t)' <=> HeldBy(v, t) /\ v # w
      BY <1>1, <1>6 DEF Free, HeldBy, Holding, Held
    <2>2. /\ UNCHANGED <<calls, fins, mpc>> /\ block' = [block EXCEPT ![Held(w)] = "freed"]
          /\ \A v \in Workers : v # w => pc'[v] = pc[v]
      BY <1>1, <1>6 DEF Free, mainVars, histVars
    <2>3. \A t \in Tasks : HeldBy(w, t) => t = Held(w)
      BY DEF HeldBy
    <2> HIDE DEF Held
    <2> QED
      BY <1>1, <2>0, <2>1, <2>2, <2>3 DEF Served, ServedAt
  <1>7. ASSUME Reap PROVE Served'
    <2>1. \A t \in Tasks, w \in Workers : ~HeldBy(w, t) /\ ~HeldBy(w, t)'
      BY <1>7 DEF Reap, AllJoined, HeldBy, Holding
    <2>2. \A t \in Tasks : block'[t] = IF Queued(t) THEN "freed" ELSE block[t]
      BY <1>1, <1>7 DEF Reap, Queued
    <2>3. \A t \in Tasks : Queued(t) => block[t] = "live"
      BY DEF OneOwner
    <2>4. UNCHANGED <<calls, fins>> /\ mpc' = "gone" /\ mpc = "join"
      BY <1>7 DEF Reap, histVars
    <2> QED
      BY <2>1, <2>2, <2>3, <2>4 DEF Served, ServedAt
  <1>8. ASSUME NEW w \in Workers,
               \/ Create(w) \/ CreateError(w) \/ SpuriousWakeup(w) \/ Report(w)
               \/ Sleep(w) \/ Exit(w) \/ Take(w)
        PROVE  Served'
    <2>1. Create(w) => pc[w] = "none"
      BY <1>1 DEF Create
    <2>2. /\ UNCHANGED <<calls, fins, block>> /\ (mpc = "gone" => mpc' = "gone")
          /\ ~Holding(w) /\ ~Holding(w)'
          /\ \A v \in Workers : v # w => pc'[v] = pc[v] /\ task'[v] = task[v]
      BY <1>1, <1>8, <2>1
      DEF Create, CreateError, SpuriousWakeup, Report, WakeCreator, Sleep, Exit, Take,
          Holding, mainVars, histVars
    <2>3. \A v \in Workers : /\ Holding(v)' <=> Holding(v)
                             /\ Holding(v) => pc'[v] = pc[v] /\ task'[v] = task[v]
      BY <2>2 DEF Holding
    <2>4. \A t \in Tasks, v \in Workers : HeldBy(v, t)' <=> HeldBy(v, t)
      BY <2>3 DEF HeldBy, Held
    <2> QED
      BY <1>3, <2>2, <2>3, <2>4
  <1>9. ASSUME NEW p \in Pushers, PushLock(p) \/ PushLink(p) PROVE Served'
    <2>1. /\ UNCHANGED <<calls, fins, block, mpc, task>>
          /\ \A w \in Workers : pc'[w] = pc[w] \/ (pc[w] = "sleep" /\ pc'[w] = "lock")
      BY <1>1, <1>9 DEF PushLock, PushLink, SignalWorker, Sleepers, mainVars, histVars
    <2> QED
      BY <1>3, <2>1 DEF HeldBy, Holding, Held
  <1>10. ASSUME NEW p \in Pushers, NEW t \in Tasks, PushAlloc(p, t) \/ PushNoMem(p, t)
         PROVE  Served'
    <2>1. \A u \in Tasks : block'[u] = "freed" <=> block[u] = "freed"
      BY <1>1, <1>10 DEF PushAlloc, PushNoMem
    <2>2. UNCHANGED <<calls, fins, mpc, pc, task>>
      BY <1>10 DEF PushAlloc, PushNoMem, mainVars, histVars
    <2> QED
      BY <1>3, <2>1, <2>2 DEF HeldBy, Holding, Held
  <1>11. ASSUME Destroy PROVE Served'
    <2>1. /\ UNCHANGED <<calls, fins, block, task>> /\ mpc # "gone"
          /\ \A w \in Workers : pc'[w] = pc[w] \/ (pc[w] = "sleep" /\ pc'[w] = "lock")
      BY <1>1, <1>11 DEF Destroy, WakeAll, Sleepers, histVars
    <2> QED
      BY <1>3, <2>1 DEF HeldBy, Holding, Held
  <1>12. ASSUME NewNoMem \/ AwaitWorkers \/ CreatorWakeup \/ Over \/ UNCHANGED vars
         PROVE  Served'
    <2>1. UNCHANGED <<calls, fins, block, task, pc>> /\ (mpc = "gone" => mpc' = "gone")
      BY <1>12 DEF NewNoMem, AwaitWorkers, CreatorWakeup, Over, vars, mainVars, histVars
    <2> QED
      BY <1>3, <2>1 DEF HeldBy, Holding, Held
  <1> QED
    BY <1>4, <1>5, <1>6, <1>7, <1>8, <1>9, <1>10, <1>11, <1>12
    DEF Next, WorkerStep, PushStep

THEOREM ServedInvariant == Spec => []Served
  <1>1. Init => Served
    BY DEF Init, Served, ServedAt, HeldBy, Holding
  <1> QED
    BY <1>1, ServedStep, CoreInvariant, PhasesInvariant, TasksHaveOneOwner, PTL DEF Spec

(***************************************************************************)
(* The callbacks of a task run once and before its block is freed; a block *)
(* whose task never ran is freed only by jk_thread_pool_destroy.           *)
(***************************************************************************)
THEOREM TasksRunOnce == Spec => []RunOnceThenFreed
  <1>1. Core /\ OneOwner /\ Served => RunOnceThenFreed
    <2> SUFFICES ASSUME Core, OneOwner, Served, NEW t \in Tasks
                 PROVE  /\ calls[t] <= 1
                        /\ fins[t] <= IF t \in HasFinish THEN calls[t] ELSE 0
                        /\ block[t] = "freed" =>
                              \/ calls[t] = 1 /\ fins[t] = (IF t \in HasFinish THEN 1 ELSE 0)
                              \/ calls[t] = 0 /\ mpc = "gone"
      BY DEF RunOnceThenFreed
    <2>1. calls[t] \in Nat /\ fins[t] \in Nat
      BY DEF Core, TypeOK
    <2>2. CASE \E w \in Workers : HeldBy(w, t)
      <3>1. PICK w \in Workers : HeldBy(w, t)
        BY <2>2
      <3>2. pc[w] \in {"call", "finish", "free"} /\ block[t] = "live"
        BY <3>1 DEF HeldBy, Holding, OneOwner
      <3> QED
        BY <2>1, <3>1, <3>2 DEF Served, ServedAt
    <2>3. CASE \A w \in Workers : ~HeldBy(w, t)
      BY <2>1, <2>3 DEF Served, ServedAt
    <2> QED
      BY <2>2, <2>3
  <1> QED
    BY <1>1, CoreInvariant, TasksHaveOneOwner, ServedInvariant, PTL

-----------------------------------------------------------------------------
IsHeld(t) == \E w \in Workers : HeldBy(w, t)

(* absStatus without the freedom of CASE: the places exclude one another.  *)
StatusOf(t) == IF Queued(t) THEN "pending"
               ELSE IF IsHeld(t) THEN "running"
               ELSE IF block[t] # "freed" THEN "new"
               ELSE IF calls[t] = 0 THEN "dropped" ELSE "done"

LEMMA StatusByPlace == OneOwner => absStatus = [t \in Tasks |-> StatusOf(t)]
  <1> SUFFICES ASSUME OneOwner, NEW t \in Tasks
               PROVE  (CASE Queued(t) -> "pending"
                         [] \E w \in Workers : HeldBy(w, t) -> "running"
                         [] block[t] = "freed" -> IF calls[t] = 0 THEN "dropped" ELSE "done"
                         [] OTHER -> "new")
                       = StatusOf(t)
    BY DEF absStatus
  <1>1. /\ Queued(t) \/ IsHeld(t) => block[t] = "live"
        /\ ~(Queued(t) /\ IsHeld(t))
    BY DEF OneOwner, IsHeld
  <1> QED
    BY <1>1 DEF StatusOf, IsHeld

LEMMA StatusByPlaceAfter == OneOwner' => absStatus' = [t \in Tasks |-> StatusOf(t)']
  <1> SUFFICES ASSUME OneOwner', NEW t \in Tasks
               PROVE  (CASE Queued(t)' -> "pending"
                         [] \E w \in Workers : HeldBy(w, t)' -> "running"
                         [] block'[t] = "freed" -> IF calls'[t] = 0 THEN "dropped" ELSE "done"
                         [] OTHER -> "new")
                       = StatusOf(t)'
    BY DEF absStatus
  <1>1. /\ Queued(t)' \/ IsHeld(t)' => block'[t] = "live"
        /\ ~(Queued(t)' /\ IsHeld(t)')
    BY DEF OneOwner, IsHeld
  <1> QED
    BY <1>1 DEF StatusOf, IsHeld

(* A step that leaves every task where it is and opens or closes nothing.  *)
LEMMA Invisible ==
    ASSUME OneOwner, OneOwner',
           quit_flag' = quit_flag, mpc' = "gone" <=> mpc = "gone",
           \A t \in Tasks :
               /\ Queued(t)' <=> Queued(t)
               /\ IsHeld(t)' <=> IsHeld(t)
               /\ block'[t] = "freed" <=> block[t] = "freed"
               /\ block[t] = "freed" => calls'[t] = calls[t]
    PROVE  UNCHANGED Abstract!vars
  <1>1. \A t \in Tasks : StatusOf(t)' = StatusOf(t)
    BY DEF StatusOf
  <1>2. absStatus' = absStatus
    BY <1>1, StatusByPlace, StatusByPlaceAfter
  <1>3. absPhase' = absPhase
    BY DEF absPhase
  <1> QED
    BY <1>2, <1>3 DEF Abstract!vars

-----------------------------------------------------------------------------
(* What the steps that move a task do to its status.                       *)
LEMMA PushAccepts ==
    ASSUME Core, Phases, OneOwner, Served, OneOwner', NEW p \in Pushers, PushLink(p)
    PROVE  \E t \in Tasks : Abstract!Accept(t)
  <1>1. PICK n \in Tasks : n = node[p]
    BY DEF PushLink, Core, PushersInPlace
  <1>2. /\ next[p] = wait_tasks /\ wait_tasks' = <<n>> \o wait_tasks
        /\ PushedBy(p, n) /\ wait_tasks \in Seq(Tasks)
    BY <1>1 DEF PushLink, Core, LockDiscipline, PushedBy, TypeOK
  <1>3. ~Queued(n) /\ ~IsHeld(n) /\ block[n] = "live"
    BY <1>2 DEF OneOwner, IsHeld
  <1>4. \A t \in Tasks : Queued(t)' <=> Queued(t) \/ t = n
    <2>1. \A t : (Queued(t) <=> Listed(wait_tasks, t)) /\ (Queued(t)' <=> Listed(wait_tasks', t))
      BY DEF Queued, Listed
    <2>2. \A t : Listed(<<n>> \o wait_tasks, t) <=> t = n \/ Listed(wait_tasks, t)
      BY <1>2, ListedInFront
    <2> QED
      BY <1>2, <2>1, <2>2
  <1>5. \A t \in Tasks : IsHeld(t)' <=> IsHeld(t)
    <2>1. \A w \in Workers : Holding(w)' <=> Holding(w)
      BY DEF PushLink, SignalWorker, Sleepers, Holding, Core, TypeOK
    <2>2. task' = task
      BY DEF PushLink
    <2> QED
      BY <2>1, <2>2 DEF IsHeld, HeldBy, Held
  <1>6. UNCHANGED <<block, calls, quit_flag, mpc>>
    BY DEF PushLink, mainVars, histVars
  <1>7. StatusOf(n) = "new" /\ StatusOf(n)' = "pending"
    BY <1>3, <1>4, <1>6 DEF StatusOf
  <1>8. \A t \in Tasks : t # n => StatusOf(t)' = StatusOf(t)
    BY <1>4, <1>5, <1>6 DEF StatusOf
  <1>9. absStatus[n] = "new" /\ absStatus' = [absStatus EXCEPT ![n] = "pending"]
    BY <1>7, <1>8, StatusByPlace, StatusByPlaceAfter
  <1>10. absPhase' = absPhase
    BY <1>6 DEF absPhase
  <1>11. absPhase = "open" \/ (absPhase = "closed" /\ Abstract!Running # {})
    <2>1. ppc[p] = "link" /\ Pushers = Workers \cup Clients
      BY DEF PushLink, Pushers
    <2>2. CASE p \in Workers
      <3>1. pc[p] \in {"call", "finish"} /\ task[p] # <<>> /\ task[p] \in Seq(Tasks)
        BY <2>1, <2>2 DEF Core, PushersInPlace, Holding, TypeOK
      <3>2. Held(p) \in Tasks /\ HeldBy(p, Held(p))
        BY <3>1, HeadTakenOff DEF Held, HeldBy, Holding
      <3>3. PICK u \in Tasks : HeldBy(p, u)
        BY <3>2
      <3>4. ~Queued(u) /\ IsHeld(u)
        BY <2>2, <3>3 DEF OneOwner, IsHeld
      <3>5. absStatus[u] = "running"
        BY <3>4, StatusByPlace DEF StatusOf
      <3>6. mpc # "gone"
        BY <2>2, <3>1 DEF Phases
      <3> QED
        BY <3>5, <3>6 DEF absPhase, Abstract!Running
    <2>3. CASE p \in Clients
      <3>1. mpc = "running" /\ ~quit_flag
        BY <2>1, <2>3 DEF Core, PushersInPlace, Phases
      <3> QED
        BY <3>1 DEF absPhase
    <2> QED
      BY <2>1, <2>2, <2>3
  <1> QED
    BY <1>9, <1>10, <1>11 DEF Abstract!Accept

LEMMA PopStarts ==
    ASSUME Core, Phases, OneOwner, OneOwner', NEW w \in Workers, Pop(w)
    PROVE  \E t \in Tasks : Abstract!Start(t)
  <1>1. /\ task[w] = wait_tasks /\ wait_tasks # <<>> /\ wait_tasks \in Seq(Tasks)
        /\ pc[w] = "pop" /\ ~Holding(w) /\ wait_tasks' = Tail(wait_tasks)
    BY DEF Pop, Core, LockDiscipline, Holding, TypeOK
  <1>2. PICK h \in Tasks : h = Head(wait_tasks) /\ Head(<<h>>) = h
    BY <1>1, HeadTakenOff
  <1>3. /\ Queued(h)
        /\ \A t \in Tasks : Queued(t)' <=> Queued(t) /\ t # h
    <2>1. NoRepeats(wait_tasks)
      BY <1>1 DEF OneOwner, NoRepeats
    <2>2. \A t : (Queued(t) <=> Listed(wait_tasks, t)) /\ (Queued(t)' <=> Listed(wait_tasks', t))
      BY DEF Queued, Listed
    <2>3. /\ \A u : Listed(Tail(wait_tasks), u) <=> Listed(wait_tasks, u) /\ u # h
          /\ Listed(wait_tasks, h)
      BY <1>1, <1>2, <2>1, ListedBehind
    <2> QED
      BY <1>1, <2>2, <2>3
  <1>4. \A v \in Workers, t \in Tasks : HeldBy(v, t)' <=> HeldBy(v, t) \/ (v = w /\ t = h)
    BY <1>1, <1>2 DEF Pop, HeldBy, Holding, Held, Core, TypeOK
  <1>5. \A t \in Tasks : IsHeld(t)' <=> IsHeld(t) \/ t = h
    BY <1>4 DEF IsHeld
  <1>6. UNCHANGED <<block, calls, quit_flag, mpc>> /\ ~quit_flag /\ mpc # "gone"
    BY <1>1 DEF Pop, mainVars, histVars, Phases
  <1>7. StatusOf(h) = "pending" /\ StatusOf(h)' = "running"
    BY <1>3, <1>5 DEF StatusOf
  <1>8. \A t \in Tasks : t # h => StatusOf(t)' = StatusOf(t)
    BY <1>3, <1>5, <1>6 DEF StatusOf
  <1>9. absStatus[h] = "pending" /\ absStatus' = [absStatus EXCEPT ![h] = "running"]
    BY <1>7, <1>8, StatusByPlace, StatusByPlaceAfter
  <1>10. absPhase = "open" /\ absPhase' = absPhase
    BY <1>6 DEF absPhase
  <1> QED
    BY <1>9, <1>10 DEF Abstract!Start

LEMMA FreeCompletes ==
    ASSUME Core, Phases, OneOwner, Served, OneOwner', NEW w \in Workers, Free(w)
    PROVE  \E t \in Tasks : Abstract!Complete(t)
  <1>1. /\ Held(w) \in Tasks /\ HeldBy(w, Held(w)) /\ pc[w] = "free"
    BY HeadTakenOff DEF Free, HeldBy, Holding, Held, Core, PushersInPlace, TypeOK
  <1>2. PICK h \in Tasks : h = Held(w)
    BY <1>1
  <1>3. /\ HeldBy(w, h) /\ block[h] = "live" /\ ~Queued(h)
        /\ \A v \in Workers : HeldBy(v, h) => v = w
    BY <1>1, <1>2 DEF OneOwner
  <1>4. calls[h] = 1
    BY <1>1, <1>2 DEF Served, ServedAt
  <1>5. /\ block' = [block EXCEPT ![h] = "freed"]
        /\ UNCHANGED <<wait_tasks, calls, quit_flag, mpc>>
    BY <1>2 DEF Free, mainVars, histVars
  <1>6. \A v \in Workers, t \in Tasks : HeldBy(v, t)' <=> HeldBy(v, t) /\ v # w
    BY DEF Free, HeldBy, Holding, Held, Core, TypeOK
  <1>7. \A t \in Tasks : HeldBy(w, t) => t = h
    BY <1>2 DEF HeldBy
  <1>8. /\ \A t \in Tasks : Queued(t)' <=> Queued(t)
        /\ \A t \in Tasks : IsHeld(t)' <=> IsHeld(t) /\ t # h
    BY <1>3, <1>5, <1>6, <1>7 DEF IsHeld, Queued
  <1>9. block \in [Tasks -> {"none", "live", "refused", "freed"}]
    BY DEF Core, TypeOK
  <1>10. StatusOf(h) = "running" /\ StatusOf(h)' = "done"
    BY <1>3, <1>4, <1>5, <1>8, <1>9 DEF StatusOf, IsHeld
  <1>11. \A t \in Tasks : t # h => StatusOf(t)' = StatusOf(t)
    BY <1>5, <1>8, <1>9 DEF StatusOf
  <1>12. absStatus[h] = "running" /\ absStatus' = [absStatus EXCEPT ![h] = "done"]
    BY <1>10, <1>11, StatusByPlace, StatusByPlaceAfter
  <1>13. absPhase' = absPhase
    BY <1>5 DEF absPhase
  <1> QED
    BY <1>12, <1>13 DEF Abstract!Complete

LEMMA ReapDiscards ==
    ASSUME Core, Phases, OneOwner, Served, OneOwner', Reap
    PROVE  Abstract!Discard
  <1>1. \A t \in Tasks : ~IsHeld(t) /\ ~IsHeld(t)'
    BY DEF Reap, AllJoined, IsHeld, HeldBy, Holding
  <1>2. \A t \in Tasks : ~Queued(t)'
    BY DEF Reap, Queued
  <1>3. \A t \in Tasks : block'[t] = IF Queued(t) THEN "freed" ELSE block[t]
    BY DEF Reap, Queued
  <1>4. \A t \in Tasks : Queued(t) => calls[t] = 0
    BY <1>1 DEF OneOwner, Served, ServedAt, IsHeld
  <1>5. calls' = calls /\ mpc = "join" /\ mpc' = "gone" /\ quit_flag
    BY DEF Reap, histVars, Phases
  <1>6. \A t \in Tasks : StatusOf(t)' = IF StatusOf(t) = "pending" THEN "dropped" ELSE StatusOf(t)
    BY <1>1, <1>2, <1>3, <1>4, <1>5 DEF StatusOf
  <1>7. absStatus' = [t \in Tasks |-> IF absStatus[t] = "pending" THEN "dropped" ELSE absStatus[t]]
    BY <1>6, StatusByPlace, StatusByPlaceAfter
  <1>8. Abstract!Running = {}
    BY <1>1, StatusByPlace DEF StatusOf, Abstract!Running
  <1>9. absPhase = "closed" /\ absPhase' = "gone"
    BY <1>5 DEF absPhase
  <1> QED
    BY <1>7, <1>8, <1>9 DEF Abstract!Discard

-----------------------------------------------------------------------------
LEMMA StepRefines ==
    ASSUME Core, Phases, OneOwner, Served, OneOwner', [Next]_vars
    PROVE  [Abstract!Next]_Abstract!vars
  <1> USE PoolAssumption
  <1> DEFINE Same == UNCHANGED Abstract!vars
  <1>1. /\ pc \in [Workers -> {"none", "start", "lock", "sleep", "pop", "call", "finish",
                               "free", "exited"}]
        /\ block \in [Tasks -> {"none", "live", "refused", "freed"}]
        /\ calls \in [Tasks -> Nat]
        /\ task \in [Workers -> Seq(Tasks)]
        /\ \A w \in Workers : w \notin asked => pc[w] = "none"
    BY DEF Core, TypeOK
  <1>2. ASSUME UNCHANGED <<wait_tasks, quit_flag>>, mpc' = "gone" <=> mpc = "gone",
               \A w \in Workers : /\ Holding(w)' <=> Holding(w)
                                  /\ Holding(w) => task'[w] = task[w],
               \A t \in Tasks : /\ block'[t] = "freed" <=> block[t] = "freed"
                                /\ block[t] = "freed" => calls'[t] = calls[t]
        PROVE  Same
    <2>1. \A t \in Tasks : (Queued(t)' <=> Queued(t)) /\ (IsHeld(t)' <=> IsHeld(t))
      BY <1>2 DEF Queued, IsHeld, HeldBy, Held
    <2> QED
      BY <1>2, <2>1, Invisible
  <1>3. ASSUME NEW w \in Workers, Call(w) \/ Finish(w) PROVE Same
    <2>1. PICK h \in Tasks : h = Held(w) /\ HeldBy(w, h)
      BY <1>1, <1>3, HeadTakenOff
      DEF Call, Finish, HeldBy, Holding, Held, Core, PushersInPlace
    <2>2. block[h] = "live"
      BY <2>1 DEF OneOwner
    <2>3. \A t \in Tasks : t # h => calls'[t] = calls[t]
      BY <1>1, <1>3, <2>1 DEF Call, Finish
    <2>4. /\ UNCHANGED <<wait_tasks, quit_flag, mpc, block, task>>
          /\ \A v \in Workers : Holding(v)' <=> Holding(v)
      BY <1>1, <1>3 DEF Call, Finish, mainVars, Holding
    <2> QED
      BY <1>2, <2>2, <2>3, <2>4
  <1>4. ASSUME NEW w \in Workers,
               \/ Create(w) \/ CreateError(w) \/ SpuriousWakeup(w) \/ Report(w)
               \/ Sleep(w) \/ Exit(w) \/ Take(w)
        PROVE  Same
    <2>1. Create(w) => pc[w] = "none"
      BY <1>1 DEF Create
    <2>2. /\ UNCHANGED <<wait_tasks, quit_flag, block, calls>>
          /\ mpc' = "gone" <=> mpc = "gone"
          /\ ~Holding(w) /\ ~Holding(w)'
          /\ \A v \in Workers : v # w => pc'[v] = pc[v] /\ task'[v] = task[v]
      BY <1>1, <1>4, <2>1
      DEF Create, CreateError, SpuriousWakeup, Report, WakeCreator, Sleep, Exit, Take,
          Holding, mainVars, histVars
    <2>3. \A v \in Workers : /\ Holding(v)' <=> Holding(v)
                             /\ Holding(v) => task'[v] = task[v]
      BY <2>2 DEF Holding
    <2> QED
      BY <1>2, <2>2, <2>3
  <1>5. ASSUME NEW p \in Pushers, NEW t \in Tasks,
               PushLock(p) \/ PushAlloc(p, t) \/ PushNoMem(p, t)
        PROVE  Same
    <2>1. \A u \in Tasks : block'[u] = "freed" <=> block[u] = "freed"
      BY <1>1, <1>5 DEF PushLock, PushAlloc, PushNoMem
    <2>2. UNCHANGED <<wait_tasks, quit_flag, calls, mpc, pc, task>>
      BY <1>5 DEF PushLock, PushAlloc, PushNoMem, mainVars, histVars
    <2> QED
      BY <1>2, <2>1, <2>2 DEF Holding
  <1>6. ASSUME NewNoMem \/ AwaitWorkers \/ CreatorWakeup \/ Over \/ UNCHANGED vars
        PROVE  Same
    <2>1. UNCHANGED <<wait_tasks, quit_flag, calls, block, task, pc>>
          /\ (mpc' = "gone" <=> mpc = "gone")
      BY <1>6 DEF NewNoMem, AwaitWorkers, CreatorWakeup, Over, vars, mainVars, histVars
    <2> QED
      BY <1>2, <2>1 DEF Holding
  <1>7. ASSUME Destroy PROVE Abstract!Close
    <2>1. /\ mpc = "running" /\ mpc' = "join" /\ ~quit_flag /\ quit_flag'
          /\ UNCHANGED <<wait_tasks, block, calls, task>>
      BY <1>7 DEF Destroy, histVars, Phases
    <2>2. \A w \in Workers : Holding(w)' <=> Holding(w)
      BY <1>1, <1>7 DEF Destroy, WakeAll, Sleepers, Holding
    <2>3. \A t \in Tasks : (Queued(t)' <=> Queued(t)) /\ (IsHeld(t)' <=> IsHeld(t))
      BY <2>1, <2>2 DEF Queued, IsHeld, HeldBy, Held
    <2>4. \A t \in Tasks : StatusOf(t)' = StatusOf(t)
      BY <2>1, <2>3 DEF StatusOf
    <2>5. absStatus' = absStatus
      BY <2>4, StatusByPlace, StatusByPlaceAfter
    <2> QED
      BY <2>1, <2>5 DEF Abstract!Close, absPhase
  <1>8. ASSUME NEW p \in Pushers, PushLink(p) PROVE Abstract!Next
    BY <1>8, PushAccepts DEF Abstract!Next
  <1>9. ASSUME NEW w \in Workers, Pop(w) \/ Free(w) PROVE Abstract!Next
    BY <1>9, PopStarts, FreeCompletes DEF Abstract!Next
  <1>10. Reap => Abstract!Next
    BY ReapDiscards DEF Abstract!Next
  <1>11. Destroy => Abstract!Next
    BY <1>7 DEF Abstract!Next
  <1>12. (\E p \in Pushers : PushLock(p)) => Same
    <2>1. ASSUME NEW p \in Pushers, PushLock(p) PROVE Same
      BY <1>2, <2>1 DEF PushLock, Holding, mainVars, histVars
    <2> QED
      BY <2>1
  <1> HIDE DEF Same
  <1>13. Abstract!Next \/ Same
    BY <1>3, <1>4, <1>5, <1>6, <1>8, <1>9, <1>10, <1>11, <1>12
    DEF Next, WorkerStep, PushStep
  <1> QED
    BY <1>13 DEF Same

(***************************************************************************)
(* The pool implements the abstract task pool: a pushed task waits, is run *)
(* by one worker and is over, or is dropped by jk_thread_pool_destroy,     *)
(* which no task outlives.                                                 *)
(***************************************************************************)
THEOREM PoolImplementsTaskPool == Spec => ImplementsTaskPool
  <1>1. Init => Abstract!Init
    BY DEF Init, Abstract!Init, absStatus, absPhase, Queued, HeldBy, Holding
  <1>2. Core /\ Phases /\ OneOwner /\ Served /\ OneOwner' /\ [Next]_vars
            => [Abstract!Next]_Abstract!vars
    BY StepRefines
  <1> QED
    BY <1>1, <1>2, CoreInvariant, PhasesInvariant, TasksHaveOneOwner, ServedInvariant, PTL
    DEF Spec, ImplementsTaskPool, Abstract!Spec
=============================================================================
