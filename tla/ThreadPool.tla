------------------------------ MODULE ThreadPool ------------------------------
(***************************************************************************)
(* jk_thread_pool.c: a fixed set of worker threads that take tasks from a  *)
(* shared singly linked list under one mutex and sleep on one condition    *)
(* variable.                                                               *)
(*                                                                         *)
(* A critical section that changes the list is two steps, one that takes   *)
(* the mutex and reads the list head and one that writes it back and       *)
(* releases the mutex, so that what the mutex protects is checked and not  *)
(* assumed.  A critical section with no read that a later write depends on *)
(* is one step.                                                            *)
(*                                                                         *)
(* Nodes of the list never change once they are linked, so a pointer to a  *)
(* node is the sequence of tasks from that node to the end of the list and *)
(* NULL is the empty sequence.                                             *)
(***************************************************************************)
EXTENDS Integers, Sequences, FiniteSets

CONSTANTS
    Workers,        \* the threads jk_thread_pool_new creates
    Clients,        \* other threads, which call jk_thread_pool_push
    Tasks,          \* the blocks malloc may hand out in jk_thread_pool_push
    HasFinish,      \* the tasks that are pushed with a finish callback
    NoThread,       \* the owner of a free mutex
    NoTask,         \* the value of "node" in a thread that is not pushing
    CreateMayFail,  \* whether pthread_create may report an error
    MaxSpurious     \* bound on the spurious wakeups of pthread_cond_wait

ASSUME PoolAssumption ==
    /\ IsFiniteSet(Workers) /\ Workers # {}
    /\ Workers \cap Clients = {}
    /\ HasFinish \subseteq Tasks
    /\ NoThread \notin Workers \cup Clients
    /\ NoTask \notin Tasks
    /\ CreateMayFail \in BOOLEAN
    /\ MaxSpurious \in Nat

Pushers == Workers \cup Clients

VARIABLES
    \* the fields of jk_thread_pool_t
    lock,           \* the thread that holds thd->lock
    wait_threads,   \* workers that have not yet reported to the creator
    wait_tasks,     \* thd->wait_tasks, the list from its head
    task_nums,
    quit_flag,
    \* the threads
    mpc,            \* the thread in jk_thread_pool_new and jk_thread_pool_destroy
    asked,          \* the slots of tids for which pthread_create was called
    pc,             \* where each worker is in jk_thread_loop
    task,           \* the local variable "task" of each worker
    ppc,            \* where each thread is in jk_thread_pool_push
    node,           \* the local variable "task" of each push
    next,           \* what that push has stored in task->next
    \* history
    block,          \* the malloc state of each task
    calls, fins,    \* how often task->call and task->finish have been called
    spurious        \* spurious wakeups so far

mainVars == <<mpc, asked, wait_threads>>
pushVars == <<ppc, node, next>>
histVars == <<calls, fins, spurious>>
vars == <<lock, wait_tasks, task_nums, quit_flag, pc, task, block,
          mainVars, pushVars, histVars>>

-----------------------------------------------------------------------------
(* Faulty variants, named for the fault, stand before the definition they  *)
(* would replace; no specification uses them.                              *)
MutexIgnored == TRUE

\* pthread_mutex_lock(&thd->lock) can return
MutexFree == lock = NoThread

\* the threads that sleep in pthread_cond_wait(&thd->cond, &thd->lock)
Sleepers == {w \in Workers : pc[w] = "sleep"}

\* the task a worker has taken off the list and not yet freed
Holding(w) == pc[w] \in {"call", "finish", "free"}
Held(w) == Head(task[w])

(***************************************************************************)
(* jk_thread_pool_new before it creates the threads, and the state of the  *)
(* threads it will create.                                                 *)
(***************************************************************************)
Init == /\ lock = NoThread
        /\ wait_threads = Cardinality(Workers)
        /\ wait_tasks = <<>>
        /\ task_nums = 0
        /\ quit_flag = FALSE
        /\ mpc = "create"
        /\ asked = {}
        /\ pc = [w \in Workers |-> "none"]
        /\ task = [w \in Workers |-> <<>>]
        /\ ppc = [p \in Pushers |-> "idle"]
        /\ node = [p \in Pushers |-> NoTask]
        /\ next = [p \in Pushers |-> <<>>]
        /\ block = [t \in Tasks |-> "none"]
        /\ calls = [t \in Tasks |-> 0]
        /\ fins = [t \in Tasks |-> 0]
        /\ spurious = 0

(* malloc of the pool or of tids fails: jk_thread_pool_new returns NULL.   *)
NewNoMem == /\ mpc = "create" /\ asked = {}
            /\ mpc' = "null"
            /\ UNCHANGED <<lock, wait_tasks, task_nums, quit_flag, pc, task, block,
                           asked, wait_threads, pushVars, histVars>>

(* pthread_create starts a worker.                                         *)
Create(w) == /\ mpc = "create" /\ w \notin asked
             /\ asked' = asked \cup {w}
             /\ mpc' = IF asked' = Workers THEN "handshake" ELSE "create"
             /\ pc' = [pc EXCEPT ![w] = "start"]
             /\ UNCHANGED <<lock, wait_tasks, task_nums, quit_flag, task, block,
                            wait_threads, pushVars, histVars>>

(***************************************************************************)
(* pthread_create reports an error.  It does so by returning an error      *)
(* number, which is positive; the code compares with -1 and goes on as if  *)
(* the thread existed.                                                     *)
(***************************************************************************)
CreateError(w) == /\ CreateMayFail
                  /\ mpc = "create" /\ w \notin asked
                  /\ asked' = asked \cup {w}
                  /\ mpc' = IF asked' = Workers THEN "handshake" ELSE "create"
                  /\ UNCHANGED <<lock, wait_tasks, task_nums, quit_flag, pc, task, block,
                                 wait_threads, pushVars, histVars>>

WorkersMissingOffByOne == wait_threads > 1
WorkersMissing == wait_threads > 0

(* while (thd->wait_threads > 0) pthread_cond_wait(&thd->wait_cond, ...)   *)
AwaitWorkers == /\ mpc = "handshake"
                /\ mpc' = IF WorkersMissing THEN "waiting" ELSE "running"
                /\ UNCHANGED <<lock, wait_tasks, task_nums, quit_flag, pc, task, block,
                               asked, wait_threads, pushVars, histVars>>

(* The creator wakes without a signal and looks again.                     *)
CreatorWakeup == /\ mpc = "waiting" /\ spurious < MaxSpurious
                 /\ spurious' = spurious + 1
                 /\ mpc' = "handshake"
                 /\ UNCHANGED <<lock, wait_tasks, task_nums, quit_flag, pc, task, block,
                                asked, wait_threads, pushVars, calls, fins>>

-----------------------------------------------------------------------------
\* pthread_cond_signal(&thd->wait_cond)
WakeCreatorForgotten == UNCHANGED mpc
WakeCreator == mpc' = IF mpc = "waiting" THEN "handshake" ELSE mpc

(* jk_thread_loop reports to the creator before its loop.                  *)
Report(w) == /\ pc[w] = "start"
             /\ wait_threads' = wait_threads - 1
             /\ WakeCreator
             /\ pc' = [pc EXCEPT ![w] = "lock"]
             /\ UNCHANGED <<lock, wait_tasks, task_nums, quit_flag, task, block,
                            asked, pushVars, histVars>>

(***************************************************************************)
(* The conditions of the loop in jk_thread_loop, in the order of the code. *)
(***************************************************************************)
MustWaitOffByOne == ~quit_flag /\ task_nums < 0
MustWait == ~quit_flag /\ task_nums <= 0
MustExitWhenEmpty == quit_flag /\ task_nums <= 0
MustExit == quit_flag

(***************************************************************************)
(* A worker takes the mutex, at the top of its loop or on its way out of   *)
(* pthread_cond_wait, and evaluates the two conditions: it goes to sleep   *)
(* and gives the mutex back, exits, or keeps the mutex and reads the head. *)
(***************************************************************************)
Sleep(w) == /\ pc[w] = "lock" /\ MutexFree
            /\ MustWait
            /\ pc' = [pc EXCEPT ![w] = "sleep"]
            /\ UNCHANGED <<lock, wait_tasks, task_nums, quit_flag, task, block,
                           mainVars, pushVars, histVars>>

Exit(w) == /\ pc[w] = "lock" /\ MutexFree
           /\ MustExit
           /\ pc' = [pc EXCEPT ![w] = "exited"]
           /\ UNCHANGED <<lock, wait_tasks, task_nums, quit_flag, task, block,
                          mainVars, pushVars, histVars>>

Take(w) == /\ pc[w] = "lock" /\ MutexFree
           /\ ~MustWait /\ ~MustExit
           /\ lock' = w
           /\ task' = [task EXCEPT ![w] = wait_tasks]
           /\ pc' = [pc EXCEPT ![w] = "pop"]
           /\ UNCHANGED <<wait_tasks, task_nums, quit_flag, block,
                          mainVars, pushVars, histVars>>

(* thd->wait_tasks = task->next; thd->task_nums--; unlock                  *)
Pop(w) == /\ pc[w] = "pop"
          /\ wait_tasks' = Tail(task[w])
          /\ task_nums' = task_nums - 1
          /\ lock' = NoThread
          /\ task' = [task EXCEPT ![w] = <<Head(@)>>]
          /\ pc' = [pc EXCEPT ![w] = "call"]
          /\ UNCHANGED <<quit_flag, block, mainVars, pushVars, histVars>>

(* task->call(task->arg) returns; the callback may have pushed tasks.      *)
Call(w) == /\ pc[w] = "call" /\ ppc[w] = "idle"
           /\ calls' = [calls EXCEPT ![Held(w)] = @ + 1]
           /\ pc' = [pc EXCEPT ![w] = IF Held(w) \in HasFinish THEN "finish" ELSE "free"]
           /\ UNCHANGED <<lock, wait_tasks, task_nums, quit_flag, task, block,
                          mainVars, pushVars, fins, spurious>>

Finish(w) == /\ pc[w] = "finish" /\ ppc[w] = "idle"
             /\ fins' = [fins EXCEPT ![Held(w)] = @ + 1]
             /\ pc' = [pc EXCEPT ![w] = "free"]
             /\ UNCHANGED <<lock, wait_tasks, task_nums, quit_flag, task, block,
                            mainVars, pushVars, calls, spurious>>

Free(w) == /\ pc[w] = "free"
           /\ block' = [block EXCEPT ![Held(w)] = "freed"]
           /\ pc' = [pc EXCEPT ![w] = "lock"]
           /\ task' = [task EXCEPT ![w] = <<>>]
           /\ UNCHANGED <<lock, wait_tasks, task_nums, quit_flag,
                          mainVars, pushVars, histVars>>

(* POSIX lets pthread_cond_wait return without a signal.                   *)
SpuriousWakeup(w) == /\ pc[w] = "sleep" /\ spurious < MaxSpurious
                     /\ spurious' = spurious + 1
                     /\ pc' = [pc EXCEPT ![w] = "lock"]
                     /\ UNCHANGED <<lock, wait_tasks, task_nums, quit_flag, task, block,
                                    mainVars, pushVars, calls, fins>>

-----------------------------------------------------------------------------
(***************************************************************************)
(* Who may call jk_thread_pool_push: a client that was handed the pool and *)
(* that does not know it destroyed, and a callback of a task that runs.    *)
(***************************************************************************)
MayPush(p) == /\ ppc[p] = "idle"
              /\ IF p \in Workers THEN pc[p] \in {"call", "finish"} ELSE mpc = "running"

PushAlloc(p, t) == /\ MayPush(p)
                   /\ block[t] = "none"
                   /\ block' = [block EXCEPT ![t] = "live"]
                   /\ node' = [node EXCEPT ![p] = t]
                   /\ ppc' = [ppc EXCEPT ![p] = "lock"]
                   /\ UNCHANGED <<lock, wait_tasks, task_nums, quit_flag, pc, task, next,
                                  mainVars, histVars>>

(* malloc fails: jk_thread_pool_push returns -1 and the pool is untouched. *)
PushNoMem(p, t) == /\ MayPush(p)
                   /\ block[t] = "none"
                   /\ block' = [block EXCEPT ![t] = "refused"]
                   /\ UNCHANGED <<lock, wait_tasks, task_nums, quit_flag, pc, task,
                                  mainVars, pushVars, histVars>>

PushLock(p) == /\ ppc[p] = "lock" /\ MutexFree
               /\ lock' = p
               /\ next' = [next EXCEPT ![p] = wait_tasks]
               /\ ppc' = [ppc EXCEPT ![p] = "link"]
               /\ UNCHANGED <<wait_tasks, task_nums, quit_flag, pc, task, node, block,
                              mainVars, histVars>>

SignalForgotten == UNCHANGED pc

(* pthread_cond_signal wakes one of the sleeping workers, if there is one. *)
SignalWorker == \/ /\ Sleepers = {}
                   /\ UNCHANGED pc
                \/ \E w \in Sleepers : pc' = [pc EXCEPT ![w] = "lock"]

PushLink(p) == /\ ppc[p] = "link"
               /\ wait_tasks' = <<node[p]>> \o next[p]
               /\ task_nums' = task_nums + 1
               /\ SignalWorker
               /\ lock' = NoThread
               /\ ppc' = [ppc EXCEPT ![p] = "idle"]
               /\ node' = [node EXCEPT ![p] = NoTask]
               /\ next' = [next EXCEPT ![p] = <<>>]
               /\ UNCHANGED <<quit_flag, task, block, mainVars, histVars>>

-----------------------------------------------------------------------------
WakeNobody == UNCHANGED pc

(* pthread_cond_broadcast                                                  *)
WakeAll == pc' = [w \in Workers |-> IF w \in Sleepers THEN "lock" ELSE pc[w]]

JoinForgotten == TRUE

(* pthread_join on every worker has returned                               *)
AllJoined == \A w \in Workers : pc[w] = "exited"

(***************************************************************************)
(* jk_thread_pool_destroy: set the flag and wake every worker, join them,  *)
(* then free what is left.  The caller owns the pool: no client is inside  *)
(* jk_thread_pool_push and none will call it again.                        *)
(***************************************************************************)
Destroy == /\ mpc = "running" /\ \A c \in Clients : ppc[c] = "idle"
           /\ MutexFree
           /\ quit_flag' = TRUE
           /\ WakeAll
           /\ mpc' = "join"
           /\ UNCHANGED <<lock, wait_tasks, task_nums, task, block,
                          asked, wait_threads, pushVars, histVars>>

Reap == /\ mpc = "join" /\ AllJoined
        /\ block' = [t \in Tasks |->
                        IF \E i \in DOMAIN wait_tasks : wait_tasks[i] = t
                        THEN "freed" ELSE block[t]]
        /\ task_nums' = task_nums - Len(wait_tasks)
        /\ wait_tasks' = <<>>
        /\ mpc' = "gone"
        /\ UNCHANGED <<lock, quit_flag, pc, task,
                       asked, wait_threads, pushVars, histVars>>

(***************************************************************************)
(* Nothing is left to do: the pool was freed or never came into being, or  *)
(* jk_thread_pool_new waits for the report of a thread that does not exist.*)
(***************************************************************************)
HangsInNew == mpc = "waiting" /\ \E w \in asked : pc[w] = "none"
Over == /\ mpc \in {"gone", "null"} \/ HangsInNew
        /\ UNCHANGED vars

-----------------------------------------------------------------------------
WorkerStep(w) == \/ Report(w) \/ Sleep(w) \/ Exit(w) \/ Take(w) \/ Pop(w)
                 \/ Call(w) \/ Finish(w) \/ Free(w)
PushStep(p) == PushLock(p) \/ PushLink(p)

Next == \/ NewNoMem \/ AwaitWorkers \/ CreatorWakeup \/ Destroy \/ Reap \/ Over
        \/ \E w \in Workers : Create(w) \/ CreateError(w) \/ SpuriousWakeup(w)
        \/ \E w \in Workers : WorkerStep(w)
        \/ \E p \in Pushers : PushStep(p)
        \/ \E p \in Pushers, t \in Tasks : PushAlloc(p, t) \/ PushNoMem(p, t)

Spec == Init /\ [][Next]_vars

(***************************************************************************)
(* A thread that can run does run, callbacks return, and a mutex that is   *)
(* free is given to a thread that asks for it.  Nobody has to push, and    *)
(* nobody has to destroy the pool.  Weak fairness is enough: pushes and    *)
(* spurious wakeups are bounded, so no thread is overtaken for ever.       *)
(***************************************************************************)
Fairness == /\ WF_vars(\E w \in Workers : Create(w))
            /\ WF_vars(AwaitWorkers)
            /\ WF_vars(Reap)
            /\ \A w \in Workers : WF_vars(WorkerStep(w))
            /\ \A p \in Pushers : WF_vars(PushStep(p))

FairSpec == Spec /\ Fairness

-----------------------------------------------------------------------------
(* Every variable keeps the type of its field or local variable.           *)
TypeOK ==
    /\ lock \in Pushers \cup {NoThread}
    /\ wait_threads \in Nat
    /\ wait_tasks \in Seq(Tasks)
    /\ task_nums \in Nat
    /\ quit_flag \in BOOLEAN
    /\ mpc \in {"create", "handshake", "waiting", "running", "join", "gone", "null"}
    /\ asked \subseteq Workers
    /\ pc \in [Workers -> {"none", "start", "lock", "sleep", "pop", "call",
                           "finish", "free", "exited"}]
    /\ task \in [Workers -> Seq(Tasks)]
    /\ ppc \in [Pushers -> {"idle", "lock", "link"}]
    /\ node \in [Pushers -> Tasks \cup {NoTask}]
    /\ next \in [Pushers -> Seq(Tasks)]
    /\ block \in [Tasks -> {"none", "live", "refused", "freed"}]
    /\ calls \in [Tasks -> Nat]
    /\ fins \in [Tasks -> Nat]
    /\ spurious \in 0..MaxSpurious

\* the places from which a task can be reached
Queued(t) == \E i \in DOMAIN wait_tasks : wait_tasks[i] = t
HeldBy(w, t) == Holding(w) /\ Held(w) = t
PushedBy(p, t) == ppc[p] # "idle" /\ node[p] = t

(* The counter the workers test is the length of the list they then read.  *)
CountMatchesList == /\ task_nums = Len(wait_tasks)
                    /\ \A w \in Workers : pc[w] = "pop" => task[w] # <<>>

(***************************************************************************)
(* The counter and the list agree, whichever thread is between its read    *)
(* and its write of the head: a worker that passed the test of task_nums   *)
(* never reads a NULL head, and no counter goes below zero.                *)
(***************************************************************************)
ListConsistent == TypeOK /\ CountMatchesList

(***************************************************************************)
(* A task that was pushed is in one place: linked once in the list, or in  *)
(* the hands of one worker, or of the push that has not linked it yet.  So *)
(* two workers never run, and never free, the same task, and none is lost. *)
(***************************************************************************)
OneOwner ==
    \A t \in Tasks :
        /\ block[t] = "live" <=> \/ Queued(t)
                                 \/ \E w \in Workers : HeldBy(w, t)
                                 \/ \E p \in Pushers : PushedBy(p, t)
        /\ \A i, j \in DOMAIN wait_tasks :
                wait_tasks[i] = t /\ wait_tasks[j] = t => i = j
        /\ \A v, w \in Workers : HeldBy(v, t) /\ HeldBy(w, t) => v = w
        /\ \A p, q \in Pushers : PushedBy(p, t) /\ PushedBy(q, t) => p = q
        /\ \A w \in Workers : HeldBy(w, t) => ~Queued(t)
        /\ \A p \in Pushers : PushedBy(p, t) => ~Queued(t)
        /\ \A w \in Workers, p \in Pushers : ~(HeldBy(w, t) /\ PushedBy(p, t))

(***************************************************************************)
(* The block of a task is freed after its call and then, if it has one,    *)
(* its finish callback have each run once; or it was never begun, and then *)
(* only jk_thread_pool_destroy can have freed it.                          *)
(***************************************************************************)
RunOnceThenFreed ==
    \A t \in Tasks :
        /\ calls[t] <= 1
        /\ fins[t] <= IF t \in HasFinish THEN calls[t] ELSE 0
        /\ block[t] = "freed" =>
              \/ calls[t] = 1 /\ fins[t] = (IF t \in HasFinish THEN 1 ELSE 0)
              \/ calls[t] = 0 /\ mpc = "gone"

(***************************************************************************)
(* No wakeup is lost: as long as a worker sleeps, every task in the list   *)
(* has a worker of its own that is awake and on its way to the list.  This *)
(* is what makes one pthread_cond_signal per push enough.                  *)
(***************************************************************************)
Awake == {w \in Workers : pc[w] \in {"lock", "pop"}}
WorkerPerTask == Sleepers # {} => Len(wait_tasks) <= Cardinality(Awake)

(***************************************************************************)
(* jk_thread_pool_new hands out the pool only when every one of its        *)
(* workers runs, also when pthread_create failed and the code did not see  *)
(* it: in that case it never hands the pool out.                           *)
(***************************************************************************)
HandedOutComplete ==
    mpc = "running" => \A w \in Workers : pc[w] \notin {"none", "start", "exited"}

(***************************************************************************)
(* When jk_thread_pool_destroy frees the pool no thread is left that could *)
(* use it, nobody holds its mutex, and no task block is leaked.            *)
(***************************************************************************)
GoneIsQuiet == mpc = "gone" => /\ \A w \in Workers : pc[w] = "exited"
                               /\ \A p \in Pushers : ppc[p] = "idle"
                               /\ lock = NoThread
                               /\ \A t \in Tasks : block[t] # "live"

(* Once destroy has set quit_flag no worker begins another task.           *)
NoStartAfterQuit ==
    [][quit_flag => \A w \in Workers : pc'[w] = "call" => pc[w] = "call"]_vars

-----------------------------------------------------------------------------
(* The pool seen as a TaskPool: what its queue and threads mean for a task *)
absStatus == [t \in Tasks |->
    CASE Queued(t) -> "pending"
      [] \E w \in Workers : HeldBy(w, t) -> "running"
      [] block[t] = "freed" -> IF calls[t] = 0 THEN "dropped" ELSE "done"
      [] OTHER -> "new"]
absPhase == IF mpc = "gone" THEN "gone" ELSE IF quit_flag THEN "closed" ELSE "open"

Abstract == INSTANCE TaskPool WITH status <- absStatus, phase <- absPhase

(* The threads, mutex and condition variable implement the task pool.      *)
ImplementsTaskPool == Abstract!Spec

-----------------------------------------------------------------------------
(* A task that was pushed is run and freed, or destroy is called.          *)
EveryTaskServed == \A t \in Tasks : Queued(t) ~> (block[t] = "freed" \/ quit_flag)

(* jk_thread_pool_destroy returns: every worker sees the flag and exits.   *)
DestroyReturns == (mpc = "join") ~> (mpc = "gone")

(* jk_thread_pool_new returns when every pthread_create succeeds.          *)
NewReturns == (mpc = "create") ~> (mpc \in {"running", "null"})
=============================================================================
