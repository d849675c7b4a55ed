--------------------------------- MODULE Aio ---------------------------------
(***************************************************************************)
(* jk_aio.c: file operations that run on the workers of a thread pool and  *)
(* whose callbacks run in the thread that calls jk_aio_wait and then       *)
(* jk_aio_poll.  A worker links a completed request into a list under      *)
(* aio.lock and writes a byte to a non-blocking pipe; jk_aio_wait selects  *)
(* on the pipe and drains it, jk_aio_poll empties the list.                *)
(*                                                                         *)
(* Every step of the pool is a step of ThreadPool, whose task t carries    *)
(* the request t as its argument; jk_aio_execute is its call and           *)
(* jk_aio_fininsh its finish callback.  jk_aio has no shutdown: it never   *)
(* calls jk_thread_pool_destroy.                                           *)
(***************************************************************************)
EXTENDS ThreadPool

CONSTANTS
    Pollers,        \* the clients that call jk_aio_wait and jk_aio_poll
    PathOps,        \* open, mkdir, rmdir and unlink: the requests with a path
    PipeCap         \* the bytes the pipe holds

ASSUME AioAssumption ==
    /\ Pollers \subseteq Clients
    /\ PathOps \subseteq Tasks
    /\ HasFinish = Tasks
    /\ PipeCap \in Nat \ {0}

VARIABLES
    init,           \* where jk_aio_init is
    pipeOpen,       \* aio.pipe is open
    pipe,           \* the bytes in it
    aioLock,        \* the thread that holds aio.lock
    rhead, rtail,   \* the list of completed requests
    rnext,          \* req->next of each request
    nreqs, ncoms,
    spc,            \* where each client is in jk_aio_read, jk_aio_open, ...
    sub,            \* its local variable "req" there
    fpc,            \* where each worker is in jk_aio_fininsh
    polling,        \* where each poller is in jk_aio_wait and jk_aio_poll
    got,            \* its local variable "req" there
    \* history
    req,            \* the malloc state of each request
    delivered,      \* how often jk_aio_poll came to its callback
    fifo            \* the requests that were linked and not yet taken

initVars == <<init, pipeOpen>>
listVars == <<rhead, rtail, rnext, fifo>>
countVars == <<nreqs, ncoms>>
submitVars == <<spc, sub>>
pollVars == <<polling, got>>
aioVars == <<vars, initVars, pipe, aioLock, listVars, countVars, submitVars,
             fpc, pollVars, req, delivered>>

AioInit == /\ Init
           /\ init = "pipe"
           /\ pipeOpen = FALSE
           /\ pipe = 0
           /\ aioLock = NoThread
           /\ rhead = NoTask /\ rtail = NoTask
           /\ rnext = [r \in Tasks |-> NoTask]
           /\ nreqs = 0 /\ ncoms = 0
           /\ spc = [c \in Clients |-> "idle"]
           /\ sub = [c \in Clients |-> NoTask]
           /\ fpc = [w \in Workers |-> "link"]
           /\ polling = [c \in Pollers |-> "idle"]
           /\ got = [c \in Pollers |-> NoTask]
           /\ req = [r \in Tasks |-> "none"]
           /\ delivered = [r \in Tasks |-> 0]
           /\ fifo = <<>>

-----------------------------------------------------------------------------
(***************************************************************************)
(* jk_aio_init.  Each call may fail, and what was opened is then closed.   *)
(***************************************************************************)
OpenPipe == /\ init = "pipe"
            /\ \/ pipeOpen' = TRUE /\ init' = "nonblock"
               \/ init' = "failed" /\ UNCHANGED pipeOpen
            /\ UNCHANGED <<vars, pipe, aioLock, listVars, countVars, submitVars,
                           fpc, pollVars, req, delivered>>

ClosePipeForgotten == UNCHANGED pipeOpen

\* close(aio.pipe[0]); close(aio.pipe[1])
ClosePipe == pipeOpen' = FALSE

(* the two pairs of fcntl that make both ends non-blocking                 *)
SetNonblock == /\ init = "nonblock"
               /\ \/ init' = "pool" /\ UNCHANGED pipeOpen
                  \/ init' = "failed" /\ ClosePipe
               /\ UNCHANGED <<vars, pipe, aioLock, listVars, countVars, submitVars,
                              fpc, pollVars, req, delivered>>

(* jk_thread_pool_new, and what jk_aio_init does with its result           *)
NewPool == /\ init = "pool"
           /\ NewNoMem \/ AwaitWorkers \/ CreatorWakeup
                       \/ \E w \in Workers : Create(w) \/ CreateError(w)
           /\ UNCHANGED <<initVars, pipe, aioLock, listVars, countVars, submitVars,
                          fpc, pollVars, req, delivered>>

InitReturns == /\ init = "pool"
               /\ \/ mpc = "running" /\ init' = "ready" /\ UNCHANGED pipeOpen
                  \/ mpc = "null" /\ init' = "failed" /\ ClosePipe
               /\ UNCHANGED <<vars, pipe, aioLock, listVars, countVars, submitVars,
                              fpc, pollVars, req, delivered>>

(* jk_aio_init has failed: nothing else may be called.                     *)
NoAio == init = "failed" /\ UNCHANGED aioVars

-----------------------------------------------------------------------------
\* pthread_mutex_lock(&aio.lock) can return
AioLockFree == aioLock = NoThread

(***************************************************************************)
(* jk_aio_read, jk_aio_write, jk_aio_close and, with a path to copy,       *)
(* jk_aio_open, jk_aio_mkdir, jk_aio_rmdir and jk_aio_unlink.  A callback  *)
(* that jk_aio_poll runs may call them too.                                *)
(***************************************************************************)
MaySubmit(c) == /\ init = "ready" /\ spc[c] = "idle"
                /\ c \in Pollers => polling[c] \in {"idle", "callback"}

NewRequest(c, r) ==
    /\ MaySubmit(c) /\ req[r] = "none"
    /\ \/ /\ req' = [req EXCEPT ![r] = "live"]
          /\ sub' = [sub EXCEPT ![c] = r]
          /\ spc' = [spc EXCEPT ![c] = IF r \in PathOps THEN "strdup" ELSE "count"]
       \/ /\ req' = [req EXCEPT ![r] = "refused"]
          /\ UNCHANGED submitVars
    /\ UNCHANGED <<vars, initVars, pipe, aioLock, listVars, countVars,
                   fpc, pollVars, delivered>>

(* The copy of the path fails: the request is destroyed, and -1 returned.  *)
CopyPath(c) ==
    /\ spc[c] = "strdup"
    /\ \/ /\ spc' = [spc EXCEPT ![c] = "count"]
          /\ UNCHANGED <<req, sub>>
       \/ /\ req' = [req EXCEPT ![sub[c]] = "freed"]
          /\ spc' = [spc EXCEPT ![c] = "idle"]
          /\ sub' = [sub EXCEPT ![c] = NoTask]
    /\ UNCHANGED <<vars, initVars, pipe, aioLock, listVars, countVars,
                   fpc, pollVars, delivered>>

(* jk_aio_submit counts the request before it is pushed.                   *)
Count(c) == /\ spc[c] = "count" /\ AioLockFree
            /\ nreqs' = nreqs + 1
            /\ spc' = [spc EXCEPT ![c] = "push"]
            /\ UNCHANGED <<vars, initVars, pipe, aioLock, listVars, ncoms, sub,
                           fpc, pollVars, req, delivered>>

SubmitAlloc(c) == /\ spc[c] = "push"
                  /\ PushAlloc(c, sub[c])
                  /\ UNCHANGED <<initVars, pipe, aioLock, listVars, countVars, submitVars,
                                 fpc, pollVars, req, delivered>>

SubmitNoMem(c) == /\ spc[c] = "push"
                  /\ PushNoMem(c, sub[c])
                  /\ spc' = [spc EXCEPT ![c] = "uncount"]
                  /\ UNCHANGED <<initVars, pipe, aioLock, listVars, countVars, sub,
                                 fpc, pollVars, req, delivered>>

SubmitLock(c) == /\ PushLock(c)
                 /\ UNCHANGED <<initVars, pipe, aioLock, listVars, countVars, submitVars,
                                fpc, pollVars, req, delivered>>

(* jk_thread_pool_push and with it jk_aio_submit return 0.                 *)
SubmitLink(c) == /\ PushLink(c)
                 /\ spc' = [spc EXCEPT ![c] = "idle"]
                 /\ sub' = [sub EXCEPT ![c] = NoTask]
                 /\ UNCHANGED <<initVars, pipe, aioLock, listVars, countVars,
                                fpc, pollVars, req, delivered>>

UncountForgotten == UNCHANGED nreqs
UncountRequest == nreqs' = nreqs - 1

(* The push was refused.  jk_aio_submit returns -1, and nobody frees the   *)
(* request or its path.                                                    *)
Uncount(c) == /\ spc[c] = "uncount" /\ AioLockFree
              /\ UncountRequest
              /\ spc' = [spc EXCEPT ![c] = "idle"]
              /\ sub' = [sub EXCEPT ![c] = NoTask]
              /\ UNCHANGED <<vars, initVars, pipe, aioLock, listVars, ncoms,
                             fpc, pollVars, req, delivered>>

-----------------------------------------------------------------------------
(* The pool's own steps, with jk_aio_execute as the call of a task.  No    *)
(* worker exits, for nobody sets quit_flag.                                *)
PoolStep(w) == /\ \/ Report(w) \/ Sleep(w) \/ Take(w) \/ Pop(w) \/ Call(w) \/ Free(w)
               /\ UNCHANGED <<initVars, pipe, aioLock, listVars, countVars, submitVars,
                              fpc, pollVars, req, delivered>>

PoolSpurious(w) == /\ SpuriousWakeup(w)
                   /\ UNCHANGED <<initVars, pipe, aioLock, listVars, countVars, submitVars,
                                  fpc, pollVars, req, delivered>>

HeadOverwritten(r) == r
HeadAfterLink(r) == IF rhead = NoTask THEN r ELSE rhead

(***************************************************************************)
(* jk_aio_fininsh: three steps inside one critical section, the list is    *)
(* not well formed between them.                                           *)
(***************************************************************************)
FinishHead(w) == /\ pc[w] = "finish" /\ fpc[w] = "link" /\ AioLockFree
                 /\ aioLock' = w
                 /\ rnext' = [rnext EXCEPT ![Held(w)] = NoTask]
                 /\ rhead' = HeadAfterLink(Held(w))
                 /\ fpc' = [fpc EXCEPT ![w] = "tail"]
                 /\ UNCHANGED <<vars, initVars, pipe, rtail, fifo, countVars, submitVars,
                                pollVars, req, delivered>>

FinishTail(w) == /\ fpc[w] = "tail"
                 /\ rnext' = IF rtail = NoTask THEN rnext
                                               ELSE [rnext EXCEPT ![rtail] = Held(w)]
                 /\ rtail' = Held(w)
                 /\ fifo' = Append(fifo, Held(w))
                 /\ fpc' = [fpc EXCEPT ![w] = "notify"]
                 /\ UNCHANGED <<vars, initVars, pipe, aioLock, rhead, countVars, submitVars,
                                pollVars, req, delivered>>

NotifyForgotten == UNCHANGED pipe

\* write(aio.pipe[1], "\0", 1), which fails when the pipe is full
Notify == pipe' = IF pipe < PipeCap THEN pipe + 1 ELSE pipe

FinishNotify(w) == /\ fpc[w] = "notify"
                   /\ Notify
                   /\ aioLock' = NoThread
                   /\ Finish(w)
                   /\ fpc' = [fpc EXCEPT ![w] = "link"]
                   /\ UNCHANGED <<initVars, listVars, countVars, submitVars,
                                  pollVars, req, delivered>>

-----------------------------------------------------------------------------
(***************************************************************************)
(* jk_aio_wait: select reports the pipe readable, and the loop then reads  *)
(* one byte at a time until there is none.                                 *)
(***************************************************************************)
Select(c) == /\ init = "ready" /\ polling[c] = "idle" /\ spc[c] = "idle"
             /\ pipe > 0
             /\ polling' = [polling EXCEPT ![c] = "drain"]
             /\ UNCHANGED <<vars, initVars, pipe, aioLock, listVars, countVars, submitVars,
                            fpc, got, req, delivered>>

Drain(c) == /\ polling[c] = "drain"
            /\ \/ /\ pipe > 0
                  /\ pipe' = pipe - 1
                  /\ UNCHANGED polling
               \/ /\ pipe = 0
                  /\ polling' = [polling EXCEPT ![c] = "poll"]
                  /\ UNCHANGED pipe
            /\ UNCHANGED <<vars, initVars, aioLock, listVars, countVars, submitVars,
                           fpc, got, req, delivered>>

(* jk_aio_wait returns 0 after its timeout, or was not called at all, and  *)
(* the thread calls jk_aio_poll nevertheless.                              *)
PollAnyway(c) == /\ init = "ready" /\ polling[c] = "idle" /\ spc[c] = "idle"
                 /\ polling' = [polling EXCEPT ![c] = "poll"]
                 /\ UNCHANGED <<vars, initVars, pipe, aioLock, listVars, countVars, submitVars,
                                fpc, got, req, delivered>>

(***************************************************************************)
(* jk_aio_poll: empty the list, calling each request's callback with the   *)
(* lock released.                                                          *)
(***************************************************************************)
PollEmpty(c) == /\ polling[c] = "poll" /\ AioLockFree
                /\ rhead = NoTask
                /\ polling' = [polling EXCEPT ![c] = "idle"]
                /\ UNCHANGED <<vars, initVars, pipe, aioLock, listVars, countVars, submitVars,
                               fpc, got, req, delivered>>

PollHead(c) == /\ polling[c] = "poll" /\ AioLockFree
               /\ rhead # NoTask
               /\ aioLock' = c
               /\ got' = [got EXCEPT ![c] = rhead]
               /\ rhead' = rnext[rhead]
               /\ fifo' = Tail(fifo)
               /\ polling' = [polling EXCEPT ![c] = "tail"]
               /\ UNCHANGED <<vars, initVars, pipe, rtail, rnext, countVars, submitVars,
                              fpc, req, delivered>>

ResetTailForgotten == UNCHANGED rtail
ResetTail == rtail' = IF rhead = NoTask THEN NoTask ELSE rtail

PollTail(c) == /\ polling[c] = "tail"
               /\ ResetTail
               /\ ncoms' = ncoms + 1
               /\ aioLock' = NoThread
               /\ polling' = [polling EXCEPT ![c] = "deliver"]
               /\ UNCHANGED <<vars, initVars, pipe, rhead, rnext, fifo, nreqs, submitVars,
                              fpc, got, req, delivered>>

(* req->finish(req) begins, if there is one; it may submit other requests. *)
(* A request without a callback passes here as one whose callback does     *)
(* nothing.                                                                *)
Deliver(c) == /\ polling[c] = "deliver"
              /\ delivered' = [delivered EXCEPT ![got[c]] = @ + 1]
              /\ polling' = [polling EXCEPT ![c] = "callback"]
              /\ UNCHANGED <<vars, initVars, pipe, aioLock, listVars, countVars, submitVars,
                             fpc, got, req>>

OnePerPoll == "idle"

\* where jk_aio_poll goes when a request is over: round its loop
NextPoll == "poll"

PollFree(c) == /\ polling[c] = "callback" /\ spc[c] = "idle"
               /\ req' = [req EXCEPT ![got[c]] = "freed"]
               /\ got' = [got EXCEPT ![c] = NoTask]
               /\ polling' = [polling EXCEPT ![c] = NextPoll]
               /\ UNCHANGED <<vars, initVars, pipe, aioLock, listVars, countVars, submitVars,
                              fpc, delivered>>

-----------------------------------------------------------------------------
InitStep == OpenPipe \/ SetNonblock \/ NewPool \/ InitReturns
AioWorkerStep(w) == PoolStep(w) \/ FinishHead(w) \/ FinishTail(w) \/ FinishNotify(w)
SubmitStep(c) == \/ CopyPath(c) \/ Count(c) \/ SubmitAlloc(c) \/ SubmitNoMem(c)
                 \/ SubmitLock(c) \/ SubmitLink(c) \/ Uncount(c)
PollStep(c) == \/ Select(c) \/ Drain(c) \/ PollEmpty(c) \/ PollHead(c) \/ PollTail(c)
               \/ Deliver(c) \/ PollFree(c)

AioNext == \/ InitStep \/ NoAio
           \/ \E w \in Workers : AioWorkerStep(w) \/ PoolSpurious(w)
           \/ \E c \in Clients, r \in Tasks : NewRequest(c, r)
           \/ \E c \in Clients : SubmitStep(c)
           \/ \E c \in Pollers : PollStep(c) \/ PollAnyway(c)

AioSpec == AioInit /\ [][AioNext]_aioVars

(***************************************************************************)
(* Threads run, a free mutex is granted, and a poller goes back to         *)
(* jk_aio_wait and then, if it reports bytes, to jk_aio_poll.  Submitting  *)
(* is never required, nor is a poll that jk_aio_wait did not ask for.      *)
(***************************************************************************)
AioFairness == /\ \A w \in Workers : WF_aioVars(AioWorkerStep(w))
               /\ \A c \in Clients : WF_aioVars(SubmitStep(c))
               /\ \A c \in Pollers : WF_aioVars(PollStep(c))

AioFairSpec == AioSpec /\ AioFairness

-----------------------------------------------------------------------------
(* Every field and local variable keeps its type.                          *)
FieldTypes ==
    /\ init \in {"pipe", "nonblock", "pool", "ready", "failed"}
    /\ pipeOpen \in BOOLEAN
    /\ pipe \in 0..PipeCap
    /\ aioLock \in Workers \cup Clients \cup {NoThread}
    /\ rhead \in Tasks \cup {NoTask} /\ rtail \in Tasks \cup {NoTask}
    /\ rnext \in [Tasks -> Tasks \cup {NoTask}]
    /\ spc \in [Clients -> {"idle", "strdup", "count", "push", "uncount"}]
    /\ sub \in [Clients -> Tasks \cup {NoTask}]
    /\ fpc \in [Workers -> {"link", "tail", "notify"}]
    /\ polling \in [Pollers -> {"idle", "drain", "poll", "tail", "deliver", "callback"}]
    /\ got \in [Pollers -> Tasks \cup {NoTask}]
    /\ req \in [Tasks -> {"none", "refused", "live", "freed"}]
    /\ delivered \in [Tasks -> Nat]
    /\ fifo \in Seq(Tasks)

(* So do the counters, which are unsigned.                                 *)
AioTypeOK == FieldTypes /\ nreqs \in Nat /\ ncoms \in Nat

(***************************************************************************)
(* Between two critical sections the list is a queue in its pointers:      *)
(* rhead, the next fields and rtail agree with the order in which the      *)
(* workers linked the requests.                                            *)
(***************************************************************************)
ListIsQueue ==
    aioLock = NoThread =>
        IF fifo = <<>> THEN rhead = NoTask /\ rtail = NoTask
        ELSE /\ rhead = fifo[1] /\ rtail = fifo[Len(fifo)]
             /\ \A i \in 1..(Len(fifo) - 1) : rnext[fifo[i]] = fifo[i + 1]
             /\ rnext[rtail] = NoTask

(* The requests between jk_aio_submit's count and jk_aio_poll's.           *)
Refused(r) == \E c \in Clients : spc[c] = "uncount" /\ sub[c] = r
BeingPushed(r) == \E c \in Clients : spc[c] = "push" /\ sub[c] = r
Advancing(r) == \E c \in Pollers : polling[c] = "tail" /\ got[c] = r
InFlight == {r \in Tasks : \/ BeingPushed(r) \/ Refused(r) \/ Advancing(r)
                           \/ Queued(r)
                           \/ \E w \in Workers : HeldBy(w, r) /\ pc[w] # "free"
                           \/ \E i \in DOMAIN fifo : fifo[i] = r}

(***************************************************************************)
(* jk_aio_nreqs is exact at every moment the lock can be had: it counts    *)
(* each request from its submission to the moment jk_aio_poll takes it     *)
(* off the list, so the difference of the unsigned counters never wraps;   *)
(* and the other variables keep their types, the pipe its capacity.        *)
(***************************************************************************)
InFlightExact == AioTypeOK /\ nreqs - ncoms = Cardinality(InFlight)

(***************************************************************************)
(* A completed request is never left behind: while the list is not empty   *)
(* the pipe holds a byte, or a poller has drained it and is on its way to  *)
(* the list, or the worker that is linking has not written its byte yet.   *)
(* This is what makes dropping the byte of a full pipe harmless.           *)
(***************************************************************************)
NoLostCompletion ==
    fifo # <<>> => \/ pipe > 0
                   \/ \E w \in Workers : fpc[w] = "notify"
                   \/ \E c \in Pollers : polling[c] # "idle"

(***************************************************************************)
(* No thread touches a request after jk_aio_destory: the worker that       *)
(* executes or links it, the list with its tail pointer, and the poller    *)
(* all see live memory, although the worker still frees its task while the *)
(* poller may already free the request.                                    *)
(***************************************************************************)
NoUseAfterFree ==
    /\ \A r \in Tasks : Queued(r) => req[r] = "live"
    /\ \A w \in Workers : pc[w] \in {"call", "finish"} => req[Held(w)] = "live"
    /\ \A i \in DOMAIN fifo : req[fifo[i]] = "live"
    /\ \A c \in Pollers : polling[c] \in {"tail", "deliver", "callback"}
                              => req[got[c]] = "live"
    /\ aioLock = NoThread /\ rtail # NoTask => req[rtail] = "live"

(***************************************************************************)
(* A callback runs at most once, for a request that was executed, and the  *)
(* memory of a request that was executed is freed only after it.           *)
(***************************************************************************)
DeliveredOnce ==
    \A r \in Tasks : /\ delivered[r] <= calls[r] /\ calls[r] <= 1
                     /\ req[r] = "freed" => delivered[r] = calls[r]

(***************************************************************************)
(* jk_aio_init leaves everything running or nothing open: when it fails    *)
(* the pipe is closed and no worker was started, and no request can be     *)
(* submitted before all workers run.                                       *)
(***************************************************************************)
InitAllOrNothing ==
    /\ init = "failed" => ~pipeOpen /\ \A w \in Workers : pc[w] = "none"
    /\ init = "ready" => pipeOpen /\ \A w \in Workers : pc[w] \notin {"none", "start"}

-----------------------------------------------------------------------------
(* jk_aio seen as an AioService.                                           *)
stage == [r \in Tasks |->
    IF delivered[r] > 0 THEN "delivered"
    ELSE IF \/ \E i \in DOMAIN fifo : fifo[i] = r
            \/ \E c \in Pollers : got[c] = r THEN "completed"
    ELSE IF Queued(r) \/ \E w \in Workers : HeldBy(w, r) THEN "accepted"
    ELSE "new"]

(* With one poller, the request it has taken is still the first in line.   *)
Taken == {c \in Pollers : polling[c] \in {"tail", "deliver"}}
completed == IF Taken = {} THEN fifo
             ELSE <<got[CHOOSE c \in Taken : TRUE]>> \o fifo

Service == INSTANCE AioService WITH Requests <- Tasks

(* jk_aio with one poller implements the service.                          *)
ImplementsService == Service!Spec

(* A request that was accepted is executed and its callback called.        *)
EveryRequestDelivered == \A r \in Tasks : Queued(r) ~> delivered[r] = 1
=============================================================================
