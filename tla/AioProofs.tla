------------------------------ MODULE AioProofs ------------------------------
(***************************************************************************)
(* Theorems about Aio, for any number of workers, clients, pollers and     *)
(* requests and for a pipe of any size.                                    *)
(***************************************************************************)
EXTENDS Aio, ThreadPoolProofs

(* What is known of the pool that jk_aio uses.                             *)
PoolInv == Core /\ Phases /\ OneOwner /\ Served

(***************************************************************************)
(* The discipline of aio.lock: a worker owns it from the moment it writes  *)
(* rhead until it has written its byte, a poller from the moment it has    *)
(* read rhead until it has reset rtail, and nobody else.                   *)
(***************************************************************************)
AioLocking ==
    /\ \A w \in Workers : fpc[w] # "link" <=> aioLock = w
    /\ \A c \in Pollers : polling[c] = "tail" <=> aioLock = c
    /\ aioLock \in Clients => aioLock \in Pollers
    /\ \A w \in Workers : fpc[w] # "link" => pc[w] = "finish"

(* Who submits: a client, with a request of its own.                       *)
Submitting == /\ \A c \in Clients : spc[c] # "idle" => sub[c] \in Tasks
              /\ \A c \in Clients : ppc[c] # "idle" => spc[c] = "push"

(* Where jk_aio_init is, and what it has left behind.                      *)
InitInPlace ==
    /\ ~quit_flag
    /\ init \in {"nonblock", "pool", "ready"} <=> pipeOpen
    /\ mpc = "null" \/ init \in {"pipe", "nonblock", "failed"} => asked = {}
    /\ init = "ready" => mpc = "running"

(***************************************************************************)
(* The list in its pointers.  A worker that has linked the head but not    *)
(* the tail, and a poller that has moved the head but not reset the tail,  *)
(* see it half changed.                                                    *)
(***************************************************************************)
Chained == \A i \in DOMAIN fifo :
               rnext[fifo[i]] = IF i = Len(fifo) THEN NoTask ELSE fifo[i + 1]

HeadInPlace ==
    /\ (\A w \in Workers : fpc[w] # "tail")
          => rhead = IF fifo = <<>> THEN NoTask ELSE fifo[1]
    /\ \A w \in Workers : fpc[w] = "tail"
          => rhead = (IF fifo = <<>> THEN Held(w) ELSE fifo[1]) /\ rnext[Held(w)] = NoTask

TailInPlace ==
    /\ (\A c \in Pollers : polling[c] # "tail")
          => rtail = IF fifo = <<>> THEN NoTask ELSE fifo[Len(fifo)]
    /\ \A c \in Pollers : polling[c] = "tail"
          => rtail = IF fifo = <<>> THEN got[c] ELSE fifo[Len(fifo)]

ListLinked == NoRepeats(fifo) /\ Chained /\ HeadInPlace /\ TailInPlace

-----------------------------------------------------------------------------
(* A worker that has still to link the request it holds.                   *)
Linking(w) == pc[w] = "call" \/ (pc[w] = "finish" /\ fpc[w] # "notify")

(* The places of a request.                                                *)
WasLinked(r) == block[r] = "freed" \/ \E w \in Workers : HeldBy(w, r) /\ ~Linking(w)
InList(r) == Listed(fifo, r)
Taking(c) == polling[c] \in {"tail", "deliver", "callback"}
TakenBy(c, r) == Taking(c) /\ got[c] = r
SubmittedBy(c, r) == spc[c] # "idle" /\ sub[c] = r

(***************************************************************************)
(* A request goes from the client that submits it through the pool to the  *)
(* list and from there to one poller, which frees it, and its callback     *)
(* runs there.                                                             *)
(***************************************************************************)
RequestAt(r) ==
    /\ ~WasLinked(r) => /\ ~InList(r) /\ \A c \in Pollers : ~TakenBy(c, r)
                        /\ delivered[r] = 0
                        /\ block[r] = "live" => req[r] = "live"
    /\ WasLinked(r) => \/ InList(r) \/ \E c \in Pollers : TakenBy(c, r)
                       \/ req[r] = "freed" /\ delivered[r] = 1
    /\ InList(r) => /\ req[r] = "live" /\ delivered[r] = 0
                    /\ \A c \in Pollers : ~TakenBy(c, r)
    /\ \A c \in Pollers : TakenBy(c, r) =>
          req[r] = "live" /\ delivered[r] = IF polling[c] = "callback" THEN 1 ELSE 0
    /\ \A c, d \in Pollers : TakenBy(c, r) /\ TakenBy(d, r) => c = d
    /\ req[r] \in {"none", "refused"} => block[r] = "none"
    /\ \A c \in Clients : SubmittedBy(c, r) =>
          /\ req[r] = "live"
          /\ IF ppc[c] = "idle" THEN block[r] \in {"none", "refused"} ELSE PushedBy(c, r)
    /\ \A c, d \in Clients : SubmittedBy(c, r) /\ SubmittedBy(d, r) => c = d

Requests ==
    /\ \A r \in Tasks : RequestAt(r)
    /\ \A w \in Workers : fpc[w] = "notify" => InList(Held(w))
    /\ \A c \in Pollers : IF Taking(c) THEN got[c] \in Tasks ELSE got[c] = NoTask

AioInv == /\ PoolInv /\ FieldTypes /\ AioLocking /\ Submitting /\ InitInPlace
          /\ ListLinked /\ Requests

-----------------------------------------------------------------------------
(* A step outside jk_aio_fininsh, jk_aio_wait and jk_aio_poll.             *)
Elsewhere == \/ InitStep \/ NoAio
             \/ \E w \in Workers : PoolStep(w) \/ PoolSpurious(w)
             \/ \E c \in Clients, r \in Tasks : NewRequest(c, r)
             \/ \E c \in Clients : SubmitStep(c)

LEMMA WhereAStepIs ==
    ASSUME AioNext
    PROVE  \/ Elsewhere
           \/ \E w \in Workers : FinishHead(w) \/ FinishTail(w) \/ FinishNotify(w)
           \/ \E c \in Pollers : PollStep(c) \/ PollAnyway(c)
  BY DEF AioNext, AioWorkerStep, Elsewhere

(* Every step of jk_aio is a step of the pool, or leaves the pool alone.   *)
LEMMA StepOfPool ==
    ASSUME Submitting, [AioNext]_aioVars
    PROVE  [Next]_vars
  <1>1. CASE UNCHANGED aioVars
    BY <1>1 DEF aioVars
  <1>2. CASE InitStep \/ NoAio
    BY <1>2 DEF InitStep, NoAio, OpenPipe, SetNonblock, NewPool, InitReturns, aioVars, Next
  <1>3. ASSUME NEW w \in Workers, AioWorkerStep(w) \/ PoolSpurious(w)
        PROVE  [Next]_vars
    BY <1>3 DEF AioWorkerStep, PoolStep, FinishHead, FinishTail, FinishNotify, PoolSpurious,
                Next, WorkerStep
  <1>4. ASSUME NEW c \in Clients, NEW r \in Tasks, NewRequest(c, r) PROVE [Next]_vars
    BY <1>4 DEF NewRequest
  <1>5. ASSUME NEW c \in Clients, SubmitStep(c) PROVE [Next]_vars
    <2>1. c \in Pushers /\ (spc[c] = "push" => sub[c] \in Tasks)
      BY DEF Pushers, Submitting
    <2>2. CASE CopyPath(c) \/ Count(c) \/ Uncount(c)
      BY <2>2 DEF CopyPath, Count, Uncount
    <2>3. CASE SubmitAlloc(c) \/ SubmitNoMem(c)
      BY <2>1, <2>3 DEF SubmitAlloc, SubmitNoMem, Next
    <2>4. CASE SubmitLock(c) \/ SubmitLink(c)
      BY <2>1, <2>4 DEF SubmitLock, SubmitLink, Next, PushStep
    <2> QED
      BY <1>5, <2>2, <2>3, <2>4 DEF SubmitStep
  <1>6. ASSUME NEW c \in Pollers, PollStep(c) \/ PollAnyway(c) PROVE [Next]_vars
    BY <1>6 DEF PollStep, PollAnyway, Select, Drain, PollEmpty, PollHead, PollTail,
                Deliver, PollFree
  <1> QED
    BY <1>1, <1>2, <1>3, <1>4, <1>5, <1>6 DEF AioNext

LEMMA PoolKept ==
    ASSUME AioInv, [AioNext]_aioVars
    PROVE  PoolInv'
  <1>1. [Next]_vars
    BY StepOfPool DEF AioInv
  <1> QED
    BY <1>1, CoreStep, PhasesStep, OneOwnerStep, ServedStep DEF AioInv, PoolInv

(***************************************************************************)
(* A step elsewhere leaves the list, its lock and the threads that work on *)
(* it alone; a worker in its finish callback stays there, with its task.   *)
(***************************************************************************)
LEMMA ElsewhereQuiet ==
    ASSUME AioInv, Elsewhere
    PROVE  /\ UNCHANGED <<pipe, aioLock, listVars, fpc, pollVars, delivered>>
           /\ \A w \in Workers : pc[w] = "finish" => pc'[w] = "finish" /\ task'[w] = task[w]
  <1> DEFINE States == {"none", "start", "lock", "sleep", "pop", "call", "finish",
                        "free", "exited"}
  <1> DEFINE Kept == \A w \in Workers : pc[w] = "finish" => pc'[w] = "finish" /\ task'[w] = task[w]
  <1>1. /\ pc \in [Workers -> States] /\ task \in [Workers -> Seq(Tasks)]
        /\ \A w \in Workers : w \notin asked => pc[w] = "none"
    BY DEF AioInv, PoolInv, Core, TypeOK
  <1>2. UNCHANGED <<pipe, aioLock, listVars, fpc, pollVars, delivered>>
    BY DEF Elsewhere, InitStep, NoAio, OpenPipe, SetNonblock, NewPool, InitReturns,
           PoolStep, PoolSpurious, NewRequest, SubmitStep, CopyPath, Count, SubmitAlloc,
           SubmitNoMem, SubmitLock, SubmitLink, Uncount, aioVars, listVars, pollVars
  <1>3. UNCHANGED <<pc, task>> => Kept
    OBVIOUS
  <1>4. ASSUME InitStep \/ NoAio PROVE Kept
    <2>1. ASSUME NEW w \in Workers, Create(w) PROVE Kept
      BY <1>1, <2>1 DEF Create
    <2>2. CASE \A w \in Workers : ~Create(w)
      BY <1>3, <1>4, <2>2 DEF InitStep, NoAio, OpenPipe, SetNonblock, NewPool, InitReturns,
         aioVars, vars, NewNoMem, AwaitWorkers, CreatorWakeup, CreateError
    <2> QED
      BY <2>1, <2>2
  <1>5. ASSUME NEW w \in Workers, PoolStep(w) \/ PoolSpurious(w) PROVE Kept
    BY <1>1, <1>5 DEF PoolStep, PoolSpurious, Report, Sleep, Take, Pop, Call, Free,
       SpuriousWakeup
  <1>6. ASSUME NEW c \in Clients, NEW r \in Tasks, NewRequest(c, r) PROVE Kept
    BY <1>3, <1>6 DEF NewRequest, vars
  <1>7. ASSUME NEW c \in Clients, SubmitStep(c) PROVE Kept
    <2>1. CASE SubmitLink(c)
      BY <1>1, <2>1 DEF SubmitLink, PushLink, SignalWorker, Sleepers
    <2>2. CASE ~SubmitLink(c)
      BY <1>3, <1>7, <2>2 DEF SubmitStep, CopyPath, Count, SubmitAlloc, SubmitNoMem,
         SubmitLock, Uncount, PushAlloc, PushNoMem, PushLock, vars
    <2> QED
      BY <2>1, <2>2
  <1> QED
    BY <1>2, <1>4, <1>5, <1>6, <1>7 DEF Elsewhere

(* What a worker that is not between two tasks holds is a request.         *)
LEMMA HeldRequest ==
    ASSUME PoolInv, NEW w \in Workers, Holding(w)
    PROVE  Held(w) \in Tasks /\ HeldBy(w, Held(w))
  BY HeadTakenOff DEF PoolInv, Core, TypeOK, PushersInPlace, Held, HeldBy

(* When jk_aio_poll takes a request, the pointers tell it the first one.   *)
LEMMA HeadOfList ==
    ASSUME AioInv, NEW c \in Pollers, PollHead(c)
    PROVE  /\ fifo \in Seq(Tasks) /\ fifo # <<>>
           /\ rhead = Head(fifo) /\ rhead = fifo[1] /\ rhead \in Tasks
           /\ rnext[rhead] = IF Len(fifo) = 1 THEN NoTask ELSE fifo[2]
  <1>1. NoThread \notin Workers
    BY PoolAssumption
  <1>2. \A w \in Workers : fpc[w] # "tail"
    BY <1>1 DEF PollHead, AioLockFree, AioInv, AioLocking
  <1>3. fifo \in Seq(Tasks) /\ fifo # <<>> /\ rhead = fifo[1]
    BY <1>2 DEF PollHead, AioInv, FieldTypes, ListLinked, HeadInPlace
  <1>4. Head(fifo) = fifo[1] /\ Head(fifo) \in Tasks /\ 1 \in DOMAIN fifo
    BY <1>3, HeadTakenOff
  <1>5. rnext[fifo[1]] = IF 1 = Len(fifo) THEN NoTask ELSE fifo[1 + 1]
    BY <1>4 DEF AioInv, ListLinked, Chained
  <1> QED
    BY <1>3, <1>4, <1>5

LEMMA TypesKept ==
    ASSUME AioInv, AioNext
    PROVE  FieldTypes'
  <1> USE DEF FieldTypes
  <1>0. FieldTypes
    BY DEF AioInv
  <1>1. CASE Elsewhere
    <2>1. UNCHANGED <<pipe, aioLock, listVars, fpc, pollVars, delivered>>
      BY <1>1, ElsewhereQuiet
    <2>2. init' \in {"pipe", "nonblock", "pool", "ready", "failed"} /\ pipeOpen' \in BOOLEAN
      BY <1>0, <1>1 DEF Elsewhere, InitStep, NoAio, OpenPipe, SetNonblock, NewPool, InitReturns,
         ClosePipe, PoolStep, PoolSpurious, NewRequest, SubmitStep, CopyPath, Count,
         SubmitAlloc, SubmitNoMem, SubmitLock, SubmitLink, Uncount, aioVars, initVars
    <2>3. /\ spc' \in [Clients -> {"idle", "strdup", "count", "push", "uncount"}]
          /\ sub' \in [Clients -> Tasks \cup {NoTask}]
          /\ req' \in [Tasks -> {"none", "refused", "live", "freed"}]
      <3>1. CASE InitStep \/ NoAio \/ \E w \in Workers : PoolStep(w) \/ PoolSpurious(w)
        <4>1. UNCHANGED <<spc, sub, req>>
          BY <3>1 DEF InitStep, NoAio, OpenPipe, SetNonblock, NewPool, InitReturns,
             PoolStep, PoolSpurious, aioVars, submitVars
        <4> QED
          BY <1>0, <4>1
      <3>2. ASSUME NEW c \in Clients, NEW r \in Tasks, NewRequest(c, r)
            PROVE  /\ spc' \in [Clients -> {"idle", "strdup", "count", "push", "uncount"}]
                   /\ sub' \in [Clients -> Tasks \cup {NoTask}]
                   /\ req' \in [Tasks -> {"none", "refused", "live", "freed"}]
        BY <1>0, <3>2 DEF NewRequest, submitVars
      <3>3. ASSUME NEW c \in Clients, SubmitStep(c)
            PROVE  /\ spc' \in [Clients -> {"idle", "strdup", "count", "push", "uncount"}]
                   /\ sub' \in [Clients -> Tasks \cup {NoTask}]
                   /\ req' \in [Tasks -> {"none", "refused", "live", "freed"}]
        BY <1>0, <3>3 DEF SubmitStep, CopyPath, Count, SubmitAlloc, SubmitNoMem,
           SubmitLock, SubmitLink, Uncount, submitVars
      <3> QED
        BY <1>1, <3>1, <3>2, <3>3 DEF Elsewhere
    <2> QED
      BY <1>0, <2>1, <2>2, <2>3 DEF listVars, pollVars
  <1>2. ASSUME NEW w \in Workers, FinishHead(w) PROVE FieldTypes'
    <2>1. Held(w) \in Tasks
      BY <1>2, HeldRequest DEF AioInv, FinishHead, Holding
    <2> HIDE DEF Held
    <2> QED
      BY <1>0, <1>2, <2>1 DEF FinishHead, HeadAfterLink, initVars, submitVars, pollVars
  <1>3. ASSUME NEW w \in Workers, FinishTail(w) PROVE FieldTypes'
    <2>1. Held(w) \in Tasks
      BY <1>3, HeldRequest DEF AioInv, AioLocking, FinishTail, Holding
    <2> HIDE DEF Held
    <2> QED
      BY <1>0, <1>3, <2>1 DEF FinishTail, initVars, submitVars, pollVars
  <1>4. ASSUME NEW w \in Workers, FinishNotify(w) PROVE FieldTypes'
    BY <1>0, <1>4, AioAssumption
    DEF FinishNotify, Notify, initVars, listVars, submitVars, pollVars
  <1>5. ASSUME NEW c \in Pollers, Select(c) \/ Drain(c) \/ PollAnyway(c) \/ PollEmpty(c)
        PROVE  FieldTypes'
    <2>1. pipe' \in 0..PipeCap
      BY <1>0, <1>5, AioAssumption DEF Select, Drain, PollAnyway, PollEmpty
    <2>2. /\ polling' \in [Pollers -> {"idle", "drain", "poll", "tail", "deliver", "callback"}]
          /\ UNCHANGED <<initVars, aioLock, listVars, submitVars, fpc, got, req, delivered>>
      BY <1>0, <1>5 DEF Select, Drain, PollAnyway, PollEmpty
    <2> QED
      BY <1>0, <2>1, <2>2 DEF initVars, listVars, submitVars
  <1>6. ASSUME NEW c \in Pollers, PollHead(c) PROVE FieldTypes'
    <2>1. /\ fifo \in Seq(Tasks) /\ fifo # <<>> /\ rhead \in Tasks
          /\ Tail(fifo) \in Seq(Tasks)
      BY <1>6, HeadOfList, HeadTakenOff
    <2> QED
      BY <1>0, <1>6, <2>1, AioAssumption DEF PollHead, initVars, submitVars
  <1>7. ASSUME NEW c \in Pollers, PollTail(c) \/ Deliver(c) \/ PollFree(c)
        PROVE  FieldTypes'
    <2>1. got[c] \in Tasks
      BY <1>7 DEF PollTail, Deliver, PollFree, AioInv, Requests, Taking
    <2>2. CASE PollTail(c)
      BY <1>0, <2>2 DEF PollTail, ResetTail, initVars, submitVars
    <2>3. CASE Deliver(c)
      <3>1. delivered' \in [Tasks -> Nat]
        BY <1>0, <2>1, <2>3 DEF Deliver
      <3> QED
        BY <1>0, <2>3, <3>1 DEF Deliver, initVars, listVars, submitVars
    <2>4. CASE PollFree(c)
      BY <1>0, <2>1, <2>4 DEF PollFree, NextPoll, initVars, listVars, submitVars
    <2> QED
      BY <1>7, <2>2, <2>3, <2>4
  <1> QED
    BY <1>1, <1>2, <1>3, <1>4, <1>5, <1>6, <1>7, WhereAStepIs DEF PollStep

LEMMA SubmittingKept ==
    ASSUME AioInv, AioNext
    PROVE  Submitting'
  <1>1. /\ spc \in [Clients -> {"idle", "strdup", "count", "push", "uncount"}]
        /\ sub \in [Clients -> Tasks \cup {NoTask}]
        /\ ppc \in [Pushers -> {"idle", "lock", "link"}]
        /\ Submitting /\ Clients \subseteq Pushers
    BY DEF AioInv, FieldTypes, PoolInv, Core, TypeOK, Pushers
  <1>2. UNCHANGED <<spc, sub, ppc>> => Submitting'
    BY <1>1 DEF Submitting
  <1>3. CASE InitStep \/ NoAio \/ \E w \in Workers : PoolStep(w) \/ PoolSpurious(w)
    BY <1>2, <1>3
    DEF InitStep, NoAio, OpenPipe, SetNonblock, NewPool, InitReturns, PoolStep, PoolSpurious,
        NewNoMem, AwaitWorkers, CreatorWakeup, Create, CreateError, Report, Sleep, Take, Pop,
        Call, Free, SpuriousWakeup, aioVars, submitVars, vars, pushVars
  <1>4. ASSUME NEW c \in Clients, NEW r \in Tasks, NewRequest(c, r) PROVE Submitting'
    <2>1. ppc' = ppc
      BY <1>4 DEF NewRequest, vars, pushVars
    <2> QED
      BY <1>1, <1>4, <2>1 DEF NewRequest, MaySubmit, Submitting, submitVars
  <1>5. ASSUME NEW c \in Clients, CopyPath(c) \/ Count(c) \/ Uncount(c) PROVE Submitting'
    <2>1. ppc' = ppc
      BY <1>5 DEF CopyPath, Count, Uncount, vars, pushVars
    <2> QED
      BY <1>1, <1>5, <2>1 DEF CopyPath, Count, Uncount, Submitting
  <1>6. ASSUME NEW c \in Clients,
               SubmitAlloc(c) \/ SubmitNoMem(c) \/ SubmitLock(c) \/ SubmitLink(c)
        PROVE  Submitting'
    BY <1>1, <1>6
    DEF SubmitAlloc, SubmitNoMem, SubmitLock, SubmitLink, PushAlloc, PushNoMem, PushLock,
        PushLink, MayPush, Submitting, submitVars, pushVars
  <1>7. ASSUME NEW w \in Workers, FinishHead(w) \/ FinishTail(w) \/ FinishNotify(w)
        PROVE  Submitting'
    BY <1>2, <1>7
    DEF FinishHead, FinishTail, FinishNotify, Finish, submitVars, vars, pushVars
  <1>8. ASSUME NEW c \in Pollers, PollStep(c) \/ PollAnyway(c) PROVE Submitting'
    BY <1>2, <1>8
    DEF PollStep, PollAnyway, Select, Drain, PollEmpty, PollHead, PollTail, Deliver,
        PollFree, submitVars, vars, pushVars
  <1> QED
    BY <1>3, <1>4, <1>5, <1>6, <1>7, <1>8, WhereAStepIs DEF Elsewhere, SubmitStep

LEMMA LockingKept ==
    ASSUME AioInv, AioNext
    PROVE  AioLocking'
  <1> USE PoolAssumption, AioAssumption
  <1>0. /\ AioLocking
        /\ fpc \in [Workers -> {"link", "tail", "notify"}]
        /\ polling \in [Pollers -> {"idle", "drain", "poll", "tail", "deliver", "callback"}]
        /\ NoThread \notin Workers /\ NoThread \notin Clients
        /\ Workers \cap Pollers = {} /\ Pollers \subseteq Clients
    BY DEF AioInv, FieldTypes
  <1>1. CASE Elsewhere
    <2>1. /\ UNCHANGED <<aioLock, fpc, polling>>
          /\ \A w \in Workers : pc[w] = "finish" => pc'[w] = "finish"
      BY <1>1, ElsewhereQuiet DEF pollVars
    <2> QED
      BY <1>0, <2>1 DEF AioLocking
  <1>2. ASSUME NEW w \in Workers, FinishHead(w) \/ FinishTail(w) PROVE AioLocking'
    <2>1. UNCHANGED <<pc, polling>>
      BY <1>2 DEF FinishHead, FinishTail, vars, pollVars
    <2> QED
      BY <1>0, <1>2, <2>1 DEF FinishHead, FinishTail, AioLockFree, AioLocking
  <1>3. ASSUME NEW w \in Workers, FinishNotify(w) PROVE AioLocking'
    <2>1. /\ UNCHANGED polling
          /\ \A v \in Workers : v # w => pc'[v] = pc[v]
      BY <1>3 DEF FinishNotify, Finish, pollVars, PoolInv, Core, TypeOK
    <2> QED
      BY <1>0, <1>3, <2>1 DEF FinishNotify, AioLocking
  <1>4. ASSUME NEW c \in Pollers, PollHead(c) \/ PollTail(c) PROVE AioLocking'
    <2>1. UNCHANGED <<pc, fpc>>
      BY <1>4 DEF PollHead, PollTail, vars
    <2> QED
      BY <1>0, <1>4, <2>1 DEF PollHead, PollTail, AioLockFree, AioLocking
  <1>5. ASSUME NEW c \in Pollers, \/ Select(c) \/ Drain(c) \/ PollAnyway(c) \/ PollEmpty(c)
                                  \/ Deliver(c) \/ PollFree(c)
        PROVE  AioLocking'
    <2>1. /\ UNCHANGED <<pc, fpc, aioLock>>
          /\ polling[c] # "tail"
          /\ \E p \in {"idle", "drain", "poll", "callback"} :
                polling' = [polling EXCEPT ![c] = p] \/ polling' = polling
      BY <1>5 DEF Select, Drain, PollAnyway, PollEmpty, Deliver, PollFree, NextPoll, vars
    <2> QED
      BY <1>0, <2>1 DEF AioLocking
  <1> QED
    BY <1>1, <1>2, <1>3, <1>4, <1>5, WhereAStepIs DEF PollStep

LEMMA InitKept ==
    ASSUME AioInv, AioNext
    PROVE  InitInPlace'
  <1>0. /\ InitInPlace
        /\ init \in {"pipe", "nonblock", "pool", "ready", "failed"} /\ pipeOpen \in BOOLEAN
    BY DEF AioInv, FieldTypes
  <1>1. ASSUME UNCHANGED <<quit_flag, init, pipeOpen, asked>>,
               mpc' = mpc \/ (mpc' # "null" /\ mpc # "running")
        PROVE  InitInPlace'
    BY <1>0, <1>1 DEF InitInPlace
  <1>2. CASE OpenPipe \/ SetNonblock \/ InitReturns
    <2>1. UNCHANGED <<quit_flag, mpc, asked>>
      BY <1>2 DEF OpenPipe, SetNonblock, InitReturns, vars, mainVars
    <2> QED
      BY <1>0, <1>2, <2>1 DEF OpenPipe, SetNonblock, InitReturns, ClosePipe, InitInPlace
  <1>3. CASE NewPool
    <2>1. UNCHANGED <<quit_flag, init, pipeOpen>> /\ init = "pool"
      BY <1>3 DEF NewPool, NewNoMem, AwaitWorkers, CreatorWakeup, Create, CreateError,
         initVars
    <2>2. mpc' = "null" => asked' = {}
      BY <1>3 DEF NewPool, NewNoMem, AwaitWorkers, CreatorWakeup, Create, CreateError
    <2> QED
      BY <1>0, <2>1, <2>2 DEF InitInPlace
  <1>4. ASSUME NEW w \in Workers, PoolStep(w) \/ PoolSpurious(w) PROVE InitInPlace'
    <2>1. UNCHANGED <<quit_flag, init, pipeOpen, asked>>
      BY <1>4 DEF PoolStep, PoolSpurious, Report, Sleep, Take, Pop, Call, Free,
         SpuriousWakeup, mainVars, initVars
    <2>2. mpc' = mpc \/ (mpc' # "null" /\ mpc # "running")
      BY <1>4 DEF PoolStep, PoolSpurious, Report, WakeCreator, Sleep, Take, Pop, Call, Free,
         SpuriousWakeup, mainVars
    <2> QED
      BY <1>1, <2>1, <2>2
  <1>5. CASE NoAio \/ \E c \in Clients, r \in Tasks : NewRequest(c, r)
    BY <1>1, <1>5 DEF NoAio, NewRequest, aioVars, vars, mainVars, initVars
  <1>6. ASSUME NEW c \in Clients, SubmitStep(c) PROVE InitInPlace'
    BY <1>1, <1>6 DEF SubmitStep, CopyPath, Count, SubmitAlloc, SubmitNoMem, SubmitLock,
       SubmitLink, Uncount, PushAlloc, PushNoMem, PushLock, PushLink, vars, mainVars, initVars
  <1>7. ASSUME NEW w \in Workers, FinishHead(w) \/ FinishTail(w) \/ FinishNotify(w)
        PROVE  InitInPlace'
    BY <1>1, <1>7 DEF FinishHead, FinishTail, FinishNotify, Finish, vars, mainVars, initVars
  <1>8. ASSUME NEW c \in Pollers, PollStep(c) \/ PollAnyway(c) PROVE InitInPlace'
    BY <1>1, <1>8 DEF PollStep, PollAnyway, Select, Drain, PollEmpty, PollHead, PollTail,
       Deliver, PollFree, vars, mainVars, initVars
  <1> QED
    BY <1>2, <1>3, <1>4, <1>5, <1>6, <1>7, <1>8, WhereAStepIs DEF Elsewhere, InitStep

-----------------------------------------------------------------------------
(* A request that is appended to the list.                                 *)
LEMMA ListedByAppend ==
    ASSUME NEW S, NEW s \in Seq(S), NEW t \in S, NEW u
    PROVE  Listed(Append(s, t), u) <=> u = t \/ Listed(s, u)
  <1> DEFINE r == Append(s, t)
  <1>1. /\ DOMAIN s = 1..Len(s) /\ DOMAIN r = 1..(Len(s) + 1) /\ Len(s) \in Nat
        /\ r[Len(s) + 1] = t
        /\ \A i \in 1..Len(s) : r[i] = s[i]
    OBVIOUS
  <1> HIDE DEF r
  <1>2. \A i \in DOMAIN r : i = Len(s) + 1 \/ i \in DOMAIN s
    BY <1>1
  <1>3. Len(s) + 1 \in DOMAIN r /\ \A i \in DOMAIN s : i \in DOMAIN r
    BY <1>1
  <1>4. Listed(r, u) <=> u = t \/ Listed(s, u)
    BY <1>1, <1>2, <1>3 DEF Listed
  <1> QED
    BY <1>4 DEF r

LEMMA NoRepeatsByAppend ==
    ASSUME NEW S, NEW s \in Seq(S), NEW t \in S, NoRepeats(s), ~Listed(s, t)
    PROVE  NoRepeats(Append(s, t))
  <1> DEFINE r == Append(s, t)
  <1>1. /\ DOMAIN s = 1..Len(s) /\ DOMAIN r = 1..(Len(s) + 1) /\ Len(s) \in Nat
        /\ r[Len(s) + 1] = t
        /\ \A i \in 1..Len(s) : r[i] = s[i]
    OBVIOUS
  <1> HIDE DEF r
  <1>2. \A i \in DOMAIN r : i = Len(s) + 1 \/ i \in DOMAIN s
    BY <1>1
  <1>3. NoRepeats(r)
    BY <1>1, <1>2 DEF NoRepeats, Listed
  <1> QED
    BY <1>3 DEF r

(* A request that its worker has still to link is nowhere else.            *)
LEMMA NotYetLinked ==
    ASSUME AioInv, NEW w \in Workers, Linking(w)
    PROVE  /\ Held(w) \in Tasks /\ HeldBy(w, Held(w)) /\ block[Held(w)] = "live"
           /\ ~WasLinked(Held(w)) /\ ~InList(Held(w))
           /\ req[Held(w)] = "live" /\ delivered[Held(w)] = 0
           /\ \A c \in Pollers : ~TakenBy(c, Held(w))
  <1>1. Held(w) \in Tasks /\ HeldBy(w, Held(w))
    BY HeldRequest DEF AioInv, Linking, Holding
  <1>2. PICK r \in Tasks : r = Held(w)
    BY <1>1
  <1>3. block[r] = "live" /\ \A v \in Workers : HeldBy(v, r) => v = w
    BY <1>1, <1>2 DEF AioInv, PoolInv, OneOwner
  <1>4. ~WasLinked(r)
    BY <1>3 DEF WasLinked
  <1>5. RequestAt(r)
    BY DEF AioInv, Requests
  <1> QED
    BY <1>1, <1>2, <1>3, <1>4, <1>5 DEF RequestAt

LEMMA ListKept ==
    ASSUME AioInv, AioNext
    PROVE  ListLinked'
  <1> USE PoolAssumption, AioAssumption
  <1>0. /\ ListLinked /\ AioLocking /\ fifo \in Seq(Tasks)
        /\ rnext \in [Tasks -> Tasks \cup {NoTask}]
        /\ fpc \in [Workers -> {"link", "tail", "notify"}]
        /\ polling \in [Pollers -> {"idle", "drain", "poll", "tail", "deliver", "callback"}]
        /\ got \in [Pollers -> Tasks \cup {NoTask}]
        /\ NoThread \notin Workers /\ NoThread \notin Clients
        /\ Workers \cap Pollers = {} /\ Pollers \subseteq Clients
    BY DEF AioInv, FieldTypes
  <1>1. ASSUME UNCHANGED listVars,
               \A w \in Workers : /\ fpc'[w] = "tail" <=> fpc[w] = "tail"
                                  /\ fpc[w] = "tail" => Held(w)' = Held(w),
               \A c \in Pollers : /\ polling'[c] = "tail" <=> polling[c] = "tail"
                                  /\ polling[c] = "tail" => got'[c] = got[c]
        PROVE  ListLinked'
    BY <1>0, <1>1 DEF ListLinked, listVars, NoRepeats, Chained, HeadInPlace, TailInPlace
  <1>2. CASE Elsewhere
    <2>1. /\ UNCHANGED <<listVars, fpc, pollVars>>
          /\ \A w \in Workers : pc[w] = "finish" => task'[w] = task[w]
      BY <1>2, ElsewhereQuiet
    <2> QED
      BY <1>0, <1>1, <2>1 DEF AioLocking, Held, pollVars
  <1>3. ASSUME NEW w \in Workers, FinishHead(w) PROVE ListLinked'
    <2>1. /\ Held(w) \in Tasks /\ ~InList(Held(w)) /\ Held(w)' = Held(w)
      BY <1>3, NotYetLinked DEF FinishHead, Linking, Held, vars
    <2>2. /\ fifo' = fifo /\ rtail' = rtail /\ UNCHANGED <<polling, got>>
          /\ rnext' = [rnext EXCEPT ![Held(w)] = NoTask]
          /\ fpc' = [fpc EXCEPT ![w] = "tail"]
          /\ rhead' = IF rhead = NoTask THEN Held(w) ELSE rhead
      BY <1>3 DEF FinishHead, HeadAfterLink, pollVars
    <2>3. \A v \in Workers : fpc[v] # "tail"
      BY <1>0, <1>3 DEF FinishHead, AioLockFree, AioLocking
    <2>4. \A i \in DOMAIN fifo : fifo[i] \in Tasks /\ fifo[i] # Held(w)
      BY <1>0, <2>1 DEF InList, Listed
    <2> HIDE DEF Held
    <2>5. Chained'
      BY <1>0, <2>1, <2>2, <2>4 DEF ListLinked, Chained
    <2>6. HeadInPlace'
      <3>1. rhead = IF fifo = <<>> THEN NoTask ELSE fifo[1]
        BY <1>0, <2>3 DEF ListLinked, HeadInPlace
      <3>2. fifo # <<>> => 1 \in DOMAIN fifo /\ fifo[1] # NoTask
        BY <1>0, HeadTakenOff
      <3>3. \A v \in Workers : fpc'[v] = "tail" <=> v = w
        BY <1>0, <2>2, <2>3
      <3> QED
        BY <1>0, <2>1, <2>2, <3>1, <3>2, <3>3 DEF HeadInPlace
    <2> QED
      BY <1>0, <2>2, <2>5, <2>6 DEF ListLinked, TailInPlace
  <1>4. ASSUME NEW w \in Workers, FinishTail(w) PROVE ListLinked'
    <2>1. /\ Held(w) \in Tasks /\ ~InList(Held(w))
      BY <1>0, <1>4, NotYetLinked DEF FinishTail, Linking, AioLocking
    <2>2. /\ rhead' = rhead /\ rtail' = Held(w) /\ UNCHANGED <<polling, got>>
          /\ rnext' = IF rtail = NoTask THEN rnext ELSE [rnext EXCEPT ![rtail] = Held(w)]
          /\ fifo' = Append(fifo, Held(w))
          /\ fpc' = [fpc EXCEPT ![w] = "notify"]
      BY <1>4 DEF FinishTail, pollVars
    <2>3. /\ \A v \in Workers : fpc'[v] # "tail"
          /\ \A c \in Pollers : polling[c] # "tail"
      BY <1>0, <1>4, <2>2 DEF FinishTail, AioLocking
    <2>4. /\ rhead = IF fifo = <<>> THEN Held(w) ELSE fifo[1]
          /\ rnext[Held(w)] = NoTask
          /\ rtail = IF fifo = <<>> THEN NoTask ELSE fifo[Len(fifo)]
      BY <1>0, <1>4, <2>3 DEF FinishTail, ListLinked, HeadInPlace, TailInPlace
    <2> HIDE DEF Held
    <2> DEFINE h == Held(w)
               n == Len(fifo)
    <2>5. /\ fifo' # <<>> /\ Len(fifo') = n + 1 /\ n \in Nat
          /\ DOMAIN fifo' = 1..(n + 1) /\ DOMAIN fifo = 1..n
          /\ \A i \in 1..n : fifo'[i] = fifo[i]
          /\ fifo'[n + 1] = h
          /\ NoRepeats(fifo')
      <3>1. /\ fifo \in Seq(Tasks) /\ h \in Tasks /\ fifo' = Append(fifo, h)
            /\ NoRepeats(fifo) /\ ~Listed(fifo, h)
        BY <1>0, <2>1, <2>2 DEF InList, ListLinked
      <3>2. PICK f : f = fifo'
        OBVIOUS
      <3> HIDE DEF h
      <3>3. /\ f \in Seq(Tasks) /\ f # <<>> /\ Len(f) = Len(fifo) + 1 /\ Len(fifo) \in Nat
            /\ \A i \in 1..Len(fifo) : f[i] = fifo[i]
            /\ f[Len(fifo) + 1] = h
            /\ NoRepeats(f)
        <4>1. f = Append(fifo, h)
          BY <3>1, <3>2
        <4>2. f \in Seq(Tasks) /\ f # <<>> /\ Len(f) = Len(fifo) + 1 /\ Len(fifo) \in Nat
          BY <3>1, <4>1
        <4>3. f[Len(fifo) + 1] = h /\ \A i \in 1..Len(fifo) : f[i] = fifo[i]
          BY <3>1, <4>1
        <4>4. NoRepeats(f)
          BY <3>1, <4>1, NoRepeatsByAppend
        <4> QED
          BY <4>2, <4>3, <4>4
      <3> QED
        BY <1>0, <3>2, <3>3
    <2>6. \A i \in 1..n : fifo[i] \in Tasks /\ fifo[i] # h
      BY <1>0, <2>1, <2>5 DEF InList, Listed
    <2>7. fifo = <<>> <=> n = 0
      BY <1>0
    <2>8. Chained'
      <3> SUFFICES ASSUME NEW i \in 1..(n + 1)
                   PROVE  rnext'[fifo'[i]] = IF i = n + 1 THEN NoTask ELSE fifo'[i + 1]
        BY <2>5 DEF Chained
      <3>1. CASE i = n + 1
        <4>1. rtail # h
          BY <2>1, <2>4, <2>5, <2>6, <2>7
        <4> QED
          BY <1>0, <2>1, <2>2, <2>4, <2>5, <3>1, <4>1
      <3>2. CASE i = n
        <4>1. rtail = fifo[i] /\ rtail \in Tasks /\ rtail # NoTask
          BY <2>4, <2>5, <2>6, <2>7, <3>2
        <4>2. i # n + 1 /\ fifo'[i] = fifo[i] /\ fifo'[i + 1] = h
          <5> HIDE DEF n
          <5> QED
            BY <2>5, <3>2
        <4> HIDE DEF n, h
        <4> QED
          BY <1>0, <2>2, <4>1, <4>2 DEF h
      <3>3. CASE i # n + 1 /\ i # n
        <4>1. i \in 1..n /\ i + 1 \in 1..n /\ n \in 1..n
          <5> HIDE DEF n
          <5> QED
            BY <2>5, <3>3
        <4>2. rnext[fifo[i]] = fifo[i + 1] /\ fifo[i] # fifo[n]
          BY <1>0, <2>5, <3>3, <4>1 DEF ListLinked, Chained, NoRepeats
        <4>3. rtail = fifo[n]
          BY <2>4, <2>7, <4>1
        <4> QED
          BY <1>0, <2>2, <2>5, <2>6, <3>3, <4>1, <4>2, <4>3
      <3> QED
        BY <3>1, <3>2, <3>3
    <2>9. HeadInPlace' /\ TailInPlace'
      BY <2>2, <2>3, <2>4, <2>5, <2>7 DEF HeadInPlace, TailInPlace
    <2> QED
      BY <2>5, <2>8, <2>9 DEF ListLinked
  <1>5. ASSUME NEW c \in Pollers, PollHead(c) PROVE ListLinked'
    <2>1. /\ fifo # <<>> /\ rhead = fifo[1] /\ rhead \in Tasks
          /\ rnext[rhead] = IF Len(fifo) = 1 THEN NoTask ELSE fifo[2]
      BY <1>5, HeadOfList
    <2>2. /\ rhead' = rnext[rhead] /\ fifo' = Tail(fifo)
          /\ got' = [got EXCEPT ![c] = rhead]
          /\ polling' = [polling EXCEPT ![c] = "tail"]
          /\ UNCHANGED <<rtail, rnext, fpc>>
      BY <1>5 DEF PollHead
    <2>3. /\ \A w \in Workers : fpc[w] # "tail"
          /\ \A d \in Pollers : polling[d] # "tail"
      BY <1>0, <1>5 DEF PollHead, AioLockFree, AioLocking
    <2> DEFINE n == Len(fifo)
    <2>4. /\ n \in Nat \ {0} /\ Len(fifo') = n - 1 /\ fifo' \in Seq(Tasks)
          /\ DOMAIN fifo' = 1..(n - 1) /\ DOMAIN fifo = 1..n
          /\ \A i \in 1..(n - 1) : fifo'[i] = fifo[i + 1]
      BY <1>0, <2>1, <2>2, HeadTakenOff
    <2>5. fifo' = <<>> <=> n = 1
      BY <2>4
    <2>6. NoRepeats(fifo')
      BY <1>0, <2>1, <2>2, ListedBehind DEF ListLinked
    <2>7. Chained'
      BY <1>0, <2>2, <2>4 DEF ListLinked, Chained
    <2>8. rtail = fifo[n]
      BY <1>0, <2>1, <2>3 DEF ListLinked, TailInPlace
    <2>9. HeadInPlace'
      BY <2>1, <2>2, <2>3, <2>4, <2>5 DEF HeadInPlace
    <2>10. TailInPlace'
      <3>1. \A d \in Pollers : polling'[d] = "tail" <=> d = c
        BY <1>0, <2>2, <2>3
      <3>2. rtail' = IF fifo' = <<>> THEN got'[c] ELSE fifo'[Len(fifo')]
        BY <1>0, <2>1, <2>2, <2>4, <2>5, <2>8
      <3> QED
        BY <3>1, <3>2 DEF TailInPlace
    <2> QED
      BY <2>6, <2>7, <2>9, <2>10 DEF ListLinked
  <1>6. ASSUME NEW c \in Pollers, PollTail(c) PROVE ListLinked'
    <2>1. /\ rtail' = (IF rhead = NoTask THEN NoTask ELSE rtail)
          /\ polling' = [polling EXCEPT ![c] = "deliver"]
          /\ UNCHANGED <<rhead, rnext, fifo, fpc, got>> /\ polling[c] = "tail"
          /\ \A w \in Workers : Held(w)' = Held(w)
      BY <1>6 DEF PollTail, ResetTail, Held, vars
    <2>2. /\ \A w \in Workers : fpc[w] # "tail"
          /\ \A d \in Pollers : polling[d] = "tail" <=> d = c
      BY <1>0, <2>1 DEF AioLocking
    <2>3. /\ rhead = IF fifo = <<>> THEN NoTask ELSE fifo[1]
          /\ rtail = IF fifo = <<>> THEN got[c] ELSE fifo[Len(fifo)]
      BY <1>0, <2>1, <2>2 DEF ListLinked, HeadInPlace, TailInPlace
    <2>4. fifo # <<>> => fifo[1] # NoTask
      BY <1>0, HeadTakenOff
    <2>5. rtail' = IF fifo' = <<>> THEN NoTask ELSE fifo'[Len(fifo')]
      BY <2>1, <2>3, <2>4
    <2>6. \A d \in Pollers : polling'[d] # "tail"
      BY <1>0, <2>1, <2>2
    <2>7. TailInPlace'
      BY <2>5, <2>6 DEF TailInPlace
    <2>8. NoRepeats(fifo)' /\ Chained' /\ HeadInPlace'
      BY <1>0, <2>1, <2>2 DEF ListLinked, Chained, NoRepeats, HeadInPlace
    <2> QED
      BY <2>7, <2>8 DEF ListLinked
  <1>7. ASSUME NEW w \in Workers, FinishNotify(w) PROVE ListLinked'
    <2>1. UNCHANGED <<listVars, pollVars, task>> /\ fpc' = [fpc EXCEPT ![w] = "link"]
          /\ fpc[w] = "notify"
      BY <1>7 DEF FinishNotify, Finish
    <2> QED
      BY <1>0, <1>1, <2>1 DEF pollVars, Held
  <1>8. ASSUME NEW c \in Pollers, \/ Select(c) \/ Drain(c) \/ PollAnyway(c) \/ PollEmpty(c)
                                  \/ Deliver(c) \/ PollFree(c)
        PROVE  ListLinked'
    <2>1. /\ UNCHANGED <<listVars, fpc, task>>
          /\ polling[c] # "tail"
          /\ \A d \in Pollers : d # c => got'[d] = got[d]
      BY <1>0, <1>8 DEF Select, Drain, PollAnyway, PollEmpty, Deliver, PollFree, vars
    <2>2. \E p \in {"idle", "drain", "poll", "callback"} :
              polling' = [polling EXCEPT ![c] = p] \/ polling' = polling
      BY <1>8 DEF Select, Drain, PollAnyway, PollEmpty, Deliver, PollFree, NextPoll
    <2> QED
      BY <1>0, <1>1, <2>1, <2>2 DEF Held
  <1> QED
    BY <1>2, <1>3, <1>4, <1>5, <1>6, <1>7, <1>8, WhereAStepIs DEF PollStep

-----------------------------------------------------------------------------
(* A step that moves a request from no place to another.                   *)
LEMMA RequestStays ==
    ASSUME NEW r \in Tasks, RequestAt(r),
           block'[r] = block[r], req'[r] = req[r], delivered'[r] = delivered[r],
           WasLinked(r)' <=> WasLinked(r),
           InList(r)' <=> InList(r),
           \A c \in Pollers : /\ TakenBy(c, r)' <=> TakenBy(c, r)
                              /\ TakenBy(c, r) =>
                                    (polling'[c] = "callback" <=> polling[c] = "callback"),
           \A c \in Clients : SubmittedBy(c, r)' => /\ SubmittedBy(c, r)
                                                    /\ ppc'[c] = "idle" <=> ppc[c] = "idle"
                                                    /\ PushedBy(c, r) => PushedBy(c, r)'
    PROVE  RequestAt(r)'
  BY DEF RequestAt

(* The pool's steps in jk_aio move no request to or from the list.         *)
LEMMA LinkedByFinishOnly ==
    ASSUME AioInv, Elsewhere, NEW r \in Tasks
    PROVE  WasLinked(r)' <=> WasLinked(r)
  <1> DEFINE States == {"none", "start", "lock", "sleep", "pop", "call", "finish",
                        "free", "exited"}
  <1>0. /\ pc \in [Workers -> States] /\ task \in [Workers -> Seq(Tasks)]
        /\ block \in [Tasks -> {"none", "live", "refused", "freed"}]
        /\ \A w \in Workers : w \notin asked => pc[w] = "none"
        /\ \A w \in Workers : pc[w] = "call" => fpc[w] = "link"
    BY DEF AioInv, PoolInv, Core, TypeOK, FieldTypes, AioLocking
  <1>1. fpc' = fpc
    BY ElsewhereQuiet
  <1>2. ASSUME block'[r] = "freed" <=> block[r] = "freed",
               \A w \in Workers : HeldBy(w, r)' /\ ~Linking(w)' <=> HeldBy(w, r) /\ ~Linking(w)
        PROVE  WasLinked(r)' <=> WasLinked(r)
    BY <1>2 DEF WasLinked
  <1>3. ASSUME NEW w \in Workers, Free(w) PROVE WasLinked(r)' <=> WasLinked(r)
    <2>1. Held(w) \in Tasks /\ HeldBy(w, Held(w)) /\ ~Linking(w)
      BY <1>3, HeldRequest DEF AioInv, Free, Holding, Linking
    <2>2. block'[r] = IF r = Held(w) THEN "freed" ELSE block[r]
      BY <1>0, <1>3 DEF Free
    <2>3. \A v \in Workers : v # w => (HeldBy(v, r)' <=> HeldBy(v, r)) /\ (Linking(v)' <=> Linking(v))
      BY <1>0, <1>1, <1>3 DEF Free, HeldBy, Holding, Held, Linking
    <2>4. ~HeldBy(w, r)' /\ (HeldBy(w, r) <=> r = Held(w))
      BY <1>0, <1>3, <2>1 DEF Free, HeldBy, Holding
    <2> QED
      BY <2>1, <2>2, <2>3, <2>4 DEF WasLinked
  <1>4. ASSUME NEW w \in Workers, Pop(w) PROVE WasLinked(r)' <=> WasLinked(r)
    <2>1. block' = block
      BY <1>4 DEF Pop
    <2>2. \A v \in Workers : HeldBy(v, r)' /\ ~Linking(v)' <=> HeldBy(v, r) /\ ~Linking(v)
      BY <1>0, <1>1, <1>4 DEF Pop, HeldBy, Holding, Held, Linking
    <2> QED
      BY <1>2, <2>1, <2>2
  <1>5. ASSUME NEW w \in Workers, Call(w) PROVE WasLinked(r)' <=> WasLinked(r)
    <2>1. block' = block /\ Held(w) \in HasFinish
      BY <1>5, HeldRequest, AioAssumption DEF AioInv, Call, Holding
    <2>2. \A v \in Workers : HeldBy(v, r)' /\ ~Linking(v)' <=> HeldBy(v, r) /\ ~Linking(v)
      BY <1>0, <1>1, <1>5, <2>1 DEF Call, HeldBy, Holding, Held, Linking
    <2> QED
      BY <1>2, <2>1, <2>2
  <1>6. ASSUME NEW w \in Workers, Create(w) \/ Report(w) \/ Sleep(w) \/ Take(w) \/ SpuriousWakeup(w)
        PROVE  WasLinked(r)' <=> WasLinked(r)
    <2>1. block' = block
      BY <1>6 DEF Create, Report, Sleep, Take, SpuriousWakeup
    <2>2. ~Holding(w) /\ ~Holding(w)' /\ \A v \in Workers : v # w => pc'[v] = pc[v] /\ task'[v] = task[v]
      BY <1>0, <1>6 DEF Create, Report, Sleep, Take, SpuriousWakeup, Holding
    <2>3. \A v \in Workers : HeldBy(v, r)' /\ ~Linking(v)' <=> HeldBy(v, r) /\ ~Linking(v)
      BY <1>1, <2>2 DEF HeldBy, Holding, Held, Linking
    <2> QED
      BY <1>2, <2>1, <2>3
  <1>7. ASSUME NEW c \in Clients, PushLink(c) PROVE WasLinked(r)' <=> WasLinked(r)
    <2>1. /\ block' = block /\ task' = task
          /\ \A w \in Workers : pc'[w] = pc[w] \/ (pc[w] = "sleep" /\ pc'[w] = "lock")
      BY <1>0, <1>7 DEF PushLink, SignalWorker, Sleepers
    <2> QED
      BY <1>1, <1>2, <2>1 DEF HeldBy, Holding, Held, Linking
  <1>8. ASSUME UNCHANGED <<pc, task>>, block'[r] = "freed" <=> block[r] = "freed"
        PROVE  WasLinked(r)' <=> WasLinked(r)
    BY <1>1, <1>2, <1>8 DEF HeldBy, Holding, Held, Linking
  <1>9. ASSUME NEW c \in Clients, NEW t \in Tasks, PushAlloc(c, t) \/ PushNoMem(c, t)
        PROVE  WasLinked(r)' <=> WasLinked(r)
    <2>1. UNCHANGED <<pc, task>> /\ (block'[r] = "freed" <=> block[r] = "freed")
      BY <1>0, <1>9 DEF PushAlloc, PushNoMem
    <2> QED
      BY <1>8, <2>1
  <1>10. ASSUME NEW c \in Clients, SubmitStep(c) PROVE WasLinked(r)' <=> WasLinked(r)
    <2>1. CASE SubmitAlloc(c) \/ SubmitNoMem(c)
      BY <1>9, <2>1 DEF SubmitAlloc, SubmitNoMem, AioInv, Submitting
    <2>2. CASE SubmitLink(c)
      BY <1>7, <2>2 DEF SubmitLink
    <2>3. CASE CopyPath(c) \/ Count(c) \/ SubmitLock(c) \/ Uncount(c)
      BY <1>8, <2>3 DEF CopyPath, Count, SubmitLock, PushLock, Uncount, vars
    <2> QED
      BY <1>10, <2>1, <2>2, <2>3 DEF SubmitStep
  <1>11. CASE InitStep \/ NoAio \/ \E c \in Clients, t \in Tasks : NewRequest(c, t)
    <2>1. CASE \E w \in Workers : Create(w)
      BY <1>6, <2>1
    <2>2. CASE ~\E w \in Workers : Create(w)
      BY <1>8, <1>11, <2>2 DEF InitStep, NoAio, NewRequest, OpenPipe, SetNonblock, NewPool,
         InitReturns, NewNoMem, AwaitWorkers, CreatorWakeup, CreateError, aioVars, vars
    <2> QED
      BY <2>1, <2>2
  <1>12. ASSUME NEW w \in Workers, PoolStep(w) \/ PoolSpurious(w)
         PROVE  WasLinked(r)' <=> WasLinked(r)
    BY <1>3, <1>4, <1>5, <1>6, <1>12 DEF PoolStep, PoolSpurious
  <1> QED
    BY <1>10, <1>11, <1>12 DEF Elsewhere

(* A request that a client submits is in no place behind the pool.         *)
LEMMA NotYetPushed ==
    ASSUME AioInv, NEW c \in Clients, NEW r \in Tasks, SubmittedBy(c, r)
    PROVE  /\ ~WasLinked(r) /\ ~InList(r) /\ \A d \in Pollers : ~TakenBy(d, r)
           /\ req[r] = "live" /\ delivered[r] = 0
           /\ \A w \in Workers : ~HeldBy(w, r)
           /\ \A d \in Clients : SubmittedBy(d, r) => d = c
  <1>1. RequestAt(r) /\ Clients \subseteq Pushers
    BY DEF AioInv, Requests, Pushers
  <1>2. /\ \A w \in Workers : HeldBy(w, r) => block[r] = "live"
        /\ \A p \in Pushers : PushedBy(p, r) => block[r] = "live"
        /\ \A w \in Workers, p \in Pushers : ~(HeldBy(w, r) /\ PushedBy(p, r))
    BY DEF AioInv, PoolInv, OneOwner
  <1>3. block[r] # "freed" /\ \A w \in Workers : ~HeldBy(w, r)
    BY <1>1, <1>2 DEF RequestAt
  <1> QED
    BY <1>1, <1>3 DEF RequestAt, WasLinked

LEMMA RequestsElsewhere ==
    ASSUME AioInv, Elsewhere
    PROVE  Requests'
  <1> USE PoolAssumption, AioAssumption
  <1>0. /\ Requests /\ Submitting
        /\ block \in [Tasks -> {"none", "live", "refused", "freed"}]
        /\ ppc \in [Pushers -> {"idle", "lock", "link"}]
        /\ node \in [Pushers -> Tasks \cup {NoTask}]
        /\ spc \in [Clients -> {"idle", "strdup", "count", "push", "uncount"}]
        /\ sub \in [Clients -> Tasks \cup {NoTask}]
        /\ req \in [Tasks -> {"none", "refused", "live", "freed"}]
        /\ Clients \subseteq Pushers
    BY DEF AioInv, PoolInv, Core, TypeOK, FieldTypes, Pushers
  <1>1. /\ UNCHANGED <<fifo, fpc, polling, got, delivered>>
        /\ \A w \in Workers : pc[w] = "finish" => task'[w] = task[w]
    BY ElsewhereQuiet DEF listVars, pollVars
  <1>2. ASSUME NEW r \in Tasks
        PROVE  /\ InList(r)' <=> InList(r)
               /\ \A c \in Pollers : TakenBy(c, r)' <=> TakenBy(c, r)
               /\ WasLinked(r)' <=> WasLinked(r)
               /\ delivered'[r] = delivered[r]
               /\ RequestAt(r)
    <2>1. WasLinked(r)' <=> WasLinked(r)
      BY LinkedByFinishOnly
    <2> QED
      BY <1>0, <1>1, <2>1 DEF InList, Listed, TakenBy, Taking, Requests
  <1>3. ASSUME NEW r \in Tasks, req'[r] = req[r],
               \/ block'[r] = block[r]
               \/ block[r] = "live" /\ WasLinked(r),
               \A c \in Clients : SubmittedBy(c, r)' =>
                    /\ SubmittedBy(c, r)
                    /\ ppc'[c] = "idle" <=> ppc[c] = "idle"
                    /\ PushedBy(c, r) => PushedBy(c, r)'
        PROVE  RequestAt(r)'
    <2>1. CASE block'[r] = block[r]
      BY <1>1, <1>2, <1>3, <2>1, RequestStays
    <2>2. CASE block[r] = "live" /\ WasLinked(r)
      BY <1>1, <1>2, <1>3, <2>2, NotYetPushed DEF RequestAt
    <2> QED
      BY <1>3, <2>1, <2>2
  <1>4. (\A r \in Tasks : RequestAt(r)') => Requests'
    <2>1. ASSUME NEW w \in Workers, fpc'[w] = "notify" PROVE InList(Held(w))'
      BY <1>0, <1>1, <2>1 DEF Requests, InList, Held, AioInv, AioLocking
    <2>2. \A c \in Pollers : (IF Taking(c) THEN got[c] \in Tasks ELSE got[c] = NoTask)'
      BY <1>0, <1>1 DEF Requests, Taking
    <2> QED
      BY <2>1, <2>2 DEF Requests
  <1>5. ASSUME UNCHANGED <<spc, sub, ppc, node, req, block>> PROVE Requests'
    BY <1>3, <1>4, <1>5 DEF SubmittedBy, PushedBy
  <1>6. CASE InitStep \/ NoAio
    BY <1>5, <1>6 DEF InitStep, NoAio, OpenPipe, SetNonblock, NewPool, InitReturns,
       NewNoMem, AwaitWorkers, CreatorWakeup, Create, CreateError, aioVars, submitVars,
       vars, pushVars
  <1>7. ASSUME NEW w \in Workers, PoolStep(w) \/ PoolSpurious(w) PROVE Requests'
    <2>1. UNCHANGED <<spc, sub, ppc, node, req>>
      BY <1>7 DEF PoolStep, PoolSpurious, Report, Sleep, Take, Pop, Call, Free,
         SpuriousWakeup, submitVars, pushVars
    <2>2. CASE Free(w)
      <3>1. /\ Held(w) \in Tasks /\ HeldBy(w, Held(w)) /\ ~Linking(w)
        BY <2>2, HeldRequest DEF AioInv, Free, Holding, Linking
      <3>2. block[Held(w)] = "live" /\ WasLinked(Held(w))
        BY <3>1 DEF AioInv, PoolInv, OneOwner, WasLinked
      <3>3. block' = [block EXCEPT ![Held(w)] = "freed"]
        BY <2>2 DEF Free
      <3> HIDE DEF Held
      <3>4. \A r \in Tasks : block'[r] = block[r] \/ (block[r] = "live" /\ WasLinked(r))
        BY <1>0, <3>1, <3>2, <3>3
      <3> QED
        BY <1>3, <1>4, <2>1, <3>4 DEF SubmittedBy, PushedBy
    <2>3. CASE ~Free(w)
      BY <1>5, <1>7, <2>1, <2>3 DEF PoolStep, PoolSpurious, Report, Sleep, Take, Pop, Call,
         SpuriousWakeup
    <2> QED
      BY <2>2, <2>3
  <1>8. ASSUME NEW c \in Clients, NEW r \in Tasks, NewRequest(c, r) PROVE Requests'
    <2>1. /\ spc[c] = "idle" /\ ppc[c] = "idle" /\ req[r] = "none"
          /\ UNCHANGED <<ppc, node, block>>
      BY <1>0, <1>8 DEF NewRequest, MaySubmit, Submitting, vars, pushVars
    <2>2. /\ \A d \in Clients : ~SubmittedBy(d, r)
          /\ block[r] = "none"
      BY <1>2, <2>1 DEF RequestAt
    <2>3. \/ req'[r] = "refused" /\ UNCHANGED <<spc, sub>>
          \/ /\ req'[r] = "live" /\ sub' = [sub EXCEPT ![c] = r]
             /\ spc' = [spc EXCEPT ![c] = IF r \in PathOps THEN "strdup" ELSE "count"]
      BY <1>0, <1>8 DEF NewRequest, submitVars
    <2>4. \A d \in Clients, t \in Tasks : SubmittedBy(d, t)' =>
              SubmittedBy(d, t) \/ (d = c /\ t = r /\ req'[r] = "live")
      BY <1>0, <2>3 DEF SubmittedBy
    <2>5. RequestAt(r)'
      <3>1. ~WasLinked(r)
        <4>1. \A w \in Workers : ~HeldBy(w, r)
          BY <2>2 DEF AioInv, PoolInv, OneOwner
        <4> QED
          BY <2>2, <4>1 DEF WasLinked
      <3>2. /\ block'[r] = "none" /\ ppc'[c] = "idle" /\ req'[r] \in {"refused", "live"}
            /\ \A d \in Clients : SubmittedBy(d, r)' => d = c /\ req'[r] = "live"
        BY <2>1, <2>2, <2>3, <2>4
      <3> QED
        BY <1>1, <1>2, <3>1, <3>2 DEF RequestAt
    <2>6. ASSUME NEW t \in Tasks, t # r PROVE RequestAt(t)'
      <3>1. req'[t] = req[t]
        BY <1>0, <1>8, <2>6 DEF NewRequest
      <3>2. \A d \in Clients : SubmittedBy(d, t)' => SubmittedBy(d, t)
        BY <2>4, <2>6
      <3> QED
        BY <1>3, <2>1, <3>1, <3>2 DEF PushedBy
    <2> QED
      BY <1>4, <2>5, <2>6
  <1>9. ASSUME NEW c \in Clients, CopyPath(c) PROVE Requests'
    <2>1. /\ sub[c] \in Tasks /\ ppc[c] = "idle" /\ SubmittedBy(c, sub[c])
          /\ UNCHANGED <<ppc, node, block>>
      BY <1>0, <1>9 DEF CopyPath, Submitting, SubmittedBy, vars, pushVars
    <2>2. PICK r \in Tasks : r = sub[c]
      BY <2>1
    <2>3. \/ req' = req /\ spc' = [spc EXCEPT ![c] = "count"] /\ sub' = sub
          \/ /\ req' = [req EXCEPT ![r] = "freed"]
             /\ spc' = [spc EXCEPT ![c] = "idle"] /\ sub' = [sub EXCEPT ![c] = NoTask]
      BY <1>9, <2>2 DEF CopyPath
    <2>4. \A d \in Clients, t \in Tasks : SubmittedBy(d, t)' => SubmittedBy(d, t)
      BY <1>0, <1>9, <2>2, <2>3 DEF SubmittedBy, CopyPath
    <2>5. ASSUME NEW t \in Tasks, req'[t] = req[t] PROVE RequestAt(t)'
      BY <1>3, <2>1, <2>4, <2>5 DEF PushedBy
    <2>6. ASSUME req'[r] # req[r] PROVE RequestAt(r)'
      <3>1. /\ ~WasLinked(r) /\ block[r] \in {"none", "refused"}
            /\ \A d \in Clients : SubmittedBy(d, r) => d = c
        BY <1>2, <2>1, <2>2, NotYetPushed DEF RequestAt
      <3>2. req'[r] = "freed" /\ spc'[c] = "idle"
        BY <1>0, <2>3, <2>6
      <3>3. \A d \in Clients : ~SubmittedBy(d, r)'
        BY <2>4, <3>1, <3>2 DEF SubmittedBy
      <3> QED
        BY <1>1, <1>2, <2>1, <3>1, <3>2, <3>3 DEF RequestAt
    <2>7. \A t \in Tasks : t # r => req'[t] = req[t]
      BY <1>0, <2>3
    <2> QED
      BY <1>4, <2>5, <2>6, <2>7
  <1>10. ASSUME NEW c \in Clients, Count(c) \/ Uncount(c) PROVE Requests'
    <2>1. /\ UNCHANGED <<ppc, node, block, req>>
          /\ \A d \in Clients, t \in Tasks : SubmittedBy(d, t)' => SubmittedBy(d, t)
      BY <1>0, <1>10 DEF Count, Uncount, SubmittedBy, vars, pushVars
    <2> QED
      BY <1>3, <1>4, <2>1 DEF PushedBy
  <1>11. ASSUME NEW c \in Clients, SubmitAlloc(c) \/ SubmitNoMem(c) PROVE Requests'
    <2>1. /\ sub[c] \in Tasks /\ spc[c] = "push" /\ SubmittedBy(c, sub[c])
          /\ ppc[c] = "idle" /\ UNCHANGED <<req, sub>>
      BY <1>0, <1>11 DEF SubmitAlloc, SubmitNoMem, PushAlloc, PushNoMem, MayPush, Submitting,
         SubmittedBy, submitVars
    <2>2. PICK r \in Tasks : r = sub[c]
      BY <2>1
    <2>3. /\ \A t \in Tasks : t # r => block'[t] = block[t]
          /\ \A d \in Pushers : d # c => ppc'[d] = ppc[d] /\ node'[d] = node[d]
          /\ \A d \in Clients, t \in Tasks : SubmittedBy(d, t)' => SubmittedBy(d, t)
      BY <1>0, <1>11, <2>1, <2>2
      DEF SubmitAlloc, SubmitNoMem, PushAlloc, PushNoMem, SubmittedBy, submitVars, pushVars
    <2>4. \/ block'[r] = "live" /\ PushedBy(c, r)'
          \/ block'[r] = "refused" /\ ppc'[c] = "idle"
      BY <1>0, <1>11, <2>1, <2>2
      DEF SubmitAlloc, SubmitNoMem, PushAlloc, PushNoMem, PushedBy, pushVars
    <2>5. RequestAt(r)'
      <3>1. /\ ~WasLinked(r) /\ req[r] = "live"
            /\ \A d \in Clients : SubmittedBy(d, r) => d = c
        BY <2>1, <2>2, NotYetPushed
      <3>2. /\ req'[r] = "live" /\ \A d \in Clients : SubmittedBy(d, r)' => d = c
            /\ ppc'[c] = "idle" => block'[r] = "refused"
            /\ ppc'[c] # "idle" => PushedBy(c, r)'
        BY <2>1, <2>3, <2>4, <3>1 DEF PushedBy
      <3> QED
        BY <1>1, <1>2, <3>1, <3>2 DEF RequestAt
    <2>6. ASSUME NEW t \in Tasks, t # r PROVE RequestAt(t)'
      <3>1. ~SubmittedBy(c, t)
        BY <2>2, <2>6 DEF SubmittedBy
      <3>2. \A d \in Clients : SubmittedBy(d, t)' => /\ SubmittedBy(d, t) /\ d # c
                                                    /\ ppc'[d] = ppc[d] /\ node'[d] = node[d]
        BY <1>0, <2>3, <3>1
      <3> QED
        BY <1>3, <2>1, <2>3, <2>6, <3>2 DEF PushedBy
    <2> QED
      BY <1>4, <2>5, <2>6
  <1>12. ASSUME NEW c \in Clients, SubmitLock(c) \/ SubmitLink(c) PROVE Requests'
    <2>1. /\ UNCHANGED <<block, req>>
          /\ \A d \in Clients : d # c \/ SubmitLock(c) =>
                  spc'[d] = spc[d] /\ sub'[d] = sub[d] /\ node'[d] = node[d]
          /\ \A d \in Clients : d # c => ppc'[d] = ppc[d]
          /\ ppc[c] # "idle" /\ (SubmitLock(c) => ppc'[c] # "idle")
          /\ SubmitLink(c) => spc'[c] = "idle"
      BY <1>0, <1>12 DEF SubmitLock, SubmitLink, PushLock, PushLink, submitVars
    <2>2. \A d \in Clients, t \in Tasks : SubmittedBy(d, t)' =>
              /\ SubmittedBy(d, t) /\ (ppc'[d] = "idle" <=> ppc[d] = "idle")
              /\ PushedBy(d, t) => PushedBy(d, t)'
      BY <1>12, <2>1 DEF SubmittedBy, PushedBy
    <2> QED
      BY <1>3, <1>4, <2>1, <2>2
  <1> QED
    BY <1>6, <1>7, <1>8, <1>9, <1>10, <1>11, <1>12 DEF Elsewhere, SubmitStep

(* What a step of jk_aio_fininsh or of a poller leaves alone.              *)
LEMMA RequestsAtFinish ==
    ASSUME AioInv, NEW w \in Workers, FinishHead(w) \/ FinishTail(w) \/ FinishNotify(w)
    PROVE  Requests'
  <1> USE PoolAssumption, AioAssumption
  <1> DEFINE States == {"none", "start", "lock", "sleep", "pop", "call", "finish",
                        "free", "exited"}
  <1>0. /\ Requests /\ AioLocking
        /\ pc \in [Workers -> States] /\ task \in [Workers -> Seq(Tasks)]
        /\ fpc \in [Workers -> {"link", "tail", "notify"}]
        /\ fifo \in Seq(Tasks)
    BY DEF AioInv, PoolInv, Core, TypeOK, FieldTypes
  <1>1. /\ UNCHANGED <<block, req, delivered, spc, sub, ppc, node, polling, got, task>>
        /\ \A v \in Workers : v # w => pc'[v] = pc[v] /\ fpc'[v] = fpc[v]
        /\ pc[w] = "finish" /\ Holding(w)'
    BY <1>0 DEF FinishHead, FinishTail, FinishNotify, Finish, Holding, AioLocking,
       submitVars, pollVars, vars, pushVars
  <1>2. ASSUME NEW r \in Tasks
        PROVE  /\ RequestAt(r)
               /\ \A c \in Pollers : TakenBy(c, r)' <=> TakenBy(c, r)
               /\ \A c \in Clients : /\ SubmittedBy(c, r)' <=> SubmittedBy(c, r)
                                     /\ PushedBy(c, r)' <=> PushedBy(c, r)
               /\ \A v \in Workers : HeldBy(v, r)' <=> HeldBy(v, r)
    BY <1>0, <1>1 DEF Requests, TakenBy, Taking, SubmittedBy, PushedBy, HeldBy, Holding, Held
  <1>3. ASSUME NEW r \in Tasks, InList(r)' <=> InList(r),
               HeldBy(w, r) => (Linking(w)' <=> Linking(w))
        PROVE  RequestAt(r)'
    <2>1. WasLinked(r)' <=> WasLinked(r)
      BY <1>1, <1>2, <1>3 DEF WasLinked, Linking
    <2> QED
      BY <1>1, <1>2, <1>3, <2>1, RequestStays
  <1>4. \A c \in Pollers : (IF Taking(c) THEN got[c] \in Tasks ELSE got[c] = NoTask)'
    BY <1>0, <1>1 DEF Requests, Taking
  <1>5. CASE FinishHead(w) \/ FinishNotify(w)
    <2>1. fifo' = fifo /\ (Linking(w)' <=> Linking(w)) /\ fpc'[w] # "notify"
      BY <1>0, <1>5 DEF FinishHead, FinishNotify, Finish, Linking, listVars, vars
    <2>2. \A r \in Tasks : RequestAt(r)'
      BY <1>3, <2>1 DEF InList, Listed
    <2>3. \A v \in Workers : fpc'[v] = "notify" => InList(Held(v))'
      BY <1>0, <1>1, <2>1 DEF Requests, InList, Listed, Held
    <2> QED
      BY <1>4, <2>2, <2>3 DEF Requests
  <1>6. CASE FinishTail(w)
    <2>1. Linking(w) /\ ~Linking(w)' /\ fpc'[w] = "notify"
      BY <1>0, <1>1, <1>6 DEF FinishTail, Linking, vars
    <2>2. PICK h \in Tasks : h = Held(w)
      BY <2>1, NotYetLinked
    <2>3. /\ HeldBy(w, h) /\ block[h] = "live" /\ ~InList(h) /\ req[h] = "live"
          /\ delivered[h] = 0 /\ \A c \in Pollers : ~TakenBy(c, h)
          /\ \A c \in Clients : ~SubmittedBy(c, h)
      BY <2>1, <2>2, NotYetLinked, NotYetPushed
    <2>4. fifo' = Append(fifo, h)
      BY <1>6, <2>2 DEF FinishTail
    <2>5. \A u : InList(u)' <=> u = h \/ InList(u)
      BY <1>0, <2>4, ListedByAppend DEF InList
    <2>6. \A r \in Tasks : r # h => RequestAt(r)'
      BY <1>3, <2>2, <2>5 DEF HeldBy
    <2>7. RequestAt(h)'
      <3>1. WasLinked(h)' /\ InList(h)'
        BY <1>2, <2>1, <2>3, <2>5 DEF WasLinked
      <3> QED
        BY <1>1, <1>2, <2>3, <3>1 DEF RequestAt
    <2>8. \A v \in Workers : fpc'[v] = "notify" => InList(Held(v))'
      <3>1. InList(Held(w))'
        BY <1>1, <2>2, <2>5 DEF Held
      <3>2. ASSUME NEW v \in Workers, v # w, fpc'[v] = "notify" PROVE FALSE
        BY <1>0, <1>1, <1>6, <3>2 DEF AioLocking, FinishTail
      <3> QED
        BY <3>1, <3>2
    <2> QED
      BY <1>4, <2>6, <2>7, <2>8 DEF Requests
  <1> QED
    BY <1>5, <1>6

LEMMA RequestsAtPoll ==
    ASSUME AioInv, NEW c \in Pollers, PollStep(c) \/ PollAnyway(c)
    PROVE  Requests'
  <1> USE PoolAssumption, AioAssumption
  <1>0. /\ Requests /\ AioLocking
        /\ polling \in [Pollers -> {"idle", "drain", "poll", "tail", "deliver", "callback"}]
        /\ got \in [Pollers -> Tasks \cup {NoTask}]
        /\ delivered \in [Tasks -> Nat]
        /\ req \in [Tasks -> {"none", "refused", "live", "freed"}]
    BY DEF AioInv, FieldTypes
  <1>1. /\ UNCHANGED <<block, spc, sub, ppc, node, task, pc, fpc>>
        /\ \A d \in Pollers : d # c => polling'[d] = polling[d] /\ got'[d] = got[d]
    BY <1>0 DEF PollStep, PollAnyway, Select, Drain, PollEmpty, PollHead, PollTail, Deliver,
       PollFree, submitVars, vars, pushVars
  <1>2. ASSUME NEW r \in Tasks
        PROVE  /\ RequestAt(r)
               /\ \A d \in Pollers : d # c => (TakenBy(d, r)' <=> TakenBy(d, r))
               /\ \A d \in Clients : /\ SubmittedBy(d, r)' <=> SubmittedBy(d, r)
                                     /\ PushedBy(d, r)' <=> PushedBy(d, r)
               /\ WasLinked(r)' <=> WasLinked(r)
    BY <1>0, <1>1
    DEF Requests, TakenBy, Taking, SubmittedBy, PushedBy, WasLinked, HeldBy, Holding, Held,
        Linking
  <1>3. ASSUME NEW r \in Tasks, req'[r] = req[r], delivered'[r] = delivered[r],
               InList(r)' <=> InList(r), TakenBy(c, r)' <=> TakenBy(c, r),
               TakenBy(c, r) => (polling'[c] = "callback" <=> polling[c] = "callback")
        PROVE  RequestAt(r)'
    <2>1. \A d \in Pollers : /\ TakenBy(d, r)' <=> TakenBy(d, r)
                             /\ TakenBy(d, r) =>
                                   (polling'[d] = "callback" <=> polling[d] = "callback")
      BY <1>1, <1>2, <1>3
    <2> QED
      BY <1>1, <1>2, <1>3, <2>1, RequestStays
  <1>4. ASSUME UNCHANGED fifo, IF Taking(c)' THEN got'[c] \in Tasks ELSE got'[c] = NoTask,
               \A r \in Tasks : RequestAt(r)'
        PROVE  Requests'
    BY <1>0, <1>1, <1>4 DEF Requests, Taking, InList, Listed, Held
  <1>5. CASE Select(c) \/ Drain(c) \/ PollAnyway(c) \/ PollEmpty(c) \/ PollTail(c)
    <2>1. /\ UNCHANGED <<fifo, got, req, delivered>>
          /\ polling'[c] # "callback" /\ polling[c] # "callback"
          /\ Taking(c)' <=> Taking(c)
      BY <1>0, <1>5 DEF Select, Drain, PollAnyway, PollEmpty, PollTail, Taking, listVars
    <2>2. \A r \in Tasks : RequestAt(r)'
      BY <1>3, <2>1 DEF InList, Listed, TakenBy
    <2> QED
      BY <1>0, <1>4, <2>1, <2>2 DEF Requests
  <1>6. CASE PollHead(c)
    <2>1. /\ fifo \in Seq(Tasks) /\ fifo # <<>> /\ rhead = Head(fifo) /\ rhead \in Tasks
      BY <1>6, HeadOfList
    <2>2. PICK h \in Tasks : h = rhead
      BY <2>1
    <2>3. /\ polling[c] = "poll" /\ aioLock = NoThread /\ fifo' = Tail(fifo)
          /\ got'[c] = h /\ polling'[c] = "tail" /\ UNCHANGED <<req, delivered>>
      BY <1>0, <1>6, <2>2 DEF PollHead, AioLockFree
    <2>4. InList(h) /\ \A u : InList(u)' <=> InList(u) /\ u # h
      BY <2>1, <2>2, <2>3, ListedBehind DEF InList, AioInv, ListLinked
    <2>5. /\ \A r : ~TakenBy(c, r)
          /\ \A r \in Tasks : TakenBy(c, r)' <=> r = h
      BY <2>3 DEF TakenBy, Taking
    <2>6. \A r \in Tasks : r # h => RequestAt(r)'
      BY <1>3, <2>3, <2>4, <2>5
    <2>7. RequestAt(h)'
      <3>1. /\ req[h] = "live" /\ delivered[h] = 0 /\ \A d \in Pollers : ~TakenBy(d, h)
            /\ WasLinked(h) /\ \A d \in Clients : ~SubmittedBy(d, h)
        BY <1>2, <2>4, NotYetPushed DEF RequestAt
      <3>2. \A d \in Pollers : TakenBy(d, h)' <=> d = c
        BY <1>2, <2>5, <3>1
      <3> QED
        BY <1>1, <1>2, <2>3, <2>4, <3>1, <3>2 DEF RequestAt
    <2>8. \A w \in Workers : fpc'[w] # "notify"
      BY <1>0, <1>1, <2>3 DEF AioLocking
    <2> QED
      BY <1>0, <1>1, <2>3, <2>6, <2>7, <2>8 DEF Requests, Taking
  <1>7. CASE Deliver(c)
    <2>1. PICK h \in Tasks : h = got[c]
      BY <1>0, <1>7 DEF Deliver, Requests, Taking
    <2>2. /\ polling[c] = "deliver" /\ polling'[c] = "callback" /\ UNCHANGED <<fifo, got, req>>
          /\ delivered' = [delivered EXCEPT ![h] = @ + 1]
          /\ TakenBy(c, h) /\ TakenBy(c, h)'
      BY <1>0, <1>7, <2>1 DEF Deliver, listVars, TakenBy, Taking
    <2>3. \A r \in Tasks : r # h => RequestAt(r)'
      BY <1>0, <1>3, <2>1, <2>2 DEF InList, Listed, TakenBy
    <2>4. RequestAt(h)'
      <3>1. /\ delivered[h] = 0 /\ req[h] = "live" /\ ~InList(h)
            /\ WasLinked(h) /\ \A d \in Clients : ~SubmittedBy(d, h)
            /\ \A d \in Pollers : TakenBy(d, h) => d = c
        BY <1>2, <2>2, NotYetPushed DEF RequestAt
      <3>2. delivered'[h] = 1 /\ ~InList(h)' /\ \A d \in Pollers : TakenBy(d, h)' => d = c
        BY <1>0, <1>2, <2>2, <3>1 DEF InList, Listed
      <3> QED
        BY <1>1, <1>2, <2>2, <3>1, <3>2 DEF RequestAt
    <2> QED
      BY <1>4, <2>1, <2>2, <2>3, <2>4 DEF Taking
  <1>8. CASE PollFree(c)
    <2>1. PICK h \in Tasks : h = got[c]
      BY <1>0, <1>8 DEF PollFree, Requests, Taking
    <2>2. /\ polling[c] = "callback" /\ polling'[c] = "poll" /\ UNCHANGED <<fifo, delivered>>
          /\ req' = [req EXCEPT ![h] = "freed"] /\ got'[c] = NoTask
          /\ TakenBy(c, h) /\ \A r : ~TakenBy(c, r)'
          /\ \A r \in Tasks : TakenBy(c, r) => r = h
      BY <1>0, <1>8, <2>1 DEF PollFree, NextPoll, listVars, TakenBy, Taking
    <2>3. \A r \in Tasks : r # h => RequestAt(r)'
      BY <1>0, <1>3, <2>2 DEF InList, Listed
    <2>4. RequestAt(h)'
      <3>1. /\ delivered[h] = 1 /\ ~InList(h)
            /\ WasLinked(h) /\ \A d \in Clients : ~SubmittedBy(d, h)
            /\ \A d \in Pollers : TakenBy(d, h) => d = c
        BY <1>2, <2>2, NotYetPushed DEF RequestAt
      <3>2. req'[h] = "freed" /\ ~InList(h)' /\ \A d \in Pollers : ~TakenBy(d, h)'
        BY <1>0, <1>2, <2>2, <3>1 DEF InList, Listed
      <3> QED
        BY <1>1, <1>2, <2>2, <3>1, <3>2 DEF RequestAt
    <2> QED
      BY <1>4, <2>2, <2>3, <2>4 DEF Taking
  <1> QED
    BY <1>5, <1>6, <1>7, <1>8 DEF PollStep

-----------------------------------------------------------------------------
LEMMA AioStart == AioInit => AioInv
  <1> SUFFICES ASSUME AioInit PROVE AioInv
    OBVIOUS
  <1> USE PoolAssumption, AioAssumption
  <1>1. Init
    BY DEF AioInit
  <1>2. PoolInv
    <2>1. Core /\ Phases
      BY <1>1, CoreInit, PhasesInit
    <2>2. OneOwner /\ Served
      BY <1>1 DEF Init, OneOwner, Queued, PushedBy, Served, ServedAt, HeldBy, Holding
    <2> QED
      BY <2>1, <2>2 DEF PoolInv
  <1>3. FieldTypes
    <2>1. 0 \in 0..PipeCap /\ <<>> \in Seq(Tasks)
      OBVIOUS
    <2>2. /\ rnext \in [Tasks -> Tasks \cup {NoTask}]
          /\ spc \in [Clients -> {"idle", "strdup", "count", "push", "uncount"}]
          /\ sub \in [Clients -> Tasks \cup {NoTask}]
          /\ fpc \in [Workers -> {"link", "tail", "notify"}]
      BY DEF AioInit
    <2>3. /\ polling \in [Pollers -> {"idle", "drain", "poll", "tail", "deliver", "callback"}]
          /\ got \in [Pollers -> Tasks \cup {NoTask}]
          /\ req \in [Tasks -> {"none", "refused", "live", "freed"}]
          /\ delivered \in [Tasks -> Nat]
      BY DEF AioInit
    <2> QED
      BY <2>1, <2>2, <2>3 DEF AioInit, FieldTypes
  <1>4. AioLocking /\ Submitting /\ InitInPlace
    <2>1. \A c \in Clients : ppc[c] = "idle"
      BY <1>1 DEF Init, Pushers
    <2> QED
      BY <1>1, <2>1 DEF AioInit, Init, AioLocking, Submitting, InitInPlace
  <1>5. ListLinked
    BY DEF AioInit, ListLinked, NoRepeats, Chained, HeadInPlace, TailInPlace
  <1>6. Requests
    <2>1. \A r \in Tasks : ~WasLinked(r)
      BY <1>1 DEF Init, WasLinked, HeldBy, Holding
    <2>2. \A r : ~InList(r)
      BY DEF AioInit, InList, Listed
    <2>3. \A r \in Tasks : RequestAt(r)
      BY <1>1, <2>1, <2>2 DEF AioInit, Init, RequestAt, TakenBy, Taking, SubmittedBy
    <2> QED
      BY <2>3 DEF AioInit, Requests, Taking
  <1> QED
    BY <1>2, <1>3, <1>4, <1>5, <1>6 DEF AioInv

LEMMA AioStep == AioInv /\ [AioNext]_aioVars => AioInv'
  <1>1. CASE AioNext
    <2> SUFFICES ASSUME AioInv PROVE AioInv'
      BY <1>1
    <2>1. PoolInv' /\ FieldTypes' /\ AioLocking' /\ Submitting' /\ InitInPlace' /\ ListLinked'
      BY <1>1, PoolKept, TypesKept, LockingKept, SubmittingKept, InitKept, ListKept
    <2>2. Requests'
      BY <1>1, RequestsElsewhere, RequestsAtFinish, RequestsAtPoll, WhereAStepIs
    <2> QED
      BY <2>1, <2>2 DEF AioInv
  <1>2. CASE UNCHANGED aioVars
    <2> SUFFICES ASSUME AioInv PROVE AioInv'
      BY <1>2
    <2> USE <1>2 DEF aioVars, initVars, listVars, submitVars, pollVars
    <2>1. PoolInv'
      BY PoolKept
    <2>2. FieldTypes' /\ InitInPlace'
      BY DEF AioInv, FieldTypes, InitInPlace, vars, mainVars
    <2>3. AioLocking' /\ Submitting'
      BY DEF AioInv, AioLocking, Submitting, vars, pushVars
    <2>4. ListLinked'
      BY DEF AioInv, ListLinked, NoRepeats, Chained, HeadInPlace, TailInPlace, Held, vars
    <2>5. Requests'
      <3>1. UNCHANGED <<block, pc, task, ppc, node>>
        BY DEF vars, pushVars
      <3>2. ASSUME NEW r \in Tasks PROVE RequestAt(r)'
        <4>1. /\ WasLinked(r)' <=> WasLinked(r)
              /\ InList(r)' <=> InList(r)
              /\ \A c \in Pollers : TakenBy(c, r)' <=> TakenBy(c, r)
              /\ \A c \in Clients : /\ SubmittedBy(c, r)' <=> SubmittedBy(c, r)
                                    /\ PushedBy(c, r)' <=> PushedBy(c, r)
          BY <3>1 DEF WasLinked, HeldBy, Holding, Held, Linking, InList, Listed, TakenBy,
             Taking, SubmittedBy, PushedBy
        <4>2. RequestAt(r)
          BY DEF AioInv, Requests
        <4> QED
          BY <3>1, <4>1, <4>2, RequestStays
      <3> QED
        BY <3>1, <3>2 DEF AioInv, Requests, Taking, InList, Listed, Held
    <2> QED
      BY <2>1, <2>2, <2>3, <2>4, <2>5 DEF AioInv
  <1> QED
    BY <1>1, <1>2

(***************************************************************************)
(* In every state of jk_aio its pool, aio.lock, the list and the requests  *)
(* are where the code that runs expects them.                              *)
(***************************************************************************)
THEOREM AioInvariant == AioSpec => []AioInv
  BY AioStart, AioStep, PTL DEF AioSpec

(***************************************************************************)
(* jk_aio uses its pool as a pool may be used: what ThreadPool promises    *)
(* holds in jk_aio.                                                        *)
(***************************************************************************)
THEOREM AioUsesPool == AioSpec => Spec
  <1>1. AioInit => Init
    BY DEF AioInit
  <1>2. AioInv /\ [AioNext]_aioVars => [Next]_vars
    BY StepOfPool DEF AioInv
  <1> QED
    BY <1>1, <1>2, AioInvariant, PTL DEF AioSpec, Spec

(***************************************************************************)
(* Whenever aio.lock is free, rhead, the next fields and rtail are a queue *)
(* of the requests in the order in which the workers linked them, although *)
(* jk_aio_fininsh writes the head before the tail and jk_aio_poll moves    *)
(* the head before it resets the tail.                                     *)
(***************************************************************************)
THEOREM ListStaysQueue == AioSpec => []ListIsQueue
  <1>1. AioInv => ListIsQueue
    <2> SUFFICES ASSUME AioInv, aioLock = NoThread
                 PROVE  IF fifo = <<>> THEN rhead = NoTask /\ rtail = NoTask
                        ELSE /\ rhead = fifo[1] /\ rtail = fifo[Len(fifo)]
                             /\ \A i \in 1..(Len(fifo) - 1) : rnext[fifo[i]] = fifo[i + 1]
                             /\ rnext[rtail] = NoTask
      BY DEF ListIsQueue
    <2>1. /\ \A w \in Workers : fpc[w] # "tail"
          /\ \A c \in Pollers : polling[c] # "tail"
      BY PoolAssumption, AioAssumption DEF AioInv, AioLocking
    <2>2. /\ rhead = IF fifo = <<>> THEN NoTask ELSE fifo[1]
          /\ rtail = IF fifo = <<>> THEN NoTask ELSE fifo[Len(fifo)]
      BY <2>1 DEF AioInv, ListLinked, HeadInPlace, TailInPlace
    <2>3. fifo \in Seq(Tasks) /\ Chained
      BY DEF AioInv, FieldTypes, ListLinked
    <2>4. /\ fifo # <<>> => Len(fifo) \in DOMAIN fifo
          /\ \A i \in 1..(Len(fifo) - 1) : i \in DOMAIN fifo /\ i # Len(fifo)
      BY <2>3
    <2> QED
      BY <2>2, <2>3, <2>4 DEF Chained
  <1> QED
    BY <1>1, AioInvariant, PTL

(***************************************************************************)
(* Nobody touches a request after jk_aio_destory: not the worker that runs *)
(* or links it, not the list or its tail pointer, not the poller.          *)
(***************************************************************************)
THEOREM RequestsOutliveUse == AioSpec => []NoUseAfterFree
  <1>1. AioInv => NoUseAfterFree
    <2> SUFFICES ASSUME AioInv PROVE NoUseAfterFree
      OBVIOUS
    <2>0. \A r \in Tasks : RequestAt(r)
      BY DEF AioInv, Requests
    <2>1. ASSUME NEW r \in Tasks, Queued(r) PROVE req[r] = "live"
      <3>1. block[r] = "live" /\ \A w \in Workers : ~HeldBy(w, r)
        BY <2>1 DEF AioInv, PoolInv, OneOwner
      <3> QED
        BY <2>0, <3>1 DEF RequestAt, WasLinked
    <2>2. ASSUME NEW w \in Workers, pc[w] \in {"call", "finish"} PROVE req[Held(w)] = "live"
      <3>1. CASE Linking(w)
        BY <3>1, NotYetLinked
      <3>2. CASE ~Linking(w)
        <4>1. InList(Held(w)) /\ Held(w) \in Tasks
          BY <2>2, <3>2, HeldRequest DEF AioInv, Requests, Linking, Holding
        <4> QED
          BY <2>0, <4>1 DEF RequestAt
      <3> QED
        BY <3>1, <3>2
    <2>3. ASSUME NEW i \in DOMAIN fifo PROVE req[fifo[i]] = "live"
      <3>1. fifo[i] \in Tasks /\ InList(fifo[i])
        BY DEF AioInv, FieldTypes, InList, Listed
      <3> QED
        BY <2>0, <3>1 DEF RequestAt
    <2>4. ASSUME NEW c \in Pollers, polling[c] \in {"tail", "deliver", "callback"}
          PROVE  req[got[c]] = "live"
      <3>1. got[c] \in Tasks /\ TakenBy(c, got[c])
        BY <2>4 DEF AioInv, Requests, Taking, TakenBy
      <3> QED
        BY <2>0, <3>1 DEF RequestAt
    <2>5. ASSUME aioLock = NoThread, rtail # NoTask PROVE req[rtail] = "live"
      <3>1. \A c \in Pollers : polling[c] # "tail"
        BY <2>5, PoolAssumption, AioAssumption DEF AioInv, AioLocking
      <3>2. fifo # <<>> /\ rtail = fifo[Len(fifo)] /\ fifo \in Seq(Tasks)
        BY <2>5, <3>1 DEF AioInv, ListLinked, TailInPlace, FieldTypes
      <3>3. Len(fifo) \in DOMAIN fifo
        BY <3>2
      <3> QED
        BY <2>3, <3>2, <3>3
    <2> QED
      BY <2>1, <2>2, <2>3, <2>4, <2>5 DEF NoUseAfterFree
  <1> QED
    BY <1>1, AioInvariant, PTL

(***************************************************************************)
(* A callback is called at most once, for a request that was executed, and *)
(* the memory of an executed request is freed only after its callback.     *)
(***************************************************************************)
THEOREM CallbacksRunOnce == AioSpec => []DeliveredOnce
  <1>1. AioInv => DeliveredOnce
    <2> SUFFICES ASSUME AioInv, NEW r \in Tasks
                 PROVE  /\ delivered[r] <= calls[r] /\ calls[r] <= 1
                        /\ req[r] = "freed" => delivered[r] = calls[r]
      BY DEF DeliveredOnce
    <2>0. /\ RequestAt(r) /\ ServedAt(r) /\ calls[r] \in Nat
          /\ mpc # "gone"
          /\ \A w \in Workers : HeldBy(w, r) => block[r] = "live"
      BY DEF AioInv, PoolInv, Requests, Served, Core, TypeOK, InitInPlace, Phases, OneOwner
    <2>1. CASE WasLinked(r)
      <3>1. calls[r] = 1
        <4>1. CASE block[r] = "freed"
          BY <2>0, <4>1 DEF ServedAt
        <4>2. ASSUME NEW w \in Workers, HeldBy(w, r), ~Linking(w) PROVE calls[r] = 1
          <5>1. pc[w] \in {"finish", "free"}
            BY <4>2 DEF HeldBy, Holding, Linking
          <5> QED
            BY <2>0, <4>2, <5>1 DEF ServedAt
        <4> QED
          BY <2>1, <4>1, <4>2 DEF WasLinked
      <3>2. delivered[r] \in {0, 1} /\ (req[r] = "freed" => delivered[r] = 1)
        BY <2>0, <2>1 DEF RequestAt
      <3> QED
        BY <3>1, <3>2
    <2>2. CASE ~WasLinked(r)
      <3>1. delivered[r] = 0 /\ block[r] # "freed" /\ (block[r] = "live" => req[r] = "live")
        BY <2>0, <2>2 DEF RequestAt, WasLinked
      <3>2. CASE \E w \in Workers : HeldBy(w, r)
        <4>1. PICK w \in Workers : HeldBy(w, r)
          BY <3>2
        <4>2. pc[w] \in {"call", "finish", "free"}
          BY <4>1 DEF HeldBy, Holding
        <4>3. calls[r] \in {0, 1}
          BY <2>0, <4>1, <4>2 DEF ServedAt
        <4> QED
          BY <2>0, <3>1, <3>2, <4>3
      <3>3. CASE \A w \in Workers : ~HeldBy(w, r)
        BY <2>0, <3>1, <3>3 DEF ServedAt
      <3> QED
        BY <3>2, <3>3
    <2> QED
      BY <2>1, <2>2
  <1> QED
    BY <1>1, AioInvariant, PTL

(***************************************************************************)
(* A jk_aio_init that fails leaves no pipe open and no worker behind, and  *)
(* one that succeeds leaves the pipe open and every worker running.        *)
(***************************************************************************)
THEOREM InitLeavesAllOrNothing == AioSpec => []InitAllOrNothing
  <1>1. AioInv => InitAllOrNothing
    <2> SUFFICES ASSUME AioInv PROVE InitAllOrNothing
      OBVIOUS
    <2>1. ASSUME init = "failed" PROVE ~pipeOpen /\ \A w \in Workers : pc[w] = "none"
      BY <2>1 DEF AioInv, InitInPlace, PoolInv, Core
    <2>2. ASSUME init = "ready"
          PROVE  pipeOpen /\ \A w \in Workers : pc[w] \notin {"none", "start"}
      BY <2>2 DEF AioInv, InitInPlace, PoolInv, Phases
    <2> QED
      BY <2>1, <2>2 DEF InitAllOrNothing
  <1> QED
    BY <1>1, AioInvariant, PTL

(***************************************************************************)
(* A completed request always has a byte in the pipe, a worker about to    *)
(* write one, or a poller on its way: a poller that leaves has seen the    *)
(* list empty.  So neither the byte a full pipe refuses nor the bytes      *)
(* jk_aio_wait drains before the list is read are missed.                  *)
(***************************************************************************)
THEOREM CompletionsAreAnnounced == AioSpec => []NoLostCompletion
  <1> USE PoolAssumption, AioAssumption
  <1>1. AioInit => NoLostCompletion
    BY DEF AioInit, NoLostCompletion
  <1>2. ASSUME AioInv, NoLostCompletion, [AioNext]_aioVars PROVE NoLostCompletion'
    <2>0. /\ fpc \in [Workers -> {"link", "tail", "notify"}] /\ pipe \in 0..PipeCap
          /\ polling \in [Pollers -> {"idle", "drain", "poll", "tail", "deliver", "callback"}]
      BY <1>2 DEF AioInv, FieldTypes
    <2>1. ASSUME UNCHANGED <<fifo, pipe, fpc, polling>> PROVE NoLostCompletion'
      BY <1>2, <2>1 DEF NoLostCompletion
    <2>2. CASE UNCHANGED aioVars
      BY <2>1, <2>2 DEF aioVars, listVars, pollVars
    <2>3. CASE Elsewhere
      BY <1>2, <2>1, <2>3, ElsewhereQuiet DEF listVars, pollVars
    <2>4. ASSUME NEW w \in Workers, FinishHead(w) PROVE NoLostCompletion'
      <3>1. /\ UNCHANGED <<fifo, pipe, polling>>
            /\ \A v \in Workers : fpc[v] = "notify" => fpc'[v] = "notify"
        BY <2>0, <2>4 DEF FinishHead, pollVars
      <3> QED
        BY <1>2, <3>1 DEF NoLostCompletion
    <2>5. ASSUME NEW w \in Workers, FinishTail(w) PROVE NoLostCompletion'
      BY <2>0, <2>5 DEF FinishTail, NoLostCompletion
    <2>6. ASSUME NEW w \in Workers, FinishNotify(w) PROVE NoLostCompletion'
      BY <2>0, <2>6 DEF FinishNotify, Notify, NoLostCompletion
    <2>7. ASSUME NEW c \in Pollers, PollEmpty(c) PROVE NoLostCompletion'
      <3>1. \A w \in Workers : fpc[w] # "tail"
        BY <1>2, <2>7 DEF PollEmpty, AioLockFree, AioInv, AioLocking
      <3>2. fifo \in Seq(Tasks) /\ rhead = IF fifo = <<>> THEN NoTask ELSE fifo[1]
        BY <1>2, <3>1 DEF AioInv, FieldTypes, ListLinked, HeadInPlace
      <3>3. fifo # <<>> => fifo[1] \in Tasks
        BY <3>2, HeadTakenOff
      <3> QED
        BY <2>7, <3>2, <3>3 DEF PollEmpty, NoLostCompletion, listVars
    <2>8. ASSUME NEW c \in Pollers,
                 Select(c) \/ Drain(c) \/ PollHead(c) \/ PollTail(c) \/ Deliver(c)
                           \/ PollFree(c) \/ PollAnyway(c)
          PROVE  NoLostCompletion'
      <3>1. polling'[c] # "idle"
        BY <2>0, <2>8 DEF Select, Drain, PollHead, PollTail, Deliver, PollFree, NextPoll,
           PollAnyway
      <3> QED
        BY <3>1 DEF NoLostCompletion
    <2> QED
      BY <1>2, <2>2, <2>3, <2>4, <2>5, <2>6, <2>7, <2>8, WhereAStepIs DEF PollStep
  <1> QED
    BY <1>1, <1>2, AioInvariant, PTL DEF AioSpec

-----------------------------------------------------------------------------
(* Two theorems that look at all requests at once: the counters of Aio say *)
(* how many are in flight, and Aio is an AioService.                       *)

(* The places of a request in flight.                                      *)
Submitted(r) == BeingPushed(r) \/ Refused(r)
Carried(r) == \E w \in Workers : HeldBy(w, r) /\ pc[w] # "free"
Inside(r) == Submitted(r) \/ Queued(r) \/ Carried(r) \/ InList(r) \/ Advancing(r)

LEMMA InFlightByPlace ==
    /\ InFlight = {r \in Tasks : Inside(r)}
    /\ InFlight' = {r \in Tasks : Inside(r)'}
  <1>1. \A r \in Tasks : r \in InFlight <=> Inside(r)
    BY DEF InFlight, Inside, Submitted, Carried, InList, Listed
  <1>2. \A r \in Tasks : r \in InFlight' <=> Inside(r)'
    BY DEF InFlight, Inside, Submitted, Carried, InList, Listed
  <1> QED
    BY <1>1, <1>2 DEF InFlight

(* A step of the pool that is not a push moves no request in or out.       *)
LEMMA CarriedByPool ==
    ASSUME AioInv, InitStep \/ NoAio \/ \E w \in Workers : PoolStep(w) \/ PoolSpurious(w),
           NEW r \in Tasks
    PROVE  Queued(r)' \/ Carried(r)' <=> Queued(r) \/ Carried(r)
  <1> DEFINE States == {"none", "start", "lock", "sleep", "pop", "call", "finish",
                        "free", "exited"}
  <1> DEFINE Kept == Queued(r)' \/ Carried(r)' <=> Queued(r) \/ Carried(r)
  <1>0. /\ pc \in [Workers -> States] /\ task \in [Workers -> Seq(Tasks)]
        /\ wait_tasks \in Seq(Tasks)
        /\ \A w \in Workers : w \notin asked => pc[w] = "none"
    BY DEF AioInv, PoolInv, Core, TypeOK
  <1>1. ASSUME wait_tasks' = wait_tasks, NEW w \in Workers,
               \A v \in Workers : v # w => pc'[v] = pc[v] /\ task'[v] = task[v],
               HeldBy(w, r)' /\ pc'[w] # "free" <=> HeldBy(w, r) /\ pc[w] # "free"
        PROVE  Kept
    BY <1>1 DEF Queued, Carried, HeldBy, Holding, Held
  <1>2. ASSUME NEW w \in Workers, Pop(w) PROVE Kept
    <2>0. /\ task[w] = wait_tasks /\ wait_tasks # <<>> /\ ~Holding(w)
          /\ wait_tasks' = Tail(wait_tasks)
          /\ Head(wait_tasks) \in Tasks /\ Head(<<Head(wait_tasks)>>) = Head(wait_tasks)
      BY <1>0, <1>2, HeadTakenOff DEF Pop, AioInv, PoolInv, Core, LockDiscipline, Holding
    <2>1. NoRepeats(wait_tasks)
      BY <1>0 DEF AioInv, PoolInv, OneOwner, NoRepeats
    <2>2. /\ Queued(r) <=> Listed(wait_tasks, r)
          /\ Queued(r)' <=> Listed(wait_tasks', r)
      BY DEF Queued, Listed
    <2>3. /\ Queued(r)' <=> Queued(r) /\ r # Head(wait_tasks)
          /\ r = Head(wait_tasks) => Queued(r)
      <3>1. \A u : Listed(wait_tasks', u) <=> Listed(wait_tasks, u) /\ u # Head(wait_tasks)
        BY <1>0, <2>0, <2>1, ListedBehind
      <3>2. Listed(wait_tasks, Head(wait_tasks))
        BY <1>0, <2>0, <2>1, ListedBehind
      <3> QED
        BY <2>2, <3>1, <3>2
    <2>4. /\ \A v \in Workers : HeldBy(v, r)' <=> HeldBy(v, r) \/ (v = w /\ r = Head(wait_tasks))
          /\ \A v \in Workers : v # w => pc'[v] = pc[v]
          /\ pc'[w] = "call" /\ ~HeldBy(w, r)
      BY <1>0, <1>2, <2>0 DEF Pop, HeldBy, Holding, Held
    <2> QED
      BY <2>3, <2>4 DEF Carried
  <1>3. ASSUME NEW w \in Workers, Call(w) PROVE Kept
    <2>1. Held(w) \in HasFinish
      BY <1>3, HeldRequest, AioAssumption DEF AioInv, Call, Holding
    <2> QED
      BY <1>0, <1>1, <1>3, <2>1 DEF Call, HeldBy, Holding, Held
  <1>4. ASSUME NEW w \in Workers,
               \/ Create(w) \/ Report(w) \/ Sleep(w) \/ Take(w) \/ SpuriousWakeup(w) \/ Free(w)
        PROVE  Kept
    BY <1>0, <1>1, <1>4
    DEF Create, Report, Sleep, Take, SpuriousWakeup, Free, HeldBy, Holding
  <1>5. ASSUME UNCHANGED <<pc, task, wait_tasks>> PROVE Kept
    BY <1>5 DEF Queued, Carried, HeldBy, Holding, Held
  <1>6. CASE InitStep \/ NoAio
    <2>1. CASE \E w \in Workers : Create(w)
      BY <1>4, <2>1
    <2>2. CASE ~\E w \in Workers : Create(w)
      BY <1>5, <1>6, <2>2 DEF InitStep, NoAio, OpenPipe, SetNonblock, NewPool, InitReturns,
         NewNoMem, AwaitWorkers, CreatorWakeup, CreateError, aioVars, vars
    <2> QED
      BY <2>1, <2>2
  <1>7. ASSUME NEW w \in Workers, PoolStep(w) \/ PoolSpurious(w) PROVE Kept
    BY <1>2, <1>3, <1>4, <1>7 DEF PoolStep, PoolSpurious
  <1> QED
    BY <1>6, <1>7

(* Nor does a step of a client that does not change the counter.           *)
LEMMA SubmittedByClient ==
    ASSUME AioInv, NEW c \in Clients,
           \/ \E t \in Tasks : NewRequest(c, t)
           \/ SubmitStep(c) /\ ~Count(c) /\ ~Uncount(c),
           NEW r \in Tasks
    PROVE  Submitted(r)' \/ Queued(r)' \/ Carried(r)' <=> Submitted(r) \/ Queued(r) \/ Carried(r)
  <1> DEFINE Kept == Submitted(r)' \/ Queued(r)' \/ Carried(r)'
                        <=> Submitted(r) \/ Queued(r) \/ Carried(r)
  <1> DEFINE Waits(d) == spc[d] \in {"push", "uncount"} /\ sub[d] = r
  <1>0. /\ spc \in [Clients -> {"idle", "strdup", "count", "push", "uncount"}]
        /\ sub \in [Clients -> Tasks \cup {NoTask}] /\ Submitting
        /\ Clients \subseteq Pushers
    BY DEF AioInv, FieldTypes, Pushers
  <1>1. /\ Submitted(r) <=> \E d \in Clients : Waits(d)
        /\ Submitted(r)' <=> \E d \in Clients : Waits(d)'
    BY DEF Submitted, BeingPushed, Refused
  <1>2. ASSUME UNCHANGED <<pc, task, wait_tasks>> PROVE (Queued(r)' <=> Queued(r)) /\ (Carried(r)' <=> Carried(r))
    BY <1>2 DEF Queued, Carried, HeldBy, Holding, Held
  <1>3. ASSUME ~SubmitLink(c) PROVE Kept
    <2>1. UNCHANGED <<pc, task, wait_tasks>>
      BY <1>3 DEF NewRequest, SubmitStep, CopyPath, SubmitAlloc, SubmitNoMem, SubmitLock,
         PushAlloc, PushNoMem, PushLock, vars
    <2>2. \A d \in Clients : Waits(d)' <=> Waits(d)
      BY <1>0, <1>3 DEF NewRequest, MaySubmit, SubmitStep, CopyPath, SubmitAlloc, SubmitNoMem,
         SubmitLock, submitVars
    <2> QED
      BY <1>1, <1>2, <2>1, <2>2
  <1>4. ASSUME SubmitLink(c) PROVE Kept
    <2>1. /\ spc[c] = "push" /\ ppc[c] = "link" /\ sub[c] \in Tasks /\ next[c] = wait_tasks
          /\ SubmittedBy(c, sub[c])
      BY <1>0, <1>4 DEF SubmitLink, PushLink, Submitting, SubmittedBy, AioInv, PoolInv, Core,
         LockDiscipline
    <2>2. node[c] = sub[c]
      BY <2>1 DEF AioInv, Requests, RequestAt, PushedBy
    <2>3. wait_tasks \in Seq(Tasks) /\ wait_tasks' = <<sub[c]>> \o wait_tasks
      BY <1>4, <2>1, <2>2 DEF SubmitLink, PushLink, AioInv, PoolInv, Core, TypeOK
    <2>4. Queued(r)' <=> Queued(r) \/ r = sub[c]
      <3>1. /\ Queued(r) <=> Listed(wait_tasks, r)
            /\ Queued(r)' <=> Listed(wait_tasks', r)
        BY DEF Queued, Listed
      <3>2. Listed(<<sub[c]>> \o wait_tasks, r) <=> r = sub[c] \/ Listed(wait_tasks, r)
        BY <2>1, <2>3, ListedInFront
      <3> QED
        BY <2>3, <3>1, <3>2
    <2>5. \A d \in Clients : Waits(d)' <=> Waits(d) /\ d # c
      BY <1>0, <1>4 DEF SubmitLink
    <2>6. Waits(c) <=> r = sub[c]
      BY <2>1
    <2>7. Carried(r)' <=> Carried(r)
      <3>1. /\ task' = task /\ \A w \in Workers : pc'[w] = pc[w] \/ (pc[w] = "sleep" /\ pc'[w] = "lock")
        BY <1>4 DEF SubmitLink, PushLink, SignalWorker, Sleepers, AioInv, PoolInv, Core, TypeOK
      <3> QED
        BY <3>1 DEF Carried, HeldBy, Holding, Held
    <2> HIDE DEF Waits
    <2> QED
      BY <1>1, <2>4, <2>5, <2>6, <2>7
  <1> QED
    BY <1>3, <1>4

(* The steps that move a request in or out, or between its places behind   *)
(* the pool.                                                               *)
LEMMA LinkedStaysInside ==
    ASSUME AioInv, NEW w \in Workers, FinishHead(w) \/ FinishTail(w) \/ FinishNotify(w),
           NEW r \in Tasks
    PROVE  Inside(r)' <=> Inside(r)
  <1> USE PoolAssumption
  <1>0. /\ fifo \in Seq(Tasks)
        /\ fpc \in [Workers -> {"link", "tail", "notify"}]
        /\ pc[w] = "finish"
        /\ \A v \in Workers : v # w => pc'[v] = pc[v]
        /\ UNCHANGED <<task, wait_tasks, spc, sub, polling, got>>
    BY DEF AioInv, PoolInv, Core, TypeOK, FieldTypes, AioLocking, FinishHead, FinishTail,
       FinishNotify, Finish, submitVars, pollVars, vars
  <1>1. /\ Submitted(r)' <=> Submitted(r)
        /\ Queued(r)' <=> Queued(r)
        /\ Advancing(r)' <=> Advancing(r)
    BY <1>0 DEF Submitted, BeingPushed, Refused, Queued, Advancing
  <1>2. CASE FinishHead(w) \/ FinishTail(w)
    <2>1. Carried(r)' <=> Carried(r)
      BY <1>0, <1>2 DEF FinishHead, FinishTail, Carried, HeldBy, Holding, Held, vars
    <2>2. InList(r)' <=> InList(r) \/ (FinishTail(w) /\ r = Held(w))
      <3>1. CASE FinishHead(w)
        <4>1. fifo' = fifo /\ ~FinishTail(w)
          BY <3>1 DEF FinishHead, FinishTail
        <4> QED
          BY <4>1 DEF InList, Listed
      <3>2. CASE FinishTail(w)
        <4>1. PICK h \in Tasks : h = Held(w)
          BY <1>0, HeldRequest DEF AioInv, Holding
        <4>2. fifo' = Append(fifo, h)
          BY <3>2, <4>1 DEF FinishTail
        <4> QED
          BY <1>0, <3>2, <4>1, <4>2, ListedByAppend DEF InList
      <3> QED
        BY <1>2, <3>1, <3>2
    <2>3. r = Held(w) => Carried(r)
      BY <1>0 DEF Carried, HeldBy, Holding
    <2> QED
      BY <1>1, <2>1, <2>2, <2>3 DEF Inside
  <1>3. CASE FinishNotify(w)
    <2>1. InList(Held(w)) /\ (InList(r)' <=> InList(r)) /\ pc'[w] = "free"
      BY <1>0, <1>3 DEF FinishNotify, Finish, AioInv, PoolInv, Core, TypeOK, Requests, InList,
         Listed, listVars
    <2>2. \A v \in Workers : v # w => (HeldBy(v, r)' <=> HeldBy(v, r))
      BY <1>0 DEF HeldBy, Holding, Held
    <2>3. HeldBy(w, r) => r = Held(w)
      BY DEF HeldBy
    <2> QED
      BY <1>0, <1>1, <2>1, <2>2, <2>3 DEF Inside, Carried
  <1> QED
    BY <1>2, <1>3

LEMMA TakenStaysInside ==
    ASSUME AioInv, NEW c \in Pollers, PollStep(c) \/ PollAnyway(c), ~PollTail(c),
           NEW r \in Tasks
    PROVE  Inside(r)' <=> Inside(r)
  <1>0. /\ polling \in [Pollers -> {"idle", "drain", "poll", "tail", "deliver", "callback"}]
        /\ got \in [Pollers -> Tasks \cup {NoTask}]
        /\ UNCHANGED <<task, pc, wait_tasks, spc, sub>>
    BY DEF AioInv, FieldTypes, PollStep, PollAnyway, Select, Drain, PollEmpty, PollHead,
       PollTail, Deliver, PollFree, submitVars, vars
  <1>1. /\ Submitted(r)' <=> Submitted(r)
        /\ Queued(r)' <=> Queued(r)
        /\ Carried(r)' <=> Carried(r)
    BY <1>0 DEF Submitted, BeingPushed, Refused, Queued, Carried, HeldBy, Holding, Held
  <1>2. CASE PollHead(c)
    <2>1. /\ fifo \in Seq(Tasks) /\ fifo # <<>> /\ rhead = Head(fifo) /\ NoRepeats(fifo)
          /\ fifo' = Tail(fifo)
      BY <1>2, HeadOfList DEF PollHead, AioInv, ListLinked
    <2>2. InList(rhead) /\ (InList(r)' <=> InList(r) /\ r # rhead)
      BY <2>1, ListedBehind DEF InList
    <2>3. Advancing(r)' <=> Advancing(r) \/ r = rhead
      BY <1>0, <1>2 DEF PollHead, Advancing
    <2> QED
      BY <1>1, <2>2, <2>3 DEF Inside
  <1>3. CASE ~PollHead(c)
    <2>1. /\ fifo' = fifo
          /\ \A d \in Pollers : /\ polling'[d] = "tail" <=> polling[d] = "tail"
                                /\ polling[d] = "tail" => got'[d] = got[d]
      BY <1>0, <1>3 DEF PollStep, PollAnyway, Select, Drain, PollEmpty, PollTail, Deliver,
         PollFree, NextPoll, listVars
    <2> QED
      BY <1>1, <2>1 DEF Inside, InList, Listed, Advancing
  <1> QED
    BY <1>2, <1>3

(* jk_aio_poll has taken the request off the list and counts it.           *)
LEMMA TailLeaves ==
    ASSUME AioInv, NEW c \in Pollers, PollTail(c)
    PROVE  /\ got[c] \in InFlight
           /\ InFlight' = InFlight \ {got[c]}
  <1>0. /\ polling \in [Pollers -> {"idle", "drain", "poll", "tail", "deliver", "callback"}]
        /\ UNCHANGED <<task, pc, wait_tasks, spc, sub, fifo, got>>
        /\ polling[c] = "tail" /\ polling' = [polling EXCEPT ![c] = "deliver"]
        /\ got[c] \in Tasks /\ TakenBy(c, got[c])
    BY DEF AioInv, FieldTypes, PollTail, submitVars, vars, Requests, Taking, TakenBy
  <1>1. PICK g \in Tasks : g = got[c]
    BY <1>0
  <1>2. \A r \in Tasks : /\ Submitted(r)' <=> Submitted(r)
                         /\ Queued(r)' <=> Queued(r)
                         /\ Carried(r)' <=> Carried(r)
                         /\ InList(r)' <=> InList(r)
    BY <1>0 DEF Submitted, BeingPushed, Refused, Queued, Carried, HeldBy, Holding, Held,
       InList, Listed
  <1>3. RequestAt(g) /\ TakenBy(c, g)
    BY <1>0, <1>1 DEF AioInv, Requests
  <1>4. WasLinked(g) /\ ~InList(g) /\ \A d \in Pollers : TakenBy(d, g) => d = c
    BY <1>3 DEF RequestAt
  <1>5. ~Submitted(g)
    BY <1>3, NotYetPushed DEF Submitted, BeingPushed, Refused, SubmittedBy
  <1>6. ~Queued(g) /\ ~Carried(g)
    <2>1. /\ \A w \in Workers : HeldBy(w, g) => block[g] = "live" /\ ~Queued(g)
          /\ Queued(g) => block[g] = "live"
          /\ \A v, w \in Workers : HeldBy(v, g) /\ HeldBy(w, g) => v = w
      BY DEF AioInv, PoolInv, OneOwner
    <2>2. \A w \in Workers : HeldBy(w, g) /\ ~Linking(w) => pc[w] = "free"
      <3> SUFFICES ASSUME NEW w \in Workers, HeldBy(w, g), ~Linking(w), pc[w] # "free"
                   PROVE  FALSE
        OBVIOUS
      <3>1. fpc[w] = "notify" /\ Held(w) = g
        BY DEF HeldBy, Holding, Linking
      <3> QED
        BY <1>4, <3>1 DEF AioInv, Requests
    <2> QED
      BY <1>4, <2>1, <2>2 DEF WasLinked, Carried
  <1>7. \A r \in Tasks : Advancing(r)' <=> Advancing(r) /\ r # g
    <2>1. \A d \in Pollers, r \in Tasks : polling[d] = "tail" /\ got[d] = r => TakenBy(d, r)
      BY DEF TakenBy, Taking
    <2> QED
      BY <1>0, <1>1, <1>4, <2>1 DEF Advancing
  <1>8. Advancing(g)
    BY <1>0, <1>1 DEF Advancing
  <1>9. \A r \in Tasks : Inside(r)' <=> Inside(r) /\ r # g
    BY <1>2, <1>4, <1>5, <1>6, <1>7 DEF Inside
  <1> QED
    BY <1>1, <1>8, <1>9, InFlightByPlace DEF Inside

(* jk_aio_submit counts a request it is about to push, and takes back one  *)
(* whose push was refused.                                                 *)
LEMMA CountedMoves ==
    ASSUME AioInv, NEW c \in Clients, Count(c) \/ Uncount(c)
    PROVE  /\ sub[c] \in Tasks
           /\ Count(c) => sub[c] \notin InFlight /\ InFlight' = InFlight \cup {sub[c]}
           /\ Uncount(c) => sub[c] \in InFlight /\ InFlight' = InFlight \ {sub[c]}
  <1> DEFINE Waits(d, r) == spc[d] \in {"push", "uncount"} /\ sub[d] = r
  <1>0. /\ spc \in [Clients -> {"idle", "strdup", "count", "push", "uncount"}]
        /\ sub \in [Clients -> Tasks \cup {NoTask}] /\ Submitting
        /\ Clients \subseteq Pushers
        /\ UNCHANGED <<task, pc, wait_tasks, fifo, polling, got>>
    BY DEF AioInv, FieldTypes, Pushers, Count, Uncount, vars, listVars, pollVars
  <1>1. PICK g \in Tasks : g = sub[c]
    BY <1>0 DEF Count, Uncount, Submitting
  <1>2. SubmittedBy(c, g) /\ ppc[c] = "idle" /\ spc[c] \in {"count", "uncount"}
    BY <1>0, <1>1 DEF Count, Uncount, SubmittedBy, Submitting
  <1>3. \A r \in Tasks : /\ Queued(r)' <=> Queued(r)
                         /\ Carried(r)' <=> Carried(r)
                         /\ InList(r)' <=> InList(r)
                         /\ Advancing(r)' <=> Advancing(r)
                         /\ Submitted(r) <=> \E d \in Clients : Waits(d, r)
                         /\ Submitted(r)' <=> \E d \in Clients : Waits(d, r)'
    BY <1>0 DEF Queued, Carried, HeldBy, Holding, Held, InList, Listed, Advancing, Submitted,
       BeingPushed, Refused
  <1>4. /\ ~InList(g) /\ ~Advancing(g) /\ ~Carried(g)
        /\ \A d \in Clients : SubmittedBy(d, g) => d = c
    BY <1>2, NotYetPushed DEF TakenBy, Taking, Advancing, Carried
  <1>5. ~Queued(g)
    <2>1. block[g] \in {"none", "refused"}
      BY <1>2 DEF AioInv, Requests, RequestAt
    <2> QED
      BY <2>1 DEF AioInv, PoolInv, OneOwner
  <1>6. \A d \in Clients, r \in Tasks : Waits(d, r) => SubmittedBy(d, r)
    BY DEF SubmittedBy
  <1>7. \A d \in Clients, r \in Tasks :
            /\ Count(c) => (Waits(d, r)' <=> Waits(d, r) \/ (d = c /\ r = g))
            /\ Uncount(c) => (Waits(d, r)' <=> Waits(d, r) /\ d # c)
    BY <1>0, <1>1 DEF Count, Uncount
  <1>8. /\ Count(c) => spc[c] = "count"
        /\ Uncount(c) => Waits(c, g) /\ \A r \in Tasks : Waits(c, r) => r = g
    BY <1>1 DEF Count, Uncount
  <1>9. Waits(c, g) => ~Count(c)
    BY <1>8
  <1> HIDE DEF Waits
  <1>10. ASSUME Count(c) PROVE ~Inside(g) /\ \A r \in Tasks : Inside(r)' <=> Inside(r) \/ r = g
    <2>1. ~Submitted(g)
      BY <1>3, <1>4, <1>6, <1>9, <1>10
    <2> QED
      BY <1>3, <1>4, <1>5, <1>7, <1>10, <2>1 DEF Inside
  <1>11. ASSUME Uncount(c) PROVE Inside(g) /\ \A r \in Tasks : Inside(r)' <=> Inside(r) /\ r # g
    <2>1. \A r \in Tasks : Submitted(r)' <=> Submitted(r) /\ r # g
      BY <1>3, <1>4, <1>6, <1>7, <1>8, <1>11
    <2>2. Submitted(g)
      BY <1>3, <1>8, <1>11
    <2> QED
      BY <1>3, <1>4, <1>5, <2>1, <2>2 DEF Inside
  <1> QED
    BY <1>1, <1>10, <1>11, InFlightByPlace

(* The other steps change neither the counters nor the set.                *)
LEMMA InFlightKept ==
    ASSUME AioInv, AioNext,
           \A c \in Clients : ~Count(c) /\ ~Uncount(c),
           \A c \in Pollers : ~PollTail(c)
    PROVE  InFlight' = InFlight /\ UNCHANGED countVars
  <1> DEFINE Kept == \A r \in Tasks : Inside(r)' <=> Inside(r)
  <1>1. ASSUME Elsewhere PROVE Kept
    <2>1. \A r \in Tasks : /\ InList(r)' <=> InList(r)
                           /\ Advancing(r)' <=> Advancing(r)
      BY <1>1, ElsewhereQuiet DEF InList, Listed, Advancing, listVars, pollVars
    <2>2. CASE InitStep \/ NoAio \/ \E w \in Workers : PoolStep(w) \/ PoolSpurious(w)
      <3>1. \A r \in Tasks : Queued(r)' \/ Carried(r)' <=> Queued(r) \/ Carried(r)
        BY <2>2, CarriedByPool
      <3>2. UNCHANGED <<spc, sub>>
        BY <2>2 DEF InitStep, NoAio, OpenPipe, SetNonblock, NewPool, InitReturns, PoolStep,
           PoolSpurious, aioVars, submitVars
      <3>3. \A r \in Tasks : Submitted(r)' <=> Submitted(r)
        BY <3>2 DEF Submitted, BeingPushed, Refused
      <3> QED
        BY <2>1, <3>1, <3>3 DEF Inside
    <2>3. ASSUME NEW c \in Clients, SubmitStep(c) \/ \E t \in Tasks : NewRequest(c, t)
          PROVE  Kept
      BY <2>1, <2>3, SubmittedByClient DEF Inside
    <2> QED
      BY <1>1, <2>2, <2>3 DEF Elsewhere
  <1>2. ASSUME NEW w \in Workers, FinishHead(w) \/ FinishTail(w) \/ FinishNotify(w) PROVE Kept
    BY <1>2, LinkedStaysInside
  <1>3. ASSUME NEW c \in Pollers, PollStep(c) \/ PollAnyway(c) PROVE Kept
    BY <1>3, TakenStaysInside
  <1>4. Kept
    BY <1>1, <1>2, <1>3, WhereAStepIs
  <1>5. UNCHANGED countVars
    BY DEF AioNext, InitStep, NoAio, OpenPipe, SetNonblock, NewPool, InitReturns, AioWorkerStep,
       PoolStep, FinishHead, FinishTail, FinishNotify, PoolSpurious, NewRequest, SubmitStep,
       CopyPath, SubmitAlloc, SubmitNoMem, SubmitLock, SubmitLink, PollStep, Select, Drain,
       PollEmpty, PollHead, Deliver, PollFree, PollAnyway, aioVars
  <1> QED
    BY <1>4, <1>5, InFlightByPlace

(* A counted set loses an element.                                         *)
LEMMA OneLess ==
    ASSUME NEW S, IsFiniteSet(S), NEW r \in S
    PROVE  /\ IsFiniteSet(S \ {r}) /\ Cardinality(S \ {r}) \in Nat
           /\ Cardinality(S \ {r}) = Cardinality(S) - 1
  <1>1. IsFiniteSet(S \ {r}) /\ Cardinality(S \ {r}) = Cardinality(S) - 1
    BY FS_RemoveElement
  <1> QED
    BY <1>1, FS_CardinalityType

(* What the counters say, as an inductive invariant on top of AioInv.      *)
CountInv == /\ IsFiniteSet(InFlight) /\ nreqs \in Nat /\ ncoms \in Nat
            /\ nreqs - ncoms = Cardinality(InFlight)

(***************************************************************************)
(* nreqs - ncoms, which both run under aio.lock, is at every moment the    *)
(* number of requests from jk_aio_submit's count to jk_aio_poll's: the     *)
(* unsigned difference never wraps, and a refused push is taken back.      *)
(***************************************************************************)
THEOREM InFlightIsExact == AioSpec => []InFlightExact
  <1>1. AioInit => CountInv
    <2> SUFFICES ASSUME AioInit PROVE CountInv
      OBVIOUS
    <2>1. InFlight = {}
      BY DEF AioInit, Init, InFlight, BeingPushed, Refused, Advancing, Queued, HeldBy, Holding
    <2> QED
      BY <2>1, FS_EmptySet DEF AioInit, CountInv
  <1>2. ASSUME AioInv, CountInv, [AioNext]_aioVars PROVE CountInv'
    <2> USE <1>2 DEF CountInv
    <2>2. ASSUME NEW c \in Clients, Count(c) PROVE CountInv'
      <3>1. sub[c] \notin InFlight /\ InFlight' = InFlight \cup {sub[c]}
        BY <2>2, CountedMoves
      <3>2. /\ IsFiniteSet(InFlight') /\ Cardinality(InFlight') = Cardinality(InFlight) + 1
        BY <3>1, FS_AddElement
      <3> QED
        BY <2>2, <3>2, FS_CardinalityType DEF Count
    <2>3. ASSUME NEW c \in Clients, Uncount(c) PROVE CountInv'
      <3>1. sub[c] \in InFlight /\ InFlight' = InFlight \ {sub[c]}
        BY <2>3, CountedMoves
      <3>2. nreqs' = nreqs - 1 /\ ncoms' = ncoms
        BY <2>3 DEF Uncount, UncountRequest
      <3>3. PICK rest : rest = InFlight \ {sub[c]}
        OBVIOUS
      <3>4. /\ IsFiniteSet(rest) /\ Cardinality(rest) \in Nat
            /\ Cardinality(rest) = Cardinality(InFlight) - 1
        BY <3>1, <3>3, OneLess
      <3>5. nreqs' \in Nat /\ ncoms' \in Nat /\ nreqs' - ncoms' = Cardinality(rest)
        BY <3>2, <3>4
      <3> QED
        BY <3>1, <3>3, <3>4, <3>5
    <2>4. ASSUME NEW c \in Pollers, PollTail(c) PROVE CountInv'
      <3>1. got[c] \in InFlight /\ InFlight' = InFlight \ {got[c]}
        BY <2>4, TailLeaves
      <3>2. nreqs' = nreqs /\ ncoms' = ncoms + 1
        BY <2>4 DEF PollTail
      <3>3. PICK rest : rest = InFlight \ {got[c]}
        OBVIOUS
      <3>4. /\ IsFiniteSet(rest) /\ Cardinality(rest) \in Nat
            /\ Cardinality(rest) = Cardinality(InFlight) - 1
        BY <3>1, <3>3, OneLess
      <3>5. nreqs' \in Nat /\ ncoms' \in Nat /\ nreqs' - ncoms' = Cardinality(rest)
        BY <3>2, <3>4
      <3> QED
        BY <3>1, <3>3, <3>4, <3>5
    <2>5. CASE AioNext /\ (\A c \in Clients : ~Count(c) /\ ~Uncount(c))
                       /\ (\A c \in Pollers : ~PollTail(c))
      BY <2>5, InFlightKept DEF countVars
    <2>6. CASE UNCHANGED aioVars
      <3>1. UNCHANGED <<nreqs, ncoms>> /\ InFlight' = InFlight
        BY <2>6 DEF aioVars, vars, countVars, submitVars, pollVars, listVars, InFlight,
           BeingPushed, Refused, Advancing, Queued, HeldBy, Holding, Held
      <3> QED
        BY <3>1
    <2> QED
      BY <2>2, <2>3, <2>4, <2>5, <2>6
  <1>3. AioInv /\ CountInv => InFlightExact
    BY DEF AioInv, CountInv, InFlightExact, AioTypeOK
  <1> QED
    BY <1>1, <1>2, <1>3, AioInvariant, PTL DEF AioSpec

-----------------------------------------------------------------------------
(* The stage of a request, by its place.                                   *)
Completed(r) == InList(r) \/ \E c \in Pollers : TakenBy(c, r)
StageOf(r) == IF delivered[r] > 0 THEN "delivered"
              ELSE IF Completed(r) THEN "completed"
              ELSE IF Queued(r) \/ Carried(r) THEN "accepted"
              ELSE "new"

(* A worker that has still to free the task of a request may do so after   *)
(* the request has gone further; until then the worker says where it is.   *)
LEMMA StageByPlace == AioInv => stage = [r \in Tasks |-> StageOf(r)]
  <1> SUFFICES ASSUME AioInv PROVE stage = [r \in Tasks |-> StageOf(r)]
    OBVIOUS
  <1>1. ASSUME NEW r \in Tasks
        PROVE  StageOf(r) = IF delivered[r] > 0 THEN "delivered"
                            ELSE IF \/ \E i \in DOMAIN fifo : fifo[i] = r
                                    \/ \E c \in Pollers : got[c] = r THEN "completed"
                            ELSE IF Queued(r) \/ \E w \in Workers : HeldBy(w, r) THEN "accepted"
                            ELSE "new"
    <2>1. \A c \in Pollers : got[c] = r <=> TakenBy(c, r)
      BY PoolAssumption DEF AioInv, Requests, TakenBy
    <2>2. ASSUME NEW w \in Workers, HeldBy(w, r), pc[w] = "free"
          PROVE  delivered[r] > 0 \/ Completed(r)
      <3>1. WasLinked(r) /\ RequestAt(r)
        BY <2>2 DEF WasLinked, Linking, AioInv, Requests
      <3> QED
        BY <3>1 DEF RequestAt, Completed
    <2> QED
      BY <2>1, <2>2 DEF StageOf, Completed, InList, Listed, Carried
  <1> QED
    BY <1>1 DEF stage

LEMMA StageByPlaceAfter == AioInv' => (stage = [r \in Tasks |-> StageOf(r)])'
  BY StageByPlace, PTL

(* With one poller, what it has taken stands before the rest of the list.  *)
LEMMA CompletedWithOne ==
    ASSUME NEW p, Pollers = {p}
    PROVE  /\ completed = IF polling[p] \in {"tail", "deliver"} THEN <<got[p]>> \o fifo
                                                                 ELSE fifo
           /\ completed' = IF polling'[p] \in {"tail", "deliver"} THEN <<got'[p]>> \o fifo'
                                                                   ELSE fifo'
  <1>1. Taken = IF polling[p] \in {"tail", "deliver"} THEN {p} ELSE {}
    BY DEF Taken
  <1>2. Taken' = IF polling'[p] \in {"tail", "deliver"} THEN {p} ELSE {}
    BY DEF Taken
  <1>3. (CHOOSE c \in {p} : TRUE) = p
    OBVIOUS
  <1> QED
    BY <1>1, <1>2, <1>3 DEF completed

LEMMA CompletedKept ==
    ASSUME NEW p, Pollers = {p}, fifo' = fifo, got'[p] = got[p],
           polling'[p] \in {"tail", "deliver"} <=> polling[p] \in {"tail", "deliver"}
    PROVE  completed' = completed
  <1>1. CASE polling[p] \in {"tail", "deliver"}
    BY <1>1, CompletedWithOne
  <1>2. CASE polling[p] \notin {"tail", "deliver"}
    BY <1>2, CompletedWithOne
  <1> QED
    BY <1>1, <1>2

(* A step that takes no request from one stage to the next.                *)
LEMMA StagesKept ==
    ASSUME AioInv, AioInv',
           \A r \in Tasks :
              /\ delivered'[r] = delivered[r]
              /\ delivered[r] = 0 => (Completed(r)' <=> Completed(r))
              /\ delivered[r] = 0 /\ ~Completed(r)
                    => (Queued(r)' \/ Carried(r)' <=> Queued(r) \/ Carried(r))
    PROVE  stage' = stage
  <1>1. \A r \in Tasks : delivered[r] \in Nat
    BY DEF AioInv, FieldTypes
  <1>2. \A r \in Tasks : StageOf(r)' = StageOf(r)
    BY <1>1 DEF StageOf
  <1> QED
    BY <1>2, StageByPlace, StageByPlaceAfter

(* A request that changes its stage alone.                                 *)
LEMMA StageMoves ==
    ASSUME AioInv, AioInv', NEW h \in Tasks, \A r \in Tasks : r # h => StageOf(r)' = StageOf(r)
    PROVE  stage[h] = StageOf(h) /\ stage' = [stage EXCEPT ![h] = StageOf(h)']
  <1>1. stage = [r \in Tasks |-> StageOf(r)] /\ stage' = [r \in Tasks |-> StageOf(r)']
    BY StageByPlace, StageByPlaceAfter
  <1> HIDE DEF stage
  <1> QED
    BY <1>1

(* jk_thread_pool_push links the task: the request is accepted.            *)
LEMMA LinkAccepts ==
    ASSUME AioInv, AioInv', NEW p, Pollers = {p}, NEW c \in Clients, SubmitLink(c)
    PROVE  \E r \in Tasks : Service!Accept(r)
  <1>1. SubmitStep(c) /\ ~Count(c) /\ ~Uncount(c) /\ Elsewhere
    BY DEF SubmitStep, SubmitLink, PushLink, Count, Uncount, Elsewhere, AioInv, Submitting
  <1>2. UNCHANGED <<fifo, polling, got, delivered>>
    BY <1>1, ElsewhereQuiet DEF listVars, pollVars
  <1>3. /\ spc[c] = "push" /\ ppc[c] = "link" /\ sub[c] \in Tasks /\ next[c] = wait_tasks
        /\ SubmittedBy(c, sub[c])
    BY DEF SubmitLink, PushLink, Submitting, SubmittedBy, AioInv, PoolInv, Core, LockDiscipline,
       Pushers
  <1>4. PICK h \in Tasks : h = sub[c]
    BY <1>3
  <1>5. node[c] = h /\ PushedBy(c, h)
    BY <1>3, <1>4 DEF AioInv, Requests, RequestAt, PushedBy
  <1>6. /\ ~InList(h) /\ \A d \in Pollers : ~TakenBy(d, h)
        /\ delivered[h] = 0 /\ \A w \in Workers : ~HeldBy(w, h)
    BY <1>3, <1>4, NotYetPushed
  <1>7. ~Queued(h)
    BY <1>5 DEF AioInv, PoolInv, OneOwner, Pushers
  <1>8. \A r \in Tasks : Queued(r)' <=> Queued(r) \/ r = h
    <2>1. wait_tasks \in Seq(Tasks) /\ wait_tasks' = <<h>> \o wait_tasks
      BY <1>3, <1>5 DEF SubmitLink, PushLink, AioInv, PoolInv, Core, TypeOK
    <2>2. \A r : (Queued(r) <=> Listed(wait_tasks, r)) /\ (Queued(r)' <=> Listed(wait_tasks', r))
      BY DEF Queued, Listed
    <2>3. \A r : Listed(<<h>> \o wait_tasks, r) <=> r = h \/ Listed(wait_tasks, r)
      BY <2>1, ListedInFront
    <2> QED
      BY <2>1, <2>2, <2>3
  <1>9. \A r \in Tasks : Carried(r)' <=> Carried(r)
    <2>1. /\ task' = task
          /\ \A w \in Workers : pc'[w] = pc[w] \/ (pc[w] = "sleep" /\ pc'[w] = "lock")
      BY DEF SubmitLink, PushLink, SignalWorker, Sleepers, AioInv, PoolInv, Core, TypeOK
    <2> QED
      BY <2>1 DEF Carried, HeldBy, Holding, Held
  <1>10. \A r \in Tasks : Completed(r)' <=> Completed(r)
    BY <1>2 DEF Completed, InList, Listed, TakenBy, Taking
  <1>11. \A r \in Tasks : r # h => StageOf(r)' = StageOf(r)
    BY <1>2, <1>8, <1>9, <1>10 DEF StageOf
  <1>12. StageOf(h) = "new" /\ StageOf(h)' = "accepted"
    BY <1>2, <1>6, <1>7, <1>8, <1>10 DEF StageOf, Completed, Carried
  <1>13. stage[h] = "new" /\ stage' = [stage EXCEPT ![h] = "accepted"]
    BY <1>11, <1>12, StageMoves
  <1>14. completed' = completed
    BY <1>2, CompletedKept
  <1> QED
    BY <1>13, <1>14 DEF Service!Accept

(* The worker links the request to the list: it is completed.              *)
LEMMA TailCompletes ==
    ASSUME AioInv, AioInv', NEW p, Pollers = {p}, NEW w \in Workers, FinishTail(w)
    PROVE  \E r \in Tasks : Service!Complete(r)
  <1>1. Linking(w) /\ pc[w] = "finish" /\ fifo \in Seq(Tasks) /\ aioLock = w
        /\ got \in [Pollers -> Tasks \cup {NoTask}]
    BY DEF FinishTail, AioInv, AioLocking, Linking, FieldTypes
  <1>2. PICK h \in Tasks : h = Held(w)
    BY <1>1, NotYetLinked
  <1>3. /\ HeldBy(w, h) /\ ~InList(h) /\ delivered[h] = 0
        /\ \A c \in Pollers : ~TakenBy(c, h)
    BY <1>1, <1>2, NotYetLinked
  <1>4. /\ fifo' = Append(fifo, h)
        /\ UNCHANGED <<polling, got, delivered, pc, task, wait_tasks>>
    BY <1>2 DEF FinishTail, pollVars, vars
  <1>5. \A r : InList(r)' <=> r = h \/ InList(r)
    BY <1>1, <1>4, ListedByAppend DEF InList
  <1>6. \A r \in Tasks : /\ Queued(r)' <=> Queued(r)
                         /\ Carried(r)' <=> Carried(r)
                         /\ \A c \in Pollers : TakenBy(c, r)' <=> TakenBy(c, r)
    BY <1>4 DEF Queued, Carried, HeldBy, Holding, Held, TakenBy, Taking
  <1>7. \A r \in Tasks : r # h => StageOf(r)' = StageOf(r)
    BY <1>4, <1>5, <1>6 DEF StageOf, Completed
  <1>8. StageOf(h) = "accepted" /\ StageOf(h)' = "completed"
    <2>1. Carried(h)
      BY <1>1, <1>3 DEF Carried
    <2> QED
      BY <1>3, <1>4, <1>5, <2>1 DEF StageOf, Completed
  <1>9. stage[h] = "accepted" /\ stage' = [stage EXCEPT ![h] = "completed"]
    BY <1>7, <1>8, StageMoves
  <1>10. completed' = Append(completed, h)
    <2>1. CASE polling[p] \in {"tail", "deliver"}
      <3>1. got[p] \in Tasks
        BY <2>1 DEF AioInv, Requests, Taking
      <3>2. Append(<<got[p]>> \o fifo, h) = <<got[p]>> \o Append(fifo, h)
        BY <1>1, <3>1
      <3> QED
        BY <1>4, <2>1, <3>2, CompletedWithOne
    <2>2. CASE polling[p] \notin {"tail", "deliver"}
      BY <1>4, <2>2, CompletedWithOne
    <2> QED
      BY <2>1, <2>2
  <1> QED
    BY <1>9, <1>10 DEF Service!Complete

(* The poller calls the callback of the request it has taken.              *)
LEMMA CallbackDelivers ==
    ASSUME AioInv, AioInv', NEW p, Pollers = {p}, Deliver(p)
    PROVE  Service!Deliver
  <1>1. /\ polling[p] = "deliver" /\ got[p] \in Tasks /\ TakenBy(p, got[p])
        /\ polling \in [Pollers -> {"idle", "drain", "poll", "tail", "deliver", "callback"}]
        /\ delivered \in [Tasks -> Nat] /\ fifo \in Seq(Tasks)
    BY DEF Deliver, AioInv, Requests, Taking, TakenBy, FieldTypes
  <1>2. PICK h \in Tasks : h = got[p]
    BY <1>1
  <1>3. /\ UNCHANGED <<fifo, got, pc, task, wait_tasks>>
        /\ polling'[p] = "callback"
        /\ delivered' = [delivered EXCEPT ![h] = @ + 1]
    BY <1>1, <1>2 DEF Deliver, listVars, vars
  <1>4. delivered[h] = 0
    BY <1>1, <1>2 DEF AioInv, Requests, RequestAt
  <1>5. \A r \in Tasks : /\ Queued(r)' <=> Queued(r)
                         /\ Carried(r)' <=> Carried(r)
                         /\ Completed(r)' <=> Completed(r)
    BY <1>1, <1>3 DEF Queued, Carried, HeldBy, Holding, Held, Completed, InList, Listed,
       TakenBy, Taking
  <1>6. \A r \in Tasks : r # h => StageOf(r)' = StageOf(r)
    BY <1>1, <1>3, <1>5 DEF StageOf
  <1>7. StageOf(h)' = "delivered"
    BY <1>1, <1>3, <1>4 DEF StageOf
  <1>8. stage' = [stage EXCEPT ![h] = "delivered"]
    BY <1>6, <1>7, StageMoves
  <1>9. completed = <<h>> \o fifo /\ completed' = fifo
    BY <1>1, <1>2, <1>3, CompletedWithOne
  <1>10. Head(<<h>> \o fifo) = h /\ Tail(<<h>> \o fifo) = fifo /\ <<h>> \o fifo # <<>>
    BY <1>1
  <1> QED
    BY <1>8, <1>9, <1>10 DEF Service!Deliver

(* Every other step is invisible.                                          *)
LEMMA OtherwiseInvisible ==
    ASSUME AioInv, AioInv', NEW p, Pollers = {p}, AioNext,
           \A c \in Clients : ~SubmitLink(c), \A w \in Workers : ~FinishTail(w), ~Deliver(p)
    PROVE  UNCHANGED <<stage, completed>>
  <1>0. /\ polling \in [Pollers -> {"idle", "drain", "poll", "tail", "deliver", "callback"}]
        /\ got \in [Pollers -> Tasks \cup {NoTask}] /\ fifo \in Seq(Tasks)
    BY DEF AioInv, FieldTypes
  <1>1. ASSUME Elsewhere PROVE UNCHANGED <<stage, completed>>
    <2>1. UNCHANGED <<fifo, polling, got, delivered>>
      BY <1>1, ElsewhereQuiet DEF listVars, pollVars
    <2>2. \A r \in Tasks : Completed(r)' <=> Completed(r)
      BY <2>1 DEF Completed, InList, Listed, TakenBy, Taking
    <2>3. \A r \in Tasks : Queued(r)' \/ Carried(r)' <=> Queued(r) \/ Carried(r)
      <3>1. CASE InitStep \/ NoAio \/ \E w \in Workers : PoolStep(w) \/ PoolSpurious(w)
        BY <3>1, CarriedByPool
      <3>2. ASSUME NEW c \in Clients, SubmitStep(c) \/ \E r \in Tasks : NewRequest(c, r)
            PROVE  UNCHANGED <<pc, task, wait_tasks>>
        BY <3>2 DEF SubmitStep, NewRequest, CopyPath, Count, SubmitAlloc, SubmitNoMem,
           SubmitLock, Uncount, PushAlloc, PushNoMem, PushLock, vars
      <3>3. UNCHANGED <<pc, task, wait_tasks>> =>
                \A r \in Tasks : Queued(r)' \/ Carried(r)' <=> Queued(r) \/ Carried(r)
        BY DEF Queued, Carried, HeldBy, Holding, Held
      <3> QED
        BY <1>1, <3>1, <3>2, <3>3 DEF Elsewhere
    <2>4. stage' = stage
      BY <2>1, <2>2, <2>3, StagesKept
    <2> QED
      BY <2>1, <2>4, CompletedKept
  <1>2. ASSUME NEW w \in Workers, FinishHead(w) \/ FinishNotify(w)
        PROVE  UNCHANGED <<stage, completed>>
    <2>1. /\ UNCHANGED <<fifo, polling, got, delivered, task, wait_tasks>>
          /\ \A v \in Workers : v # w => pc'[v] = pc[v]
          /\ pc[w] = "finish" /\ pc'[w] \in {"finish", "free"}
          /\ FinishNotify(w) => InList(Held(w))
          /\ FinishHead(w) => pc' = pc
      BY <1>2 DEF FinishHead, FinishNotify, Finish, AioInv, PoolInv, Core, TypeOK, AioLocking,
         Requests, listVars, pollVars, vars
    <2>2. \A r \in Tasks : Completed(r)' <=> Completed(r)
      BY <2>1 DEF Completed, InList, Listed, TakenBy, Taking
    <2>3. \A r \in Tasks : Queued(r)' <=> Queued(r)
      BY <2>1 DEF Queued
    <2>4. ASSUME NEW r \in Tasks, ~Completed(r) PROVE Carried(r)' <=> Carried(r)
      <3>1. \A v \in Workers : v # w => (HeldBy(v, r)' <=> HeldBy(v, r))
        BY <2>1 DEF HeldBy, Holding, Held
      <3>2. HeldBy(w, r)' /\ pc'[w] # "free" <=> HeldBy(w, r) /\ pc[w] # "free"
        BY <1>2, <2>1, <2>4 DEF HeldBy, Holding, Held, Completed
      <3> QED
        BY <2>1, <3>1, <3>2 DEF Carried
    <2>5. stage' = stage
      BY <2>1, <2>2, <2>3, <2>4, StagesKept
    <2> QED
      BY <2>1, <2>5, CompletedKept
  <1>3. ASSUME PollStep(p) \/ PollAnyway(p) PROVE UNCHANGED <<stage, completed>>
    <2>1. UNCHANGED <<delivered, pc, task, wait_tasks>>
      BY <1>3 DEF PollStep, PollAnyway, Select, Drain, PollEmpty, PollHead, PollTail, PollFree,
         vars
    <2>2. \A r \in Tasks : Queued(r)' \/ Carried(r)' <=> Queued(r) \/ Carried(r)
      BY <2>1 DEF Queued, Carried, HeldBy, Holding, Held
    <2>3. CASE PollHead(p)
      <3>1. /\ fifo # <<>> /\ rhead = Head(fifo) /\ NoRepeats(fifo) /\ fifo' = Tail(fifo)
            /\ polling[p] = "poll" /\ polling'[p] = "tail" /\ got'[p] = rhead
        BY <1>0, <2>3, HeadOfList DEF PollHead, AioInv, ListLinked
      <3>2. InList(rhead) /\ \A r : InList(r)' <=> InList(r) /\ r # rhead
        BY <1>0, <3>1, ListedBehind DEF InList
      <3>3. \A r : ~TakenBy(p, r) /\ (TakenBy(p, r)' <=> r = rhead)
        BY <3>1 DEF TakenBy, Taking
      <3>4. \A r \in Tasks : Completed(r)' <=> Completed(r)
        BY <3>2, <3>3 DEF Completed
      <3>5. stage' = stage
        BY <2>1, <2>2, <3>4, StagesKept
      <3>6. <<Head(fifo)>> \o Tail(fifo) = fifo
        BY <1>0, <3>1
      <3>7. completed' = completed
        BY <3>1, <3>6, CompletedWithOne
      <3> QED
        BY <3>5, <3>7
    <2>4. CASE PollFree(p)
      <3>1. /\ fifo' = fifo /\ polling[p] = "callback" /\ polling'[p] = "poll"
        BY <1>0, <2>4 DEF PollFree, NextPoll, listVars
      <3>2. \A r \in Tasks : /\ TakenBy(p, r) => delivered[r] = 1
                             /\ ~TakenBy(p, r)'
        BY <3>1 DEF AioInv, Requests, RequestAt, TakenBy, Taking
      <3>3. \A r \in Tasks : delivered[r] = 0 => (Completed(r)' <=> Completed(r))
        BY <3>1, <3>2 DEF Completed, InList, Listed
      <3>4. stage' = stage
        BY <2>1, <2>2, <3>3, StagesKept
      <3> QED
        BY <3>1, <3>4, CompletedWithOne
    <2>5. CASE Select(p) \/ Drain(p) \/ PollEmpty(p) \/ PollTail(p) \/ PollAnyway(p)
      <3>1. /\ UNCHANGED <<fifo, got>>
            /\ Taking(p)' <=> Taking(p)
            /\ polling'[p] \in {"tail", "deliver"} <=> polling[p] \in {"tail", "deliver"}
        BY <1>0, <2>5 DEF Select, Drain, PollEmpty, PollTail, PollAnyway, Taking, listVars
      <3>2. \A r \in Tasks : Completed(r)' <=> Completed(r)
        BY <3>1 DEF Completed, InList, Listed, TakenBy
      <3>3. stage' = stage
        BY <2>1, <2>2, <3>2, StagesKept
      <3> QED
        BY <3>1, <3>3, CompletedKept
    <2> QED
      BY <1>3, <2>3, <2>4, <2>5 DEF PollStep
  <1> QED
    BY <1>1, <1>2, <1>3, WhereAStepIs

LEMMA ServiceStep ==
    ASSUME NEW p, Pollers = {p}, AioInv, [AioNext]_aioVars
    PROVE  [Service!Next]_(Service!vars)
  <1>1. AioInv'
    BY AioStep
  <1>2. CASE UNCHANGED aioVars
    <2>1. UNCHANGED <<fifo, got, polling, delivered, wait_tasks, pc, task>>
      BY <1>2 DEF aioVars, listVars, pollVars, vars
    <2>2. stage' = stage
      BY <2>1 DEF stage, Queued, HeldBy, Holding, Held
    <2>3. completed' = completed
      BY <2>1, CompletedKept
    <2> QED
      BY <2>2, <2>3 DEF Service!vars
  <1>3. CASE AioNext
    BY <1>1, <1>3, LinkAccepts, TailCompletes, CallbackDelivers, OtherwiseInvisible
    DEF Service!Next, Service!vars
  <1> QED
    BY <1>2, <1>3

(***************************************************************************)
(* With one poller jk_aio is an AioService: linking the pool's task        *)
(* accepts a request, linking the request to the list completes it, and    *)
(* callbacks are called in the order of completion.                        *)
(***************************************************************************)
THEOREM AioImplementsService ==
    ASSUME NEW p, Pollers = {p}
    PROVE  AioSpec => ImplementsService
  <1>1. AioInit => Service!Init
    <2> SUFFICES ASSUME AioInit PROVE Service!Init
      OBVIOUS
    <2>1. stage = [r \in Tasks |-> "new"]
      BY PoolAssumption DEF AioInit, Init, stage, Queued, HeldBy, Holding
    <2>2. completed = <<>>
      BY CompletedWithOne DEF AioInit
    <2> QED
      BY <2>1, <2>2 DEF Service!Init
  <1>2. AioInv /\ [AioNext]_aioVars => [Service!Next]_(Service!vars)
    BY ServiceStep
  <1> QED
    BY <1>1, <1>2, AioInvariant, PTL DEF AioSpec, ImplementsService, Service!Spec
=============================================================================
