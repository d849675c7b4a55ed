------------------------------ MODULE EventProofs ------------------------------
(***************************************************************************)
(* The table of handlers and the kernel agree, for each backend and for    *)
(* any number of descriptors and handlers.                                 *)
(***************************************************************************)
EXTENDS Event, Iteration

(* A nonempty set of integers with a bound has a largest element.          *)
LEMMA HasLargest ==
    ASSUME NEW a \in Int, NEW b \in Int, NEW S \in SUBSET (a..b), S # {}
    PROVE  \E x \in S : \A y \in S : x >= y
  <1> DEFINE T == {b - x : x \in S}
  <1>0. \A x \in S : b - x \in Nat /\ b - x \in T /\ x \in Int
    OBVIOUS
  <1>1. T \in SUBSET Nat /\ T # {}
    <2>1. T \subseteq Nat
      BY <1>0
    <2>2. T # {}
      OBVIOUS
    <2> HIDE DEF T
    <2> QED
      BY <2>1, <2>2
  <1>2. PICK t \in T : \A u \in T : t <= u
    <2> HIDE DEF T
    <2> QED
      BY <1>1, LeastNumber
  <1>3. PICK x \in S : t = b - x
    OBVIOUS
  <1>4. \A y \in S : b - x <= b - y /\ y \in Int
    <2> HIDE DEF T
    <2> QED
      BY <1>0, <1>2, <1>3
  <1> QED
    BY <1>4

LEMMA MaxIsLargest ==
    ASSUME NEW a \in Int, NEW b \in Int, NEW S \in SUBSET (a..b), S # {}
    PROVE  Max(S) \in S /\ \A y \in S : Max(S) >= y
  BY HasLargest DEF Max

-----------------------------------------------------------------------------
(* TableMatchesKernel is inductive, in three parts.                        *)
Synced == \A fd \in Fds \ doubt : kernel[fd] = event[fd]

Handled == \A fd \in Fds : \A e \in event[fd] : handler[fd][e] # Nobody

Reaches == backend = "select" => doubt = {} /\ \A fd \in Fds : event[fd] # {} => fd <= max_fd

LEMMA Parts == TableMatchesKernel <=> TypeOK /\ Synced /\ Handled /\ Reaches
  BY DEF TableMatchesKernel, Synced, Handled, Reaches

LEMMA Numbers == MaxEvents \in Nat \ {0} /\ -1 \in Int /\ MaxEvents-1 \in Int
  BY EventAssumption

LEMMA InvInit == Init => TableMatchesKernel
  <1> SUFFICES ASSUME Init PROVE TableMatchesKernel
    OBVIOUS
  <1>1. /\ kernel = [fd \in Fds |-> {}] /\ event = [fd \in Fds |-> {}]
        /\ handler = [fd \in Fds |-> [e \in Events |-> Nobody]]
        /\ max_fd = -1 /\ doubt = {} /\ batch = {} /\ entry = {} /\ rfired = FALSE
        /\ stage = "none" /\ backend \in Backends /\ open \subseteq Fds
    BY EventAssumption DEF Init, NoEvents, NoHandlers, Fds
  <1>2. max_fd \in -1..MaxEvents-1
    BY <1>1, Numbers
  <1>3. TypeOK
    BY <1>1, <1>2 DEF TypeOK
  <1> QED
    BY <1>1, <1>3 DEF TableMatchesKernel

(* max_fd after an addition to the sets of select covers the descriptor.   *)
LEMMA MaxAfterAdd ==
    ASSUME TypeOK, NEW fd \in Fds, NEW evs, SelectAdd(fd, evs)
    PROVE  max_fd' \in -1..MaxEvents-1 /\ max_fd' >= fd /\ max_fd' >= max_fd
  <1> DEFINE S == {fd, max_fd}
  <1>1. S \in SUBSET (-1..MaxEvents-1)
    BY Numbers DEF TypeOK, Fds
  <1>2. max_fd' = Max(S)
    BY DEF SelectAdd
  <1>3. Max(S) \in S /\ \A y \in S : Max(S) >= y
    <2>1. S # {}
      OBVIOUS
    <2> HIDE DEF S
    <2> QED
      BY <1>1, <2>1, MaxIsLargest, Numbers
  <1> QED
    BY <1>1, <1>2, <1>3

(* The search from the end of the table never stops too early.             *)
LEMMA SearchFindsLargest ==
    ASSUME TypeOK
    PROVE  /\ HighestWatched \in -1..MaxEvents-1
           /\ \A fd \in Fds : event[fd] # {} => fd <= HighestWatched
  <1> DEFINE S == {-1} \cup {fd \in Fds : event[fd] # {}}
  <1>1. S \in SUBSET (-1..MaxEvents-1) /\ S # {}
    BY Numbers DEF Fds
  <1>3. HighestWatched = Max(S)
    BY DEF HighestWatched
  <1>4. \A fd \in Fds : event[fd] # {} => fd \in S
    OBVIOUS
  <1> HIDE DEF S
  <1>2. Max(S) \in S /\ \A y \in S : Max(S) >= y
    BY <1>1, MaxIsLargest, Numbers
  <1>5. Max(S) \in -1..MaxEvents-1
    BY <1>1, <1>2
  <1>6. Fds \subseteq Int /\ Max(S) \in Int
    BY <1>5, Numbers DEF Fds
  <1> QED
    BY <1>2, <1>3, <1>4, <1>5, <1>6

LEMMA AddKeeps ==
    ASSUME TableMatchesKernel, NEW fd \in Fds, NEW use \in Uses, Add(fd, use[1], use[2])
    PROVE  TableMatchesKernel'
  <1> DEFINE evs == use[1]
             h == use[2]
  <1>1. evs \in SUBSET Events /\ h \in Handlers /\ h # Nobody
    BY EventAssumption DEF Events
  <1>2. /\ event' = [event EXCEPT ![fd] = @ \cup evs]
        /\ handler' = [handler EXCEPT ![fd] = [e \in Events |-> IF e \in evs THEN h ELSE @[e]]]
        /\ doubt' = IF InSync(fd) THEN doubt \ {fd} ELSE doubt
        /\ UNCHANGED <<backend, open, loop>>
    BY DEF Add
  <1> HIDE DEF evs, h
  <1>3. /\ kernel' \in {[kernel EXCEPT ![fd] = event[fd] \cup evs],
                        [kernel EXCEPT ![fd] = @ \cup evs]}
        /\ backend # "select" => max_fd' = max_fd
        /\ backend = "select" => SelectAdd(fd, evs)
    BY DEF Add, EpollAdd, KqueueAdd, SelectAdd, MaskWith, evs
  <1>4. TypeOK
    BY Parts
  <1>5. /\ kernel' \in [Fds -> SUBSET Events] /\ event' \in [Fds -> SUBSET Events]
        /\ handler' \in [Fds -> [Events -> Handlers \cup {Nobody}]] /\ doubt' \subseteq Fds
    BY <1>1, <1>2, <1>3, <1>4 DEF TypeOK
  <1>6. /\ max_fd' \in -1..MaxEvents-1
        /\ backend = "select" => max_fd' >= fd /\ max_fd' >= max_fd
    BY <1>3, <1>4, MaxAfterAdd DEF TypeOK
  <1>7. TypeOK'
    BY <1>2, <1>4, <1>5, <1>6 DEF TypeOK, loop
  <1>8. Synced'
    BY <1>2, <1>3, <1>4, Parts DEF Synced, TypeOK, InSync
  <1>9. Handled'
    BY <1>1, <1>2, <1>4, Parts DEF Handled, TypeOK
  <1>10. Reaches'
    <2> SUFFICES ASSUME backend = "select"
                 PROVE  doubt' = {} /\ \A g \in Fds : event'[g] # {} => g <= max_fd'
      BY <1>2 DEF Reaches
    <2>1. doubt = {} /\ \A g \in Fds : event[g] # {} => g <= max_fd
      BY Parts DEF Reaches
    <2>2. doubt' = {}
      BY <1>2, <2>1
    <2>3. \A g \in Fds : event'[g] # {} => g = fd \/ event[g] # {}
      BY <1>2, <1>4 DEF TypeOK
    <2>4. Fds \subseteq Int /\ max_fd \in Int /\ max_fd' \in Int
      BY <1>4, <1>6, EventAssumption DEF TypeOK, Fds
    <2> QED
      BY <1>6, <2>1, <2>2, <2>3, <2>4
  <1> QED
    BY <1>7, <1>8, <1>9, <1>10 DEF TableMatchesKernel, Synced, Handled, Reaches

LEMMA DelKeeps ==
    ASSUME TableMatchesKernel, NEW fd \in Fds, NEW evs \in SUBSET Events, Del(fd, evs)
    PROVE  TableMatchesKernel'
  <1>1. TypeOK
    BY Parts
  <1>2. /\ event' = [event EXCEPT ![fd] = @ \ evs]
        /\ doubt' = IF InSync(fd) THEN doubt \ {fd} ELSE doubt
        /\ UNCHANGED <<backend, open, handler, loop>>
    BY DEF Del
  <1>3. /\ kernel' \in {[kernel EXCEPT ![fd] = event[fd] \ evs], [kernel EXCEPT ![fd] = @ \ evs]}
        /\ max_fd' = max_fd \/ max_fd' = HighestWatched
    BY DEF Del, EpollDel, KqueueDel, SelectDel
  <1>4. max_fd' \in -1..MaxEvents-1
    BY <1>1, <1>3, SearchFindsLargest DEF TypeOK
  <1>5. TypeOK'
    BY <1>1, <1>2, <1>3, <1>4 DEF TypeOK, loop
  <1>6. Synced'
    BY <1>1, <1>2, <1>3, Parts DEF Synced, TypeOK, InSync
  <1>7. Handled'
    BY <1>1, <1>2, Parts DEF Handled, TypeOK
  <1>8. Reaches'
    <2> SUFFICES ASSUME backend = "select"
                 PROVE  doubt' = {} /\ \A g \in Fds : event'[g] # {} => g <= max_fd'
      BY <1>2 DEF Reaches
    <2>1. doubt = {} /\ \A g \in Fds : event[g] # {} => g <= max_fd
      BY Parts DEF Reaches
    <2>2. \A g \in Fds : event'[g] # {} => event[g] # {}
      BY <1>1, <1>2 DEF TypeOK
    <2>3. \A g \in Fds : event[g] # {} => g <= max_fd'
      BY <1>1, <1>3, <2>1, SearchFindsLargest
    <2> QED
      BY <1>2, <2>1, <2>2, <2>3
  <1> QED
    BY <1>5, <1>6, <1>7, <1>8 DEF TableMatchesKernel, Synced, Handled, Reaches

(* What only kqueue and close do to the kernel puts a descriptor in doubt. *)
LEMMA DoubtKeeps ==
    ASSUME TableMatchesKernel, NEW fd \in Fds, AddHalf(fd) \/ DelHalf(fd) \/ CloseFd(fd)
    PROVE  TableMatchesKernel'
  <1>1. TypeOK
    BY Parts
  <1>2. /\ UNCHANGED <<backend, table, max_fd, loop>> /\ open' \subseteq open
        /\ \E w \in SUBSET Events : kernel' = [kernel EXCEPT ![fd] = w]
        /\ doubt' \subseteq doubt \cup {fd}
        /\ doubt \ {fd} \subseteq doubt'
        /\ fd \notin doubt' => kernel'[fd] = event[fd]
        /\ backend = "select" => kernel' = kernel /\ doubt' = doubt
    <2>1. CASE AddHalf(fd) \/ DelHalf(fd)
      <3>1. PICK filters \in SUBSET Events : HalfDone(fd, filters)
        BY <1>1, <2>1 DEF AddHalf, DelHalf, TypeOK, Events
      <3> QED
        BY <1>1, <3>1 DEF HalfDone, TypeOK
    <2>2. CASE CloseFd(fd)
      <3>1. /\ UNCHANGED <<backend, table, max_fd, loop>> /\ open' \subseteq open
            /\ kernel' = IF backend = "select" THEN kernel ELSE [kernel EXCEPT ![fd] = {}]
            /\ doubt' = IF kernel'[fd] = event[fd] THEN doubt ELSE doubt \cup {fd}
        BY <2>2 DEF CloseFd
      <3>2. kernel = [kernel EXCEPT ![fd] = kernel[fd]] /\ kernel[fd] \in SUBSET Events
        BY <1>1 DEF TypeOK
      <3>3. fd \notin doubt' => kernel'[fd] = event[fd]
        BY <3>1
      <3>4. backend = "select" => doubt = {} /\ kernel[fd] = event[fd]
        BY Parts DEF Reaches, Synced
      <3> QED
        BY <3>1, <3>2, <3>3, <3>4
    <2> QED
      BY <2>1, <2>2
  <1>3. TypeOK'
    BY <1>1, <1>2 DEF TypeOK, table, loop
  <1>4. Synced'
    BY <1>1, <1>2, Parts DEF Synced, TypeOK, table
  <1>5. Handled' /\ Reaches'
    BY <1>2, Parts DEF Handled, Reaches, table
  <1> QED
    BY <1>3, <1>4, <1>5 DEF TableMatchesKernel, Synced, Handled, Reaches

(* The steps of jk_event_process change neither the table nor the kernel.  *)
LEMMA ProcessKeeps ==
    ASSUME TableMatchesKernel,
           \/ \E R \in Reports : Process(R)
           \/ \E p \in ToVisit : Visit(p)
           \/ Leave \/ CallRead \/ PassRead \/ ReadReturns
           \/ CallWrite \/ PassWrite \/ WriteReturns
    PROVE  TableMatchesKernel'
  <1>1. TypeOK
    BY Parts
  <1>2. UNCHANGED <<backend, open, table, context, doubt>>
    BY DEF Process, Visit, Leave, CallRead, PassRead, ReadReturns, CallWrite, PassWrite,
           WriteReturns, Call, NextEntry
  <1>3. stage' \in {"idle", "next", "read", "reading", "write", "writing"}
    BY DEF Process, Visit, Leave, CallRead, PassRead, ReadReturns, CallWrite, PassWrite,
           WriteReturns, Call, NextEntry
  <1>4. rfired' \in BOOLEAN
    BY <1>1 DEF Process, Visit, Leave, CallRead, PassRead, ReadReturns, CallWrite, PassWrite,
           WriteReturns, Call, NextEntry, TypeOK
  <1>5. batch' \subseteq Fds \X Events /\ entry' \subseteq Fds \X Events
    <2>1. ASSUME NEW R \in Reports, Process(R) PROVE batch' \subseteq Fds \X Events
      <3>1. R \subseteq Asked
        BY <1>1, EventAssumption DEF Reports, TypeOK
      <3> QED
        BY <2>1, <3>1 DEF Process, Asked
    <2>2. ASSUME NEW p \in ToVisit, Visit(p)
          PROVE  batch' \subseteq batch /\ entry' \subseteq batch
      BY <2>2 DEF Visit, ToVisit
    <2> QED
      BY <1>1, <2>1, <2>2 DEF Process, Leave, CallRead, PassRead, ReadReturns, CallWrite,
             PassWrite, WriteReturns, Call, NextEntry, TypeOK
  <1>6. TypeOK'
    BY <1>1, <1>2, <1>3, <1>4, <1>5 DEF TypeOK, table, context
  <1> QED
    BY <1>2, <1>6 DEF TableMatchesKernel, table, context

LEMMA InvStep == TableMatchesKernel /\ [Next]_vars => TableMatchesKernel'
  <1> SUFFICES ASSUME TableMatchesKernel, [Next]_vars PROVE TableMatchesKernel'
    OBVIOUS
  <1>1. TypeOK
    BY Parts
  <1>2. CASE New
    BY <1>1, <1>2 DEF New, TableMatchesKernel, TypeOK, table, context
  <1>3. CASE Free
    <2>1. /\ kernel' = [fd \in Fds |-> {}] /\ event' = [fd \in Fds |-> {}]
          /\ handler' = [fd \in Fds |-> [e \in Events |-> Nobody]]
          /\ max_fd' = -1 /\ doubt' = {} /\ stage' = "none"
          /\ UNCHANGED <<backend, open, batch, entry, rfired>>
      BY <1>3 DEF Free, NoEvents, NoHandlers
    <2>2. max_fd' \in -1..MaxEvents-1
      BY <2>1, Numbers
    <2>3. TypeOK'
      BY <1>1, <2>1, <2>2 DEF TypeOK
    <2> QED
      BY <2>1, <2>3 DEF TableMatchesKernel
  <1>4. ASSUME NEW fd \in Fds, OpenFd(fd) PROVE TableMatchesKernel'
    BY <1>1, <1>4 DEF OpenFd, TableMatchesKernel, TypeOK, table, context, loop
  <1>5. ASSUME NEW fd \in Fds, CloseFd(fd) \/ AddHalf(fd) \/ DelHalf(fd)
        PROVE  TableMatchesKernel'
    BY <1>5, DoubtKeeps
  <1>6. ASSUME NEW fd \in Fds, NEW use \in Uses, Add(fd, use[1], use[2])
        PROVE  TableMatchesKernel'
    BY <1>6, AddKeeps
  <1>7. ASSUME NEW fd \in Fds, NEW evs \in (SUBSET Events) \ {{}}, Del(fd, evs)
        PROVE  TableMatchesKernel'
    BY <1>7, DelKeeps
  <1>8. CASE UNCHANGED vars
    BY <1>8 DEF vars, TableMatchesKernel, TypeOK
  <1> QED
    BY <1>2, <1>3, <1>4, <1>5, <1>6, <1>7, <1>8, ProcessKeeps DEF Next

(* The kernel watches what the table says, an event of the table has a     *)
(* handler, and max_fd covers every descriptor that select has to watch.   *)
THEOREM KernelInStep == Spec => []TableMatchesKernel
  BY InvInit, InvStep, PTL DEF Spec

-----------------------------------------------------------------------------
(***************************************************************************)
(* jk_event_process as Watches sees it.  What its local variables say at   *)
(* each place of its loops:                                                *)
(***************************************************************************)
Visiting ==
    /\ stage \in {"none", "idle", "next"} => entry = {} /\ ~rfired /\ running = Nobody
    /\ stage \in {"none", "idle"} => batch = {}
    /\ stage \in {"read", "reading", "write", "writing"} =>
           /\ entry # {} /\ entry \cap batch = {}
           /\ \A p, q \in entry : p[1] = q[1]
    /\ stage = "read" => ~rfired
    /\ stage \in {"read", "write"} => running = Nobody
    /\ stage \in {"reading", "writing"} => running \in (Fds \X Events) \X Handlers

EventInv == TableMatchesKernel /\ Visiting

(* The descriptor of an entry is that of all its events.                   *)
LEMMA EntryHasOneFd ==
    ASSUME EventInv, stage \in {"read", "reading", "write", "writing"}
    PROVE  /\ fd0 \in Fds
           /\ \A p \in entry : p = <<fd0, p[2]>> /\ p[2] \in Events
           /\ \E p \in entry : p[1] = fd0
  <1>1. entry \subseteq Fds \X Events /\ entry # {} /\ \A p, q \in entry : p[1] = q[1]
    BY DEF EventInv, TableMatchesKernel, TypeOK, Visiting
  <1>2. (CHOOSE p \in entry : TRUE) \in entry
    BY <1>1
  <1> QED
    BY <1>1, <1>2 DEF fd0

(* A handler that is called is one that was registered.                    *)
LEMMA CalledHandler ==
    ASSUME EventInv, stage \in {"read", "write"}, NEW e \in Events, Fires(e)
    PROVE  /\ <<fd0, e>> \in Fds \X Events /\ handler[fd0][e] \in Handlers
           /\ handler[fd0][e] # Nobody
  <1>1. fd0 \in Fds
    BY EntryHasOneFd
  <1>2. handler[fd0][e] \in Handlers \cup {Nobody} /\ handler[fd0][e] # Nobody
    BY <1>1 DEF EventInv, TableMatchesKernel, TypeOK, Fires
  <1> QED
    BY <1>1, <1>2

LEMMA VisitingInit == Init => Visiting
  BY DEF Init, Visiting

LEMMA VisitingStep == EventInv /\ [Next]_vars => Visiting'
  <1> SUFFICES ASSUME EventInv, [Next]_vars PROVE Visiting'
    OBVIOUS
  <1>1. Visiting
    BY DEF EventInv
  <1>2. CASE UNCHANGED <<stage, batch, entry, rfired, running>>
    BY <1>1, <1>2 DEF Visiting
  <1>3. CASE New \/ Free
    BY <1>1, <1>3 DEF New, Free, Visiting
  <1>4. ASSUME NEW R \in Reports, Process(R) PROVE Visiting'
    BY <1>1, <1>4 DEF Process, Visiting
  <1>5. ASSUME NEW p \in ToVisit, Visit(p) PROVE Visiting'
    <2>1. entry' \subseteq batch /\ p \in entry' /\ \A q \in entry' : q[1] = p[1]
      BY <1>5 DEF Visit, ToVisit
    <2> QED
      BY <1>1, <1>5, <2>1 DEF Visit, Visiting
  <1>6. CASE Leave
    BY <1>1, <1>6 DEF Leave, Visiting
  <1>7. CASE CallRead
    <2>1. running' \in (Fds \X Events) \X Handlers
      BY <1>7, CalledHandler DEF CallRead, Call, Events
    <2> QED
      BY <1>1, <1>7, <2>1 DEF CallRead, Call, Visiting
  <1>8. CASE CallWrite
    <2>1. running' \in (Fds \X Events) \X Handlers
      BY <1>8, CalledHandler DEF CallWrite, FiresWrite, Call, Events
    <2> QED
      BY <1>1, <1>8, <2>1 DEF CallWrite, Call, Visiting
  <1>9. CASE PassRead \/ ReadReturns
    BY <1>1, <1>9 DEF PassRead, ReadReturns, Visiting
  <1>10. CASE PassWrite \/ WriteReturns
    BY <1>1, <1>10 DEF PassWrite, WriteReturns, NextEntry, Visiting
  <1>11. ASSUME NEW fd \in Fds,
                \/ OpenFd(fd) \/ CloseFd(fd) \/ AddHalf(fd) \/ DelHalf(fd)
                \/ \E use \in Uses : Add(fd, use[1], use[2])
                \/ \E evs \in (SUBSET Events) \ {{}} : Del(fd, evs)
         PROVE  Visiting'
    BY <1>2, <1>11 DEF OpenFd, CloseFd, AddHalf, DelHalf, HalfDone, Add, Del, loop
  <1> QED
    BY <1>2, <1>3, <1>4, <1>5, <1>6, <1>7, <1>8, <1>9, <1>10, <1>11 DEF Next, vars

LEMMA EventInvariant == Spec => []EventInv
  <1>1. Init => EventInv
    BY InvInit, VisitingInit DEF EventInv
  <1>2. EventInv /\ [Next]_vars => EventInv'
    BY InvStep, VisitingStep DEF EventInv
  <1> QED
    BY <1>1, <1>2, PTL DEF Spec

(* Handlers are registered and events added where the table changes.       *)
LEMMA TableRegisters ==
    ASSUME EventInv, NEW fd \in Fds, NEW use \in Uses, Add(fd, use[1], use[2])
    PROVE  watched' = [p \in Fds \X Events |->
                          IF p[1] = fd /\ p[2] \in use[1] THEN use[2] ELSE watched[p]]
  <1> DEFINE evs == use[1]
             h == use[2]
  <1>1. /\ event \in [Fds -> SUBSET Events] /\ evs \in SUBSET Events
        /\ handler \in [Fds -> [Events -> Handlers \cup {Nobody}]]
    BY EventAssumption DEF EventInv, TableMatchesKernel, TypeOK, Events
  <1>2. /\ handler' = [handler EXCEPT ![fd] = [e \in Events |-> IF e \in evs THEN h ELSE @[e]]]
        /\ event' = [event EXCEPT ![fd] = @ \cup evs]
    BY DEF Add
  <1> HIDE DEF evs, h
  <1>3. ASSUME NEW p \in Fds \X Events
        PROVE  (IF p[2] \in event'[p[1]] THEN handler'[p[1]][p[2]] ELSE Nobody)
                  = IF p[1] = fd /\ p[2] \in evs THEN h
                    ELSE IF p[2] \in event[p[1]] THEN handler[p[1]][p[2]] ELSE Nobody
    <2>1. p[1] \in Fds /\ p[2] \in Events
      OBVIOUS
    <2>2. CASE p[1] = fd
      BY <1>1, <1>2, <2>1, <2>2
    <2>3. CASE p[1] # fd
      BY <1>1, <1>2, <2>1, <2>3
    <2> QED
      BY <2>2, <2>3
  <1> QED
    BY <1>3 DEF watched, evs, h

LEMMA TableUnregisters ==
    ASSUME EventInv, NEW fd \in Fds, NEW evs \in SUBSET Events,
           handler' = handler, event' = [event EXCEPT ![fd] = @ \ evs]
    PROVE  watched' = [p \in Fds \X Events |->
                          IF p[1] = fd /\ p[2] \in evs THEN Nobody ELSE watched[p]]
  <1>1. event \in [Fds -> SUBSET Events]
    BY DEF EventInv, TableMatchesKernel, TypeOK
  <1>2. ASSUME NEW p \in Fds \X Events
        PROVE  (IF p[2] \in event'[p[1]] THEN handler[p[1]][p[2]] ELSE Nobody)
                  = IF p[1] = fd /\ p[2] \in evs THEN Nobody
                    ELSE IF p[2] \in event[p[1]] THEN handler[p[1]][p[2]] ELSE Nobody
    BY <1>1
  <1> QED
    BY <1>2 DEF watched

(* The program and its handlers change nothing of a batch.                 *)
LEMMA LoopAside == UNCHANGED loop => UNCHANGED <<due, fired, running>>
  BY DEF loop, due, Left, fired, fd0

LEMMA AddRegisters ==
    ASSUME EventInv, NEW fd \in Fds, NEW use \in Uses, Add(fd, use[1], use[2])
    PROVE  Promise!Next
  <1> DEFINE evs == use[1]
             h == use[2]
  <1>1. evs \in SUBSET Events /\ h \in Handlers
    BY EventAssumption DEF Events
  <1>2. watched' = [p \in Fds \X Events |->
                      IF p[1] = fd /\ p[2] \in evs THEN h ELSE watched[p]]
    BY TableRegisters
  <1>3. UNCHANGED <<due, fired, running>>
    BY LoopAside DEF Add
  <1>4. Promise!Register(fd, evs, h)
    BY <1>2, <1>3 DEF Promise!Register, Promise!Pairs
  <1> QED
    BY <1>1, <1>4 DEF Promise!Next

LEMMA DelUnregisters ==
    ASSUME EventInv, NEW fd \in Fds, NEW evs \in SUBSET Events, Del(fd, evs)
    PROVE  Promise!Next
  <1>1. Promise!Unregister(fd, evs)
    BY TableUnregisters, LoopAside
       DEF Del, Promise!Unregister, Promise!Register, Promise!Pairs
  <1> QED
    BY <1>1 DEF Promise!Next

(* And a least one.                                                       *)
LEMMA HasLeast ==
    ASSUME NEW a \in Int, NEW b \in Int, NEW S \in SUBSET (a..b), S # {}
    PROVE  \E x \in S : \A y \in S : x <= y
  <1> DEFINE T == {x - a : x \in S}
  <1>0. \A x \in S : x - a \in Nat /\ x - a \in T /\ x \in Int
    OBVIOUS
  <1>1. T \in SUBSET Nat /\ T # {}
    <2>1. T \subseteq Nat
      BY <1>0
    <2>2. T # {}
      OBVIOUS
    <2> HIDE DEF T
    <2> QED
      BY <2>1, <2>2
  <1>2. PICK t \in T : \A u \in T : t <= u
    <2> HIDE DEF T
    <2> QED
      BY <1>1, LeastNumber
  <1>3. PICK x \in S : t = x - a
    OBVIOUS
  <1>4. \A y \in S : x - a <= y - a /\ y \in Int
    <2> HIDE DEF T
    <2> QED
      BY <1>0, <1>2, <1>3
  <1> QED
    BY <1>4

(***************************************************************************)
(* When nothing is left to visit, nobody watches what is left of the       *)
(* batch: only select stops before its end, where the least descriptor of  *)
(* the batch is above max_fd.                                              *)
(***************************************************************************)
LEMMA NobodyLeft ==
    ASSUME EventInv, ToVisit = {}, NEW p \in batch
    PROVE  watched[p] = Nobody
  <1>1. TypeOK /\ Reaches
    BY Parts DEF EventInv
  <1> DEFINE S == {q[1] : q \in batch}
  <1>2. S \in SUBSET (0..MaxEvents-1) /\ S # {} /\ p[1] \in S
    BY <1>1 DEF TypeOK, Fds
  <1>3. PICK x \in S : \A y \in S : x <= y
    <2>1. 0 \in Int /\ MaxEvents-1 \in Int
      BY Numbers
    <2> HIDE DEF S
    <2> QED
      BY <1>2, <2>1, HasLeast
  <1>4. PICK q \in batch : q[1] = x
    OBVIOUS
  <1>5. \A y \in batch : q[1] <= y[1]
    BY <1>3, <1>4
  <1>6. backend = "select" /\ ~(q[1] <= max_fd)
    BY <1>5 DEF ToVisit
  <1>7. q[1] \in Int /\ p[1] \in Int /\ max_fd \in Int /\ p[1] \in Fds /\ p \in Fds \X Events
    BY <1>1, <1>2, <1>4, Numbers DEF TypeOK, Fds
  <1>8. ~(p[1] <= max_fd)
    BY <1>5, <1>6, <1>7
  <1>9. event[p[1]] = {}
    BY <1>1, <1>6, <1>7, <1>8 DEF Reaches
  <1> QED
    BY <1>7, <1>9 DEF watched

(***************************************************************************)
(* A call of a handler serves its event: it was due, is watched now, and   *)
(* is not reported twice.                                                  *)
(***************************************************************************)
LEMMA ReadServes ==
    ASSUME EventInv, CallRead PROVE Promise!Serve(<<fd0, "r">>)
  <1> DEFINE p == <<fd0, "r">>
  <1>1. /\ fd0 \in Fds /\ handler[fd0]["r"] # Nobody /\ Fires("r")
        /\ stage = "read" /\ stage' = "reading" /\ rfired' = TRUE
        /\ running' = <<p, handler[fd0]["r"]>>
        /\ UNCHANGED <<table, batch, entry>>
    BY EntryHasOneFd, CalledHandler DEF CallRead, Call, Events
  <1>2. /\ running = Nobody /\ ~rfired /\ entry \cap batch = {}
        /\ \A q \in entry : q = <<fd0, q[2]>> /\ q[2] \in {"r", "w"}
    BY <1>1, EntryHasOneFd DEF EventInv, Visiting, Events
  <1>3. watched[p] = handler[fd0]["r"]
    BY <1>1 DEF watched, Fires, Events
  <1>4. p \in entry
    BY <1>1 DEF Fires
  <1>5. due = batch \cup entry /\ due' = batch \cup {q \in entry : q[2] = "w"}
    BY <1>1 DEF due, Left
  <1>6. due' = due \ {p}
    BY <1>2, <1>4, <1>5
  <1>7. watched' = watched
    BY <1>1 DEF watched, table
  <1>8. fired' = {fd0}
    BY <1>1 DEF fired, fd0
  <1> QED
    BY <1>1, <1>2, <1>3, <1>4, <1>5, <1>6, <1>7, <1>8 DEF Promise!Serve

LEMMA WriteServes ==
    ASSUME EventInv, CallWrite PROVE Promise!Serve(<<fd0, "w">>)
  <1> DEFINE p == <<fd0, "w">>
  <1>1. /\ fd0 \in Fds /\ handler[fd0]["w"] # Nobody /\ Fires("w")
        /\ stage = "write" /\ stage' = "writing" /\ rfired' = rfired
        /\ running' = <<p, handler[fd0]["w"]>>
        /\ UNCHANGED <<table, batch, entry>>
    BY EntryHasOneFd, CalledHandler DEF CallWrite, FiresWrite, Call, Events
  <1>2. /\ running = Nobody /\ entry \cap batch = {}
        /\ \A q \in entry : q = <<fd0, q[2]>> /\ q[2] \in {"r", "w"}
    BY <1>1, EntryHasOneFd DEF EventInv, Visiting, Events
  <1>3. watched[p] = handler[fd0]["w"]
    BY <1>1 DEF watched, Fires, Events
  <1>4. p \in entry
    BY <1>1 DEF Fires
  <1>5. due = batch \cup {q \in entry : q[2] = "w"} /\ due' = batch
    BY <1>1 DEF due, Left
  <1>6. due' = due \ {p} /\ p \in due
    BY <1>2, <1>4, <1>5
  <1>7. watched' = watched
    BY <1>1 DEF watched, table
  <1>8. fired' = fired
    BY <1>1 DEF fired, fd0
  <1> QED
    BY <1>1, <1>2, <1>3, <1>4, <1>6, <1>7, <1>8 DEF Promise!Serve

(* An event that is passed over is watched by nobody, or was served with   *)
(* the read event.                                                         *)
LEMMA ReadPassed ==
    ASSUME EventInv, PassRead PROVE Promise!PassOver
  <1>1. /\ stage = "read" /\ stage' = "write" /\ ~Fires("r")
        /\ UNCHANGED <<table, batch, entry, rfired, running>>
    BY DEF PassRead
  <1>2. /\ running = Nobody /\ entry \subseteq Fds \X Events
        /\ \A q \in entry : q = <<fd0, q[2]>> /\ q[2] \in {"r", "w"}
    BY <1>1, EntryHasOneFd DEF EventInv, Visiting, TableMatchesKernel, TypeOK, Events
  <1>3. due = batch \cup entry /\ due' = batch \cup {q \in entry : q[2] = "w"}
    BY <1>1 DEF due, Left
  <1>4. ASSUME NEW q \in due \ due' PROVE watched[q] = Nobody
    <2>1. q \in entry /\ q = <<fd0, "r">>
      BY <1>2, <1>3
    <2>2. "r" \notin event[fd0]
      BY <1>1, <2>1 DEF Fires
    <2> QED
      BY <1>2, <2>1, <2>2 DEF watched
  <1>5. watched' = watched /\ fired' = fired
    BY <1>1 DEF watched, fired, fd0, table
  <1> QED
    BY <1>1, <1>2, <1>3, <1>4, <1>5 DEF Promise!PassOver

LEMMA WritePassed ==
    ASSUME EventInv, PassWrite PROVE Promise!PassOver
  <1>1. /\ stage = "write" /\ stage' = "next" /\ ~FiresWrite
        /\ UNCHANGED <<table, batch>> /\ ~rfired' /\ running' = Nobody
    BY DEF PassWrite, NextEntry
  <1>2. /\ running = Nobody /\ entry \subseteq Fds \X Events
        /\ \A q \in entry : q = <<fd0, q[2]>>
    BY <1>1, EntryHasOneFd DEF EventInv, Visiting, TableMatchesKernel, TypeOK
  <1>3. due = batch \cup {q \in entry : q[2] = "w"} /\ due' = batch
    BY <1>1 DEF due, Left
  <1>4. ASSUME NEW q \in due \ due'
        PROVE  watched[q] = Nobody \/ (q[2] = "w" /\ q[1] \in fired)
    <2>1. q \in entry /\ q = <<fd0, "w">> /\ q[1] = fd0 /\ q[2] = "w"
      BY <1>2, <1>3
    <2>2. CASE "w" \notin event[fd0]
      BY <1>2, <2>1, <2>2 DEF watched
    <2>3. CASE rfired
      BY <2>1, <2>3 DEF fired
    <2> QED
      BY <1>1, <2>1, <2>2, <2>3 DEF FiresWrite, Fires
  <1>5. watched' = watched /\ fired' = {}
    BY <1>1 DEF watched, fired, table
  <1> QED
    BY <1>1, <1>2, <1>3, <1>4, <1>5 DEF Promise!PassOver

LEMMA BatchLeft ==
    ASSUME EventInv, Leave PROVE Promise!PassOver
  <1>1. /\ stage = "next" /\ stage' = "idle" /\ ToVisit = {} /\ batch' = {}
        /\ UNCHANGED <<table, entry, rfired, running>>
    BY DEF Leave
  <1>2. running = Nobody
    BY <1>1 DEF EventInv, Visiting
  <1>3. due = batch /\ due' = {}
    BY <1>1 DEF due, Left
  <1>4. watched' = watched /\ fired' = fired
    BY <1>1 DEF watched, fired, fd0, table
  <1> QED
    BY <1>1, <1>2, <1>3, <1>4, NobodyLeft DEF Promise!PassOver

LEMMA HandlerReturns ==
    ASSUME EventInv, ReadReturns \/ WriteReturns PROVE Promise!Return
  <1>1. running # Nobody
    <2>1. running \in (Fds \X Events) \X Handlers
      BY DEF EventInv, Visiting, ReadReturns, WriteReturns
    <2> QED
      BY <2>1, EventAssumption DEF Fds, Events
  <1>2. running' = Nobody /\ UNCHANGED <<table, batch>> /\ due' = due
    BY DEF ReadReturns, WriteReturns, NextEntry, due, Left
  <1>3. fired' \in {fired, {}}
    <2>1. CASE ReadReturns
      <3>1. fired' = fired
        BY <2>1 DEF ReadReturns, fired, fd0
      <3> QED
        BY <3>1
    <2>2. CASE WriteReturns
      <3>1. fired' = {}
        BY <2>2 DEF WriteReturns, NextEntry, fired
      <3> QED
        BY <3>1
    <2> QED
      BY <2>1, <2>2
  <1>4. watched' = watched
    BY <1>2 DEF watched, table
  <1> QED
    BY <1>1, <1>2, <1>3, <1>4 DEF Promise!Return

LEMMA KernelReports ==
    ASSUME EventInv, NEW R \in Reports, Process(R) PROVE Promise!Report(R) /\ R \in SUBSET Promise!Pairs
  <1>1. R \subseteq Asked /\ Asked \subseteq Fds \X Events
    BY EventAssumption DEF Reports, Asked, EventInv, TableMatchesKernel, TypeOK
  <1>2. /\ stage = "idle" /\ stage' = "next" /\ batch' = R
        /\ UNCHANGED <<table, entry, rfired, running>>
    BY DEF Process
  <1>3. running = Nobody /\ batch = {} /\ ~rfired
    BY <1>2 DEF EventInv, Visiting
  <1>4. due = {} /\ due' = R /\ fired' = {}
    BY <1>2, <1>3 DEF due, Left, fired
  <1>5. watched' = watched
    BY <1>2 DEF watched, table
  <1> QED
    BY <1>1, <1>2, <1>3, <1>4, <1>5 DEF Promise!Report, Promise!Pairs

LEMMA VisitInvisible ==
    ASSUME EventInv, NEW p \in ToVisit, Visit(p) PROVE UNCHANGED Promise!vars
  <1>1. /\ stage = "next" /\ stage' = "read" /\ entry' \subseteq batch
        /\ batch' = batch \ entry' /\ UNCHANGED <<table, rfired, running>>
    BY DEF Visit, ToVisit
  <1>2. entry = {} /\ ~rfired
    BY <1>1 DEF EventInv, Visiting
  <1>3. due' = due
    BY <1>1 DEF due, Left
  <1>4. watched' = watched /\ fired' = fired
    BY <1>1, <1>2 DEF watched, fired, table
  <1> QED
    BY <1>1, <1>3, <1>4 DEF Promise!vars

LEMMA TableFreed ==
    ASSUME EventInv, Free PROVE Promise!Free
  <1>1. /\ stage = "idle" /\ stage' = "none" /\ event' = [fd \in Fds |-> {}]
        /\ UNCHANGED <<batch, entry, rfired, running>>
    BY DEF Free, NoEvents
  <1>2. running = Nobody /\ batch = {} /\ ~rfired
    BY <1>1 DEF EventInv, Visiting
  <1>3. due = {} /\ due' = {} /\ fired' = fired
    BY <1>1, <1>2 DEF due, Left, fired
  <1>4. watched' = [p \in Fds \X Events |-> Nobody]
    BY <1>1 DEF watched
  <1> QED
    BY <1>1, <1>2, <1>3, <1>4 DEF Promise!Free, Promise!Unwatched, Promise!Pairs

(* What changes neither the table nor the loop is invisible.               *)
LEMMA OtherInvisible ==
    ASSUME EventInv,
           \/ New
           \/ \E fd \in Fds : OpenFd(fd) \/ CloseFd(fd) \/ AddHalf(fd) \/ DelHalf(fd)
           \/ UNCHANGED vars
    PROVE  UNCHANGED Promise!vars
  <1>1. CASE New
    <2>1. /\ stage \in {"none"} /\ stage' = "idle"
          /\ UNCHANGED <<table, batch, entry, rfired, running>>
      BY <1>1 DEF New
    <2>2. due' = due /\ fired' = fired
      BY <2>1 DEF due, Left, fired, fd0
    <2>3. watched' = watched
      BY <2>1 DEF watched, table
    <2> QED
      BY <2>1, <2>2, <2>3 DEF Promise!vars
  <1>2. CASE ~New
    <2>1. UNCHANGED <<table, loop>>
      BY <1>2 DEF OpenFd, CloseFd, AddHalf, DelHalf, HalfDone, vars, table, loop
    <2>2. watched' = watched
      BY <2>1 DEF watched, table
    <2> QED
      BY <2>1, <2>2, LoopAside DEF Promise!vars
  <1> QED
    BY <1>1, <1>2

LEMMA PromiseStep == EventInv /\ [Next]_vars => [Promise!Next]_(Promise!vars)
  <1> SUFFICES ASSUME EventInv, [Next]_vars PROVE Promise!Next \/ UNCHANGED Promise!vars
    OBVIOUS
  <1>1. ASSUME NEW R \in Reports, Process(R) PROVE Promise!Next
    BY <1>1, KernelReports DEF Promise!Next
  <1>2. ASSUME CallRead \/ CallWrite PROVE Promise!Next
    <2>1. fd0 \in Fds
      BY <1>2, EntryHasOneFd DEF CallRead, CallWrite
    <2>2. <<fd0, "r">> \in Promise!Pairs /\ <<fd0, "w">> \in Promise!Pairs
      BY <2>1 DEF Promise!Pairs, Events
    <2> QED
      BY <1>2, <2>2, ReadServes, WriteServes DEF Promise!Next
  <1>3. ASSUME PassRead \/ PassWrite \/ Leave \/ ReadReturns \/ WriteReturns \/ Free
        PROVE  Promise!Next
    BY <1>3, ReadPassed, WritePassed, BatchLeft, HandlerReturns, TableFreed DEF Promise!Next
  <1> QED
    BY <1>1, <1>2, <1>3, AddRegisters, DelUnregisters, VisitInvisible, OtherInvisible DEF Next

(***************************************************************************)
(* jk_event serves reports as Watches does: a handler is called only for   *)
(* an event that was reported and is watched at that moment, once for a    *)
(* report, whatever the handlers before it in the batch deleted, replaced, *)
(* opened and closed; and no report of a watched event is dropped, but for *)
(* a write event just after its read handler.                              *)
(***************************************************************************)
THEOREM EventImplementsWatches == Spec => ImplementsWatches
  <1>1. Init => Promise!Init
    BY DEF Init, NoEvents, Promise!Init, Promise!Unwatched, Promise!Pairs, watched, due, Left,
           fired
  <1> QED
    BY <1>1, PromiseStep, EventInvariant, PTL DEF Spec, ImplementsWatches, Promise!Spec
=============================================================================
