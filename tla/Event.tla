-------------------------------- MODULE Event --------------------------------
(***************************************************************************)
(* jk_event.c: a table of handlers for the descriptors of a process, over  *)
(* epoll, kqueue or select.  One thread uses it; a handler runs inside     *)
(* jk_event_process and may add and delete events, open and close          *)
(* descriptors, but neither calls jk_event_process nor jk_event_free.      *)
(*                                                                         *)
(* A call that fails and changes nothing, as that of a descriptor beyond   *)
(* the table, is no step.  What the kernel reports is any choice among     *)
(* what it has been asked to watch.                                        *)
(***************************************************************************)
EXTENDS Integers, FiniteSets, FiniteSetsExt

CONSTANTS
    Backends,           \* the systems: a subset of {"epoll", "kqueue", "select"}
    MaxEvents,          \* the argument of jk_event_new
    Handlers,
    Nobody,
    Lasting,            \* the descriptors that are open from first to last
    Uses                \* the events and the handler of jk_event_add

ASSUME EventAssumption ==
    /\ Backends \subseteq {"epoll", "kqueue", "select"} /\ Backends # {}
    /\ MaxEvents \in Nat \ {0}
    /\ Nobody \notin Handlers \cup (((0..MaxEvents-1) \X {"r", "w"}) \X Handlers)
    /\ Lasting \subseteq 0..MaxEvents-1
    /\ Uses \subseteq ((SUBSET {"r", "w"}) \ {{}}) \X Handlers

Fds == 0..MaxEvents-1
Events == {"r", "w"}

VARIABLES
    backend,            \* the system the library was compiled for
    open,               \* the descriptors the process has open
    event,              \* events[fd].event
    handler,            \* events[fd].rev_handler and .wev_handler
    kernel,             \* what the kernel, or the pair of fd_sets, has of fd
    max_fd,             \* ctx->max_fd of the select backend
    stage,              \* where the thread is
    batch,              \* the part of the report that is not yet visited
    entry,              \* the part that is visited: events of one descriptor
    rfired,             \* whether the read handler of the entry was called
    running,            \* the handler that runs
    doubt               \* history: where a call half failed, or close undid it

table == <<event, handler>>
context == <<kernel, max_fd>>
loop == <<stage, batch, entry, rfired, running>>
vars == <<backend, open, event, handler, kernel, max_fd, stage, batch, entry, rfired, running,
          doubt>>

NoEvents == [fd \in Fds |-> {}]
NoHandlers == [fd \in Fds |-> [e \in Events |-> Nobody]]

Init == /\ backend \in Backends
        /\ open = Lasting
        /\ event = NoEvents /\ handler = NoHandlers
        /\ kernel = NoEvents /\ max_fd = -1 /\ doubt = {}
        /\ stage = "none" /\ batch = {} /\ entry = {} /\ rfired = FALSE /\ running = Nobody

(* jk_event_new, and jk_event_free                                         *)
New == /\ stage = "none" /\ stage' = "idle"
       /\ UNCHANGED <<backend, open, table, context, batch, entry, rfired, running, doubt>>

Free == /\ stage = "idle" /\ stage' = "none"
        /\ event' = NoEvents /\ handler' = NoHandlers
        /\ kernel' = NoEvents /\ max_fd' = -1 /\ doubt' = {}
        /\ UNCHANGED <<backend, open, batch, entry, rfired, running>>

\* the program runs, or one of its handlers
UserRuns == stage \in {"idle", "reading", "writing"}

-----------------------------------------------------------------------------
(* Faulty variants, named for the fault, stand before the definition they  *)
(* would replace; no specification uses them.                              *)
OnlyTheNew(fd, evs) == evs
MaskWith(fd, evs) == event[fd] \cup evs

\* jk_event_context_add of each backend
EpollAdd(fd, evs) == /\ fd \in open
                     /\ kernel[fd] = {} <=> event[fd] = {}    \* EPOLL_CTL_ADD or MOD
                     /\ kernel' = [kernel EXCEPT ![fd] = MaskWith(fd, evs)]
                     /\ UNCHANGED max_fd

KqueueAdd(fd, evs) == /\ fd \in open
                      /\ kernel' = [kernel EXCEPT ![fd] = @ \cup evs]
                      /\ UNCHANGED max_fd

SelectAdd(fd, evs) == /\ kernel' = [kernel EXCEPT ![fd] = @ \cup evs]
                      /\ max_fd' = Max({fd, max_fd})

\* jk_event_context_del of each backend
EpollDel(fd, evs) == /\ fd \in open /\ kernel[fd] # {}        \* EPOLL_CTL_MOD or DEL
                     /\ kernel' = [kernel EXCEPT ![fd] = event[fd] \ evs]
                     /\ UNCHANGED max_fd

KqueueDel(fd, evs) == /\ fd \in open /\ evs \subseteq kernel[fd]
                      /\ kernel' = [kernel EXCEPT ![fd] = @ \ evs]
                      /\ UNCHANGED max_fd

(* The search begins at the end of the table, which still has fd.          *)
HighestWatched == Max({-1} \cup {fd \in Fds : event[fd] # {}})

SelectDel(fd, evs) == /\ kernel' = [kernel EXCEPT ![fd] = @ \ evs]
                      /\ max_fd' = IF fd = max_fd /\ kernel'[fd] = {}
                                   THEN HighestWatched ELSE max_fd

InSync(fd) == kernel'[fd] = event'[fd]

(* jk_event_add                                                            *)
Add(fd, evs, h) ==
    /\ UserRuns
    /\ \/ backend = "epoll" /\ EpollAdd(fd, evs)
       \/ backend = "kqueue" /\ KqueueAdd(fd, evs)
       \/ backend = "select" /\ SelectAdd(fd, evs)
    /\ event' = [event EXCEPT ![fd] = @ \cup evs]
    /\ handler' = [handler EXCEPT ![fd] = [e \in Events |-> IF e \in evs THEN h ELSE @[e]]]
    /\ doubt' = IF InSync(fd) THEN doubt \ {fd} ELSE doubt
    /\ UNCHANGED <<backend, open, loop>>

(* jk_event_del                                                            *)
Del(fd, evs) ==
    /\ UserRuns
    /\ \/ backend = "epoll" /\ EpollDel(fd, evs)
       \/ backend = "kqueue" /\ KqueueDel(fd, evs)
       \/ backend = "select" /\ SelectDel(fd, evs)
    /\ event' = [event EXCEPT ![fd] = @ \ evs]
    /\ doubt' = IF InSync(fd) THEN doubt \ {fd} ELSE doubt
    /\ UNCHANGED <<backend, open, handler, loop>>

(* Of two kevent calls the first succeeds and the second fails: adding the *)
(* write filter for want of memory, deleting it because there is none.     *)
HalfDone(fd, filters) ==
    /\ UserRuns /\ backend = "kqueue" /\ fd \in open
    /\ kernel' = [kernel EXCEPT ![fd] = filters]
    /\ doubt' = IF filters = event[fd] THEN doubt \ {fd} ELSE doubt \cup {fd}
    /\ UNCHANGED <<backend, open, table, max_fd, loop>>

AddHalf(fd) == HalfDone(fd, kernel[fd] \cup {"r"})
DelHalf(fd) == kernel[fd] = {"r"} /\ HalfDone(fd, {})

(* The program opens a descriptor, and closes one, of which epoll and      *)
(* kqueue then know nothing more.                                          *)
OpenFd(fd) == /\ stage # "none" => UserRuns
              /\ fd \notin open /\ open' = open \cup {fd}
              /\ UNCHANGED <<backend, table, context, loop, doubt>>

CloseFd(fd) == /\ stage # "none" => UserRuns
               /\ fd \in open \ Lasting /\ open' = open \ {fd}
               /\ kernel' = IF backend = "select" THEN kernel
                            ELSE [kernel EXCEPT ![fd] = {}]
               /\ doubt' = IF kernel'[fd] = event[fd] THEN doubt ELSE doubt \cup {fd}
               /\ UNCHANGED <<backend, table, max_fd, loop>>

-----------------------------------------------------------------------------
(***************************************************************************)
(* What the kernel may report; kqueue fills an array of MaxEvents entries, *)
(* one for each filter.  select fails as long as a descriptor of its sets  *)
(* is closed, and looks at no descriptor above max_fd.                     *)
(***************************************************************************)
Asked == {p \in Fds \X Events : p[2] \in kernel[p[1]]}

SelectFails == \E fd \in Fds \ open : kernel[fd] # {}

Reports == CASE backend = "epoll" -> SUBSET Asked
             [] backend = "kqueue" -> {R \in SUBSET Asked : Cardinality(R) <= MaxEvents}
             [] backend = "select" -> IF SelectFails THEN {}
                                      ELSE SUBSET {p \in Asked : p[1] <= max_fd}

(* jk_event_process waits, and then visits the entries of the report: for  *)
(* epoll one for each descriptor, in any order, for kqueue one for each    *)
(* filter, and with select the descriptors in their order, as long as they *)
(* are not above the max_fd of the moment.                                 *)
Process(R) == /\ stage = "idle" /\ R \in Reports /\ R # {}
              /\ batch' = R /\ stage' = "next"
              /\ UNCHANGED <<backend, open, table, context, entry, rfired, running, doubt>>

ToVisit == {p \in batch : backend = "select" =>
                            p[1] <= max_fd /\ \A q \in batch : p[1] <= q[1]}

Visit(p) == /\ stage = "next" /\ p \in ToVisit
            /\ entry' = IF backend = "kqueue" THEN {p} ELSE {q \in batch : q[1] = p[1]}
            /\ batch' = batch \ entry'
            /\ stage' = "read"
            /\ UNCHANGED <<backend, open, table, context, rfired, running, doubt>>

Leave == /\ stage = "next" /\ ToVisit = {}
         /\ stage' = "idle" /\ batch' = {}
         /\ UNCHANGED <<backend, open, table, context, entry, rfired, running, doubt>>

fd0 == (CHOOSE p \in entry : TRUE)[1]

ReportedOnly(e) == <<fd0, e>> \in entry
Fires(e) == <<fd0, e>> \in entry /\ e \in event[fd0]

Call(e, to) == /\ stage' = to
               /\ running' = <<<<fd0, e>>, handler[fd0][e]>>
               /\ UNCHANGED <<backend, open, table, context, batch, entry, doubt>>

CallRead == /\ stage = "read" /\ Fires("r")
            /\ rfired' = TRUE
            /\ Call("r", "reading")

PassRead == /\ stage = "read" /\ ~Fires("r")
            /\ stage' = "write"
            /\ UNCHANGED <<backend, open, table, context, batch, entry, rfired, running, doubt>>

ReadReturns == /\ stage = "reading"
               /\ stage' = "write" /\ running' = Nobody
               /\ UNCHANGED <<backend, open, table, context, batch, entry, rfired, doubt>>

(* One handler for both events is called once.                             *)
FiresAlone == Fires("w") /\ ~rfired
FiresWrite == Fires("w") /\ (~rfired \/ handler[fd0]["r"] # handler[fd0]["w"])

CallWrite == /\ stage = "write" /\ FiresWrite
             /\ UNCHANGED rfired
             /\ Call("w", "writing")

NextEntry == /\ stage' = "next" /\ entry' = {} /\ rfired' = FALSE /\ running' = Nobody
             /\ UNCHANGED <<backend, open, table, context, batch, doubt>>

PassWrite == /\ stage = "write" /\ ~FiresWrite
             /\ NextEntry

WriteReturns == /\ stage = "writing"
                /\ NextEntry

Next == \/ New \/ Free
        \/ \E fd \in Fds : \/ OpenFd(fd) \/ CloseFd(fd) \/ AddHalf(fd) \/ DelHalf(fd)
                           \/ \E use \in Uses : Add(fd, use[1], use[2])
                           \/ \E evs \in (SUBSET Events) \ {{}} : Del(fd, evs)
        \/ \E R \in Reports : Process(R)
        \/ \E p \in ToVisit : Visit(p)
        \/ Leave \/ CallRead \/ PassRead \/ ReadReturns
        \/ CallWrite \/ PassWrite \/ WriteReturns

Spec == Init /\ [][Next]_vars

(***************************************************************************)
(* jk_event_process goes on and handlers return; the program calls it      *)
(* again, and an event that is ready whenever the kernel is asked is       *)
(* reported some time, whatever else is ready.                             *)
(***************************************************************************)
Reported(fd, e) == \E R \in Reports : <<fd, e>> \in R /\ Process(R)

Fairness == /\ WF_vars(\/ \E p \in ToVisit : Visit(p)
                    \/ Leave \/ CallRead \/ PassRead \/ ReadReturns
                    \/ CallWrite \/ PassWrite \/ WriteReturns)
            /\ \A fd \in Fds, e \in Events : SF_vars(Reported(fd, e))

FairSpec == Spec /\ Fairness

-----------------------------------------------------------------------------
(* Every field keeps its type.                                             *)
TypeOK ==
    /\ backend \in Backends /\ open \subseteq Fds /\ doubt \subseteq Fds
    /\ event \in [Fds -> SUBSET Events] /\ kernel \in [Fds -> SUBSET Events]
    /\ handler \in [Fds -> [Events -> Handlers \cup {Nobody}]]
    /\ max_fd \in -1..MaxEvents-1
    /\ stage \in {"none", "idle", "next", "read", "reading", "write", "writing"}
    /\ batch \subseteq Fds \X Events /\ entry \subseteq Fds \X Events /\ rfired \in BOOLEAN

(***************************************************************************)
(* The kernel watches exactly what the table says, through additions and   *)
(* deletions of one event or of both, from the program and from handlers,  *)
(* unless a descriptor was closed while it was watched or a call of kqueue *)
(* failed half-way; an event of the table has a handler; and select is     *)
(* always asked for every descriptor that is watched.                      *)
(***************************************************************************)
TableMatchesKernel ==
    /\ TypeOK
    /\ \A fd \in Fds \ doubt : kernel[fd] = event[fd]
    /\ \A fd \in Fds : \A e \in event[fd] : handler[fd][e] # Nobody
    /\ backend = "select" => doubt = {} /\ \A fd \in Fds : event[fd] # {} => fd <= max_fd

(* "the fd was the max fd, so update the max fd": while the program runs,  *)
(* max_fd is the largest descriptor that select has to watch.              *)
MaxFdUpdated ==
    backend = "select" /\ stage = "idle" =>
        max_fd = Max({-1} \cup {fd \in Fds : kernel[fd] # {}})

(***************************************************************************)
(* A handler whose event is ready again and again is called, unless it is  *)
(* replaced, its event is deleted, the same handler serves the read event, *)
(* or the descriptor is in doubt; select serves nobody while a descriptor  *)
(* that was closed is in its sets.                                         *)
(***************************************************************************)
Watching(fd, e, h) == e \in event[fd] /\ handler[fd][e] = h

Excused(fd) == fd \in doubt \/ (backend = "select" /\ SelectFails)

ReadyIsServed ==
    \A fd \in Fds, e \in Events, h \in Handlers :
        Watching(fd, e, h) ~> \/ running # Nobody /\ running[1][1] = fd /\ running[2] = h
                              \/ ~Watching(fd, e, h)
                              \/ e = "w" /\ Watching(fd, "r", h)
                              \/ Excused(fd)

-----------------------------------------------------------------------------
(* The part of the report that is still to be dealt with                   *)
Left == CASE stage = "read" -> entry
          [] stage \in {"reading", "write"} -> {p \in entry : p[2] = "w"}
          [] OTHER -> {}

watched == [p \in Fds \X Events |->
                IF p[2] \in event[p[1]] THEN handler[p[1]][p[2]] ELSE Nobody]
due == batch \cup Left
fired == IF rfired THEN {fd0} ELSE {}

Promise == INSTANCE Watches

(***************************************************************************)
(* A handler is called only for an event that was reported and is watched  *)
(* at that moment, at most once for a report, although handlers before it  *)
(* in the batch may delete and replace; and no report is dropped while its *)
(* event is watched, but for a write event just after its read handler.    *)
(***************************************************************************)
ImplementsWatches == Promise!Spec
=============================================================================
