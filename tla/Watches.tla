------------------------------- MODULE Watches -------------------------------
(***************************************************************************)
(* What jk_event promises its users, with no kernel, table or batch: the   *)
(* handlers that are registered for the events of descriptors, and how one *)
(* call of jk_event_process serves the events that the system reports.     *)
(***************************************************************************)
EXTENDS FiniteSets

CONSTANTS
    Fds,
    Events,
    Handlers,
    Nobody              \* no handler, or no handler that runs

Pairs == Fds \X Events

VARIABLES
    watched,            \* the handler registered for each pair
    due,                \* the pairs reported and not yet dealt with
    fired,              \* the descriptor whose read handler ran last, if known
    running             \* the pair and the handler that runs

vars == <<watched, due, fired, running>>

Unwatched == [p \in Pairs |-> Nobody]

Init == watched = Unwatched /\ due = {} /\ fired = {} /\ running = Nobody

Register(fd, evs, h) ==
    /\ watched' = [p \in Pairs |-> IF p[1] = fd /\ p[2] \in evs THEN h ELSE watched[p]]
    /\ UNCHANGED <<due, fired, running>>

Unregister(fd, evs) == Register(fd, evs, Nobody)

Report(ps) == /\ running = Nobody /\ due = {}
              /\ due' = ps /\ fired' = {}
              /\ UNCHANGED <<watched, running>>

(* The handler that is registered now, not the one at the time of the      *)
(* report, is called, once for a report.                                   *)
Serve(p) == /\ running = Nobody
            /\ p \in due /\ watched[p] # Nobody
            /\ running' = <<p, watched[p]>>
            /\ due' = due \ {p}
            /\ fired' = IF p[2] = "r" THEN {p[1]} ELSE fired
            /\ UNCHANGED watched

Return == /\ running # Nobody /\ running' = Nobody
          /\ fired' \in {fired, {}}
          /\ UNCHANGED <<watched, due>>

(* Events are passed over when nobody watches them any more, and a write   *)
(* event also when the read handler of its descriptor ran just before.     *)
PassOver == /\ running = Nobody
            /\ due' \subseteq due
            /\ \A p \in due \ due' : watched[p] = Nobody \/ (p[2] = "w" /\ p[1] \in fired)
            /\ fired' \in {fired, {}}
            /\ UNCHANGED <<watched, running>>

Free == /\ running = Nobody /\ due = {}
        /\ watched' = Unwatched
        /\ UNCHANGED <<due, fired, running>>

Next == \/ \E fd \in Fds, evs \in SUBSET Events :
              Unregister(fd, evs) \/ \E h \in Handlers : Register(fd, evs, h)
        \/ \E ps \in SUBSET Pairs : Report(ps)
        \/ \E p \in Pairs : Serve(p)
        \/ Return \/ PassOver \/ Free

Spec == Init /\ [][Next]_vars
=============================================================================
