------------------------------- MODULE TaskPool -------------------------------
(***************************************************************************)
(* What jk_thread_pool promises its users, with no queue, lock or thread:  *)
(* a task that was pushed waits, is then run by one worker and is over, or *)
(* is thrown away by jk_thread_pool_destroy without having been run.       *)
(***************************************************************************)

CONSTANT Tasks      \* the tasks that may ever be pushed

VARIABLES
    status,         \* what has become of each task
    phase           \* "open", then "closed" (quit_flag set), then "gone"

vars == <<status, phase>>

TypeOK == /\ status \in [Tasks -> {"new", "pending", "running", "done", "dropped"}]
          /\ phase \in {"open", "closed", "gone"}

Init == /\ status = [t \in Tasks |-> "new"]
        /\ phase = "open"

Running == {t \in Tasks : status[t] = "running"}

(***************************************************************************)
(* The pool takes a task.  Once it has been closed only a task that still  *)
(* runs can hand it another one.                                           *)
(***************************************************************************)
Accept(t) == /\ phase = "open" \/ (phase = "closed" /\ Running # {})
             /\ status[t] = "new"
             /\ status' = [status EXCEPT ![t] = "pending"]
             /\ UNCHANGED phase

(* A worker begins a waiting task; no task begins once the pool is closed. *)
Start(t) == /\ phase = "open"
            /\ status[t] = "pending"
            /\ status' = [status EXCEPT ![t] = "running"]
            /\ UNCHANGED phase

Complete(t) == /\ status[t] = "running"
               /\ status' = [status EXCEPT ![t] = "done"]
               /\ UNCHANGED phase

Close == /\ phase = "open"
         /\ phase' = "closed"
         /\ UNCHANGED status

(* The end of jk_thread_pool_destroy: what was not begun is thrown away.   *)
Discard == /\ phase = "closed"
           /\ Running = {}
           /\ status' = [t \in Tasks |-> IF status[t] = "pending" THEN "dropped"
                                                                 ELSE status[t]]
           /\ phase' = "gone"

Next == \/ \E t \in Tasks : Accept(t) \/ Start(t) \/ Complete(t)
        \/ Close
        \/ Discard

Spec == Init /\ [][Next]_vars
=============================================================================
