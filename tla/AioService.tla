------------------------------ MODULE AioService ------------------------------
(***************************************************************************)
(* What jk_aio promises its users, with no thread, mutex, list or pipe: an *)
(* accepted request is executed once, and its callback is then called once *)
(* and in the order in which the requests were completed.                  *)
(***************************************************************************)
EXTENDS Sequences

CONSTANT Requests   \* the requests that may ever be submitted

VARIABLES
    stage,          \* how far each request has come
    completed       \* the requests that wait for their callback, in order

vars == <<stage, completed>>

TypeOK == /\ stage \in [Requests -> {"new", "accepted", "completed", "delivered"}]
          /\ completed \in Seq(Requests)

Init == /\ stage = [r \in Requests |-> "new"]
        /\ completed = <<>>

Accept(r) == /\ stage[r] = "new"
             /\ stage' = [stage EXCEPT ![r] = "accepted"]
             /\ UNCHANGED completed

Complete(r) == /\ stage[r] = "accepted"
               /\ stage' = [stage EXCEPT ![r] = "completed"]
               /\ completed' = Append(completed, r)

(* The callback of the request that was completed first.                   *)
Deliver == /\ completed # <<>>
           /\ stage' = [stage EXCEPT ![Head(completed)] = "delivered"]
           /\ completed' = Tail(completed)

Next == \/ \E r \in Requests : Accept(r) \/ Complete(r)
        \/ Deliver

Spec == Init /\ [][Next]_vars
=============================================================================
