--------------------------- MODULE DeliveryQueue ---------------------------
(***************************************************************************)
(* What the webhook subsystem promises to the caller of emit and to the     *)
(* endpoint, without jobs, batches, timers or attempts: a queue.  A queued  *)
(* delivery leaves the queue, as delivered only once the endpoint has       *)
(* accepted a copy; nothing but a request puts it back; and the endpoint    *)
(* accepts one copy, plus one for each excuse (a retry request, a crash).   *)
(***************************************************************************)
EXTENDS Naturals

CONSTANT Deliveries

VARIABLES
    state,         \* where a delivery is
    copies,        \* how many copies the endpoint has accepted
    excuses        \* retry requests for it, and crashes

vars == <<state, copies, excuses>>

Init ==
    /\ state = [d \in Deliveries |-> "absent"]
    /\ copies = [d \in Deliveries |-> 0]
    /\ excuses = [d \in Deliveries |-> 0]

Enqueue(S) ==
    /\ \A d \in S : state[d] = "absent" /\ copies[d] = 0
    /\ state' = [d \in Deliveries |-> IF d \in S THEN "queued" ELSE state[d]]
    /\ UNCHANGED <<copies, excuses>>

Accept(d) ==
    /\ copies[d] <= excuses[d]
    /\ copies' = [copies EXCEPT ![d] = @ + 1]
    /\ UNCHANGED <<state, excuses>>

Deliver(d) ==
    /\ state[d] = "queued"
    /\ copies[d] > 0
    /\ state' = [state EXCEPT ![d] = "delivered"]
    /\ UNCHANGED <<copies, excuses>>

GiveUp(d) ==
    /\ state[d] = "queued"
    /\ state' = [state EXCEPT ![d] = "given_up"]
    /\ UNCHANGED <<copies, excuses>>

Requeue(d) ==
    /\ state[d] # "absent"
    /\ state' = [state EXCEPT ![d] = "queued"]
    /\ excuses' = [excuses EXCEPT ![d] = @ + 1]
    /\ UNCHANGED copies

Discard(S) ==
    /\ state' = [d \in Deliveries |-> IF d \in S THEN "absent" ELSE state[d]]
    /\ UNCHANGED <<copies, excuses>>

Crash ==
    /\ excuses' = [d \in Deliveries |-> excuses[d] + 1]
    /\ UNCHANGED <<state, copies>>

Next ==
    \/ \E S \in SUBSET Deliveries : Enqueue(S) \/ Discard(S)
    \/ \E d \in Deliveries : Accept(d) \/ Deliver(d) \/ GiveUp(d) \/ Requeue(d)
    \/ Crash

Spec == Init /\ [][Next]_vars

(* Every queued delivery leaves the queue *)
Settles == \A d \in Deliveries : state[d] = "queued" ~> state[d] # "queued"

=============================================================================
