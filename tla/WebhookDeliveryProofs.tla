------------------------ MODULE WebhookDeliveryProofs ------------------------
(***************************************************************************)
(* Proofs about WebhookDelivery, for any number of hooks, events, retries   *)
(* and clients and any batch size and delays.                               *)
(***************************************************************************)
EXTENDS WebhookDelivery, FiniteSetTheorems, TLAPS

(* The place of a delivery in a batch (its index in the sliced query) is a   *)
(* number, as there are finitely many deliveries.                            *)
LEMMA PlaceType ==
    ASSUME NEW d \in Deliveries
    PROVE  Place(d) \in Nat
<1>1. IsFiniteSet(Deliveries)
  <2>1. IsFiniteSet(1 .. MaxEvents)
    BY FS_Interval, EventsAssumption
  <2> QED  BY <2>1, FS_Product, HooksAssumption, Zenon DEF Deliveries
<1>2. {e \in DueDeliveries : Before(e, d)} \in SUBSET Deliveries
  BY DEF DueDeliveries
<1>3. IsFiniteSet({e \in DueDeliveries : Before(e, d)})
  BY <1>1, <1>2, FS_Subset
<1> QED  BY <1>3, FS_CardinalityType DEF Place

(* The delay _schedule_retry looks up is one of the list: the index is cut   *)
(* off at its last entry.                                                    *)
LEMMA DelayType ==
    ASSUME TypeOK, NEW d \in Deliveries, batch[d] # None
    PROVE  Delay(d) \in Nat
<1>1. batch[d] \in Snapshot
  BY DEF TypeOK
<1>2. Attempt(d) \in Nat
  BY <1>1 DEF Attempt, Snapshot
<1>3. Len(RetryDelays) \in Nat /\ Len(RetryDelays) # 0
  BY DelaysAssumption
<1> QED  BY <1>2, <1>3, DelaysAssumption DEF Delay

(* A delivery whose outcome is not saved yet is still in the batch. *)
PostingIsLoaded == \A d \in Deliveries : posting = d => batch[d] # None

(* The loop over the batch preserves the types. *)
LEMMA JobStepType ==
    ASSUME TypeOK, PostingIsLoaded, JobStep
    PROVE  TypeOK'
<1>1. PICK d \in Deliveries :
        \/ SkipInactive(d)
        \/ \E reply \in {"ok", "error"} : Post(d, reply)
        \/ SaveSuccess(d)
        \/ ScheduleRetry(d)
        \/ SaveDeleted(d)
  BY DEF JobStep
<1>2. CASE SkipInactive(d)
  BY <1>2 DEF SkipInactive, AbortRun, TypeOK, DeliveryStatus, hookVars, countVars
<1>3. ASSUME NEW reply \in {"ok", "error"}, Post(d, reply)
      PROVE  TypeOK'
  BY <1>3, NoneAssumption DEF Post, TypeOK, hookVars, rowVars
<1>4. ASSUME posting = d
      PROVE  Attempt(d) \in Nat
  <2>1. batch[d] \in Snapshot
    BY <1>4 DEF PostingIsLoaded, TypeOK
  <2> QED  BY <2>1 DEF Attempt, Snapshot
<1>5. CASE SaveSuccess(d)
  BY <1>5, <1>4 DEF SaveSuccess, Finished, TypeOK, DeliveryStatus, hookVars, countVars
<1>6. CASE ScheduleRetry(d)
  <2>1. Attempt(d) \in Nat /\ Delay(d) \in Nat
    BY <1>6, <1>4, DelayType DEF ScheduleRetry, PostingIsLoaded
  <2>2. status' \in [Deliveries -> DeliveryStatus] /\ attempts' \in [Deliveries -> Nat]
    BY <1>6, <2>1 DEF ScheduleRetry, TypeOK, DeliveryStatus
  <2>3. timer' \in [Deliveries -> Int]
    BY <1>6, <2>1 DEF ScheduleRetry, TypeOK
  <2> QED  BY <1>6, <2>2, <2>3 DEF ScheduleRetry, Finished, TypeOK, hookVars, countVars
<1>7. CASE SaveDeleted(d)
  BY <1>7 DEF SaveDeleted, AbortRun, TypeOK, hookVars, rowVars, countVars
<1> QED  BY <1>1, <1>2, <1>3, <1>5, <1>6, <1>7

(* A request, a deletion, the clock and a restart preserve the types. *)
LEMMA OtherStepsType ==
    ASSUME TypeOK,
           \/ Emit \/ LoadBatch \/ Crash \/ Tick
           \/ \E c \in Clients, d \in Deliveries : RetryRead(c, d)
           \/ \E c \in Clients : RetryWrite(c)
           \/ \E h \in Hooks : SwitchHook(h) \/ DeleteHook(h)
           \/ \E d \in Deliveries : PurgeDelivery(d)
    PROVE  TypeOK'
<1>1. CASE Emit
  BY <1>1, EventsAssumption
  DEF Emit, TypeOK, DeliveryStatus, hookVars, jobVars, countVars
<1>2. CASE LoadBatch
  <2>1. \A d \in Deliveries :
          [attempts |-> attempts[d], active |-> active[HookOf(d)], place |-> Place(d)]
            \in Snapshot
    <3>1. \A d \in Deliveries : HookOf(d) \in Hooks
      BY DEF Deliveries, HookOf
    <3> QED  BY <3>1, PlaceType DEF Snapshot, TypeOK
  <2>2. batch' \in [Deliveries -> Snapshot \cup {None}]
    BY <1>2, <2>1 DEF LoadBatch
  <2> QED  BY <1>2, <2>2 DEF LoadBatch, TypeOK, hookVars, rowVars, countVars
<1>3. CASE Crash
  BY <1>3, LimitsAssumption DEF Crash, AbortRun, TypeOK, hookVars, rowVars, countVars
<1>4. CASE Tick
  BY <1>4 DEF Tick, TypeOK, hookVars, jobVars, countVars
<1>5. ASSUME NEW c \in Clients, NEW d \in Deliveries, RetryRead(c, d)
      PROVE  TypeOK'
  BY <1>5 DEF RetryRead, TypeOK, hookVars, rowVars, jobVars, countVars
<1>6. ASSUME NEW c \in Clients, RetryWrite(c)
      PROVE  TypeOK'
  <2>1. retrying[c] \in Deliveries
    BY <1>6 DEF RetryWrite, TypeOK
  <2> QED  BY <1>6, <2>1 DEF RetryWrite, TypeOK, DeliveryStatus, hookVars, jobVars
<1>7. ASSUME NEW h \in Hooks, SwitchHook(h)
      PROVE  TypeOK'
  BY <1>7 DEF SwitchHook, TypeOK, rowVars, jobVars, countVars
<1>8. ASSUME NEW h \in Hooks, DeleteHook(h)
      PROVE  TypeOK'
  BY <1>8 DEF DeleteHook, Discard, TypeOK, DeliveryStatus, jobVars, countVars
<1>9. ASSUME NEW d \in Deliveries, PurgeDelivery(d)
      PROVE  TypeOK'
  BY <1>9 DEF PurgeDelivery, Discard, TypeOK, DeliveryStatus, jobVars, countVars
<1> QED  BY <1>1, <1>2, <1>3, <1>4, <1>5, <1>6, <1>7, <1>8, <1>9

-----------------------------------------------------------------------------
(* The inductive invariant *)

(* The one acceptance a delivery has had without a crash or a reset to pay for *)
(* it: it is the one being saved, or the delivery is out of the job's hands    *)
(* and will not be loaded again.                                               *)
Credit(d) ==
    \/ posting = d /\ answer = "ok"
    \/ batch[d] = None /\ status[d] \in {"success", "absent"}

Accounted(d) ==
    accepted[d] <= resets[d] + faults + (IF Credit(d) THEN 1 ELSE 0)

AllAccounted == \A d \in Deliveries : Accounted(d)

(* Nothing happens to a delivery before its event is emitted. *)
UnbornIsBlank ==
    \A d \in Deliveries :
        d[1] > events => status[d] = "absent" /\ batch[d] = None /\ accepted[d] = 0

(* An outcome held by the job is the answer of a POST that was made. *)
OkWasAccepted == \A d \in Deliveries : posting = d /\ answer = "ok" => accepted[d] > 0

Inv == PostingIsLoaded /\ UnbornIsBlank /\ AllAccounted /\ OkWasAccepted /\ OutcomeIsTrue

(* The batch loop preserves the invariant. *)
LEMMA JobStepInv ==
    ASSUME TypeOK, TypeOK', Inv, JobStep
    PROVE  Inv'
<1>1. PICK d \in Deliveries :
        \/ SkipInactive(d)
        \/ \E reply \in {"ok", "error"} : Post(d, reply)
        \/ SaveSuccess(d)
        \/ ScheduleRetry(d)
        \/ SaveDeleted(d)
  BY DEF JobStep
<1>2. d # None
  BY NoneAssumption
<1>3. CASE SkipInactive(d)
  <2> USE <1>3, <1>2 DEF SkipInactive, InTurn, AbortRun, Inv, TypeOK
  <2>1. PostingIsLoaded'
    BY NoneAssumption DEF PostingIsLoaded
  <2>2. UnbornIsBlank'
    BY DEF UnbornIsBlank, countVars
  <2>3. AllAccounted' /\ OkWasAccepted'
    BY DEF AllAccounted, Accounted, Credit, OkWasAccepted, countVars
  <2>4. OutcomeIsTrue'
    BY DEF OutcomeIsTrue, countVars
  <2> QED  BY <2>1, <2>2, <2>3, <2>4
<1>4. ASSUME NEW reply \in {"ok", "error"}, Post(d, reply)
      PROVE  Inv'
  <2> USE <1>4, <1>2 DEF Post, InTurn, Inv, TypeOK
  <2>1. PostingIsLoaded'
    BY NoneAssumption DEF PostingIsLoaded
  <2>2. UnbornIsBlank'
    BY DEF UnbornIsBlank, rowVars
  <2>3. AllAccounted' /\ OkWasAccepted'
    BY DEF AllAccounted, Accounted, Credit, OkWasAccepted, rowVars
  <2>4. OutcomeIsTrue'
    BY DEF OutcomeIsTrue, rowVars
  <2> QED  BY <2>1, <2>2, <2>3, <2>4
<1>5. CASE SaveSuccess(d)
  <2> USE <1>5, <1>2 DEF SaveSuccess, Finished, Inv, TypeOK
  <2>1. PostingIsLoaded'
    BY NoneAssumption DEF PostingIsLoaded
  <2>2. UnbornIsBlank'
    BY DEF UnbornIsBlank, countVars
  <2>3. AllAccounted' /\ OkWasAccepted'
    BY DEF AllAccounted, Accounted, Credit, OkWasAccepted, countVars
  <2>4. OutcomeIsTrue'
    BY DEF OutcomeIsTrue, OkWasAccepted, countVars
  <2> QED  BY <2>1, <2>2, <2>3, <2>4
<1>6. CASE ScheduleRetry(d)
  <2> USE <1>6, <1>2 DEF ScheduleRetry, Finished, Inv
  <2>1. PostingIsLoaded'
    BY NoneAssumption DEF PostingIsLoaded, TypeOK
  <2>2. UnbornIsBlank'
    BY DEF UnbornIsBlank, TypeOK, countVars
  <2>3. AllAccounted' /\ OkWasAccepted'
    BY DEF AllAccounted, Accounted, Credit, OkWasAccepted, PostingIsLoaded, TypeOK, countVars
  <2>4. OutcomeIsTrue'
    <3>1. MaxRetries[HookOf(d)] \in Nat
      BY HooksAssumption DEF Deliveries, HookOf
    <3>2. Attempt(d) \in Nat
      BY DEF PostingIsLoaded, TypeOK, Snapshot, Attempt
    <3>3. status'[d] = "failed" => attempts'[d] < MaxRetries[HookOf(d)]
      BY <3>1, <3>2 DEF Exhausts, TypeOK
    <3>4. status'[d] # "success"
      BY DEF TypeOK
    <3> QED  BY <3>3, <3>4 DEF OutcomeIsTrue, TypeOK, countVars
  <2> QED  BY <2>1, <2>2, <2>3, <2>4
<1>7. CASE SaveDeleted(d)
  <2> USE <1>7, <1>2 DEF SaveDeleted, AbortRun, Inv, TypeOK
  <2>1. PostingIsLoaded'
    BY NoneAssumption DEF PostingIsLoaded
  <2>2. UnbornIsBlank'
    BY DEF UnbornIsBlank, rowVars, countVars
  <2>3. AllAccounted' /\ OkWasAccepted'
    BY DEF AllAccounted, Accounted, Credit, OkWasAccepted, rowVars, countVars
  <2>4. OutcomeIsTrue'
    BY DEF OutcomeIsTrue, rowVars, countVars
  <2> QED  BY <2>1, <2>2, <2>3, <2>4
<1> QED  BY <1>1, <1>3, <1>4, <1>5, <1>6, <1>7

(* Deleting rows, under the feet of the job or not, preserves the invariant. *)
LEMMA DiscardInv ==
    ASSUME TypeOK, TypeOK', Inv, NEW S \in SUBSET Deliveries, Discard(S)
    PROVE  Inv'
<1> USE DEF Discard, Inv, TypeOK, jobVars, countVars
<1>1. PostingIsLoaded'
  BY DEF PostingIsLoaded
<1>2. UnbornIsBlank'
  BY DEF UnbornIsBlank
<1>3. AllAccounted' /\ OkWasAccepted'
  BY DEF AllAccounted, Accounted, Credit, OkWasAccepted
<1>4. OutcomeIsTrue'
  BY DEF OutcomeIsTrue
<1> QED  BY <1>1, <1>2, <1>3, <1>4

(* A reset pays for the acceptance it forgets: it may overwrite a success that *)
(* was saved after the view read the delivery.                                 *)
LEMMA RetryWriteInv ==
    ASSUME TypeOK, TypeOK', Inv, NEW c \in Clients, RetryWrite(c)
    PROVE  Inv'
<1>1. retrying[c] \in Deliveries
  BY DEF RetryWrite, TypeOK
<1> USE <1>1 DEF RetryWrite, Inv, TypeOK, jobVars
<1>2. PostingIsLoaded'
  BY DEF PostingIsLoaded
<1>3. UnbornIsBlank'
  BY DEF UnbornIsBlank
<1>4. AllAccounted' /\ OkWasAccepted'
  BY DEF AllAccounted, Accounted, Credit, OkWasAccepted
<1>5. OutcomeIsTrue'
  BY DEF OutcomeIsTrue
<1> QED  BY <1>2, <1>3, <1>4, <1>5

(* Every step preserves the invariant. *)
LEMMA InvStep ==
    ASSUME TypeOK, TypeOK', Inv, [Next]_vars
    PROVE  Inv'
<1>1. CASE UNCHANGED vars
  BY <1>1
  DEF vars, hookVars, rowVars, jobVars, countVars, Inv, PostingIsLoaded, UnbornIsBlank,
      AllAccounted, Accounted, Credit, OkWasAccepted, OutcomeIsTrue
<1>2. CASE Emit
  <2> USE <1>2 DEF Emit, Inv, TypeOK, jobVars, countVars
  <2>0. \A d \in Deliveries : d[1] \in Int
    BY EventsAssumption DEF Deliveries
  <2>1. PostingIsLoaded'
    BY DEF PostingIsLoaded
  <2>2. UnbornIsBlank'
    BY <2>0 DEF UnbornIsBlank
  <2>3. AllAccounted' /\ OkWasAccepted'
    BY <2>0 DEF AllAccounted, Accounted, Credit, OkWasAccepted, UnbornIsBlank
  <2>4. OutcomeIsTrue'
    BY DEF OutcomeIsTrue
  <2> QED  BY <2>1, <2>2, <2>3, <2>4
<1>3. CASE LoadBatch
  <2>1. posting = None /\ \A d \in Deliveries : posting # d
    BY <1>3, NoneAssumption DEF LoadBatch, JobIdle
  <2>2. \A d \in Deliveries : batch[d] = None /\ (batch'[d] # None => status[d] \in Queued)
    BY <1>3 DEF LoadBatch, JobIdle, DueDeliveries
  <2> USE <1>3, <2>1, <2>2 DEF LoadBatch, Inv, TypeOK, rowVars, countVars
  <2>3. PostingIsLoaded'
    BY DEF PostingIsLoaded
  <2>4. UnbornIsBlank'
    BY DEF UnbornIsBlank, Queued
  <2>5. AllAccounted' /\ OkWasAccepted'
    BY DEF AllAccounted, Accounted, Credit, OkWasAccepted, Queued
  <2>6. OutcomeIsTrue'
    BY DEF OutcomeIsTrue
  <2> QED  BY <2>3, <2>4, <2>5, <2>6
<1>4. CASE JobStep
  BY <1>4, JobStepInv
<1>5. CASE Crash
  <2> USE <1>5, NoneAssumption DEF Crash, AbortRun, Inv, TypeOK, rowVars, countVars
  <2>1. PostingIsLoaded'
    BY DEF PostingIsLoaded
  <2>2. UnbornIsBlank'
    BY DEF UnbornIsBlank
  <2>3. AllAccounted' /\ OkWasAccepted'
    BY DEF AllAccounted, Accounted, Credit, OkWasAccepted
  <2>4. OutcomeIsTrue'
    BY DEF OutcomeIsTrue
  <2> QED  BY <2>1, <2>2, <2>3, <2>4
<1>6. CASE \/ Tick
           \/ \E c \in Clients, d \in Deliveries : RetryRead(c, d)
           \/ \E h \in Hooks : SwitchHook(h)
  <2>1. UNCHANGED <<events, status, attempts, delivered, jobVars, faults, countVars>>
    BY <1>6 DEF Tick, RetryRead, SwitchHook, rowVars
  <2> QED  BY <2>1
           DEF jobVars, countVars, Inv, PostingIsLoaded, UnbornIsBlank, AllAccounted,
               Accounted, Credit, OkWasAccepted, OutcomeIsTrue
<1>7. ASSUME NEW c \in Clients, RetryWrite(c)
      PROVE  Inv'
  BY <1>7, RetryWriteInv
<1>8. ASSUME NEW h \in Hooks, DeleteHook(h)
      PROVE  Inv'
  <2>1. {d \in Deliveries : HookOf(d) = h} \in SUBSET Deliveries
    OBVIOUS
  <2> QED  BY <1>8, <2>1, DiscardInv DEF DeleteHook
<1>9. ASSUME NEW d \in Deliveries, PurgeDelivery(d)
      PROVE  Inv'
  BY <1>9, DiscardInv DEF PurgeDelivery
<1> QED  BY <1>1, <1>2, <1>3, <1>4, <1>5, <1>6, <1>7, <1>8, <1>9 DEF Next

(* Types and invariant together hold in every reachable state. *)
LEMMA Invariance == Spec => [](TypeOK /\ Inv)
<1>1. Init => TypeOK /\ Inv
  <2> SUFFICES ASSUME Init PROVE TypeOK /\ Inv
    OBVIOUS
  <2>1. TypeOK
    BY EventsAssumption, LimitsAssumption DEF Init, TypeOK, DeliveryStatus
  <2>2. PostingIsLoaded /\ UnbornIsBlank /\ OkWasAccepted /\ OutcomeIsTrue
    BY NoneAssumption DEF Init, PostingIsLoaded, UnbornIsBlank, OkWasAccepted, OutcomeIsTrue
  <2>3. AllAccounted
    BY DEF Init, AllAccounted, Accounted, Credit
  <2> QED  BY <2>1, <2>2, <2>3 DEF Inv
<1>2. TypeOK /\ Inv /\ [Next]_vars => TypeOK' /\ Inv'
  <2> SUFFICES ASSUME TypeOK, Inv, [Next]_vars PROVE TypeOK' /\ Inv'
    OBVIOUS
  <2>1. TypeOK'
    <3>1. CASE UNCHANGED vars
      BY <3>1 DEF TypeOK, vars, hookVars, rowVars, jobVars, countVars
    <3>2. CASE JobStep
      BY <3>2, JobStepType DEF Inv
    <3>3. CASE Next /\ ~JobStep
      BY <3>3, OtherStepsType DEF Next
    <3> QED  BY <3>1, <3>2, <3>3
  <2> QED  BY <2>1, InvStep
<1> QED  BY <1>1, <1>2, PTL DEF Spec

-----------------------------------------------------------------------------
(* Theorems *)

(* The rows, the loaded batch and the job's locals keep their types through    *)
(* every interleaving of process_pending with requests, purges and restarts.   *)
THEOREM TypeCorrect == Spec => []TypeOK
BY Invariance, PTL

(* An endpoint accepts a delivery at most once more than the retry requests    *)
(* and crashes explain, whatever _deliver_one's late saves overwrite.          *)
THEOREM DuplicatesAreExplained == Spec => []DuplicatesAreBounded
<1>1. TypeOK /\ Inv => DuplicatesAreBounded
  BY DEF TypeOK, Inv, AllAccounted, Accounted, DuplicatesAreBounded
<1> QED  BY <1>1, Invariance, PTL

(* The status saved by _deliver_one and _schedule_retry tells the truth about  *)
(* the POSTs made, though they save what they loaded earlier.                  *)
THEOREM OutcomesAreTrue == Spec => []OutcomeIsTrue
<1>1. Inv => OutcomeIsTrue
  BY DEF Inv
<1> QED  BY <1>1, Invariance, PTL

-----------------------------------------------------------------------------
(* The refinement *)

(* A row the job has loaded is queued until the job has settled it, unless it  *)
(* is deleted: only the job settles deliveries, and it loads each once a run.  *)
LoadedIsQueued ==
    \A d \in Deliveries : batch[d] # None => status[d] \in Queued \cup {"absent"}

LEMMA LoadedIsQueuedStep ==
    ASSUME TypeOK, Inv, LoadedIsQueued, [Next]_vars
    PROVE  LoadedIsQueued'
<1> USE DEF LoadedIsQueued, TypeOK, Queued, DeliveryStatus
<1>1. CASE UNCHANGED vars
  BY <1>1 DEF vars, rowVars, jobVars
<1>2. CASE Emit
  BY <1>2 DEF Emit, jobVars
<1>3. CASE LoadBatch
  BY <1>3 DEF LoadBatch, DueDeliveries, rowVars
<1>4. ASSUME NEW d \in Deliveries, SkipInactive(d)
      PROVE  LoadedIsQueued'
  BY <1>4 DEF SkipInactive, AbortRun
<1>5. ASSUME NEW d \in Deliveries, NEW reply \in {"ok", "error"}, Post(d, reply)
      PROVE  LoadedIsQueued'
  BY <1>5 DEF Post, rowVars
<1>6. ASSUME NEW d \in Deliveries, SaveSuccess(d) \/ ScheduleRetry(d)
      PROVE  LoadedIsQueued'
  BY <1>6 DEF SaveSuccess, ScheduleRetry, Finished
<1>7. ASSUME NEW d \in Deliveries, SaveDeleted(d)
      PROVE  LoadedIsQueued'
  BY <1>7 DEF SaveDeleted, AbortRun
<1>8. CASE Crash
  BY <1>8 DEF Crash, AbortRun
<1>9. CASE \/ Tick
           \/ \E c \in Clients, d \in Deliveries : RetryRead(c, d)
           \/ \E h \in Hooks : SwitchHook(h)
  BY <1>9 DEF Tick, RetryRead, SwitchHook, rowVars, jobVars
<1>10. ASSUME NEW c \in Clients, RetryWrite(c)
       PROVE  LoadedIsQueued'
  BY <1>10 DEF RetryWrite, jobVars
<1>11. ASSUME NEW h \in Hooks, DeleteHook(h)
       PROVE  LoadedIsQueued'
  BY <1>11 DEF DeleteHook, Discard, jobVars
<1>12. ASSUME NEW d \in Deliveries, PurgeDelivery(d)
       PROVE  LoadedIsQueued'
  BY <1>12 DEF PurgeDelivery, Discard, jobVars
<1> QED
  BY <1>1, <1>2, <1>3, <1>4, <1>5, <1>6, <1>7, <1>8, <1>9, <1>10, <1>11, <1>12
  DEF Next, JobStep

(* Whatever leaves the statuses and the counters alone is no step of the queue. *)
LEMMA QueueStutters ==
    ASSUME UNCHANGED <<status, accepted, resets, faults>>
    PROVE  UNCHANGED Queue!vars
BY DEF Queue!vars, QueueState, Excuses

LEMMA JobStepRefines ==
    ASSUME TypeOK, Inv, LoadedIsQueued, JobStep
    PROVE  Queue!Next \/ UNCHANGED Queue!vars
<1>1. PICK d \in Deliveries :
        \/ SkipInactive(d)
        \/ \E reply \in {"ok", "error"} : Post(d, reply)
        \/ SaveSuccess(d)
        \/ ScheduleRetry(d)
        \/ SaveDeleted(d)
  BY DEF JobStep
<1>2. CASE SkipInactive(d)
  <2>1. CASE status[d] = "absent"
    BY <1>2, <2>1, QueueStutters DEF SkipInactive, countVars
  <2>2. CASE status[d] # "absent"
    <3>1. QueueState[d] = "queued"
      BY <1>2, <2>2 DEF SkipInactive, InTurn, LoadedIsQueued, QueueState, Queued
    <3>2. QueueState' = [QueueState EXCEPT ![d] = "given_up"]
      BY <1>2, <2>2 DEF SkipInactive, TypeOK, QueueState, Queued
    <3>3. UNCHANGED <<accepted, Excuses>>
      BY <1>2 DEF SkipInactive, countVars, Excuses
    <3> QED  BY <3>1, <3>2, <3>3 DEF Queue!Next, Queue!GiveUp
  <2> QED  BY <2>1, <2>2
<1>3. ASSUME NEW reply \in {"ok", "error"}, Post(d, reply)
      PROVE  Queue!Next \/ UNCHANGED Queue!vars
  <2>1. UNCHANGED <<status, resets, faults>>
    BY <1>3 DEF Post, rowVars
  <2>2. CASE reply = "error"
    BY <1>3, <2>1, <2>2, QueueStutters DEF Post
  <2>3. CASE reply = "ok"
    <3>1. ~Credit(d)
      BY <1>3, NoneAssumption DEF Post, InTurn, Credit
    <3>2. accepted[d] <= Excuses[d]
      BY <3>1 DEF Inv, AllAccounted, Accounted, TypeOK, Excuses
    <3>3. accepted' = [accepted EXCEPT ![d] = @ + 1]
      BY <1>3, <2>3 DEF Post
    <3>4. UNCHANGED <<QueueState, Excuses>>
      BY <2>1 DEF QueueState, Excuses
    <3> QED  BY <3>2, <3>3, <3>4 DEF Queue!Next, Queue!Accept
  <2> QED  BY <2>2, <2>3
<1>4. ASSUME SaveSuccess(d) \/ ScheduleRetry(d)
      PROVE  QueueState[d] = "queued" /\ UNCHANGED <<accepted, Excuses>>
  <2>1. status[d] \in Queued
    BY <1>4 DEF SaveSuccess, ScheduleRetry, Inv, PostingIsLoaded, LoadedIsQueued
  <2> QED  BY <1>4, <2>1 DEF SaveSuccess, ScheduleRetry, countVars, QueueState, Queued, Excuses
<1>5. CASE SaveSuccess(d)
  <2>1. accepted[d] > 0
    BY <1>5 DEF SaveSuccess, Inv, OkWasAccepted
  <2>2. QueueState' = [QueueState EXCEPT ![d] = "delivered"]
    BY <1>5 DEF SaveSuccess, TypeOK, QueueState, Queued
  <2> QED  BY <1>4, <1>5, <2>1, <2>2 DEF Queue!Next, Queue!Deliver
<1>6. CASE ScheduleRetry(d)
  <2>1. CASE Exhausts(d)
    <3>1. QueueState' = [QueueState EXCEPT ![d] = "given_up"]
      BY <1>6, <2>1 DEF ScheduleRetry, TypeOK, QueueState, Queued
    <3> QED  BY <1>4, <1>6, <3>1 DEF Queue!Next, Queue!GiveUp
  <2>2. CASE ~Exhausts(d)
    <3>1. QueueState' = QueueState
      BY <1>4, <1>6, <2>2 DEF ScheduleRetry, TypeOK, QueueState, Queued
    <3> QED  BY <1>4, <1>6, <3>1 DEF Queue!vars
  <2> QED  BY <2>1, <2>2
<1>7. CASE SaveDeleted(d)
  BY <1>7, QueueStutters DEF SaveDeleted, rowVars, countVars
<1> QED  BY <1>1, <1>2, <1>3, <1>5, <1>6, <1>7

LEMMA DiscardRefines ==
    ASSUME TypeOK, NEW S \in SUBSET Deliveries, Discard(S)
    PROVE  Queue!Next
<1>1. QueueState' = [d \in Deliveries |-> IF d \in S THEN "absent" ELSE QueueState[d]]
  BY DEF Discard, TypeOK, QueueState, Queued
<1>2. UNCHANGED <<accepted, Excuses>>
  BY DEF Discard, countVars, Excuses
<1> QED  BY <1>1, <1>2 DEF Queue!Next, Queue!Discard

LEMMA StepRefines ==
    ASSUME TypeOK, Inv, LoadedIsQueued, [Next]_vars
    PROVE  [Queue!Next]_(Queue!vars)
<1>1. CASE UNCHANGED vars
  BY <1>1, QueueStutters DEF vars, rowVars, countVars
<1>2. CASE Emit
  <2> DEFINE S == {d \in Deliveries :
                     d[1] = events + 1 /\ HookOf(d) \in SubscribedWebhooks(events + 1)}
  <2>1. \A d \in S : status[d] = "absent" /\ accepted[d] = 0
    BY EventsAssumption DEF Inv, UnbornIsBlank, TypeOK, Deliveries
  <2>2. \A d \in S : QueueState[d] = "absent"
    BY <2>1 DEF QueueState, Queued
  <2>3. QueueState' = [d \in Deliveries |-> IF d \in S THEN "queued" ELSE QueueState[d]]
    BY <1>2 DEF Emit, TypeOK, QueueState, Queued
  <2>4. UNCHANGED <<accepted, Excuses>>
    BY <1>2 DEF Emit, countVars, Excuses
  <2>5. Queue!Enqueue(S)
    BY <2>1, <2>2, <2>3, <2>4 DEF Queue!Enqueue
  <2> QED  BY <2>5 DEF Queue!Next
<1>3. CASE LoadBatch \/ Tick
  BY <1>3, QueueStutters DEF LoadBatch, Tick, rowVars, countVars
<1>4. CASE JobStep
  BY <1>4, JobStepRefines
<1>5. CASE Crash
  <2>1. Excuses' = [d \in Deliveries |-> Excuses[d] + 1]
    BY <1>5 DEF Crash, countVars, TypeOK, Excuses
  <2>2. UNCHANGED <<QueueState, accepted>>
    BY <1>5 DEF Crash, rowVars, countVars, QueueState
  <2> QED  BY <2>1, <2>2 DEF Queue!Next, Queue!Crash
<1>6. CASE \/ \E c \in Clients, d \in Deliveries : RetryRead(c, d)
           \/ \E h \in Hooks : SwitchHook(h)
  BY <1>6, QueueStutters DEF RetryRead, SwitchHook, rowVars, countVars
<1>7. ASSUME NEW c \in Clients, RetryWrite(c)
      PROVE  [Queue!Next]_(Queue!vars)
  <2> DEFINE d == retrying[c]
  <2>1. d \in Deliveries
    BY <1>7 DEF RetryWrite, TypeOK
  <2>2. UNCHANGED <<accepted, faults>>
    BY <1>7 DEF RetryWrite
  <2>3. CASE status[d] = "absent"
    <3>1. UNCHANGED <<status, resets>>
      BY <1>7, <2>3 DEF RetryWrite
    <3> QED  BY <2>2, <3>1, QueueStutters
  <2>4. CASE status[d] # "absent"
    <3>1. /\ status' = [status EXCEPT ![d] = "pending"]
          /\ resets' = [resets EXCEPT ![d] = @ + 1]
      BY <1>7, <2>4 DEF RetryWrite
    <3>2. QueueState[d] # "absent"
      BY <2>1, <2>4 DEF TypeOK, DeliveryStatus, QueueState, Queued
    <3>3. QueueState' = [QueueState EXCEPT ![d] = "queued"]
      BY <2>1, <3>1 DEF TypeOK, QueueState, Queued
    <3>4. Excuses' = [Excuses EXCEPT ![d] = @ + 1]
      <4>1. faults \in Nat /\ \A e \in Deliveries : resets[e] \in Nat
        BY LimitsAssumption DEF TypeOK
      <4>2. \A e \in Deliveries : Excuses'[e] = (IF e = d THEN Excuses[e] + 1 ELSE Excuses[e])
        <5> HIDE DEF d
        <5> QED  BY <2>1, <2>2, <3>1, <4>1 DEF TypeOK, Excuses
      <4>3. Excuses' = [e \in Deliveries |-> Excuses'[e]]
        BY DEF Excuses
      <4> HIDE DEF d
      <4> QED  BY <2>1, <4>2, <4>3 DEF Excuses
    <3>5. Queue!Requeue(d)
      BY <2>2, <3>2, <3>3, <3>4 DEF Queue!Requeue
    <3> QED  BY <2>1, <3>5 DEF Queue!Next
  <2> QED  BY <2>3, <2>4
<1>8. ASSUME NEW h \in Hooks, DeleteHook(h)
      PROVE  Queue!Next
  BY <1>8, DiscardRefines DEF DeleteHook
<1>9. ASSUME NEW d \in Deliveries, PurgeDelivery(d)
      PROVE  Queue!Next
  BY <1>9, DiscardRefines DEF PurgeDelivery
<1> QED  BY <1>1, <1>2, <1>3, <1>4, <1>5, <1>6, <1>7, <1>8, <1>9 DEF Next

(* The webhook subsystem is a queue to whoever looks at it from outside: every *)
(* step of the job, of a request, of the purge and of a restart is a step of   *)
(* DeliveryQueue or none, for any number of hooks, events, retries and clients *)
(* and any batch size.                                                         *)
THEOREM QueueIsImplemented == Spec => ImplementsQueue
<1>1. Init => Queue!Init /\ LoadedIsQueued
  BY NoneAssumption DEF Init, Queue!Init, QueueState, Excuses, LoadedIsQueued, Queued
<1>2. TypeOK /\ Inv /\ LoadedIsQueued /\ [Next]_vars
        => LoadedIsQueued' /\ [Queue!Next]_(Queue!vars)
  BY LoadedIsQueuedStep, StepRefines
<1> QED  BY <1>1, <1>2, Invariance, PTL DEF Spec, ImplementsQueue, Queue!Spec

=============================================================================
