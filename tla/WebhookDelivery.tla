-------------------------- MODULE WebhookDelivery --------------------------
(***************************************************************************)
(* Outbound webhooks: WebhookService.emit queues one delivery per event and *)
(* subscribed hook; the process_webhook_deliveries job loads a batch of due *)
(* deliveries, POSTs them one after the other and saves each outcome; the   *)
(* API resets failed deliveries, switches hooks on and off and deletes      *)
(* them; the retention purge deletes old deliveries.                        *)
(*                                                                          *)
(* The job works on the rows it loaded.  A POST and the save of its outcome *)
(* are two steps: requests, deletions and crashes come in between.  Time is *)
(* kept as the distance of next_retry_at from now, in units in which the    *)
(* retry delays stay ordered; it is cut off at MaxAge overdue units.        *)
(***************************************************************************)
EXTENDS Integers, Sequences, FiniteSets

CONSTANTS
    Hooks,         \* rows of webhooks_webhook
    HookRank,      \* the order in which emit visits them
    MaxRetries,    \* Webhook.max_retries
    MaxEvents,     \* bound on the events emitted
    Interested,    \* the hooks whose event_types match an event
    RetryDelays,   \* WebhookService.RETRY_DELAYS
    BatchSize,     \* --batch-size
    Clients,       \* API workers serving a retry request
    MaxResets,     \* bound on the retry requests per delivery
    MaxFaults,     \* bound on crashes of the scheduler
    MaxAge,        \* how long a delivery is seen to be overdue
    None

ASSUME HooksAssumption ==
    /\ IsFiniteSet(Hooks)
    /\ HookRank \in [Hooks -> Nat]
    /\ MaxRetries \in [Hooks -> Nat]
ASSUME EventsAssumption ==
    /\ MaxEvents \in Nat
    /\ Interested \in [1 .. MaxEvents -> SUBSET Hooks]
ASSUME DelaysAssumption == RetryDelays \in Seq(Nat) /\ RetryDelays # <<>>
ASSUME LimitsAssumption ==
    BatchSize \in Nat /\ MaxResets \in Nat /\ MaxFaults \in Nat /\ MaxAge \in Nat

Deliveries == (1 .. MaxEvents) \X Hooks
HookOf(d) == d[2]

ASSUME NoneAssumption == None \notin Deliveries

DeliveryStatus == {"absent", "pending", "failed", "success", "exhausted"}
Queued == {"pending", "failed"}

(* What the job remembers of a delivery and its hook (select_related). *)
Snapshot == [attempts : Nat, active : BOOLEAN, place : Nat]

ASSUME SnapshotAssumption == None \notin Snapshot

VARIABLES
    active,        \* Webhook.is_active
    deleted,       \* hooks deleted
    events,        \* events emitted so far
    status,        \* WebhookDelivery.status ("absent": no such row)
    attempts,      \* WebhookDelivery.attempt_count
    timer,         \* next_retry_at - now (0 where it is NULL)
    delivered,     \* deliveries whose delivered_at is set
    batch,         \* deliveries loaded by the job, still to process
    posting,       \* the delivery POSTed, outcome not saved yet
    answer,        \* its outcome
    retrying,      \* retry requests between read and write
    faults,        \* crashes so far
    resets,        \* history: retry requests that reset a delivery
    posts,         \* history: POSTs made for a delivery
    accepted       \* history: POSTs answered with a 2xx

hookVars == <<active, deleted>>
rowVars == <<status, attempts, timer, delivered>>
jobVars == <<batch, posting, answer>>
countVars == <<resets, posts, accepted>>
vars == <<hookVars, events, rowVars, jobVars, retrying, faults, countVars>>

Init ==
    /\ active = [h \in Hooks |-> TRUE]
    /\ deleted = {}
    /\ events = 0
    /\ status = [d \in Deliveries |-> "absent"]
    /\ attempts = [d \in Deliveries |-> 0]
    /\ timer = [d \in Deliveries |-> 0]
    /\ delivered = {}
    /\ batch = [d \in Deliveries |-> None]
    /\ posting = None
    /\ answer = "none"
    /\ retrying = [c \in Clients |-> None]
    /\ faults = 0
    /\ resets = [d \in Deliveries |-> 0]
    /\ posts = [d \in Deliveries |-> 0]
    /\ accepted = [d \in Deliveries |-> 0]

-----------------------------------------------------------------------------
(* emit *)

SubscribedWebhooks(e) == {h \in Interested[e] : active[h] /\ h \notin deleted}

Emit ==
    /\ events < MaxEvents
    /\ events' = events + 1
    /\ status' = [d \in Deliveries |->
                    IF d[1] = events + 1 /\ HookOf(d) \in SubscribedWebhooks(events + 1)
                    THEN "pending" ELSE status[d]]
    /\ UNCHANGED <<hookVars, attempts, timer, delivered, jobVars, retrying, faults,
                   countVars>>

-----------------------------------------------------------------------------
(* process_pending *)

JobIdle == posting = None /\ batch = [d \in Deliveries |-> None]

(* Faulty: the filter on status is lost. *)
DueWhateverStatus ==
    {d \in Deliveries : status[d] \notin {"absent", "exhausted"} /\ timer[d] <= 0}

(* Faulty: deliveries waiting for their retry are forgotten. *)
DueOnlyPending == {d \in Deliveries : status[d] = "pending" /\ timer[d] <= 0}

DueDeliveries == {d \in Deliveries : status[d] \in Queued /\ timer[d] <= 0}

CreatedBefore(d, e) ==
    d[1] < e[1] \/ (d[1] = e[1] /\ HookRank[HookOf(d)] < HookRank[HookOf(e)])

Before(d, e) == timer[d] < timer[e] \/ (timer[d] = timer[e] /\ CreatedBefore(d, e))

Place(d) == Cardinality({e \in DueDeliveries : Before(e, d)})

LoadBatch ==
    /\ JobIdle
    /\ DueDeliveries # {}
    /\ batch' = [d \in Deliveries |->
                   IF d \in DueDeliveries /\ Place(d) < BatchSize
                   THEN [attempts |-> attempts[d], active |-> active[HookOf(d)],
                         place |-> Place(d)]
                   ELSE None]
    /\ UNCHANGED <<hookVars, events, rowVars, posting, answer, retrying, faults,
                   countVars>>

InTurn(d) ==
    /\ posting = None
    /\ batch[d] # None
    /\ \A e \in Deliveries : batch[e] # None => batch[d].place <= batch[e].place

(* A save of a row that has been deleted raises and ends the whole run *)
AbortRun == batch' = [d \in Deliveries |-> None]

SkipInactive(d) ==
    /\ InTurn(d)
    /\ ~batch[d].active
    /\ IF status[d] = "absent"
       THEN AbortRun /\ UNCHANGED status
       ELSE /\ status' = [status EXCEPT ![d] = "exhausted"]
            /\ batch' = [batch EXCEPT ![d] = None]
    /\ UNCHANGED <<hookVars, events, attempts, timer, delivered, posting, answer,
                   retrying, faults, countVars>>

Post(d, reply) ==
    /\ InTurn(d)
    /\ batch[d].active
    /\ posting' = d
    /\ answer' = reply
    /\ posts' = [posts EXCEPT ![d] = @ + 1]
    /\ accepted' = IF reply = "ok" THEN [accepted EXCEPT ![d] = @ + 1] ELSE accepted
    /\ UNCHANGED <<hookVars, events, rowVars, batch, retrying, faults, resets>>

Finished(d) ==
    /\ posting' = None
    /\ answer' = "none"
    /\ batch' = [batch EXCEPT ![d] = None]

Attempt(d) == batch[d].attempts + 1

SaveSuccess(d) ==
    /\ posting = d
    /\ answer = "ok"
    /\ status[d] # "absent"
    /\ status' = [status EXCEPT ![d] = "success"]
    /\ attempts' = [attempts EXCEPT ![d] = Attempt(d)]
    /\ timer' = [timer EXCEPT ![d] = 0]
    /\ delivered' = delivered \cup {d}
    /\ Finished(d)
    /\ UNCHANGED <<hookVars, events, retrying, faults, countVars>>

(* Faulty: the limit is tested on the row, the loaded count is saved. *)
ExhaustsByRow(d) == attempts[d] + 1 >= MaxRetries[HookOf(d)]

Exhausts(d) == Attempt(d) >= MaxRetries[HookOf(d)]

Delay(d) ==
    LET last == Len(RetryDelays) - 1
    IN  RetryDelays[1 + (IF Attempt(d) < last THEN Attempt(d) ELSE last)]

ScheduleRetry(d) ==
    /\ posting = d
    /\ answer = "error"
    /\ status[d] # "absent"
    /\ status' = [status EXCEPT ![d] = IF Exhausts(d) THEN "exhausted" ELSE "failed"]
    /\ attempts' = [attempts EXCEPT ![d] = Attempt(d)]
    /\ timer' = [timer EXCEPT ![d] = IF Exhausts(d) THEN 0 ELSE Delay(d)]
    /\ Finished(d)
    /\ UNCHANGED <<hookVars, events, delivered, retrying, faults, countVars>>

SaveDeleted(d) ==
    /\ posting = d
    /\ status[d] = "absent"
    /\ AbortRun
    /\ posting' = None
    /\ answer' = "none"
    /\ UNCHANGED <<hookVars, events, rowVars, retrying, faults, countVars>>

Crash ==
    /\ faults < MaxFaults
    /\ faults' = faults + 1
    /\ AbortRun
    /\ posting' = None
    /\ answer' = "none"
    /\ UNCHANGED <<hookVars, events, rowVars, retrying, countVars>>

Tick ==
    /\ \E d \in Deliveries : status[d] \in Queued /\ timer[d] > -MaxAge
    /\ timer' = [d \in Deliveries |-> IF status[d] \in Queued /\ timer[d] > -MaxAge
                                      THEN timer[d] - 1 ELSE timer[d]]
    /\ UNCHANGED <<hookVars, events, status, attempts, delivered, jobVars, retrying,
                   faults, countVars>>

-----------------------------------------------------------------------------
(* API requests and retention *)

RetryRead(c, d) ==
    /\ retrying[c] = None
    /\ status[d] \in {"exhausted", "failed"}
    /\ resets[d] < MaxResets
    /\ retrying' = [retrying EXCEPT ![c] = d]
    /\ UNCHANGED <<hookVars, events, rowVars, jobVars, faults, countVars>>

RetryWrite(c) ==
    LET d == retrying[c] IN
    /\ d # None
    /\ retrying' = [retrying EXCEPT ![c] = None]
    /\ \/ /\ status[d] # "absent"
          /\ status' = [status EXCEPT ![d] = "pending"]
          /\ timer' = [timer EXCEPT ![d] = 0]
          /\ attempts' = [attempts EXCEPT ![d] = 0]
          /\ resets' = [resets EXCEPT ![d] = @ + 1]
       \/ /\ status[d] = "absent"
          /\ UNCHANGED <<status, timer, attempts, resets>>
    /\ UNCHANGED <<hookVars, events, delivered, jobVars, faults, posts, accepted>>

SwitchHook(h) ==
    /\ h \notin deleted
    /\ active' = [active EXCEPT ![h] = ~@]
    /\ UNCHANGED <<deleted, events, rowVars, jobVars, retrying, faults, countVars>>

Discard(S) ==
    /\ status' = [d \in Deliveries |-> IF d \in S THEN "absent" ELSE status[d]]
    /\ attempts' = [d \in Deliveries |-> IF d \in S THEN 0 ELSE attempts[d]]
    /\ timer' = [d \in Deliveries |-> IF d \in S THEN 0 ELSE timer[d]]
    /\ delivered' = delivered \ S
    /\ UNCHANGED <<active, events, jobVars, retrying, faults, countVars>>

(* Deliveries go with their hook (on_delete=CASCADE) *)
DeleteHook(h) ==
    /\ h \notin deleted
    /\ deleted' = deleted \cup {h}
    /\ Discard({d \in Deliveries : HookOf(d) = h})

(* Whatever its status, a delivery older than the retention period is deleted *)
PurgeDelivery(d) ==
    /\ status[d] # "absent"
    /\ UNCHANGED deleted
    /\ Discard({d})

-----------------------------------------------------------------------------
JobStep ==
    \E d \in Deliveries :
        \/ SkipInactive(d)
        \/ \E reply \in {"ok", "error"} : Post(d, reply)
        \/ SaveSuccess(d)
        \/ ScheduleRetry(d)
        \/ SaveDeleted(d)

Next ==
    \/ Emit
    \/ LoadBatch
    \/ JobStep
    \/ Crash
    \/ Tick
    \/ \E c \in Clients, d \in Deliveries : RetryRead(c, d)
    \/ \E c \in Clients : RetryWrite(c)
    \/ \E h \in Hooks : SwitchHook(h) \/ DeleteHook(h)
    \/ \E d \in Deliveries : PurgeDelivery(d)

Spec == Init /\ [][Next]_vars

(***************************************************************************)
(* The scheduler runs the job every minute, a run goes on (a POST has a     *)
(* timeout) and time passes.  Events, requests and deletions owe nothing.   *)
(***************************************************************************)
Fairness == WF_vars(LoadBatch) /\ WF_vars(JobStep) /\ WF_vars(Tick)

FairSpec == Spec /\ Fairness

-----------------------------------------------------------------------------
(* Properties *)

(* Every variable keeps the type of the column, list or local it stands for. *)
TypeOK ==
    /\ active \in [Hooks -> BOOLEAN]
    /\ deleted \in SUBSET Hooks
    /\ events \in 0 .. MaxEvents
    /\ status \in [Deliveries -> DeliveryStatus]
    /\ attempts \in [Deliveries -> Nat]
    /\ timer \in [Deliveries -> Int]
    /\ delivered \in SUBSET Deliveries
    /\ batch \in [Deliveries -> Snapshot \cup {None}]
    /\ posting \in Deliveries \cup {None}
    /\ answer \in {"none", "ok", "error"}
    /\ (posting = None) <=> (answer = "none")
    /\ retrying \in [Clients -> Deliveries \cup {None}]
    /\ faults \in 0 .. MaxFaults
    /\ resets \in [Deliveries -> Nat]
    /\ posts \in [Deliveries -> Nat]
    /\ accepted \in [Deliveries -> Nat]

(* At-least-once with a price tag: the endpoint has accepted a delivery at     *)
(* most once, plus once for every retry request and every crash.  A late save, *)
(* an abort of the run, a hook switched off and on or a row deleted while it   *)
(* is being POSTed never cause a duplicate.                                    *)
DuplicatesAreBounded ==
    \A d \in Deliveries : accepted[d] <= 1 + resets[d] + faults

(* A delivery marked successful was accepted; one marked failed has attempts   *)
(* left and a time for the next.                                               *)
OutcomeIsTrue ==
    \A d \in Deliveries :
        /\ status[d] = "success" => accepted[d] > 0 /\ d \in delivered
        /\ status[d] = "failed" => attempts[d] < MaxRetries[HookOf(d)]

(* Seen from outside, the job with its batches, timers, stale rows and crashes *)
(* is the queue of DeliveryQueue: a status is a place in that queue, and every *)
(* reset and every crash is an excuse for a second copy.                       *)
QueueState ==
    [d \in Deliveries |->
        CASE status[d] \in Queued -> "queued"
          [] status[d] = "success" -> "delivered"
          [] status[d] = "exhausted" -> "given_up"
          [] OTHER -> "absent"]

Excuses == [d \in Deliveries |-> resets[d] + faults]

Queue == INSTANCE DeliveryQueue
         WITH state <- QueueState, copies <- accepted, excuses <- Excuses

(* The subsystem implements that queue: every step of the job, of a request or *)
(* of the purge is one step of the queue or none.  So a delivery is marked     *)
(* delivered only when a copy was accepted, only a request queues it again,    *)
(* and no late save, aborted run or row deleted meanwhile makes a duplicate.   *)
ImplementsQueue == Queue!Spec

(* Every queued delivery is eventually delivered, given up or deleted, though  *)
(* a run may be cut short, batches are limited and other deliveries keep being *)
(* rescheduled.                                                                *)
EveryDeliverySettles == Queue!Settles

=============================================================================
