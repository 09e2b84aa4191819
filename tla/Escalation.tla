----------------------------- MODULE Escalation -----------------------------
(***************************************************************************)
(* What happens to an incident nobody acknowledges: the escalation policy   *)
(* attached when it is opened, the process_incident_escalations job that    *)
(* works through the policy's steps and then through the workflow rules for *)
(* unacknowledged incidents, and the API requests that acknowledge, resolve,*)
(* edit or delete incidents, policies and steps meanwhile.                  *)
(*                                                                          *)
(* The job loads its incidents once per run and compares their times with   *)
(* the time the run began.  What a step or a rule does (an e-mail, a        *)
(* webhook, a new assignee or severity) is counted, not modelled.           *)
(***************************************************************************)
EXTENDS Naturals, FiniteSets

CONSTANTS
    Incidents,     \* identities of incidents, each used once
    TeamOf,        \* Incident.team (None: no team)
    Severity,      \* Incident.severity.name
    Policies,      \* rows of incidents_escalation_policy
    PolicyTeam,    \* EscalationPolicy.team
    IsDefault,     \* the policies with is_default
    PolicyRank,    \* their position in the name order
    SeverityNames, \* EscalationPolicy.severity_names
    InitialSteps,  \* the orders of their steps to begin with
    MaxOrder,      \* bound on EscalationStep.order
    Delay,         \* EscalationStep.delay_minutes of a step by its order
    Rules,         \* active incident_unacknowledged rules
    RuleDelay,     \* conditions.delay_minutes
    RuleMatches,   \* the incidents a rule's conditions select
    Clients,       \* API workers serving a request
    MaxAge,        \* minutes are counted up to here
    MaxTroubles,   \* bound on crashes, lost markers and edits of policies
    None

Orders == 1 .. MaxOrder

ASSUME IncidentsAssumption == None \notin Incidents
ASSUME PoliciesAssumption ==
    /\ None \notin Policies
    /\ PolicyRank \in [Policies -> Nat]
    /\ \A p, q \in Policies : PolicyRank[p] = PolicyRank[q] => p = q
    /\ InitialSteps \in [Policies -> SUBSET Orders]
ASSUME DelaysAssumption ==
    Delay \in [Orders -> Nat] /\ RuleDelay \in [Rules -> Nat]
ASSUME BoundsAssumption ==
    /\ MaxOrder \in Nat
    /\ MaxAge \in Nat
    /\ MaxTroubles \in Nat

States == {"triggered", "acknowledged", "resolved"}
Ages == 0 .. MaxAge

(* What the job remembers of an incident and its escalation state *)
Snapshot == [policy : Policies, order : 0 .. MaxOrder, waited : Ages]
Requests == [op : {"acknowledge", "resolve", "patch"}, incident : Incidents,
             state : States, acked : BOOLEAN]

ASSUME SnapshotAssumption == None \notin Snapshot \cup Requests \cup Ages

VARIABLES
    state,         \* Incident.state ("absent", "deleted": no such row)
    acked,         \* acknowledged_at is set
    age,           \* minutes since triggered_at
    attaching,     \* incidents created whose policy is not attached yet
    policy,        \* IncidentEscalationState.policy (None: no such row)
    order,         \* current_step_order
    completed,     \* completed
    since,         \* minutes since last_escalated_at
    steps,         \* orders of the steps of a policy
    standing,      \* EscalationPolicy: active, inactive or deleted
    phase,         \* the job: idle, escalating or rules
    loaded,        \* the incidents it has loaded, still to escalate
    notifying,     \* the incident whose step is being executed
    waiting,       \* the (rule, incident) pairs still to look at, delay passed
    firing,        \* the pair whose actions are done, marker not set yet
    marked,        \* markers in the cache
    request,       \* request between its read and its write
    faults,
    evictions,
    edits,
    sent,          \* history: executions of a step for an incident
    late,          \* history: steps executed though acknowledged
    overwritten,   \* history: acknowledged or resolved, undone by a PATCH
    edited,        \* history: policies whose steps were edited
    fired          \* history: executions of a rule for an incident

incidentVars == <<state, acked, age>>
escalationVars == <<policy, order, completed, since>>
policyVars == <<steps, standing, edits, edited>>
ruleVars == <<waiting, firing>>
jobVars == <<phase, loaded, notifying, ruleVars>>
countVars == <<sent, late, fired>>
vars == <<incidentVars, attaching, escalationVars, policyVars, jobVars, marked,
          request, faults, evictions, countVars, overwritten>>

(* The bound: crashes, markers the cache loses and edits of policies, in all *)
RoomForTrouble == faults + evictions + edits < MaxTroubles

Init ==
    /\ state = [i \in Incidents |-> "absent"]
    /\ acked = [i \in Incidents |-> FALSE]
    /\ age = [i \in Incidents |-> 0]
    /\ attaching = {}
    /\ policy = [i \in Incidents |-> None]
    /\ order = [i \in Incidents |-> 0]
    /\ completed = [i \in Incidents |-> FALSE]
    /\ since = [i \in Incidents |-> 0]
    /\ steps = InitialSteps
    /\ standing = [p \in Policies |-> "active"]
    /\ phase = "idle"
    /\ loaded = [i \in Incidents |-> None]
    /\ notifying = None
    /\ waiting = {}
    /\ firing = {}
    /\ marked = {}
    /\ request = [c \in Clients |-> None]
    /\ faults = 0
    /\ evictions = 0
    /\ edits = 0
    /\ sent = [i \in Incidents |-> [o \in Orders |-> 0]]
    /\ late = [i \in Incidents |-> 0]
    /\ overwritten = {}
    /\ edited = {}
    /\ fired = [i \in Incidents |-> [r \in Rules |-> 0]]

Exists(i) == state[i] \in States
Open(i) == state[i] \in {"triggered", "acknowledged"}

-----------------------------------------------------------------------------
(* Opening an incident *)

ActivePolicies == {p \in Policies : standing[p] = "active"}

(***************************************************************************)
(* The policy of the incident's team that a query ordered by is_default     *)
(* alone may return first.                                                  *)
(***************************************************************************)
TeamPolicies(i) ==
    LET ours == {p \in ActivePolicies : TeamOf[i] # None /\ PolicyTeam[p] = TeamOf[i]}
    IN  {p \in ours : p \in IsDefault \/ ours \cap IsDefault = {}}

Precedes(p, q) ==
    \/ p \in IsDefault /\ q \notin IsDefault
    \/ (p \in IsDefault) = (q \in IsDefault) /\ PolicyRank[p] < PolicyRank[q]

GeneralPolicies(i) ==
    LET fit == {p \in ActivePolicies : /\ PolicyTeam[p] = None
                                       /\ steps[p] # {}
                                       /\ \/ SeverityNames[p] = {}
                                          \/ Severity[i] \in SeverityNames[p]}
    IN  {p \in fit : \A q \in fit \ {p} : Precedes(p, q)}

(* The outcomes of resolve_policy_for_incident; none of them: no policy *)
ResolvePolicy(i) ==
    LET team == TeamPolicies(i)
    IN  {p \in team : steps[p] # {}}
        \cup (IF team = {} \/ \E p \in team : steps[p] = {}
              THEN GeneralPolicies(i) ELSE {})

AttachTo(i) ==
    \/ \E p \in ResolvePolicy(i) : policy' = [policy EXCEPT ![i] = p]
    \/ ResolvePolicy(i) = {} /\ UNCHANGED policy

(* run_checks opens an incident and attaches its policy in one transaction *)
OpenIncident(i) ==
    /\ state[i] = "absent"
    /\ state' = [state EXCEPT ![i] = "triggered"]
    /\ AttachTo(i)
    /\ UNCHANGED <<acked, age, attaching, order, completed, since, policyVars, jobVars,
                   marked, request, faults, evictions, countVars, overwritten>>

(* The API (and re-evaluation after maintenance) saves the incident first *)
CreateIncident(i) ==
    /\ state[i] = "absent"
    /\ state' = [state EXCEPT ![i] = "triggered"]
    /\ attaching' = attaching \cup {i}
    /\ UNCHANGED <<acked, age, escalationVars, policyVars, jobVars, marked, request,
                   faults, evictions, countVars, overwritten>>

AttachEscalationPolicy(i) ==
    /\ i \in attaching
    /\ attaching' = attaching \ {i}
    /\ IF Exists(i) THEN AttachTo(i) ELSE UNCHANGED policy
    /\ UNCHANGED <<incidentVars, order, completed, since, policyVars, jobVars, marked,
                   request, faults, evictions, countVars, overwritten>>

-----------------------------------------------------------------------------
(* process_escalations *)

(* Faulty variant: acknowledged_at is not looked at. *)
PendingUnfiltered(i) ==
    Open(i) /\ policy[i] # None /\ ~completed[i]

Pending(i) ==
    Open(i) /\ ~acked[i] /\ policy[i] # None /\ ~completed[i]

LoadIncidents ==
    /\ phase = "idle"
    /\ phase' = "escalating"
    /\ loaded' = [i \in Incidents |->
                    IF Pending(i)
                    THEN [policy |-> policy[i], order |-> order[i],
                          waited |-> IF order[i] = 0 THEN age[i] ELSE since[i]]
                    ELSE None]
    /\ UNCHANGED <<incidentVars, attaching, escalationVars, policyVars, notifying,
                   ruleVars, marked, request, faults, evictions, countVars,
                   overwritten>>

(* The next incident of the loop; the order of the rows is left open *)
InTurn(i) == phase = "escalating" /\ notifying = None /\ loaded[i] # None

NextOrder(i) == loaded[i].order + 1
HasNext(i) == NextOrder(i) \in steps[loaded[i].policy]

(* Saving a row that is gone raises and ends the run *)
AbortRun ==
    /\ phase' = "idle"
    /\ loaded' = [i \in Incidents |-> None]
    /\ notifying' = None

CompleteEscalation(i) ==
    /\ InTurn(i)
    /\ ~HasNext(i)
    /\ IF policy[i] = None
       THEN AbortRun /\ UNCHANGED completed
       ELSE /\ completed' = [completed EXCEPT ![i] = TRUE]
            /\ loaded' = [loaded EXCEPT ![i] = None]
            /\ UNCHANGED <<phase, notifying>>
    /\ UNCHANGED <<incidentVars, attaching, policy, order, since, policyVars, ruleVars,
                   marked, request, faults, evictions, countVars, overwritten>>

NotDue(i) ==
    /\ InTurn(i)
    /\ HasNext(i)
    /\ loaded[i].waited < Delay[NextOrder(i)]
    /\ loaded' = [loaded EXCEPT ![i] = None]
    /\ UNCHANGED <<incidentVars, attaching, escalationVars, policyVars, phase,
                   notifying, ruleVars, marked, request, faults, evictions, countVars,
                   overwritten>>

(* The step's action: an e-mail leaves before the transaction commits *)
ExecuteAction(i) ==
    /\ InTurn(i)
    /\ HasNext(i)
    /\ loaded[i].waited >= Delay[NextOrder(i)]
    /\ notifying' = i
    /\ sent' = [sent EXCEPT ![i][NextOrder(i)] = @ + 1]
    /\ late' = [late EXCEPT ![i] = IF acked[i] THEN @ + 1 ELSE @]
    /\ UNCHANGED <<incidentVars, attaching, escalationVars, policyVars, phase, loaded,
                   ruleVars, marked, request, faults, evictions, fired, overwritten>>

(* Faulty variant: the last step is overlooked. *)
RemainingShort(i) == \E o \in steps[loaded[i].policy] : o > NextOrder(i) + 1

Remaining(i) == \E o \in steps[loaded[i].policy] : o > NextOrder(i)

(* Faulty variant: the step is not recorded. *)
RecordStepUncounted(i) ==
    /\ order' = [order EXCEPT ![i] = loaded[i].order]
    /\ since' = [since EXCEPT ![i] = 0]
    /\ completed' = [completed EXCEPT ![i] = ~Remaining(i)]

RecordStep(i) ==
    /\ order' = [order EXCEPT ![i] = NextOrder(i)]
    /\ since' = [since EXCEPT ![i] = 0]
    /\ completed' = [completed EXCEPT ![i] = ~Remaining(i)]

CommitStep(i) ==
    /\ notifying = i
    /\ IF policy[i] = None
       THEN AbortRun /\ UNCHANGED <<order, since, completed>>
       ELSE /\ RecordStep(i)
            /\ notifying' = None
            /\ loaded' = [loaded EXCEPT ![i] = None]
            /\ UNCHANGED phase
    /\ UNCHANGED <<incidentVars, attaching, policy, policyVars, ruleVars, marked,
                   request, faults, evictions, countVars, overwritten>>

-----------------------------------------------------------------------------
(* process_unacknowledged_workflows *)

(* Decided on what is loaded and on the time the run began *)
(* Faulty variant: the condition of process_escalations is reused. *)
RuleSelectsEscalating(r, i) ==
    Pending(i) /\ age[i] >= RuleDelay[r] /\ i \in RuleMatches[r]

RuleSelects(r, i) ==
    Open(i) /\ ~acked[i] /\ age[i] >= RuleDelay[r] /\ i \in RuleMatches[r]

LoadRules ==
    /\ phase = "escalating"
    /\ loaded = [i \in Incidents |-> None]
    /\ phase' = "rules"
    /\ waiting' = {at \in Rules \X Incidents : RuleSelects(at[1], at[2])}
    /\ UNCHANGED <<incidentVars, attaching, escalationVars, policyVars, loaded,
                   notifying, firing, marked, request, faults, evictions, countVars,
                   overwritten>>

SkipRule(r, i) ==
    /\ firing = {}
    /\ <<r, i>> \in waiting
    /\ <<r, i>> \in marked
    /\ waiting' = waiting \ {<<r, i>>}
    /\ UNCHANGED <<incidentVars, attaching, escalationVars, policyVars, phase, loaded,
                   notifying, firing, marked, request, faults, evictions,
                   countVars, overwritten>>

(* Each action's errors are caught one by one: the rule has fired anyway *)
ExecuteRule(r, i) ==
    /\ firing = {}
    /\ <<r, i>> \in waiting
    /\ <<r, i>> \notin marked
    /\ firing' = {<<r, i>>}
    /\ waiting' = waiting \ {<<r, i>>}
    /\ fired' = [fired EXCEPT ![i][r] = @ + 1]
    /\ UNCHANGED <<incidentVars, attaching, escalationVars, policyVars, phase, loaded,
                   notifying, marked, request, faults, evictions, sent, late,
                   overwritten>>

MarkRuleFired ==
    /\ firing # {}
    /\ marked' = marked \cup firing
    /\ firing' = {}
    /\ UNCHANGED <<incidentVars, attaching, escalationVars, policyVars, phase, loaded,
                   notifying, waiting, request, faults, evictions, countVars,
                   overwritten>>

EndRun ==
    /\ phase = "rules"
    /\ waiting = {}
    /\ firing = {}
    /\ phase' = "idle"
    /\ UNCHANGED <<incidentVars, attaching, escalationVars, policyVars, loaded,
                   notifying, waiting, firing, marked, request, faults, evictions,
                   countVars, overwritten>>

(* The cache holds a marker for a day at most, and evicts when it is full *)
EvictMarker(r, i) ==
    /\ RoomForTrouble
    /\ <<r, i>> \in marked
    /\ evictions' = evictions + 1
    /\ marked' = marked \ {<<r, i>>}
    /\ UNCHANGED <<incidentVars, attaching, escalationVars, policyVars, jobVars,
                   request, faults, countVars, overwritten>>

-----------------------------------------------------------------------------
(* Time and crashes *)

Older(n) == IF n < MaxAge THEN n + 1 ELSE n

Tick ==
    /\ \E i \in Incidents : Exists(i) /\ (age[i] < MaxAge \/ (order[i] > 0 /\ since[i] < MaxAge))
    /\ age' = [i \in Incidents |-> IF Exists(i) THEN Older(age[i]) ELSE age[i]]
    /\ since' = [i \in Incidents |->
                   IF Exists(i) /\ order[i] > 0 THEN Older(since[i]) ELSE since[i]]
    /\ UNCHANGED <<state, acked, attaching, policy, order, completed, policyVars,
                   jobVars, marked, request, faults, evictions, countVars, overwritten>>

(* The scheduler container is restarted *)
Crash ==
    /\ RoomForTrouble
    /\ phase # "idle"
    /\ faults' = faults + 1
    /\ AbortRun
    /\ waiting' = {}
    /\ firing' = {}
    /\ UNCHANGED <<incidentVars, attaching, escalationVars, policyVars, marked, request,
                   evictions, countVars, overwritten>>

(* Whoever was opening the incident dies before the policy is attached *)
CrashAttaching(i) ==
    /\ RoomForTrouble
    /\ i \in attaching
    /\ faults' = faults + 1
    /\ attaching' = attaching \ {i}
    /\ UNCHANGED <<incidentVars, escalationVars, policyVars, jobVars, marked, request,
                   evictions, countVars, overwritten>>

-----------------------------------------------------------------------------
(* API requests *)

(***************************************************************************)
(* acknowledge and resolve refuse a resolved incident; PATCH takes any and  *)
(* may set its state.                                                       *)
(***************************************************************************)
ReadIncident(c, op, i, s) ==
    /\ request[c] = None
    /\ Exists(i)
    /\ op \in {"acknowledge", "resolve"} => Open(i) /\ s = state[i]
    /\ request' = [request EXCEPT ![c] =
                     [op |-> op, incident |-> i, state |-> s, acked |-> acked[i]]]
    /\ UNCHANGED <<incidentVars, attaching, escalationVars, policyVars, jobVars, marked,
                   faults, evictions, countVars, overwritten>>

Answer(c, op) ==
    /\ request[c] # None
    /\ request[c].op = op
    /\ request' = [request EXCEPT ![c] = None]
    /\ UNCHANGED <<age, attaching, policy, order, since, policyVars, jobVars, marked,
                   faults, evictions, countVars>>

CloseEscalation(i) ==
    completed' = [completed EXCEPT ![i] = IF policy[i] = None THEN @ ELSE TRUE]

(* Writing to an incident that is gone raises *)
AcknowledgeIncident(c) ==
    LET i == request[c].incident IN
    /\ Answer(c, "acknowledge")
    /\ IF Exists(i)
       THEN /\ state' = [state EXCEPT ![i] = "acknowledged"]
            /\ acked' = [acked EXCEPT ![i] = TRUE]
            /\ CloseEscalation(i)
       ELSE UNCHANGED <<state, acked, completed>>
    /\ UNCHANGED overwritten

ResolveIncident(c) ==
    LET i == request[c].incident IN
    /\ Answer(c, "resolve")
    /\ IF Exists(i)
       THEN state' = [state EXCEPT ![i] = "resolved"] /\ CloseEscalation(i)
       ELSE UNCHANGED <<state, completed>>
    /\ UNCHANGED <<acked, overwritten>>

(* serializer.save() writes every column back as it was read *)
PatchIncident(c) ==
    LET i == request[c].incident IN
    /\ Answer(c, "patch")
    /\ IF Exists(i)
       THEN /\ state' = [state EXCEPT ![i] = request[c].state]
            /\ acked' = [acked EXCEPT ![i] = request[c].acked]
            /\ overwritten' = IF \/ acked[i] /\ ~request[c].acked
                                 \/ state[i] = "resolved" /\ request[c].state # "resolved"
                              THEN overwritten \cup {i} ELSE overwritten
       ELSE UNCHANGED <<state, acked, overwritten>>
    /\ UNCHANGED completed

(* run_checks resolves the incident of a monitor that has recovered *)
AutoResolve(i) ==
    /\ Open(i)
    /\ state' = [state EXCEPT ![i] = "resolved"]
    /\ UNCHANGED <<acked, age, attaching, escalationVars, policyVars, jobVars, marked,
                   request, faults, evictions, countVars, overwritten>>

(* DELETE of an incident, or the purge of resolved ones *)
DeleteIncident(i) ==
    /\ Exists(i)
    /\ state' = [state EXCEPT ![i] = "deleted"]
    /\ policy' = [policy EXCEPT ![i] = None]
    /\ UNCHANGED <<acked, age, attaching, order, completed, since, policyVars, jobVars,
                   marked, request, faults, evictions, countVars, overwritten>>

EditPolicy(p) ==
    /\ RoomForTrouble
    /\ standing[p] # "deleted"
    /\ edits' = edits + 1
    /\ UNCHANGED <<incidentVars, attaching, order, completed, since, jobVars, marked,
                   request, faults, evictions, countVars, overwritten>>

AddStep(p, o) ==
    /\ EditPolicy(p)
    /\ o \notin steps[p]
    /\ steps' = [steps EXCEPT ![p] = @ \cup {o}]
    /\ edited' = edited \cup {p}
    /\ UNCHANGED <<standing, policy>>

RemoveStep(p, o) ==
    /\ EditPolicy(p)
    /\ o \in steps[p]
    /\ steps' = [steps EXCEPT ![p] = @ \ {o}]
    /\ edited' = edited \cup {p}
    /\ UNCHANGED <<standing, policy>>

SwitchPolicy(p) ==
    /\ EditPolicy(p)
    /\ standing' = [standing EXCEPT ![p] = IF @ = "active" THEN "inactive" ELSE "active"]
    /\ UNCHANGED <<steps, edited, policy>>

(* Steps and escalation states go with their policy (on_delete=CASCADE) *)
DeletePolicy(p) ==
    /\ EditPolicy(p)
    /\ standing' = [standing EXCEPT ![p] = "deleted"]
    /\ steps' = [steps EXCEPT ![p] = {}]
    /\ policy' = [i \in Incidents |-> IF policy[i] = p THEN None ELSE policy[i]]
    /\ UNCHANGED edited

-----------------------------------------------------------------------------
JobStep ==
    \/ \E i \in Incidents :
          CompleteEscalation(i) \/ NotDue(i) \/ ExecuteAction(i) \/ CommitStep(i)
    \/ LoadRules
    \/ \E r \in Rules, i \in Incidents : SkipRule(r, i) \/ ExecuteRule(r, i)
    \/ MarkRuleFired
    \/ EndRun

RequestStep(c) ==
    \/ \E op \in {"acknowledge", "resolve", "patch"}, i \in Incidents, s \in States :
          ReadIncident(c, op, i, s)
    \/ AcknowledgeIncident(c)
    \/ ResolveIncident(c)
    \/ PatchIncident(c)

Next ==
    \/ LoadIncidents
    \/ JobStep
    \/ Tick
    \/ Crash
    \/ \E i \in Incidents :
          \/ OpenIncident(i) \/ CreateIncident(i) \/ AttachEscalationPolicy(i)
          \/ CrashAttaching(i) \/ AutoResolve(i) \/ DeleteIncident(i)
    \/ \E r \in Rules, i \in Incidents : EvictMarker(r, i)
    \/ \E c \in Clients : RequestStep(c)
    \/ \E p \in Policies : SwitchPolicy(p) \/ DeletePolicy(p)
    \/ \E p \in Policies, o \in Orders : AddStep(p, o) \/ RemoveStep(p, o)

Spec == Init /\ [][Next]_vars

(***************************************************************************)
(* The scheduler starts the job every minute, a run goes on, time passes    *)
(* and an incident being opened gets its policy unless its opener dies.     *)
(***************************************************************************)
Fairness ==
    /\ WF_vars(LoadIncidents)
    /\ WF_vars(JobStep)
    /\ WF_vars(Tick)
    /\ \A i \in Incidents : WF_vars(AttachEscalationPolicy(i))

FairSpec == Spec /\ Fairness

-----------------------------------------------------------------------------
(* Properties *)

(* Every variable keeps the type of the column, cache or local it stands for. *)
TypeOK ==
    /\ state \in [Incidents -> States \cup {"absent", "deleted"}]
    /\ acked \in [Incidents -> BOOLEAN]
    /\ age \in [Incidents -> Ages]
    /\ attaching \in SUBSET Incidents
    /\ policy \in [Incidents -> Policies \cup {None}]
    /\ order \in [Incidents -> 0 .. MaxOrder]
    /\ completed \in [Incidents -> BOOLEAN]
    /\ since \in [Incidents -> Ages]
    /\ steps \in [Policies -> SUBSET Orders]
    /\ standing \in [Policies -> {"active", "inactive", "deleted"}]
    /\ phase \in {"idle", "escalating", "rules"}
    /\ loaded \in [Incidents -> Snapshot \cup {None}]
    /\ notifying \in Incidents \cup {None}
    /\ \A i \in Incidents :
         /\ notifying = i => loaded[i] # None /\ NextOrder(i) \in Orders
         /\ loaded[i] # None => phase = "escalating"
    /\ waiting \in SUBSET (Rules \X Incidents)
    /\ firing \in SUBSET (Rules \X Incidents)
    /\ marked \in SUBSET (Rules \X Incidents)
    /\ request \in [Clients -> Requests \cup {None}]
    /\ {faults, evictions, edits} \subseteq 0 .. MaxTroubles
    /\ sent \in [Incidents -> [Orders -> Nat]]
    /\ late \in [Incidents -> Nat]
    /\ overwritten \in SUBSET Incidents
    /\ edited \in SUBSET Policies
    /\ fired \in [Incidents -> [Rules -> Nat]]

(* A step is executed once for an incident, plus once for every crash (an      *)
(* e-mail leaves before its step is committed), and a rule fires once for it,  *)
(* plus once for every crash and every marker the cache loses, however         *)
(* requests, deletions, aborted runs and edits of the policy come in between.  *)
NothingRunsTwice ==
    \A i \in Incidents :
        /\ \A o \in Orders : sent[i][o] <= 1 + faults
        /\ \A r \in Rules : fired[i][r] <= 1 + evictions + faults

(* Acknowledging stops escalation: a run that had loaded the incident before   *)
(* may still execute one step (and write completed back), and no run executes  *)
(* another, unless a PATCH has undone the acknowledgement.                     *)
OneLateStep ==
    \A i \in Incidents \ overwritten : late[i] <= 1

(* No step is passed over: step n is executed only after every step before it, *)
(* and escalation ends only when somebody has taken over or, as long as the    *)
(* steps are not edited, the policy has been worked through: all of it, or up  *)
(* to the first order that no step has (the next step is looked up by its      *)
(* order, and what comes after a gap is never reached).                        *)
NoStepIsSkipped ==
    \A i \in Incidents :
        /\ \A o \in 1 .. order[i] : sent[i][o] > 0
        /\ /\ completed[i]
           /\ state[i] = "triggered"
           /\ ~acked[i]
           /\ i \notin overwritten
           /\ policy[i] \in Policies \ edited
           => \A o \in Orders : 1 .. o \subseteq steps[policy[i]] => sent[i][o] > 0

(* An incident that stays open and unacknowledged is dealt with: the           *)
(* escalation of its policy runs to the end, and a rule for unacknowledged     *)
(* incidents that matches it fires.                                            *)
EscalationFinishes ==
    \A i \in Incidents :
        /\ Pending(i) ~> ~Pending(i)
        /\ \A r \in Rules :
             Open(i) /\ ~acked[i] /\ i \in RuleMatches[r]
                 ~> acked[i] \/ ~Open(i) \/ fired[i][r] > 0

=============================================================================
