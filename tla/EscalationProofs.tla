--------------------------- MODULE EscalationProofs ---------------------------
(***************************************************************************)
(* Proofs about Escalation, for any incidents, policies, steps, rules,      *)
(* delays, clients and bounds.                                              *)
(***************************************************************************)
EXTENDS Escalation, TLAPS

(* What is between the three bounds of the model stays between them. *)
LEMMA Troubles ==
    ASSUME TypeOK
    PROVE  /\ faults \in Nat /\ evictions \in Nat /\ edits \in Nat
           /\ RoomForTrouble => {faults + 1, evictions + 1, edits + 1} \subseteq 0 .. MaxTroubles
BY BoundsAssumption DEF TypeOK, RoomForTrouble

LEMMA TypeInit ==
    ASSUME Init
    PROVE  TypeOK
<1>1. 0 \in Ages /\ 0 \in 0 .. MaxOrder /\ 0 \in 0 .. MaxTroubles
  BY BoundsAssumption DEF Ages
<1> QED  BY <1>1, IncidentsAssumption, PoliciesAssumption DEF Init, TypeOK

(* Opening an incident and attaching its policy *)
LEMMA OpeningType ==
    ASSUME TypeOK, NEW i \in Incidents,
           \/ OpenIncident(i) \/ CreateIncident(i) \/ AttachEscalationPolicy(i)
           \/ CrashAttaching(i)
    PROVE  TypeOK'
<1>1. UNCHANGED <<acked, age, order, completed, since, policyVars, jobVars, marked, request,
                  evictions, countVars, overwritten>>
  BY DEF OpenIncident, CreateIncident, AttachEscalationPolicy, CrashAttaching, incidentVars,
         escalationVars, policyVars
<1>2. ResolvePolicy(i) \subseteq Policies
  BY DEF ResolvePolicy, TeamPolicies, GeneralPolicies, ActivePolicies
<1>3. policy' \in [Incidents -> Policies \cup {None}]
  <2>1. policy' = policy \/ \E p \in ResolvePolicy(i) : policy' = [policy EXCEPT ![i] = p]
    BY DEF AttachTo, OpenIncident, CreateIncident, AttachEscalationPolicy, CrashAttaching,
           escalationVars
  <2> QED  BY <1>2, <2>1 DEF TypeOK
<1>4. /\ state' \in [Incidents -> States \cup {"absent", "deleted"}]
      /\ attaching' \in SUBSET Incidents
  BY DEF TypeOK, OpenIncident, CreateIncident, AttachEscalationPolicy, CrashAttaching,
         incidentVars, States
<1>5. faults' \in 0 .. MaxTroubles
  BY Troubles
  DEF TypeOK, OpenIncident, CreateIncident, AttachEscalationPolicy, CrashAttaching
<1> QED
  BY <1>1, <1>3, <1>4, <1>5
  DEF TypeOK, policyVars, jobVars, ruleVars, countVars, NextOrder

(* The steps of a run that escalate *)
LEMMA EscalatingType ==
    ASSUME TypeOK, NEW i \in Incidents,
           CompleteEscalation(i) \/ NotDue(i) \/ ExecuteAction(i) \/ CommitStep(i)
    PROVE  TypeOK'
<1> USE DEF escalationVars, jobVars, countVars, incidentVars, policyVars, ruleVars
<1>1. ASSUME AbortRun, UNCHANGED <<incidentVars, attaching, escalationVars, policyVars, ruleVars,
                                   marked, request, faults, evictions, countVars, overwritten>>
      PROVE  TypeOK'
  BY <1>1, IncidentsAssumption DEF TypeOK, AbortRun
<1>2. CASE CompleteEscalation(i) /\ policy[i] # None
  <2>1. /\ completed' = [completed EXCEPT ![i] = TRUE]
        /\ loaded' = [loaded EXCEPT ![i] = None]
        /\ notifying = None /\ phase = "escalating" /\ UNCHANGED <<phase, notifying>>
    BY <1>2 DEF CompleteEscalation, InTurn
  <2>2. \A j \in Incidents :
           /\ notifying' = j => loaded'[j] # None /\ NextOrder(j)' \in Orders
           /\ loaded'[j] # None => phase' = "escalating"
    BY <2>1, IncidentsAssumption
  <2> QED  BY <1>2, <2>1, <2>2 DEF CompleteEscalation, TypeOK
<1>3. CASE NotDue(i)
  <2>1. /\ loaded' = [loaded EXCEPT ![i] = None]
        /\ notifying = None /\ phase = "escalating" /\ UNCHANGED <<phase, notifying>>
    BY <1>3 DEF NotDue, InTurn
  <2>2. \A j \in Incidents :
           /\ notifying' = j => loaded'[j] # None /\ NextOrder(j)' \in Orders
           /\ loaded'[j] # None => phase' = "escalating"
    BY <2>1, IncidentsAssumption
  <2> QED  BY <1>3, <2>1, <2>2 DEF NotDue, TypeOK
<1>4. CASE ExecuteAction(i)
  <2>1. /\ loaded' = loaded /\ notifying' = i /\ phase' = phase /\ phase = "escalating"
        /\ loaded[i] # None /\ NextOrder(i) \in Orders
    BY <1>4 DEF ExecuteAction, InTurn, HasNext, TypeOK, Snapshot
  <2>2. \A j \in Incidents :
           /\ notifying' = j => loaded'[j] # None /\ NextOrder(j)' \in Orders
           /\ loaded'[j] # None => phase' = "escalating"
    BY <2>1 DEF NextOrder
  <2>3. /\ sent' \in [Incidents -> [Orders -> Nat]]
        /\ late' \in [Incidents -> Nat]
    <3>1. /\ sent' = [sent EXCEPT ![i][NextOrder(i)] = @ + 1]
          /\ late' = [late EXCEPT ![i] = IF acked[i] THEN @ + 1 ELSE @]
      BY <1>4 DEF ExecuteAction
    <3>2. sent[i] \in [Orders -> Nat] /\ late[i] \in Nat
      BY DEF TypeOK
    <3>3. [sent[i] EXCEPT ![NextOrder(i)] = @ + 1] \in [Orders -> Nat]
      BY <2>1, <3>2
    <3> QED  BY <3>1, <3>2, <3>3 DEF TypeOK
  <2> QED  BY <1>4, <2>1, <2>2, <2>3 DEF ExecuteAction, TypeOK
<1>5. CASE CommitStep(i) /\ policy[i] # None
  <2>1. NextOrder(i) \in 0 .. MaxOrder /\ 0 \in Ages
    BY <1>5, BoundsAssumption DEF CommitStep, TypeOK, Orders, Ages
  <2>2. /\ order' = [order EXCEPT ![i] = NextOrder(i)]
        /\ since' = [since EXCEPT ![i] = 0]
        /\ completed' = [completed EXCEPT ![i] = ~Remaining(i)]
        /\ loaded' = [loaded EXCEPT ![i] = None]
        /\ notifying' = None /\ phase' = phase
    BY <1>5 DEF CommitStep, RecordStep
  <2>3. \A j \in Incidents :
           /\ notifying' = j => loaded'[j] # None /\ NextOrder(j)' \in Orders
           /\ loaded'[j] # None => phase' = "escalating"
    BY <2>2, IncidentsAssumption DEF TypeOK
  <2>4. Remaining(i) \in BOOLEAN
    BY DEF Remaining
  <2>5. /\ order' \in [Incidents -> 0 .. MaxOrder]
        /\ since' \in [Incidents -> Ages]
        /\ completed' \in [Incidents -> BOOLEAN]
        /\ loaded' \in [Incidents -> Snapshot \cup {None}]
    BY <2>1, <2>2, <2>4 DEF TypeOK
  <2> QED  BY <1>5, <2>2, <2>3, <2>5 DEF CommitStep, TypeOK
<1>6. CASE (CompleteEscalation(i) \/ CommitStep(i)) /\ policy[i] = None
  BY <1>1, <1>6 DEF CompleteEscalation, CommitStep
<1> QED  BY <1>2, <1>3, <1>4, <1>5, <1>6

(* What a run begins with, and the rules *)
LEMMA RunType ==
    ASSUME TypeOK,
           \/ LoadIncidents \/ LoadRules \/ MarkRuleFired \/ EndRun \/ Crash
           \/ \E r \in Rules, i \in Incidents :
                 SkipRule(r, i) \/ ExecuteRule(r, i) \/ EvictMarker(r, i)
    PROVE  TypeOK'
<1> USE DEF jobVars, ruleVars, countVars, AbortRun
<1>1. UNCHANGED <<incidentVars, attaching, escalationVars, policyVars, request, sent, late,
                  overwritten>>
  BY DEF LoadIncidents, LoadRules, MarkRuleFired, EndRun, Crash, SkipRule, ExecuteRule, EvictMarker
<1>2. phase' \in {"idle", "escalating", "rules"}
  BY DEF TypeOK, LoadIncidents, LoadRules, MarkRuleFired, EndRun, Crash, SkipRule, ExecuteRule,
         EvictMarker
<1>3. /\ loaded' \in [Incidents -> Snapshot \cup {None}]
      /\ notifying' \in Incidents \cup {None}
      /\ \A i \in Incidents :
           /\ notifying' = i => loaded'[i] # None /\ NextOrder(i)' \in Orders
           /\ loaded'[i] # None => phase' = "escalating"
  <2>1. CASE LoadIncidents
    <3> DEFINE shot(i) == [policy |-> policy[i], order |-> order[i],
                           waited |-> IF order[i] = 0 THEN age[i] ELSE since[i]]
    <3>1. ASSUME NEW i \in Incidents, Pending(i)
          PROVE  shot(i) \in Snapshot
      BY <3>1 DEF TypeOK, Pending, Snapshot
    <3>2. /\ loaded' = [i \in Incidents |-> IF Pending(i) THEN shot(i) ELSE None]
          /\ notifying' = notifying /\ phase = "idle" /\ phase' = "escalating"
      BY <2>1 DEF LoadIncidents
    <3> HIDE DEF shot
    <3>3. loaded' \in [Incidents -> Snapshot \cup {None}]
      BY <3>1, <3>2
    <3> QED  BY <3>2, <3>3 DEF TypeOK
  <2>2. CASE Crash
    BY <2>2, IncidentsAssumption DEF TypeOK, Crash
  <2>3. CASE ~LoadIncidents /\ ~Crash
    BY <2>3 DEF TypeOK, LoadRules, MarkRuleFired, EndRun, SkipRule, ExecuteRule, EvictMarker,
                NextOrder
  <2> QED  BY <2>1, <2>2, <2>3
<1>4. /\ waiting' \in SUBSET (Rules \X Incidents)
      /\ firing' \in SUBSET (Rules \X Incidents)
      /\ marked' \in SUBSET (Rules \X Incidents)
  BY DEF TypeOK, LoadIncidents, LoadRules, MarkRuleFired, EndRun, Crash, SkipRule, ExecuteRule,
         EvictMarker
<1>5. {faults', evictions', edits'} \subseteq 0 .. MaxTroubles
  <2>1. /\ edits' = edits
        /\ faults' = faults \/ (RoomForTrouble /\ faults' = faults + 1)
        /\ evictions' = evictions \/ (RoomForTrouble /\ evictions' = evictions + 1)
    BY DEF LoadIncidents, LoadRules, MarkRuleFired, EndRun, Crash, SkipRule, ExecuteRule,
           EvictMarker, policyVars
  <2> QED  BY <2>1, Troubles DEF TypeOK
<1>6. fired' \in [Incidents -> [Rules -> Nat]]
  <2>1. \/ fired' = fired
        \/ \E r \in Rules, i \in Incidents : fired' = [fired EXCEPT ![i][r] = @ + 1]
    BY DEF LoadIncidents, LoadRules, MarkRuleFired, EndRun, Crash, SkipRule, ExecuteRule,
           EvictMarker
  <2>2. ASSUME NEW r \in Rules, NEW i \in Incidents, fired' = [fired EXCEPT ![i][r] = @ + 1]
        PROVE  fired' \in [Incidents -> [Rules -> Nat]]
    <3>1. fired[i] \in [Rules -> Nat]
      BY DEF TypeOK
    <3>2. [fired[i] EXCEPT ![r] = @ + 1] \in [Rules -> Nat]
      BY <3>1
    <3> QED  BY <2>2, <3>2 DEF TypeOK
  <2> QED  BY <2>1, <2>2 DEF TypeOK
<1> QED
  BY <1>1, <1>2, <1>3, <1>4, <1>5, <1>6
  DEF TypeOK, incidentVars, escalationVars, policyVars

(* Time, and what requests and the rest of the program do to incidents *)
LEMMA RequestType ==
    ASSUME TypeOK,
           \/ Tick
           \/ \E i \in Incidents : AutoResolve(i) \/ DeleteIncident(i)
           \/ \E c \in Clients : RequestStep(c)
    PROVE  TypeOK'
<1> USE DEF jobVars, ruleVars, countVars, escalationVars, incidentVars, policyVars
<1>1. CASE Tick
  <2>1. \A n \in Ages : Older(n) \in Ages
    BY BoundsAssumption DEF Ages, Older
  <2>2. /\ age' \in [Incidents -> Ages]
        /\ since' \in [Incidents -> Ages]
    BY <1>1, <2>1 DEF Tick, TypeOK
  <2> QED  BY <1>1, <2>2 DEF Tick, TypeOK, NextOrder
<1>2. ASSUME NEW i \in Incidents, AutoResolve(i) \/ DeleteIncident(i)
      PROVE  TypeOK'
  <2>1. /\ state' \in [Incidents -> States \cup {"absent", "deleted"}]
        /\ policy' \in [Incidents -> Policies \cup {None}]
    BY <1>2 DEF AutoResolve, DeleteIncident, TypeOK, States
  <2> QED  BY <1>2, <2>1 DEF AutoResolve, DeleteIncident, TypeOK, NextOrder
<1>3. ASSUME NEW c \in Clients, NEW op \in {"acknowledge", "resolve", "patch"},
             NEW i \in Incidents, NEW s \in States, ReadIncident(c, op, i, s)
      PROVE  TypeOK'
  <2>1. request' \in [Clients -> Requests \cup {None}]
    BY <1>3 DEF ReadIncident, TypeOK, Requests
  <2> QED  BY <1>3, <2>1 DEF ReadIncident, TypeOK, NextOrder
<1>4. ASSUME NEW c \in Clients, AcknowledgeIncident(c) \/ ResolveIncident(c) \/ PatchIncident(c)
      PROVE  TypeOK'
  <2>1. /\ UNCHANGED <<age, attaching, policy, order, since, policyVars, jobVars, marked,
                       faults, evictions, countVars>>
        /\ request' = [request EXCEPT ![c] = None]
        /\ request[c] # None
    BY <1>4 DEF AcknowledgeIncident, ResolveIncident, PatchIncident, Answer
  <2>2. request[c] \in Requests /\ request' \in [Clients -> Requests \cup {None}]
    BY <2>1 DEF TypeOK
  <2>3. /\ request[c].incident \in Incidents /\ request[c].state \in States
        /\ request[c].acked \in BOOLEAN
    BY <2>2 DEF Requests
  <2> DEFINE at == request[c].incident
  <2>4. completed' \in [Incidents -> BOOLEAN]
    <3>1. completed' = completed \/ \E b \in BOOLEAN : completed' = [completed EXCEPT ![at] = b]
      <4>1. completed[at] \in BOOLEAN
        BY <2>3 DEF TypeOK
      <4> QED
        BY <1>4, <4>1 DEF AcknowledgeIncident, ResolveIncident, PatchIncident, CloseEscalation
    <3> QED  BY <3>1 DEF TypeOK
  <2>5. /\ state' \in [Incidents -> States \cup {"absent", "deleted"}]
        /\ acked' \in [Incidents -> BOOLEAN]
        /\ overwritten' \in SUBSET Incidents
    <3>1. /\ state' = state \/ \E s \in States : state' = [state EXCEPT ![at] = s]
          /\ acked' = acked \/ \E b \in BOOLEAN : acked' = [acked EXCEPT ![at] = b]
          /\ overwritten' \in {overwritten, overwritten \cup {at}}
      BY <1>4, <2>3 DEF AcknowledgeIncident, ResolveIncident, PatchIncident, States
    <3>2. state' \in [Incidents -> States \cup {"absent", "deleted"}]
      <4>1. state \in [Incidents -> States \cup {"absent", "deleted"}]
        BY DEF TypeOK
      <4> QED  BY <3>1, <4>1
    <3>3. acked' \in [Incidents -> BOOLEAN]
      BY <3>1 DEF TypeOK
    <3> QED  BY <2>3, <3>1, <3>2, <3>3 DEF TypeOK
  <2> QED  BY <2>1, <2>2, <2>4, <2>5 DEF TypeOK, NextOrder
<1> QED  BY <1>1, <1>2, <1>3, <1>4 DEF RequestStep

LEMMA PolicyType ==
    ASSUME TypeOK, NEW p \in Policies,
           \/ SwitchPolicy(p) \/ DeletePolicy(p)
           \/ \E o \in Orders : AddStep(p, o) \/ RemoveStep(p, o)
    PROVE  TypeOK'
<1> USE DEF jobVars, ruleVars, countVars, incidentVars, EditPolicy
<1>1. UNCHANGED <<incidentVars, attaching, order, completed, since, jobVars, marked,
                  request, faults, evictions, countVars, overwritten>>
  BY DEF SwitchPolicy, DeletePolicy, AddStep, RemoveStep
<1>2. /\ steps' \in [Policies -> SUBSET Orders]
      /\ edited' \in SUBSET Policies
  <2>1. /\ steps' = steps \/ \E new \in SUBSET Orders : steps' = [steps EXCEPT ![p] = new]
        /\ edited' \in {edited, edited \cup {p}}
    <3>1. steps[p] \subseteq Orders
      BY DEF TypeOK
    <3> QED  BY <3>1 DEF SwitchPolicy, DeletePolicy, AddStep, RemoveStep
  <2>2. steps' \in [Policies -> SUBSET Orders]
    <3>1. steps \in [Policies -> SUBSET Orders]
      BY DEF TypeOK
    <3> QED  BY <2>1, <3>1
  <2> QED  BY <2>1, <2>2 DEF TypeOK
<1>4. standing' \in [Policies -> {"active", "inactive", "deleted"}]
  BY DEF TypeOK, SwitchPolicy, DeletePolicy, AddStep, RemoveStep
<1>5. policy' \in [Incidents -> Policies \cup {None}]
  BY DEF TypeOK, SwitchPolicy, DeletePolicy, AddStep, RemoveStep
<1>3. edits' \in 0 .. MaxTroubles
  BY Troubles DEF SwitchPolicy, DeletePolicy, AddStep, RemoveStep
<1> QED  BY <1>1, <1>2, <1>3, <1>4, <1>5 DEF TypeOK, NextOrder

LEMMA TypeStep ==
    ASSUME TypeOK, [Next]_vars
    PROVE  TypeOK'
<1>1. CASE UNCHANGED vars
  BY <1>1 DEF TypeOK, vars, incidentVars, escalationVars, policyVars, jobVars, ruleVars,
              countVars, NextOrder
<1> QED
  BY <1>1, OpeningType, EscalatingType, RunType, RequestType, PolicyType DEF Next, JobStep

(* Every column, cache entry and local keeps its type; the step about to be   *)
(* recorded is one the policy may have.                                       *)
THEOREM TypeCorrect == Spec => []TypeOK
BY TypeInit, TypeStep, PTL DEF Spec

-----------------------------------------------------------------------------
(* What is known of one incident between the steps of the program *)

Unattached(i) == state[i] = "absent" \/ i \in attaching

(* Nothing has happened to an incident before its policy is attached. *)
Fresh(i) ==
    /\ i \in attaching => state[i] # "absent"
    /\ Unattached(i) =>
         /\ policy[i] = None /\ loaded[i] = None /\ ~completed[i] /\ order[i] = 0
         /\ \A o \in Orders : sent[i][o] = 0

(* What the job has loaded of it is the step reached, and its policy unless   *)
(* that has been deleted.                                                      *)
Current(i) ==
    loaded[i] # None =>
        loaded[i].order = order[i] /\ policy[i] \in {None, loaded[i].policy}

(* As long as its escalation may go on, a step beyond the one reached has only *)
(* been executed by runs that crashed, and by the run at work.                 *)
Counted(i) ==
    \A o \in Orders :
        /\ sent[i][o] <= 1 + faults
        /\ /\ policy[i] # None \/ loaded[i] # None
           /\ o > order[i]
           /\ ~(notifying = i /\ o = NextOrder(i))
           => sent[i][o] <= faults

(* After a step executed though it was acknowledged, no run has it loaded. *)
LateOnce(i) ==
    i \notin overwritten =>
        late[i] = 0 \/ (late[i] = 1 /\ acked[i] /\ (loaded[i] = None \/ notifying = i))

(* Every step up to the one reached, or being recorded, was executed. *)
InOrder(i) ==
    /\ \A o \in 1 .. order[i] : sent[i][o] > 0
    /\ notifying = i => sent[i][NextOrder(i)] > 0

(* Escalation that nobody stopped ended because there was no next step. *)
WorkedThrough(i) ==
    /\ completed[i] /\ state[i] # "resolved" /\ ~acked[i] /\ i \notin overwritten
    /\ policy[i] \in Policies \ edited
    => \A o \in Orders : 1 .. o \subseteq steps[policy[i]] => sent[i][o] > 0

OfIncident(i) ==
    /\ Fresh(i)
    /\ Current(i)
    /\ Counted(i)
    /\ LateOnce(i)
    /\ InOrder(i)
    /\ WorkedThrough(i)

EscalationInv == \A i \in Incidents : OfIncident(i)

(* A rule without a marker, and not about to get one, has fired only before a *)
(* crash or before its marker was lost.                                        *)
RulesInv ==
    \A i \in Incidents, r \in Rules :
        /\ fired[i][r] <= 1 + evictions + faults
        /\ <<r, i>> \notin marked \cup firing => fired[i][r] <= evictions + faults

(* What leaves an incident's escalation alone keeps what is known of it. *)
LEMMA Untouched ==
    ASSUME TypeOK, NEW i \in Incidents, OfIncident(i),
           Unattached(i)' => Unattached(i), i \in attaching' => state'[i] # "absent",
           policy'[i] = policy[i], loaded'[i] = loaded[i], order'[i] = order[i],
           completed'[i] = completed[i], acked'[i] = acked[i],
           sent'[i] = sent[i], late'[i] = late[i],
           notifying = i <=> notifying' = i,
           state[i] = "resolved" => state'[i] = "resolved",
           faults' \in Nat, faults' >= faults,
           overwritten \subseteq overwritten', edited \subseteq edited',
           \A p \in Policies \ edited' : policy[i] = p => steps'[p] = steps[p]
    PROVE  OfIncident(i)'
<1>1. faults \in Nat /\ \A o \in Orders : sent[i][o] \in Nat
  BY Troubles DEF TypeOK
<1>2. NextOrder(i)' = NextOrder(i)
  BY DEF NextOrder
<1>3. Fresh(i)' /\ Current(i)'
  BY DEF OfIncident, Fresh, Current
<1>4. Counted(i)'
  BY <1>1, <1>2 DEF OfIncident, Counted
<1>5. LateOnce(i)' /\ InOrder(i)'
  BY <1>2 DEF OfIncident, LateOnce, InOrder
<1>6. WorkedThrough(i)'
  BY DEF OfIncident, WorkedThrough
<1> QED  BY <1>3, <1>4, <1>5, <1>6 DEF OfIncident

(* Every incident begins its escalation with nothing sent. *)
LEMMA OpeningKeeps ==
    ASSUME TypeOK, EscalationInv, NEW i \in Incidents,
           \/ OpenIncident(i) \/ CreateIncident(i) \/ AttachEscalationPolicy(i)
           \/ CrashAttaching(i)
    PROVE  EscalationInv'
<1>1. /\ UNCHANGED <<acked, order, completed, steps, edited, loaded, notifying, sent, late,
                     overwritten>>
      /\ faults' \in {faults, faults + 1}
  BY DEF OpenIncident, CreateIncident, AttachEscalationPolicy, CrashAttaching, incidentVars,
         escalationVars, policyVars, jobVars, countVars
<1>2. faults \in Nat /\ faults' \in Nat /\ faults' >= faults
  BY <1>1, Troubles
<1>3. \A j \in Incidents : /\ Unattached(j)' => Unattached(j)
                           /\ j \in attaching' => state'[j] # "absent"
                           /\ state[j] = "resolved" => state'[j] = "resolved"
                           /\ j # i => policy'[j] = policy[j]
  BY DEF OpenIncident, CreateIncident, AttachEscalationPolicy, CrashAttaching, Unattached,
         incidentVars, escalationVars, AttachTo, TypeOK, EscalationInv, OfIncident, Fresh
<1>4. policy'[i] # policy[i] => Unattached(i) /\ ~Unattached(i)'
  BY DEF OpenIncident, CreateIncident, AttachEscalationPolicy, CrashAttaching, Unattached,
         incidentVars, escalationVars, TypeOK, Exists, States, EscalationInv, OfIncident, Fresh
<1>5. CASE policy'[i] = policy[i]
  BY <1>1, <1>2, <1>3, <1>5, Untouched DEF EscalationInv
<1>6. CASE policy'[i] # policy[i]
  <2>1. ASSUME NEW j \in Incidents, j # i
        PROVE  OfIncident(j)'
    BY <1>1, <1>2, <1>3, <2>1, Untouched DEF EscalationInv
  <2>2. OfIncident(i)
    BY DEF EscalationInv
  <2>3. /\ loaded[i] = None /\ ~completed[i] /\ order[i] = 0
        /\ \A o \in Orders : sent[i][o] = 0
    BY <1>4, <1>6, <2>2 DEF OfIncident, Fresh
  <2>4. notifying # i
    BY <2>3 DEF TypeOK
  <2>5. OfIncident(i)'
    <3>1. Counted(i)'
      BY <1>1, <1>2, <2>3 DEF Counted
    <3>2. InOrder(i)'
      BY <1>1, <2>3, <2>4 DEF InOrder
    <3>3. Fresh(i)' /\ Current(i)' /\ LateOnce(i)' /\ WorkedThrough(i)'
      BY <1>1, <1>3, <1>4, <1>6, <2>2, <2>3
      DEF Fresh, Current, LateOnce, WorkedThrough, OfIncident
    <3> QED  BY <3>1, <3>2, <3>3 DEF OfIncident
  <2> QED  BY <2>1, <2>5 DEF EscalationInv
<1> QED  BY <1>5, <1>6

(* A run that is cut short has recorded one step less than it has executed. *)
LEMMA AbortKeeps ==
    ASSUME TypeOK, EscalationInv, AbortRun,
           UNCHANGED <<incidentVars, attaching, escalationVars, policyVars, countVars,
                       overwritten>>,
           faults' = faults + 1 \/ (faults' = faults /\ \A i \in Incidents : notifying = i => policy[i] = None)
    PROVE  EscalationInv'
<1> SUFFICES ASSUME NEW i \in Incidents
             PROVE  OfIncident(i)'
  BY DEF EscalationInv
<1>1. OfIncident(i)
  BY DEF EscalationInv
<1>2. /\ UNCHANGED <<state, acked, attaching, policy, order, completed, steps, edited, sent, late,
                     overwritten>>
      /\ loaded'[i] = None /\ notifying' # i
  BY IncidentsAssumption DEF incidentVars, escalationVars, policyVars, countVars, AbortRun
<1>3. faults \in Nat /\ \A o \in Orders : sent[i][o] \in Nat
  BY Troubles DEF TypeOK
<1>4. Counted(i)'
  <2> SUFFICES ASSUME NEW o \in Orders
               PROVE  /\ sent[i][o] <= 1 + faults'
                      /\ policy[i] # None /\ o > order[i] => sent[i][o] <= faults'
    BY <1>2 DEF Counted
  <2>1. CASE faults' = faults + 1
    BY <1>1, <1>3, <2>1 DEF OfIncident, Counted
  <2>2. CASE faults' = faults /\ (notifying = i => policy[i] = None)
    BY <1>1, <2>2 DEF OfIncident, Counted
  <2> QED  BY <2>1, <2>2
<1>5. Fresh(i)' /\ Current(i)' /\ LateOnce(i)' /\ InOrder(i)' /\ WorkedThrough(i)'
  BY <1>1, <1>2
  DEF OfIncident, Fresh, Unattached, Current, LateOnce, InOrder, WorkedThrough
<1> QED  BY <1>4, <1>5 DEF OfIncident

(* The steps that escalate *)
LEMMA EscalatingKeeps ==
    ASSUME TypeOK, EscalationInv, NEW i \in Incidents,
           CompleteEscalation(i) \/ NotDue(i) \/ ExecuteAction(i) \/ CommitStep(i)
    PROVE  EscalationInv'
<1> USE DEF escalationVars, jobVars, countVars, incidentVars, policyVars
<1>1. /\ UNCHANGED <<state, acked, attaching, policy, steps, edited, faults, overwritten>>
      /\ loaded[i] # None /\ loaded[i] \in Snapshot
      /\ \A j \in Incidents : Unattached(j)' <=> Unattached(j)
  BY DEF CompleteEscalation, NotDue, ExecuteAction, CommitStep, InTurn, TypeOK, Unattached
<1>2. OfIncident(i) /\ ~Unattached(i)
  BY <1>1 DEF EscalationInv, OfIncident, Fresh
<1>3. /\ order[i] \in Nat /\ loaded[i].order = order[i] /\ NextOrder(i) = order[i] + 1
      /\ policy[i] \in {None, loaded[i].policy}
  BY <1>1, <1>2 DEF OfIncident, Current, NextOrder, TypeOK
<1>4. ASSUME \A j \in Incidents \ {i} :
                /\ loaded'[j] = loaded[j] /\ order'[j] = order[j] /\ completed'[j] = completed[j]
                /\ sent'[j] = sent[j] /\ late'[j] = late[j]
                /\ notifying = j <=> notifying' = j,
             OfIncident(i)'
      PROVE  EscalationInv'
  <2>1. ASSUME NEW j \in Incidents, j # i
        PROVE  OfIncident(j)'
    <3>1. OfIncident(j) /\ (j \in attaching' => state'[j] # "absent")
      BY <1>1 DEF EscalationInv, OfIncident, Fresh
    <3>2. faults' \in Nat /\ faults' >= faults
      BY <1>1, Troubles
    <3> QED  BY <1>1, <1>4, <2>1, <3>1, <3>2, Untouched
  <2> QED  BY <1>4, <2>1 DEF EscalationInv
<1>5. Fresh(i)'
  BY <1>1, <1>2 DEF Fresh, OfIncident
<1>6. faults \in Nat /\ \A o \in Orders : o \in Nat \ {0} /\ sent[i][o] \in Nat
  <2>1. \A o \in Orders : o \in Nat \ {0}
    BY BoundsAssumption DEF Orders
  <2> QED  BY <2>1, Troubles DEF TypeOK
<1>7. CASE CompleteEscalation(i) /\ policy[i] # None
  <2>1. /\ completed' = [completed EXCEPT ![i] = TRUE]
        /\ loaded' = [loaded EXCEPT ![i] = None]
        /\ UNCHANGED <<order, notifying, sent, late>> /\ notifying = None
        /\ NextOrder(i) \notin steps[policy[i]]
    BY <1>3, <1>7 DEF CompleteEscalation, InTurn, HasNext
  <2>2. loaded'[i] = None
    BY <2>1 DEF TypeOK
  <2>3. Current(i)' /\ LateOnce(i)' /\ InOrder(i)' /\ Counted(i)'
    BY <1>1, <1>2, <2>1, <2>2, IncidentsAssumption
    DEF OfIncident, Current, LateOnce, InOrder, Counted
  <2>4. ASSUME NEW o \in Orders, 1 .. o \subseteq steps[policy[i]]
        PROVE  sent[i][o] > 0
    <3>1. o \in 1 .. order[i]
      <4>1. o >= order[i] + 1 => order[i] + 1 \in 1 .. o
        BY <1>3, <1>6
      <4> QED  BY <1>3, <1>6, <2>1, <2>4, <4>1
    <3> QED  BY <1>2, <3>1 DEF OfIncident, InOrder
  <2>5. WorkedThrough(i)'
    BY <1>1, <2>1, <2>4 DEF WorkedThrough
  <2>6. OfIncident(i)'
    BY <1>5, <2>3, <2>5 DEF OfIncident
  <2> QED  BY <1>4, <2>1, <2>6 DEF TypeOK
<1>8. CASE NotDue(i)
  <2>1. /\ loaded' = [loaded EXCEPT ![i] = None]
        /\ UNCHANGED <<completed, order, notifying, sent, late>> /\ notifying = None
    BY <1>8 DEF NotDue, InTurn
  <2>2. loaded'[i] = None
    BY <2>1 DEF TypeOK
  <2>3. Current(i)' /\ LateOnce(i)' /\ InOrder(i)' /\ Counted(i)' /\ WorkedThrough(i)'
    BY <1>1, <1>2, <2>1, <2>2, IncidentsAssumption
    DEF OfIncident, Current, LateOnce, InOrder, Counted, WorkedThrough
  <2>4. OfIncident(i)'
    BY <1>5, <2>3 DEF OfIncident
  <2> QED  BY <1>4, <2>1, <2>4 DEF TypeOK
<1>9. CASE ExecuteAction(i)
  <2>1. /\ notifying' = i /\ notifying = None
        /\ sent' = [sent EXCEPT ![i][NextOrder(i)] = @ + 1]
        /\ late' = [late EXCEPT ![i] = IF acked[i] THEN @ + 1 ELSE @]
        /\ UNCHANGED <<completed, order, loaded>>
        /\ NextOrder(i) \in steps[loaded[i].policy]
    BY <1>9 DEF ExecuteAction, InTurn, HasNext
  <2>2. NextOrder(i) \in Orders /\ NextOrder(i)' = NextOrder(i)
    BY <1>1, <2>1 DEF TypeOK, Snapshot, NextOrder
  <2>3. /\ \A o \in Orders : sent'[i][o] = IF o = NextOrder(i) THEN sent[i][o] + 1 ELSE sent[i][o]
        /\ late'[i] = IF acked[i] THEN late[i] + 1 ELSE late[i]
        /\ \A j \in Incidents \ {i} : sent'[j] = sent[j] /\ late'[j] = late[j]
    BY <2>1, <2>2 DEF TypeOK
  <2>4. Current(i)'
    BY <1>1, <1>2, <2>1 DEF OfIncident, Current
  <2>5. Counted(i)'
    <3> SUFFICES ASSUME NEW o \in Orders
                 PROVE  /\ sent'[i][o] <= 1 + faults
                        /\ o > order[i] /\ o # NextOrder(i) => sent'[i][o] <= faults
      BY <1>1, <2>1, <2>2 DEF Counted
    <3>1. /\ sent[i][o] <= 1 + faults
          /\ o > order[i] => sent[i][o] <= faults
      BY <1>1, <1>2, <2>1, IncidentsAssumption DEF OfIncident, Counted
    <3> QED  BY <1>3, <1>6, <2>3, <3>1
  <2>6. LateOnce(i)'
    BY <1>1, <1>2, <2>1, <2>3, IncidentsAssumption DEF OfIncident, LateOnce
  <2>7. InOrder(i)' /\ WorkedThrough(i)'
    <3>1. \A o \in 1 .. order[i] : o \in Orders
      BY <1>3, BoundsAssumption DEF TypeOK, Orders
    <3>2. \A o \in Orders : sent[i][o] > 0 => sent'[i][o] > 0
      BY <1>6, <2>3
    <3>3. sent'[i][NextOrder(i)] > 0
      BY <1>6, <2>2, <2>3
    <3> QED
      BY <1>1, <1>2, <2>1, <2>2, <3>1, <3>2, <3>3 DEF OfIncident, InOrder, WorkedThrough
  <2>8. OfIncident(i)'
    BY <1>5, <2>4, <2>5, <2>6, <2>7 DEF OfIncident
  <2> QED  BY <1>4, <2>1, <2>3, <2>8, IncidentsAssumption
<1>10. CASE CommitStep(i) /\ policy[i] # None
  <2>1. /\ order' = [order EXCEPT ![i] = NextOrder(i)]
        /\ completed' = [completed EXCEPT ![i] = ~Remaining(i)]
        /\ loaded' = [loaded EXCEPT ![i] = None]
        /\ notifying = i /\ notifying' = None /\ UNCHANGED <<sent, late>>
    BY <1>10 DEF CommitStep, RecordStep
  <2>2. loaded'[i] = None /\ order'[i] = order[i] + 1 /\ completed'[i] = ~Remaining(i)
    BY <1>3, <2>1 DEF TypeOK
  <2>3. Current(i)' /\ LateOnce(i)'
    BY <1>1, <1>2, <2>1, <2>2 DEF OfIncident, Current, LateOnce
  <2>4. Counted(i)'
    BY <1>1, <1>2, <1>3, <1>6, <2>1, <2>2 DEF OfIncident, Counted
  <2>5. \A o \in 1 .. order[i] + 1 : sent[i][o] > 0
    <3>1. \A o \in 1 .. order[i] + 1 : o \in 1 .. order[i] \/ o = NextOrder(i)
      BY <1>3
    <3> QED  BY <1>2, <2>1, <3>1 DEF OfIncident, InOrder
  <2>6. InOrder(i)'
    BY <2>1, <2>2, <2>5, IncidentsAssumption DEF InOrder
  <2>7. ASSUME completed'[i], NEW o \in Orders, 1 .. o \subseteq steps[policy[i]]
        PROVE  sent[i][o] > 0
    <3>1. o \in steps[policy[i]] /\ ~(o > NextOrder(i))
      <4>1. o \in 1 .. o
        BY <1>6
      <4> QED  BY <1>3, <1>10, <2>2, <2>7, <4>1 DEF Remaining
    <3>2. o \in 1 .. order[i] + 1
      BY <1>3, <3>1 DEF Orders
    <3> QED  BY <2>5, <3>2
  <2>8. WorkedThrough(i)'
    BY <1>1, <2>1, <2>7 DEF WorkedThrough
  <2>9. OfIncident(i)'
    BY <1>5, <2>3, <2>4, <2>6, <2>8 DEF OfIncident
  <2> QED  BY <1>4, <2>1, <2>9, IncidentsAssumption DEF TypeOK
<1>11. CASE (CompleteEscalation(i) \/ CommitStep(i)) /\ policy[i] = None
  <2>1. \A j \in Incidents : notifying = j => policy[j] = None
    BY <1>11, IncidentsAssumption DEF CompleteEscalation, CommitStep, InTurn
  <2>2. /\ AbortRun /\ faults' = faults
        /\ UNCHANGED <<incidentVars, attaching, escalationVars, policyVars, countVars, overwritten>>
    BY <1>11 DEF CompleteEscalation, CommitStep
  <2> QED  BY <2>1, <2>2, AbortKeeps
<1> QED  BY <1>7, <1>8, <1>9, <1>10, <1>11

(* A run loads what is there, and no incident that has been acknowledged. *)
LEMMA LoadKeeps ==
    ASSUME TypeOK, EscalationInv, LoadIncidents
    PROVE  EscalationInv'
<1> SUFFICES ASSUME NEW i \in Incidents
             PROVE  OfIncident(i)'
  BY DEF EscalationInv
<1>1. OfIncident(i)
  BY DEF EscalationInv
<1>2. /\ UNCHANGED <<state, acked, attaching, policy, order, completed, steps, edited, notifying,
                     sent, late, faults, overwritten>>
      /\ notifying # i /\ loaded[i] = None
  BY DEF LoadIncidents, incidentVars, escalationVars, policyVars, countVars, TypeOK
<1>3. loaded'[i] = IF Pending(i)
                   THEN [policy |-> policy[i], order |-> order[i],
                         waited |-> IF order[i] = 0 THEN age[i] ELSE since[i]]
                   ELSE None
  BY DEF LoadIncidents
<1>4. loaded'[i] # None => /\ loaded'[i].order = order[i] /\ loaded'[i].policy = policy[i]
                           /\ policy[i] # None /\ ~acked[i]
  BY <1>3 DEF Pending
<1>5. Counted(i)' /\ Fresh(i)'
  BY <1>1, <1>2, <1>4 DEF OfIncident, Counted, Fresh, Unattached
<1>6. Current(i)' /\ LateOnce(i)' /\ InOrder(i)' /\ WorkedThrough(i)'
  BY <1>1, <1>2, <1>4 DEF OfIncident, Current, LateOnce, InOrder, WorkedThrough
<1> QED  BY <1>5, <1>6 DEF OfIncident

(* Acknowledging, resolving and deleting stop an escalation; only a PATCH may  *)
(* undo it, and is on record.                                                   *)
LEMMA RequestKeeps ==
    ASSUME TypeOK, EscalationInv,
           \/ \E i \in Incidents : AutoResolve(i) \/ DeleteIncident(i)
           \/ \E c \in Clients : AcknowledgeIncident(c) \/ ResolveIncident(c) \/ PatchIncident(c)
    PROVE  EscalationInv'
<1> SUFFICES ASSUME NEW i \in Incidents
             PROVE  OfIncident(i)'
  BY DEF EscalationInv
<1>1. OfIncident(i)
  BY DEF EscalationInv
<1>2. UNCHANGED <<attaching, order, steps, edited, loaded, notifying, sent, late, faults>>
  BY DEF AutoResolve, DeleteIncident, AcknowledgeIncident, ResolveIncident, PatchIncident, Answer,
         incidentVars, escalationVars, policyVars, jobVars, countVars
<1>3. policy'[i] = policy[i] \/ (policy'[i] = None /\ completed'[i] = completed[i] /\ UNCHANGED acked)
  BY DEF AutoResolve, DeleteIncident, AcknowledgeIncident, ResolveIncident, PatchIncident, Answer,
         escalationVars, incidentVars, TypeOK
<1> DEFINE Allowed ==
             /\ state'[i] = state[i] \/ (state[i] \in States /\ state'[i] # "absent")
             /\ overwritten \subseteq overwritten'
             /\ completed'[i] # completed[i] => policy[i] # None
             /\ i \notin overwritten' /\ acked[i] => acked'[i]
             /\ /\ completed'[i] /\ state'[i] # "resolved" /\ ~acked'[i] /\ i \notin overwritten'
                /\ policy'[i] # None
                => completed[i] /\ state[i] # "resolved" /\ ~acked[i]
<1>4. ASSUME NEW j \in Incidents, AutoResolve(j) \/ DeleteIncident(j)
      PROVE  Allowed
  <2>1. /\ UNCHANGED <<acked, completed, overwritten>>
        /\ state'[i] # state[i] => state[i] \in States /\ state'[i] \in {"resolved", "deleted"}
        /\ state'[i] = "deleted" /\ state[i] # "deleted" => policy'[i] = None
    BY <1>4 DEF AutoResolve, DeleteIncident, escalationVars, incidentVars, TypeOK, Open, Exists,
                States
  <2> QED  BY <2>1 DEF States
<1>5. ASSUME NEW c \in Clients,
             AcknowledgeIncident(c) \/ ResolveIncident(c) \/ PatchIncident(c)
      PROVE  Allowed
  <2> DEFINE at == request[c].incident
  <2>1. request[c] \in Requests /\ at \in Incidents /\ request[c].state \in States
    BY <1>5 DEF AcknowledgeIncident, ResolveIncident, PatchIncident, Answer, TypeOK, Requests
  <2>2. CASE ~(at = i /\ Exists(i))
    <3>1. /\ state'[i] = state[i] /\ acked'[i] = acked[i] /\ completed'[i] = completed[i]
          /\ overwritten \subseteq overwritten' /\ policy' = policy
      <4>1. CASE AcknowledgeIncident(c)
        BY <2>1, <2>2, <4>1 DEF AcknowledgeIncident, Answer, TypeOK, CloseEscalation
      <4>2. CASE ResolveIncident(c)
        BY <2>1, <2>2, <4>2 DEF ResolveIncident, Answer, TypeOK, CloseEscalation
      <4>3. CASE PatchIncident(c)
        BY <2>1, <2>2, <4>3 DEF PatchIncident, Answer, TypeOK
      <4> QED  BY <1>5, <4>1, <4>2, <4>3
    <3> QED  BY <3>1
  <2>3. CASE at = i /\ Exists(i) /\ AcknowledgeIncident(c)
    <3>1. /\ state'[i] = "acknowledged" /\ acked'[i] /\ overwritten' = overwritten
          /\ completed'[i] # completed[i] => policy[i] # None
      <4>1. /\ state' = [state EXCEPT ![i] = "acknowledged"]
            /\ acked' = [acked EXCEPT ![i] = TRUE] /\ overwritten' = overwritten
            /\ completed' = [completed EXCEPT ![i] = IF policy[i] = None THEN @ ELSE TRUE]
        BY <2>3 DEF AcknowledgeIncident, CloseEscalation
      <4> QED  BY <4>1 DEF TypeOK
    <3> QED  BY <2>3, <3>1 DEF Exists
  <2>4. CASE at = i /\ Exists(i) /\ ResolveIncident(c)
    <3>1. /\ state'[i] = "resolved" /\ acked' = acked /\ overwritten' = overwritten
          /\ completed'[i] # completed[i] => policy[i] # None
      BY <2>1, <2>4 DEF ResolveIncident, CloseEscalation, TypeOK
    <3> QED  BY <2>4, <3>1 DEF Exists
  <2>5. CASE at = i /\ Exists(i) /\ PatchIncident(c)
    <3>1. /\ state'[i] = request[c].state /\ acked'[i] = request[c].acked
          /\ completed' = completed
          /\ overwritten' = IF \/ acked[i] /\ ~request[c].acked
                               \/ state[i] = "resolved" /\ request[c].state # "resolved"
                            THEN overwritten \cup {i} ELSE overwritten
      BY <2>1, <2>5 DEF PatchIncident, TypeOK
    <3> QED  BY <2>1, <2>5, <3>1 DEF Exists, States
  <2> QED  BY <1>5, <2>2, <2>3, <2>4, <2>5
<1>9. Allowed
  BY <1>4, <1>5
<1> HIDE DEF Allowed
<1>6. Fresh(i)' /\ Current(i)' /\ LateOnce(i)' /\ InOrder(i)'
  BY <1>1, <1>2, <1>3, <1>9
  DEF Allowed, OfIncident, Fresh, Unattached, Current, LateOnce, InOrder, NextOrder, States
<1>7. Counted(i)'
  BY <1>1, <1>2, <1>3 DEF OfIncident, Counted, NextOrder
<1>8. WorkedThrough(i)'
  <2>1. None \notin Policies
    BY PoliciesAssumption
  <2> QED  BY <1>1, <1>2, <1>3, <1>9, <2>1 DEF Allowed, OfIncident, WorkedThrough
<1> QED  BY <1>6, <1>7, <1>8 DEF OfIncident

(* Editing the steps of a policy is on record; deleting it ends the           *)
(* escalations that follow it.                                                 *)
LEMMA PolicyKeeps ==
    ASSUME TypeOK, EscalationInv, NEW p \in Policies,
           \/ SwitchPolicy(p) \/ DeletePolicy(p)
           \/ \E o \in Orders : AddStep(p, o) \/ RemoveStep(p, o)
    PROVE  EscalationInv'
<1> SUFFICES ASSUME NEW i \in Incidents
             PROVE  OfIncident(i)'
  BY DEF EscalationInv
<1>1. OfIncident(i)
  BY DEF EscalationInv
<1>2. UNCHANGED <<state, acked, attaching, order, completed, loaded, notifying, sent, late, faults,
                  overwritten>>
  BY DEF SwitchPolicy, DeletePolicy, AddStep, RemoveStep, EditPolicy, incidentVars, jobVars,
         countVars
<1>3. CASE policy'[i] = policy[i]
  <2>1. /\ edited \subseteq edited'
        /\ \A q \in Policies \ edited' : policy[i] = q => steps'[q] = steps[q]
    <3>1. None \notin Policies
      BY PoliciesAssumption
    <3> QED
      BY <1>3, <3>1 DEF SwitchPolicy, DeletePolicy, AddStep, RemoveStep, EditPolicy, TypeOK
  <2>2. /\ faults' \in Nat /\ faults' >= faults
        /\ Unattached(i)' => Unattached(i)
        /\ i \in attaching' => state'[i] # "absent"
    BY <1>1, <1>2, Troubles DEF Unattached, OfIncident, Fresh
  <2> QED  BY <1>1, <1>2, <1>3, <2>1, <2>2, Untouched
<1>4. CASE policy'[i] # policy[i]
  <2>1. policy'[i] = None
    BY <1>4 DEF SwitchPolicy, DeletePolicy, AddStep, RemoveStep, EditPolicy, TypeOK
  <2>2. Fresh(i)' /\ Current(i)' /\ Counted(i)' /\ LateOnce(i)' /\ InOrder(i)'
    BY <1>1, <1>2, <1>4, <2>1
    DEF OfIncident, Fresh, Unattached, Current, Counted, LateOnce, InOrder, NextOrder
  <2>3. WorkedThrough(i)'
    BY <2>1, PoliciesAssumption DEF WorkedThrough
  <2> QED  BY <2>2, <2>3 DEF OfIncident
<1> QED  BY <1>3, <1>4

LEMMA EscalationStep ==
    ASSUME TypeOK, EscalationInv, [Next]_vars
    PROVE  EscalationInv'
<1> USE DEF incidentVars, escalationVars, policyVars, jobVars, ruleVars, countVars
<1>1. ASSUME UNCHANGED <<state, acked, attaching, policy, order, completed, steps, edited, loaded,
                         notifying, sent, late, faults, overwritten>>
      PROVE  EscalationInv'
  <2> SUFFICES ASSUME NEW i \in Incidents
               PROVE  OfIncident(i)'
    BY DEF EscalationInv
  <2>1. OfIncident(i)
    BY DEF EscalationInv
  <2>2. /\ faults' \in Nat /\ faults' >= faults
        /\ Unattached(i)' => Unattached(i)
        /\ i \in attaching' => state'[i] # "absent"
    BY <1>1, <2>1, Troubles DEF Unattached, OfIncident, Fresh
  <2> QED  BY <1>1, <2>1, <2>2, Untouched
<1>2. CASE LoadRules \/ MarkRuleFired \/ EndRun \/ Tick \/ UNCHANGED vars
  BY <1>1, <1>2 DEF LoadRules, MarkRuleFired, EndRun, Tick, vars
<1>3. ASSUME NEW r \in Rules, NEW i \in Incidents,
             SkipRule(r, i) \/ ExecuteRule(r, i) \/ EvictMarker(r, i)
      PROVE  EscalationInv'
  BY <1>1, <1>3 DEF SkipRule, ExecuteRule, EvictMarker
<1>4. ASSUME NEW c \in Clients, NEW op \in {"acknowledge", "resolve", "patch"},
             NEW i \in Incidents, NEW s \in States, ReadIncident(c, op, i, s)
      PROVE  EscalationInv'
  BY <1>1, <1>4 DEF ReadIncident
<1>5. CASE Crash
  BY <1>5, AbortKeeps DEF Crash
<1> HIDE DEF incidentVars, escalationVars, policyVars, jobVars, ruleVars, countVars
<1> QED
  BY <1>2, <1>3, <1>4, <1>5, OpeningKeeps, EscalatingKeeps, LoadKeeps, RequestKeeps, PolicyKeeps
  DEF Next, JobStep, RequestStep

LEMMA RulesStep ==
    ASSUME TypeOK, RulesInv, [Next]_vars
    PROVE  RulesInv'
<1> USE DEF jobVars, ruleVars, countVars
<1>0. /\ faults \in Nat /\ evictions \in Nat
      /\ \A i \in Incidents, r \in Rules : fired[i][r] \in Nat
  BY Troubles DEF TypeOK
<1>1. ASSUME UNCHANGED <<fired, marked, firing, faults, evictions>>
      PROVE  RulesInv'
  BY <1>1 DEF RulesInv
<1>2. ASSUME NEW r \in Rules, NEW i \in Incidents, ExecuteRule(r, i)
      PROVE  RulesInv'
  <2>1. /\ \A j \in Incidents, q \in Rules :
              fired'[j][q] = IF j = i /\ q = r THEN fired[j][q] + 1 ELSE fired[j][q]
        /\ firing = {} /\ firing' = {<<r, i>>} /\ <<r, i>> \notin marked
        /\ UNCHANGED <<marked, faults, evictions>>
    BY <1>2 DEF ExecuteRule, TypeOK
  <2> SUFFICES ASSUME NEW j \in Incidents, NEW q \in Rules
               PROVE  /\ fired'[j][q] <= 1 + evictions + faults
                      /\ <<q, j>> \notin marked \cup {<<r, i>>} => fired'[j][q] <= evictions + faults
    BY <2>1 DEF RulesInv
  <2>2. /\ fired[j][q] <= 1 + evictions + faults
        /\ <<q, j>> \notin marked => fired[j][q] <= evictions + faults
        /\ fired[j][q] \in Nat
    BY <1>0, <2>1 DEF RulesInv
  <2> QED  BY <1>0, <2>1, <2>2
<1>3. CASE MarkRuleFired
  BY <1>3 DEF MarkRuleFired, RulesInv
<1>4. ASSUME NEW r \in Rules, NEW i \in Incidents, EvictMarker(r, i)
      PROVE  RulesInv'
  <2>1. /\ evictions' = evictions + 1
        /\ UNCHANGED <<fired, firing, faults>>
    BY <1>4 DEF EvictMarker
  <2>2. \A j \in Incidents, q \in Rules :
           /\ fired[j][q] <= 1 + evictions' + faults
           /\ fired[j][q] <= evictions' + faults
    <3> SUFFICES ASSUME NEW j \in Incidents, NEW q \in Rules
                 PROVE  fired[j][q] <= evictions + 1 + faults
      BY <1>0, <2>1
    <3>1. fired[j][q] \in Nat /\ fired[j][q] <= 1 + evictions + faults
      BY <1>0 DEF RulesInv
    <3> QED  BY <1>0, <3>1
  <2> QED  BY <2>1, <2>2 DEF RulesInv
<1>5. CASE Crash
  <2>1. faults' = faults + 1 /\ UNCHANGED <<fired, evictions>>
    BY <1>5 DEF Crash
  <2>2. \A j \in Incidents, q \in Rules :
           /\ fired[j][q] <= 1 + evictions + faults'
           /\ fired[j][q] <= evictions + faults'
    <3> SUFFICES ASSUME NEW j \in Incidents, NEW q \in Rules
                 PROVE  fired[j][q] <= evictions + faults + 1
      BY <1>0, <2>1
    <3>1. fired[j][q] \in Nat /\ fired[j][q] <= 1 + evictions + faults
      BY <1>0 DEF RulesInv
    <3> QED  BY <1>0, <3>1
  <2> QED  BY <2>1, <2>2 DEF RulesInv
<1>6. ASSUME UNCHANGED <<fired, marked, firing, evictions>>, faults' = faults + 1
      PROVE  RulesInv'
  <2> SUFFICES ASSUME NEW j \in Incidents, NEW q \in Rules
               PROVE  /\ fired[j][q] <= 1 + evictions + faults'
                      /\ <<q, j>> \notin marked \cup firing => fired[j][q] <= evictions + faults'
    BY <1>6 DEF RulesInv
  <2>1. /\ fired[j][q] <= 1 + evictions + faults
        /\ <<q, j>> \notin marked \cup firing => fired[j][q] <= evictions + faults
        /\ fired[j][q] \in Nat
    BY <1>0 DEF RulesInv
  <2> QED  BY <1>0, <1>6, <2>1
<1>7. \/ UNCHANGED <<fired, marked, firing, faults, evictions>>
      \/ UNCHANGED <<fired, marked, firing, evictions>> /\ faults' = faults + 1
      \/ \E r \in Rules, i \in Incidents : ExecuteRule(r, i) \/ EvictMarker(r, i)
      \/ MarkRuleFired \/ Crash
  <2>1. CASE JobStep \/ LoadIncidents
    BY <2>1 DEF JobStep, LoadIncidents, CompleteEscalation, NotDue, ExecuteAction, CommitStep,
                LoadRules, SkipRule, EndRun
  <2>2. ASSUME NEW i \in Incidents,
               \/ OpenIncident(i) \/ CreateIncident(i) \/ AttachEscalationPolicy(i)
               \/ CrashAttaching(i) \/ AutoResolve(i) \/ DeleteIncident(i)
        PROVE  \/ UNCHANGED <<fired, marked, firing, faults, evictions>>
               \/ UNCHANGED <<fired, marked, firing, evictions>> /\ faults' = faults + 1
    BY <2>2 DEF OpenIncident, CreateIncident, AttachEscalationPolicy, CrashAttaching,
                AutoResolve, DeleteIncident
  <2>3. ASSUME NEW c \in Clients, RequestStep(c)
        PROVE  UNCHANGED <<fired, marked, firing, faults, evictions>>
    BY <2>3 DEF RequestStep, ReadIncident, AcknowledgeIncident, ResolveIncident, PatchIncident,
                Answer
  <2>4. ASSUME NEW p \in Policies,
               \/ SwitchPolicy(p) \/ DeletePolicy(p)
               \/ \E o \in Orders : AddStep(p, o) \/ RemoveStep(p, o)
        PROVE  UNCHANGED <<fired, marked, firing, faults, evictions>>
    BY <2>4 DEF SwitchPolicy, DeletePolicy, AddStep, RemoveStep, EditPolicy
  <2>5. CASE Tick \/ UNCHANGED vars
    BY <2>5 DEF Tick, vars
  <2> QED  BY <2>1, <2>2, <2>3, <2>4, <2>5 DEF Next
<1> QED  BY <1>1, <1>2, <1>3, <1>4, <1>5, <1>6, <1>7

LEMMA InvInit ==
    ASSUME Init
    PROVE  EscalationInv /\ RulesInv
<1>1. EscalationInv
  BY IncidentsAssumption
  DEF Init, EscalationInv, OfIncident, Fresh, Current, Counted, LateOnce, InOrder, WorkedThrough
<1> QED  BY <1>1 DEF Init, RulesInv

-----------------------------------------------------------------------------
(* process_escalations and process_unacknowledged_workflows: a step runs once *)
(* for an incident and a rule fires once, but for crashes and lost markers,    *)
(* whatever requests, deletions and edits of policies come in between.         *)
THEOREM RunsOnce == Spec => []NothingRunsTwice
<1>1. TypeOK /\ EscalationInv /\ RulesInv => NothingRunsTwice
  BY DEF EscalationInv, OfIncident, Counted, RulesInv, NothingRunsTwice
<1> QED
  BY <1>1, TypeInit, InvInit, TypeStep, EscalationStep, RulesStep, PTL DEF Spec

(* IncidentService.acknowledge against a run that has loaded the incident:    *)
(* one step more is executed at most, unless a PATCH undoes the                *)
(* acknowledgement.                                                            *)
THEOREM AtMostOneLateStep == Spec => []OneLateStep
<1>1. EscalationInv => OneLateStep
  BY DEF EscalationInv, OfIncident, LateOnce, OneLateStep
<1> QED  BY <1>1, TypeInit, InvInit, TypeStep, EscalationStep, PTL DEF Spec

(* process_escalations executes the steps of a policy one after the other, and *)
(* completes an escalation nobody stopped when there is no next step.          *)
THEOREM InSequence == Spec => []NoStepIsSkipped
<1>1. EscalationInv => NoStepIsSkipped
  BY DEF EscalationInv, OfIncident, InOrder, WorkedThrough, NoStepIsSkipped
<1> QED  BY <1>1, TypeInit, InvInit, TypeStep, EscalationStep, PTL DEF Spec
===============================================================================
