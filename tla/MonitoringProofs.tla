-------------------------- MODULE MonitoringProofs --------------------------
(***************************************************************************)
(* Proofs about the two halves of monitoring.  First MonitorIncidents, for  *)
(* any number of monitors, incidents, windows, runners and clients and any  *)
(* value of retries and BATCH_SIZE: what checks do to incidents.  Then      *)
(* MonitorChecks, for any set of monitors and answers of the network, any   *)
(* intervals, periods, bucket sizes and bounds: what a check is, and what   *)
(* the reports make of the checks.  The two share no state: MonitorChecks   *)
(* names its own specification ChecksSpec and its absent value Null.        *)
(***************************************************************************)
EXTENDS MonitorIncidents, MonitorChecks, FiniteSetTheorems, TLAPS


(* A check prepended to a history gives a history: Prepend models the         *)
(* newest-first slice of MonitorCheck that run_checks reads.                  *)
LEMMA PrependType ==
    ASSUME TypeOK, NEW m \in Monitors, NEW result \in CheckStatus
    PROVE  Prepend(m, result) \in Seq(CheckStatus)
<1> DEFINE kept == Smaller(Len(checks[m]), IF Retries[m] = 0 THEN 0 ELSE Retries[m] - 1)
           p == [k \in 1 .. kept + 1 |-> IF k = 1 THEN result ELSE checks[m][k - 1]]
<1>1. checks[m] \in Seq(CheckStatus)
  BY DEF TypeOK
<1>2. kept \in Nat /\ kept <= Len(checks[m])
  BY <1>1, RetriesAssumption DEF Smaller
<1>3. \A k \in 1 .. kept + 1 : (IF k = 1 THEN result ELSE checks[m][k - 1]) \in CheckStatus
  BY <1>1, <1>2
<1>4. p \in [1 .. kept + 1 -> CheckStatus]
  BY <1>3
<1>5. p \in Seq(CheckStatus)
  <2> HIDE DEF kept, p
  <2>1. kept + 1 \in Nat
    BY <1>2
  <2> QED  BY <1>4, <2>1
<1> QED  BY <1>5 DEF Prepend

(* What a runner holds for a monitor it has yet to check is a row it has read. *)
LEMMA BatchEntry ==
    ASSUME TypeOK, NEW r \in Runners, NEW m \in Monitors, batch[r][m] # None
    PROVE  batch[r][m] \in Snapshot
BY DEF TypeOK

(* A row read by Row(m) is a snapshot. *)
LEMMA RowType ==
    ASSUME TypeOK, NEW m \in Monitors
    PROVE  Row(m) \in Snapshot
BY DEF TypeOK, Row, Snapshot

-----------------------------------------------------------------------------
(* Type correctness *)

(* Recording a check keeps the columns, lists and locals it writes typed. *)
LEMMA RecordCheckType ==
    ASSUME TypeOK, NEW r \in Runners, NEW m \in Monitors, NEW result \in CheckStatus,
           RecordCheck(r, m, result)
    PROVE  /\ checks' \in [Monitors -> Seq(CheckStatus)]
           /\ due' \in [Monitors -> BOOLEAN]
           /\ batch' \in [Runners -> [Monitors -> Snapshot \cup {None}]]
           /\ disturbed' \in SUBSET Monitors
           /\ UNCHANGED <<paused, window, ending, reeval, opening, phase, created,
                          request, edit, faults, interrupted>>
<1>1. checks' \in [Monitors -> Seq(CheckStatus)]
  BY PrependType DEF TypeOK, RecordCheck
<1>2. due' \in [Monitors -> BOOLEAN]
  BY DEF TypeOK, RecordCheck
<1>3. batch' \in [Runners -> [Monitors -> Snapshot \cup {None}]]
  BY DEF TypeOK, RecordCheck
<1>4. disturbed' \in SUBSET Monitors
  BY DEF TypeOK, RecordCheck, Disturb
<1> QED  BY <1>1, <1>2, <1>3, <1>4 DEF RecordCheck, jobVars, requestVars

(* A check that runs to its commit preserves the types. *)
LEMMA RunnerStepType ==
    ASSUME TypeOK, NEW r \in Runners, RunnerStep(r)
    PROVE  TypeOK'
<1>1. PICK m \in Monitors, result \in CheckStatus :
        \/ CheckTakesOffline(r, m, result)
        \/ CheckBringsBack(r, m, result)
        \/ CheckKeepsStatus(r, m, result)
  BY DEF RunnerStep
<1>2. RecordCheck(r, m, result)
  BY <1>1 DEF CheckTakesOffline, CheckBringsBack, CheckKeepsStatus
<1>3. batch[r][m] \in Snapshot
  BY <1>2, BatchEntry DEF RecordCheck, InTurn
<1>4. /\ status' \in [Monitors -> MonitorStatus]
      /\ current' \in [Monitors -> Incidents \cup {None}]
      /\ state' \in [Incidents -> IncidentState]
      /\ incidentOf' \in [Incidents -> Monitors \cup {None}]
      /\ alerted' \in SUBSET Monitors
  <2>1. CASE CheckTakesOffline(r, m, result)
    <3>1. CASE m \in Alerting
      <4>1. PICK i \in Incidents :
              /\ CreateIncident(m, i)
              /\ current' = [current EXCEPT ![m] = i]
        BY <2>1, <3>1 DEF CheckTakesOffline, OpenIncident
      <4> QED  BY <2>1, <4>1 DEF CheckTakesOffline, CreateIncident, TypeOK,
                 MonitorStatus, IncidentState
    <3>2. CASE m \notin Alerting
      BY <2>1, <3>2 DEF CheckTakesOffline, TypeOK, incidentVars, MonitorStatus
    <3> QED  BY <3>1, <3>2
  <2>2. CASE CheckBringsBack(r, m, result)
    <3> DEFINE i == batch[r][m].current
    <3>1. i \in Incidents \cup {None}
      BY <1>3 DEF Snapshot
    <3>2. status' \in [Monitors -> MonitorStatus]
      BY <2>2 DEF CheckBringsBack, TypeOK, MonitorStatus
    <3>3. /\ state' \in [Incidents -> IncidentState]
          /\ current' \in [Monitors -> Incidents \cup {None}]
      <4>1. CloseIncident(m, i)
        BY <2>2 DEF CheckBringsBack
      <4> HIDE DEF i
      <4> QED  BY <3>1, <4>1 DEF CloseIncident, TypeOK, IncidentState
    <3> QED  BY <2>2, <3>2, <3>3 DEF CheckBringsBack, TypeOK
  <2>3. CASE CheckKeepsStatus(r, m, result)
    BY <2>3, <1>3 DEF CheckKeepsStatus, TypeOK, incidentVars, Snapshot
  <2> QED  BY <1>1, <2>1, <2>2, <2>3
<1> QED  BY <1>2, <1>4, RecordCheckType DEF TypeOK

(* The re-evaluation of a monitor preserves the types. *)
LEMMA ReevaluationStepType ==
    ASSUME TypeOK, ReevaluationStep
    PROVE  TypeOK'
<1>1. CASE LoadReevaluation
  BY <1>1, RowType DEF LoadReevaluation, TypeOK, rowVars, incidentVars, requestVars,
       historyVars
<1>2. ASSUME NEW m \in Monitors, ReevaluateMonitor(m)
      PROVE  TypeOK'
  BY <1>2, NoneAssumption DEF ReevaluateMonitor, TypeOK, rowVars, incidentVars,
       requestVars, historyVars
<1>3. CASE ReevaluateMarkOffline
  BY <1>3 DEF ReevaluateMarkOffline, TypeOK, incidentVars, requestVars, historyVars,
       MonitorStatus
<1>4. ASSUME NEW i \in Incidents, ReevaluateCreate(i)
      PROVE  TypeOK'
  BY <1>4, NoneAssumption DEF ReevaluateCreate, CreateIncident, TypeOK, rowVars,
       requestVars, IncidentState
<1>5. CASE ReevaluateLink
  BY <1>5 DEF ReevaluateLink, Disturb, TypeOK, incidentVars, requestVars
<1> QED  BY <1>1, <1>2, <1>3, <1>4, <1>5 DEF ReevaluationStep

(* A step of an API request preserves the types. *)
LEMMA RequestStepType ==
    ASSUME TypeOK, NEW c \in Clients, RequestStep(c)
    PROVE  TypeOK'
<1>1. ASSUME NEW op \in {"acknowledge", "resolve"}, NEW i \in Incidents,
             LifecycleRead(c, op, i)
      PROVE  TypeOK'
  BY <1>1 DEF LifecycleRead, TypeOK, rowVars, incidentVars, jobVars, historyVars, Requests
<1>2. CASE AcknowledgeIncident(c)
  <2>1. request[c] \in Requests
    BY <1>2 DEF AcknowledgeIncident, TypeOK
  <2> QED  BY <1>2, <2>1 DEF AcknowledgeIncident, TypeOK, rowVars, jobVars, historyVars,
             Requests, IncidentState
<1>3. CASE ResolveIncident(c)
  <2>1. request[c] \in Requests
    BY <1>3 DEF ResolveIncident, TypeOK
  <2> QED  BY <1>3, <2>1 DEF ResolveIncident, TypeOK, jobVars, historyVars, Requests,
             IncidentState
<1>4. ASSUME NEW m \in Monitors, PatchMonitorRead(c, m)
      PROVE  TypeOK'
  <2>1. [monitor |-> m, snapshot |-> Row(m), due |-> due[m]] \in Edits
    BY RowType DEF TypeOK, Edits
  <2> QED  BY <1>4, <2>1 DEF PatchMonitorRead, TypeOK, rowVars, incidentVars, jobVars,
             historyVars
<1>5. ASSUME NEW pause \in BOOLEAN, PatchMonitorSave(c, pause)
      PROVE  TypeOK'
  <2>1. edit[c] \in Edits
    BY <1>5 DEF PatchMonitorSave, TypeOK
  <2> QED  BY <1>5, <2>1 DEF PatchMonitorSave, TypeOK, incidentVars, jobVars, Disturb,
             Edits, Snapshot
<1> QED  BY <1>1, <1>2, <1>3, <1>4, <1>5 DEF RequestStep

(* The initial state is typed. *)
LEMMA InitType == Init => TypeOK
BY NoneAssumption, BoundsAssumption DEF Init, TypeOK, MonitorStatus, IncidentState

(* Every step preserves the types. *)
LEMMA NextType == TypeOK /\ [Next]_vars => TypeOK'
<1> SUFFICES ASSUME TypeOK, [Next]_vars PROVE TypeOK'
  OBVIOUS
<1>1. ASSUME NEW r \in Runners, NEW S, Load(r, S)
      PROVE  TypeOK'
  BY <1>1, RowType DEF Load, TypeOK, rowVars, incidentVars, jobVars, requestVars,
       historyVars
<1>2. ASSUME NEW r \in Runners, NEW m \in Monitors, CheckFails(r, m)
      PROVE  TypeOK'
  BY <1>2, BoundsAssumption DEF CheckFails, TypeOK, rowVars, incidentVars, jobVars,
       requestVars, historyVars
<1>3. ASSUME NEW r \in Runners, RunnerStep(r)
      PROVE  TypeOK'
  BY <1>3, RunnerStepType
<1>4. ASSUME NEW m \in Monitors, BecomesDue(m) \/ PauseMonitor(m) \/ ResumeMonitor(m)
      PROVE  TypeOK'
  BY <1>4 DEF BecomesDue, PauseMonitor, ResumeMonitor, TypeOK, incidentVars, jobVars,
       requestVars, historyVars
<1>5. ASSUME NEW w \in Windows, StartWindow(w) \/ EndWindow(w) \/ CancelWindow(w)
      PROVE  TypeOK'
  BY <1>5 DEF StartWindow, EndWindow, CancelWindow, TypeOK, rowVars, incidentVars,
       jobVars, requestVars, historyVars
<1>6. CASE ReevaluationStep
  BY <1>6, ReevaluationStepType
<1>7. CASE Crash
  BY <1>7, BoundsAssumption DEF Crash, TypeOK, rowVars, incidentVars, requestVars
<1>8. ASSUME NEW c \in Clients, RequestStep(c)
      PROVE  TypeOK'
  BY <1>8, RequestStepType
<1>9. ASSUME NEW i \in Incidents, PurgeIncident(i)
      PROVE  TypeOK'
  BY <1>9 DEF PurgeIncident, TypeOK, jobVars, requestVars, historyVars, IncidentState
<1>10. CASE UNCHANGED vars
  BY <1>10 DEF vars, TypeOK, rowVars, incidentVars, jobVars, requestVars, historyVars
<1> QED  BY <1>1, <1>2, <1>3, <1>4, <1>5, <1>6, <1>7, <1>8, <1>9, <1>10
         DEF Next, LoadBatch, LoadOne

(* Every reachable state of the monitoring core is typed. *)
THEOREM TypeCorrect == Spec => []TypeOK
<1> QED  BY InitType, NextType, PTL DEF Spec

-----------------------------------------------------------------------------
(* Tracking of incidents, alerting of outages, suppression by maintenance *)

(* The incident re-evaluation has created but not linked yet belongs to the   *)
(* monitor it works on and still exists.                                      *)
CreatedBelongs ==
    created # None => incidentOf[created] = opening /\ state[created] # "absent"

(* Re-evaluation only works on monitors no window covers: it has asked, and   *)
(* no window can start while the same job is busy.                            *)
DecidedOutsideMaintenance ==
    opening # None => ~UnderMaintenance(opening)

(* The two halves of UnacknowledgedIsTracked: the pointer _close_incident      *)
(* needs, and the outage it belongs to.                                       *)
PointedAt ==
    \A i \in Incidents :
        state[i] = "triggered" /\ incidentOf[i] \in Undisturbed
            => current[incidentOf[i]] = i \/ created = i

RecoveredIsQuiet ==
    \A i \in Incidents :
        state[i] = "triggered" /\ incidentOf[i] \in Undisturbed
            => status[incidentOf[i]] = "offline" \/ created = i

Inv ==
    /\ CreatedBelongs
    /\ DecidedOutsideMaintenance
    /\ PointedAt
    /\ RecoveredIsQuiet
    /\ OutageIsAlerted

(* The variables Inv speaks of. *)
invVars == <<status, current, state, incidentOf, window, opening, phase, created,
             disturbed, interrupted, alerted>>

(* A step that changes none of them preserves Inv. *)
LEMMA Frame ==
    ASSUME Inv, UNCHANGED invVars
    PROVE  Inv'
<1>1. CreatedBelongs'
  BY DEF Inv, invVars, CreatedBelongs
<1>2. DecidedOutsideMaintenance'
  BY DEF Inv, invVars, DecidedOutsideMaintenance, UnderMaintenance
<1>3. PointedAt'
  BY DEF Inv, invVars, PointedAt, Undisturbed
<1>4. RecoveredIsQuiet'
  BY DEF Inv, invVars, RecoveredIsQuiet, Undisturbed
<1>5. OutageIsAlerted'
  BY DEF Inv, invVars, OutageIsAlerted, Undisturbed
<1> QED  BY <1>1, <1>2, <1>3, <1>4, <1>5 DEF Inv

(* Initially there is no incident, no outage and no re-evaluation. *)
LEMMA InitInv == Init => Inv
<1> SUFFICES ASSUME Init PROVE Inv
  OBVIOUS
<1>1. CreatedBelongs /\ DecidedOutsideMaintenance
  BY DEF Init, CreatedBelongs, DecidedOutsideMaintenance
<1>2. PointedAt /\ RecoveredIsQuiet
  BY DEF Init, PointedAt, RecoveredIsQuiet
<1>3. OutageIsAlerted
  BY DEF Init, OutageIsAlerted, Undisturbed
<1> QED  BY <1>1, <1>2, <1>3 DEF Inv

(* What all three outcomes of a check leave alone, and what an undisturbed    *)
(* monitor's snapshot still says of its row.                                  *)
LEMMA CheckFacts ==
    ASSUME TypeOK, NEW r \in Runners, NEW m \in Monitors, NEW result \in CheckStatus,
           RecordCheck(r, m, result)
    PROVE  /\ batch[r][m] \in Snapshot
           /\ UNCHANGED <<window, opening, phase, created, interrupted>>
           /\ disturbed \subseteq disturbed'
           /\ m \notin disturbed' => /\ batch[r][m].status = status[m]
                                    /\ current[m] \in {batch[r][m].current, None}
<1>1. batch[r][m] \in Snapshot
  BY BatchEntry DEF RecordCheck, InTurn
<1>2. UNCHANGED <<window, opening, phase, created, interrupted>>
  BY DEF RecordCheck, jobVars
<1>3. Disturb(m, batch[r][m])
  BY DEF RecordCheck
<1> QED  BY <1>1, <1>2, <1>3 DEF Disturb, Outdated, TypeOK

(* A check that takes a monitor offline preserves Inv. *)
LEMMA TakesOfflineInv ==
    ASSUME TypeOK, Inv, NEW r \in Runners, NEW m \in Monitors,
           NEW result \in CheckStatus, CheckTakesOffline(r, m, result)
    PROVE  Inv'
<1>1. RecordCheck(r, m, result)
  BY DEF CheckTakesOffline
<1> USE <1>1, CheckFacts, NoneAssumption
<1>2. /\ batch[r][m].status = "operational"
      /\ status' = [status EXCEPT ![m] = "offline"]
  BY DEF CheckTakesOffline, TakesOffline
<1>3. CASE m \in Alerting
  <2>1. PICK i \in Incidents :
          /\ state[i] = "absent"
          /\ state' = [state EXCEPT ![i] = "triggered"]
          /\ incidentOf' = [incidentOf EXCEPT ![i] = m]
          /\ alerted' = alerted \cup {m}
          /\ current' = [current EXCEPT ![m] = i]
    BY <1>3 DEF CheckTakesOffline, OpenIncident, CreateIncident
  <2>2. CreatedBelongs'
    BY <2>1 DEF Inv, CreatedBelongs, TypeOK
  <2>3. DecidedOutsideMaintenance'
    BY DEF Inv, DecidedOutsideMaintenance, UnderMaintenance
  <2>4. PointedAt'
    <3> SUFFICES ASSUME NEW j \in Incidents, state'[j] = "triggered",
                        incidentOf'[j] \in Undisturbed'
                 PROVE  current'[incidentOf'[j]] = j \/ created' = j
      BY DEF PointedAt
    <3>1. CASE j = i
      BY <2>1, <3>1 DEF TypeOK
    <3>2. CASE j # i
      <4>1. state[j] = "triggered" /\ incidentOf'[j] = incidentOf[j]
            /\ incidentOf[j] \in Undisturbed
        BY <2>1, <3>2 DEF TypeOK, Undisturbed
      <4>2. current[incidentOf[j]] = j \/ created = j
        BY <4>1 DEF Inv, PointedAt
      <4>3. incidentOf[j] = m => created = j
        BY <1>2, <4>1 DEF Inv, RecoveredIsQuiet, Undisturbed
      <4> QED  BY <2>1, <4>1, <4>2, <4>3 DEF TypeOK
    <3> QED  BY <3>1, <3>2
  <2>5. RecoveredIsQuiet'
    BY <1>2, <2>1 DEF Inv, RecoveredIsQuiet, Undisturbed, TypeOK
  <2>6. OutageIsAlerted'
    BY <1>2, <2>1 DEF Inv, OutageIsAlerted, Undisturbed, TypeOK
  <2> QED  BY <2>2, <2>3, <2>4, <2>5, <2>6 DEF Inv
<1>4. CASE m \notin Alerting
  <2>1. UNCHANGED <<state, incidentOf, current, alerted>>
    BY <1>4 DEF CheckTakesOffline, incidentVars
  <2>2. CreatedBelongs' /\ DecidedOutsideMaintenance'
    BY <2>1 DEF Inv, CreatedBelongs, DecidedOutsideMaintenance, UnderMaintenance
  <2>3. PointedAt'
    BY <2>1 DEF Inv, PointedAt, Undisturbed
  <2>4. RecoveredIsQuiet'
    BY <1>2, <2>1 DEF Inv, RecoveredIsQuiet, Undisturbed, TypeOK
  <2>5. OutageIsAlerted'
    BY <1>2, <1>4, <2>1 DEF Inv, OutageIsAlerted, Undisturbed, TypeOK
  <2> QED  BY <2>2, <2>3, <2>4, <2>5 DEF Inv
<1> QED  BY <1>3, <1>4

(* A check that brings a monitor back preserves Inv. *)
LEMMA BringsBackInv ==
    ASSUME TypeOK, Inv, NEW r \in Runners, NEW m \in Monitors,
           NEW result \in CheckStatus, CheckBringsBack(r, m, result)
    PROVE  Inv'
<1> DEFINE i == batch[r][m].current
<1>1. RecordCheck(r, m, result)
  BY DEF CheckBringsBack
<1> USE <1>1, CheckFacts, NoneAssumption
<1>2. /\ status' = [status EXCEPT ![m] = "operational"]
      /\ alerted' = alerted \ {m}
      /\ UNCHANGED incidentOf
      /\ CloseIncident(m, i)
  BY DEF CheckBringsBack
<1>3. i \in Incidents \cup {None} /\ (m \notin disturbed' => current[m] \in {i, None})
  BY DEF Snapshot
<1> HIDE DEF i
<1>4. /\ \A j \in Incidents : state'[j] = "triggered" => state[j] = "triggered" /\ j # i
      /\ \A j \in Incidents : state[j] # "absent" => state'[j] # "absent"
      /\ \A n \in Monitors : n # m => current'[n] = current[n]
  BY <1>2, <1>3 DEF CloseIncident, TypeOK
<1>5. CreatedBelongs'
  BY <1>2, <1>4 DEF Inv, CreatedBelongs, TypeOK
<1>6. DecidedOutsideMaintenance'
  BY DEF Inv, DecidedOutsideMaintenance, UnderMaintenance
<1>7. ASSUME NEW j \in Incidents, state'[j] = "triggered", incidentOf'[j] \in Undisturbed'
      PROVE  /\ current'[incidentOf'[j]] = j \/ created' = j
             /\ status'[incidentOf'[j]] = "offline" \/ created' = j
  <2>1. /\ state[j] = "triggered"
        /\ j # i
        /\ incidentOf'[j] = incidentOf[j]
        /\ incidentOf[j] \in Undisturbed
    BY <1>2, <1>4, <1>7 DEF Undisturbed
  <2>2. /\ current[incidentOf[j]] = j \/ created = j
        /\ status[incidentOf[j]] = "offline" \/ created = j
    BY <2>1 DEF Inv, PointedAt, RecoveredIsQuiet
  <2>3. CASE incidentOf[j] = m
    <3>1. m \notin disturbed'
      BY <2>1, <2>3, <1>7 DEF Undisturbed
    <3> QED  BY <1>3, <2>1, <2>2, <2>3, <3>1
  <2>4. CASE incidentOf[j] # m
    BY <1>2, <1>4, <2>1, <2>2, <2>4 DEF TypeOK, Undisturbed
  <2> QED  BY <2>3, <2>4
<1>8. PointedAt' /\ RecoveredIsQuiet'
  BY <1>7 DEF PointedAt, RecoveredIsQuiet
<1>9. OutageIsAlerted'
  BY <1>2 DEF Inv, OutageIsAlerted, Undisturbed, TypeOK
<1> QED  BY <1>5, <1>6, <1>8, <1>9 DEF Inv

(* A check that leaves the status as it read it preserves Inv. *)
LEMMA KeepsStatusInv ==
    ASSUME TypeOK, Inv, NEW r \in Runners, NEW m \in Monitors,
           NEW result \in CheckStatus, CheckKeepsStatus(r, m, result)
    PROVE  Inv'
<1>1. RecordCheck(r, m, result)
  BY DEF CheckKeepsStatus
<1> USE <1>1, CheckFacts
<1>2. /\ status' = [status EXCEPT ![m] = batch[r][m].status]
      /\ UNCHANGED <<state, incidentOf, current, alerted>>
  BY DEF CheckKeepsStatus, incidentVars
<1>3. \A n \in Undisturbed' : status'[n] = status[n] /\ n \in Undisturbed
  BY <1>2 DEF Undisturbed, TypeOK
<1>4. CreatedBelongs' /\ DecidedOutsideMaintenance'
  BY <1>2 DEF Inv, CreatedBelongs, DecidedOutsideMaintenance, UnderMaintenance
<1>5. PointedAt'
  BY <1>2, <1>3 DEF Inv, PointedAt
<1>6. RecoveredIsQuiet'
  BY <1>2, <1>3 DEF Inv, RecoveredIsQuiet
<1>7. OutageIsAlerted'
  BY <1>2, <1>3 DEF Inv, OutageIsAlerted
<1> QED  BY <1>4, <1>5, <1>6, <1>7 DEF Inv

(* The statements of the re-evaluation preserve Inv one by one. *)
LEMMA ReevaluationInv ==
    ASSUME TypeOK, Inv, ReevaluationStep
    PROVE  Inv'
<1> USE NoneAssumption
<1>1. CASE LoadReevaluation
  BY <1>1, Frame DEF LoadReevaluation, rowVars, incidentVars, historyVars, invVars
<1>2. ASSUME NEW m \in Monitors, ReevaluateMonitor(m)
      PROVE  Inv'
  <2>1. /\ opening = None
        /\ UNCHANGED <<status, current, state, incidentOf, window, created, disturbed,
                       interrupted, alerted>>
    BY <1>2 DEF ReevaluateMonitor, rowVars, incidentVars, historyVars
  <2>2. created = None
    BY <2>1 DEF TypeOK
  <2>3. opening' # None => opening' = m /\ ~UnderMaintenance(m)
    BY <1>2, <2>1 DEF ReevaluateMonitor, StillFailing
  <2>4. CreatedBelongs' /\ DecidedOutsideMaintenance'
    BY <2>1, <2>2, <2>3 DEF CreatedBelongs, DecidedOutsideMaintenance, UnderMaintenance
  <2>5. PointedAt' /\ RecoveredIsQuiet'
    BY <2>1 DEF Inv, PointedAt, RecoveredIsQuiet, Undisturbed
  <2>6. OutageIsAlerted'
    BY <2>1 DEF Inv, OutageIsAlerted, Undisturbed
  <2> QED  BY <2>4, <2>5, <2>6 DEF Inv
<1>3. CASE ReevaluateMarkOffline
  <2>1. /\ phase = "mark"
        /\ phase' = "create"
        /\ status' = [status EXCEPT ![opening] = "offline"]
        /\ UNCHANGED <<current, state, incidentOf, window, opening, created, disturbed,
                       interrupted, alerted>>
    BY <1>3 DEF ReevaluateMarkOffline, incidentVars, historyVars
  <2>2. opening \in Monitors
    BY <2>1 DEF TypeOK
  <2>3. CreatedBelongs' /\ DecidedOutsideMaintenance'
    BY <2>1 DEF Inv, CreatedBelongs, DecidedOutsideMaintenance, UnderMaintenance
  <2>4. PointedAt'
    BY <2>1 DEF Inv, PointedAt, Undisturbed
  <2>5. RecoveredIsQuiet'
    BY <2>1, <2>2 DEF Inv, RecoveredIsQuiet, Undisturbed, TypeOK
  <2>6. OutageIsAlerted'
    BY <2>1, <2>2 DEF Inv, OutageIsAlerted, Undisturbed, TypeOK
  <2> QED  BY <2>3, <2>4, <2>5, <2>6 DEF Inv
<1>4. ASSUME NEW i \in Incidents, ReevaluateCreate(i)
      PROVE  Inv'
  <2>1. /\ phase = "create"
        /\ phase' = "link"
        /\ created' = i
        /\ state[i] = "absent"
        /\ state' = [state EXCEPT ![i] = "triggered"]
        /\ incidentOf' = [incidentOf EXCEPT ![i] = opening]
        /\ alerted' = alerted \cup {opening}
        /\ UNCHANGED <<status, current, window, opening, disturbed, interrupted>>
    BY <1>4 DEF ReevaluateCreate, CreateIncident, rowVars
  <2>2. opening \in Monitors /\ created = None
    BY <2>1 DEF TypeOK
  <2>3. CreatedBelongs'
    BY <2>1 DEF CreatedBelongs, TypeOK
  <2>4. DecidedOutsideMaintenance'
    BY <2>1 DEF Inv, DecidedOutsideMaintenance, UnderMaintenance
  <2>5. PointedAt' /\ RecoveredIsQuiet'
    BY <2>1, <2>2 DEF Inv, PointedAt, RecoveredIsQuiet, Undisturbed, TypeOK
  <2>6. OutageIsAlerted'
    BY <2>1, <2>2 DEF Inv, OutageIsAlerted, Undisturbed
  <2> QED  BY <2>3, <2>4, <2>5, <2>6 DEF Inv
<1>5. CASE ReevaluateLink
  <2>1. /\ phase = "link"
        /\ phase' = "idle"
        /\ opening' = None
        /\ created' = None
        /\ current' = [current EXCEPT ![opening] = created]
        /\ UNCHANGED <<status, state, incidentOf, window, interrupted, alerted>>
    BY <1>5 DEF ReevaluateLink, incidentVars
  <2>2. /\ opening \in Monitors
        /\ created \in Incidents
        /\ incidentOf[created] = opening
    BY <2>1 DEF TypeOK, Inv, CreatedBelongs
  <2>3. /\ disturbed \subseteq disturbed'
        /\ opening \notin disturbed' => status[opening] = "offline" /\ current[opening] = None
    BY <1>5 DEF ReevaluateLink, Disturb, Outdated
  <2>4. CreatedBelongs' /\ DecidedOutsideMaintenance'
    BY <2>1 DEF CreatedBelongs, DecidedOutsideMaintenance
  <2>5. ASSUME NEW j \in Incidents, state'[j] = "triggered",
               incidentOf'[j] \in Undisturbed'
        PROVE  /\ current'[incidentOf'[j]] = j
               /\ status'[incidentOf'[j]] = "offline"
    <3>1. /\ incidentOf[j] \in Undisturbed
          /\ incidentOf[j] \notin disturbed'
          /\ state[j] = "triggered"
          /\ incidentOf'[j] = incidentOf[j]
      BY <2>1, <2>3, <2>5 DEF Undisturbed
    <3>2. /\ current[incidentOf[j]] = j \/ created = j
          /\ status[incidentOf[j]] = "offline" \/ created = j
      BY <3>1 DEF Inv, PointedAt, RecoveredIsQuiet
    <3>3. CASE incidentOf[j] = opening
      BY <2>1, <2>2, <2>3, <3>1, <3>2, <3>3 DEF TypeOK
    <3>4. CASE incidentOf[j] # opening
      BY <2>1, <2>2, <3>1, <3>2, <3>4 DEF TypeOK, Undisturbed
    <3> QED  BY <3>3, <3>4
  <2>6. PointedAt' /\ RecoveredIsQuiet'
    BY <2>5 DEF PointedAt, RecoveredIsQuiet
  <2>7. OutageIsAlerted'
    BY <2>1, <2>3 DEF Inv, OutageIsAlerted, Undisturbed
  <2> QED  BY <2>4, <2>6, <2>7 DEF Inv
<1> QED  BY <1>1, <1>2, <1>3, <1>4, <1>5 DEF ReevaluationStep

(* Acknowledging, resolving and editing preserve Inv. *)
LEMMA RequestInv ==
    ASSUME TypeOK, Inv, NEW c \in Clients, RequestStep(c)
    PROVE  Inv'
<1> USE NoneAssumption
<1>1. ASSUME NEW op \in {"acknowledge", "resolve"}, NEW i \in Incidents,
             LifecycleRead(c, op, i)
      PROVE  Inv'
  BY <1>1, Frame DEF LifecycleRead, rowVars, incidentVars, jobVars, historyVars, invVars
<1>2. CASE AcknowledgeIncident(c)
  <2>1. PICK i \in Incidents : state' = [state EXCEPT ![i] = "acknowledged"]
    BY <1>2 DEF AcknowledgeIncident, TypeOK, Requests
  <2>2. UNCHANGED <<status, current, incidentOf, window, opening, phase, created,
                    disturbed, interrupted, alerted>>
    BY <1>2 DEF AcknowledgeIncident, rowVars, jobVars, historyVars
  <2>3. CreatedBelongs'
    BY <2>1, <2>2 DEF Inv, CreatedBelongs, TypeOK
  <2>4. DecidedOutsideMaintenance'
    BY <2>2 DEF Inv, DecidedOutsideMaintenance, UnderMaintenance
  <2>5. PointedAt' /\ RecoveredIsQuiet'
    BY <2>1, <2>2 DEF Inv, PointedAt, RecoveredIsQuiet, Undisturbed, TypeOK
  <2>6. OutageIsAlerted'
    BY <2>2 DEF Inv, OutageIsAlerted, Undisturbed
  <2> QED  BY <2>3, <2>4, <2>5, <2>6 DEF Inv
<1>3. CASE ResolveIncident(c)
  <2>1. PICK i \in Incidents :
          /\ state' = [state EXCEPT ![i] = "resolved"]
          /\ current' = [m \in Monitors |-> IF current[m] = i THEN None ELSE current[m]]
    BY <1>3 DEF ResolveIncident, TypeOK, Requests
  <2>2. UNCHANGED <<status, incidentOf, window, opening, phase, created, disturbed,
                    interrupted, alerted>>
    BY <1>3 DEF ResolveIncident, jobVars, historyVars
  <2>3. CreatedBelongs'
    BY <2>1, <2>2 DEF Inv, CreatedBelongs, TypeOK
  <2>4. DecidedOutsideMaintenance'
    BY <2>2 DEF Inv, DecidedOutsideMaintenance, UnderMaintenance
  <2>5. PointedAt' /\ RecoveredIsQuiet'
    BY <2>1, <2>2 DEF Inv, PointedAt, RecoveredIsQuiet, Undisturbed, TypeOK
  <2>6. OutageIsAlerted'
    BY <2>2 DEF Inv, OutageIsAlerted, Undisturbed
  <2> QED  BY <2>3, <2>4, <2>5, <2>6 DEF Inv
<1>4. ASSUME NEW m \in Monitors, PatchMonitorRead(c, m)
      PROVE  Inv'
  BY <1>4, Frame DEF PatchMonitorRead, rowVars, incidentVars, jobVars, historyVars,
       invVars
<1>5. ASSUME NEW pause \in BOOLEAN, PatchMonitorSave(c, pause)
      PROVE  Inv'
  <2> DEFINE m == edit[c].monitor
             s == edit[c].snapshot
  <2>1. m \in Monitors /\ s \in Snapshot
    BY <1>5 DEF PatchMonitorSave, TypeOK, Edits
  <2>2. /\ status' = [status EXCEPT ![m] = s.status]
        /\ current' = [current EXCEPT ![m] = s.current]
        /\ Disturb(m, s)
        /\ UNCHANGED <<state, incidentOf, window, opening, phase, created, interrupted,
                       alerted>>
    BY <1>5 DEF PatchMonitorSave, incidentVars, jobVars
  <2> HIDE DEF m, s
  <2>3. /\ disturbed \subseteq disturbed'
        /\ m \notin disturbed' => s.status = status[m] /\ current[m] \in {s.current, None}
    BY <2>1, <2>2 DEF Disturb, Outdated, TypeOK
  <2>4. \A n \in Undisturbed' :
          /\ n \in Undisturbed
          /\ status'[n] = status[n]
          /\ current[n] # None => current'[n] = current[n]
    BY <2>1, <2>2, <2>3 DEF Undisturbed, TypeOK
  <2>5. CreatedBelongs' /\ DecidedOutsideMaintenance'
    BY <2>2 DEF Inv, CreatedBelongs, DecidedOutsideMaintenance, UnderMaintenance
  <2>6. PointedAt'
    BY <2>2, <2>4 DEF Inv, PointedAt
  <2>7. RecoveredIsQuiet'
    BY <2>2, <2>4 DEF Inv, RecoveredIsQuiet
  <2>8. OutageIsAlerted'
    BY <2>2, <2>4 DEF Inv, OutageIsAlerted
  <2> QED  BY <2>5, <2>6, <2>7, <2>8 DEF Inv
<1> QED  BY <1>1, <1>2, <1>3, <1>4, <1>5 DEF RequestStep

(* A window that starts, ends or is cancelled preserves Inv. *)
LEMMA WindowInv ==
    ASSUME TypeOK, Inv, NEW w \in Windows,
           StartWindow(w) \/ EndWindow(w) \/ CancelWindow(w)
    PROVE  Inv'
<1>1. UNCHANGED <<status, current, state, incidentOf, opening, phase, created, disturbed,
                  interrupted, alerted>>
  BY DEF StartWindow, EndWindow, CancelWindow, rowVars, incidentVars, jobVars, historyVars
<1>2. DecidedOutsideMaintenance'
  <2>1. CASE StartWindow(w)
    BY <1>1, <2>1 DEF StartWindow, JobIdle, DecidedOutsideMaintenance
  <2>2. CASE EndWindow(w) \/ CancelWindow(w)
    BY <1>1, <2>2 DEF EndWindow, CancelWindow, Inv, DecidedOutsideMaintenance,
         UnderMaintenance, TypeOK
  <2> QED  BY <2>1, <2>2
<1>3. CreatedBelongs' /\ PointedAt' /\ RecoveredIsQuiet'
  BY <1>1 DEF Inv, CreatedBelongs, PointedAt, RecoveredIsQuiet, Undisturbed
<1>4. OutageIsAlerted'
  BY <1>1 DEF Inv, OutageIsAlerted, Undisturbed
<1> QED  BY <1>2, <1>3, <1>4 DEF Inv

(* A crash preserves Inv: the monitor being worked on becomes interrupted. *)
LEMMA CrashInv ==
    ASSUME TypeOK, Inv, Crash
    PROVE  Inv'
<1>1. /\ opening' = None
      /\ phase' = "idle"
      /\ created' = None
      /\ UNCHANGED <<status, current, state, incidentOf, window, disturbed, alerted>>
      /\ interrupted \subseteq interrupted'
      /\ phase \in {"create", "link"} => opening \in interrupted'
  BY DEF Crash, rowVars, incidentVars
<1>2. created # None => incidentOf[created] \in interrupted'
  BY <1>1 DEF Inv, CreatedBelongs, TypeOK
<1>3. CreatedBelongs' /\ DecidedOutsideMaintenance'
  BY <1>1 DEF CreatedBelongs, DecidedOutsideMaintenance
<1>4. PointedAt' /\ RecoveredIsQuiet'
  BY <1>1, <1>2, NoneAssumption
     DEF Inv, PointedAt, RecoveredIsQuiet, Undisturbed
<1>5. OutageIsAlerted'
  BY <1>1 DEF Inv, OutageIsAlerted, Undisturbed
<1> QED  BY <1>3, <1>4, <1>5 DEF Inv

(* The retention purge of a resolved incident preserves Inv. *)
LEMMA PurgeInv ==
    ASSUME TypeOK, Inv, NEW i \in Incidents, PurgeIncident(i)
    PROVE  Inv'
<1>1. /\ state[i] = "resolved"
      /\ created # i
      /\ state' = [state EXCEPT ![i] = "absent"]
      /\ incidentOf' = [incidentOf EXCEPT ![i] = None]
      /\ current' = [m \in Monitors |-> IF current[m] = i THEN None ELSE current[m]]
      /\ UNCHANGED <<status, window, opening, phase, created, disturbed, interrupted,
                     alerted>>
  BY DEF PurgeIncident, InFlight, jobVars, historyVars
<1>2. CreatedBelongs'
  BY <1>1 DEF Inv, CreatedBelongs, TypeOK
<1>3. DecidedOutsideMaintenance'
  BY <1>1 DEF Inv, DecidedOutsideMaintenance, UnderMaintenance
<1>4. PointedAt' /\ RecoveredIsQuiet'
  BY <1>1 DEF Inv, PointedAt, RecoveredIsQuiet, Undisturbed, TypeOK
<1>5. OutageIsAlerted'
  BY <1>1 DEF Inv, OutageIsAlerted, Undisturbed
<1> QED  BY <1>2, <1>3, <1>4, <1>5 DEF Inv

(* Every step preserves Inv. *)
LEMMA NextInv == TypeOK /\ Inv /\ [Next]_vars => Inv'
<1> SUFFICES ASSUME TypeOK, Inv, [Next]_vars PROVE Inv'
  OBVIOUS
<1>1. ASSUME NEW r \in Runners, NEW S, Load(r, S)
      PROVE  Inv'
  BY <1>1, Frame DEF Load, rowVars, incidentVars, jobVars, historyVars, invVars
<1>2. ASSUME NEW r \in Runners, NEW m \in Monitors, CheckFails(r, m)
      PROVE  Inv'
  BY <1>2, Frame DEF CheckFails, rowVars, incidentVars, jobVars, historyVars, invVars
<1>3. ASSUME NEW r \in Runners, RunnerStep(r)
      PROVE  Inv'
  BY <1>3, TakesOfflineInv, BringsBackInv, KeepsStatusInv DEF RunnerStep
<1>4. ASSUME NEW m \in Monitors, BecomesDue(m) \/ PauseMonitor(m) \/ ResumeMonitor(m)
      PROVE  Inv'
  BY <1>4, Frame DEF BecomesDue, PauseMonitor, ResumeMonitor, incidentVars, jobVars,
       historyVars, invVars
<1>5. ASSUME NEW w \in Windows, StartWindow(w) \/ EndWindow(w) \/ CancelWindow(w)
      PROVE  Inv'
  BY <1>5, WindowInv
<1>6. CASE ReevaluationStep
  BY <1>6, ReevaluationInv
<1>7. CASE Crash
  BY <1>7, CrashInv
<1>8. ASSUME NEW c \in Clients, RequestStep(c)
      PROVE  Inv'
  BY <1>8, RequestInv
<1>9. ASSUME NEW i \in Incidents, PurgeIncident(i)
      PROVE  Inv'
  BY <1>9, PurgeInv
<1>10. CASE UNCHANGED vars
  BY <1>10, Frame DEF vars, rowVars, incidentVars, jobVars, historyVars, invVars
<1> QED  BY <1>1, <1>2, <1>3, <1>4, <1>5, <1>6, <1>7, <1>8, <1>9, <1>10
         DEF Next, LoadBatch, LoadOne

(* The strengthened invariant holds in every reachable state. *)
LEMMA Invariance == Spec => [](TypeOK /\ Inv)
BY InitType, InitInv, NextType, NextInv, PTL DEF Spec

(* Unless a writer used an outdated snapshot or a crash interrupted its        *)
(* re-evaluation, an unacknowledged incident belongs to an outage that goes on *)
(* and is the one its monitor's row points at, so that _close_incident will    *)
(* find it: a recovered monitor leaves none behind.                            *)
THEOREM IncidentsAreTracked == Spec => []UnacknowledgedIsTracked
<1>1. Inv => UnacknowledgedIsTracked
  BY DEF Inv, PointedAt, RecoveredIsQuiet, UnacknowledgedIsTracked
<1> QED  BY <1>1, Invariance, PTL

(* Under the same proviso no outage of an alerting monitor stays silent.       *)
THEOREM OutagesAreAlerted == Spec => []OutageIsAlerted
BY Invariance, PTL DEF Inv

(* The step formula of MaintenanceSuppresses. *)
Suppressed ==
    /\ \A m \in Monitors \ disturbed' :
         status[m] = "operational" /\ status'[m] = "offline" => ~UnderMaintenance(m)
    /\ \A i \in Incidents :
         state[i] = "absent" /\ state'[i] = "triggered"
             => ~UnderMaintenance(incidentOf'[i])

(* No step from a state satisfying Inv alerts during maintenance. *)
LEMMA SuppressedStep == TypeOK /\ Inv /\ [Next]_vars => Suppressed
<1> SUFFICES ASSUME TypeOK, Inv, [Next]_vars PROVE Suppressed
  OBVIOUS
<1>1. ASSUME UNCHANGED <<status, state>> PROVE Suppressed
  BY <1>1 DEF Suppressed, TypeOK, MonitorStatus
<1>2. ASSUME NEW r \in Runners, NEW m \in Monitors, NEW result \in CheckStatus,
             CheckTakesOffline(r, m, result)
      PROVE  Suppressed
  <2>1. ~UnderMaintenance(m) /\ status' = [status EXCEPT ![m] = "offline"]
    BY <1>2 DEF CheckTakesOffline, TakesOffline
  <2>2. \/ UNCHANGED state
        \/ \E i \in Incidents : /\ state' = [state EXCEPT ![i] = "triggered"]
                                /\ incidentOf' = [incidentOf EXCEPT ![i] = m]
    BY <1>2 DEF CheckTakesOffline, OpenIncident, CreateIncident, incidentVars
  <2>3. \A n \in Monitors : status[n] = "operational" /\ status'[n] = "offline" => n = m
    BY <2>1 DEF TypeOK
  <2>4. \A i \in Incidents :
          state[i] = "absent" /\ state'[i] = "triggered" => incidentOf'[i] = m
    BY <2>2 DEF TypeOK
  <2> QED  BY <2>1, <2>3, <2>4 DEF Suppressed
<1>3. ASSUME NEW r \in Runners, NEW m \in Monitors, NEW result \in CheckStatus,
             CheckBringsBack(r, m, result)
      PROVE  Suppressed
  <2>1. /\ status' = [status EXCEPT ![m] = "operational"]
        /\ CloseIncident(m, batch[r][m].current)
    BY <1>3 DEF CheckBringsBack
  <2> QED  BY <2>1 DEF CloseIncident, Suppressed, TypeOK
<1>4. ASSUME NEW r \in Runners, NEW m \in Monitors, NEW result \in CheckStatus,
             CheckKeepsStatus(r, m, result)
      PROVE  Suppressed
  <2>1. /\ status' = [status EXCEPT ![m] = batch[r][m].status]
        /\ UNCHANGED state
        /\ RecordCheck(r, m, result)
    BY <1>4 DEF CheckKeepsStatus, incidentVars
  <2> QED  BY <2>1, CheckFacts DEF Suppressed, TypeOK
<1>5. CASE ReevaluateMarkOffline
  <2>1. /\ status' = [status EXCEPT ![opening] = "offline"]
        /\ UNCHANGED state
        /\ opening \in Monitors
        /\ ~UnderMaintenance(opening)
    BY <1>5, NoneAssumption DEF ReevaluateMarkOffline, incidentVars, TypeOK, Inv,
         DecidedOutsideMaintenance
  <2>2. \A n \in Monitors : status[n] = "operational" /\ status'[n] = "offline"
                              => n = opening
    BY <2>1 DEF TypeOK
  <2> QED  BY <2>1, <2>2 DEF Suppressed
<1>6. ASSUME NEW i \in Incidents, ReevaluateCreate(i)
      PROVE  Suppressed
  <2>1. /\ state' = [state EXCEPT ![i] = "triggered"]
        /\ incidentOf' = [incidentOf EXCEPT ![i] = opening]
        /\ UNCHANGED status
        /\ ~UnderMaintenance(opening)
    BY <1>6 DEF ReevaluateCreate, CreateIncident, rowVars, TypeOK, Inv,
         DecidedOutsideMaintenance
  <2>2. \A j \in Incidents :
          state[j] = "absent" /\ state'[j] = "triggered" => incidentOf'[j] = opening
    BY <2>1 DEF TypeOK
  <2> QED  BY <2>1, <2>2 DEF Suppressed
<1>7. ASSUME NEW c \in Clients, RequestStep(c)
      PROVE  Suppressed
  <2>1. CASE AcknowledgeIncident(c) \/ ResolveIncident(c)
    <3>1. PICK i \in Incidents, st \in {"acknowledged", "resolved"} :
            state' = [state EXCEPT ![i] = st]
      BY <2>1 DEF AcknowledgeIncident, ResolveIncident, TypeOK, Requests
    <3>2. UNCHANGED status
      BY <2>1 DEF AcknowledgeIncident, ResolveIncident, rowVars
    <3> QED  BY <3>1, <3>2 DEF Suppressed, TypeOK
  <2>2. ASSUME NEW pause \in BOOLEAN, PatchMonitorSave(c, pause)
        PROVE  Suppressed
    <3>1. edit[c].monitor \in Monitors /\ edit[c].snapshot \in Snapshot
      BY <2>2 DEF PatchMonitorSave, TypeOK, Edits
    <3>2. /\ status' = [status EXCEPT ![edit[c].monitor] = edit[c].snapshot.status]
          /\ Disturb(edit[c].monitor, edit[c].snapshot)
          /\ UNCHANGED state
      BY <2>2 DEF PatchMonitorSave, incidentVars
    <3> QED  BY <3>1, <3>2 DEF Suppressed, Disturb, Outdated, TypeOK
  <2>3. ASSUME NEW op \in {"acknowledge", "resolve"}, NEW i \in Incidents,
               LifecycleRead(c, op, i)
        PROVE  Suppressed
    BY <1>1, <2>3 DEF LifecycleRead, rowVars, incidentVars
  <2>4. ASSUME NEW m \in Monitors, PatchMonitorRead(c, m)
        PROVE  Suppressed
    BY <1>1, <2>4 DEF PatchMonitorRead, rowVars, incidentVars
  <2> QED  BY <1>7, <2>1, <2>2, <2>3, <2>4 DEF RequestStep
<1>8. ASSUME NEW i \in Incidents, PurgeIncident(i)
      PROVE  Suppressed
  BY <1>8 DEF PurgeIncident, Suppressed, TypeOK
<1>9. CASE \/ UNCHANGED vars
           \/ Crash
           \/ LoadReevaluation
           \/ ReevaluateLink
           \/ \E m \in Monitors : ReevaluateMonitor(m)
  BY <1>1, <1>9 DEF vars, Crash, LoadReevaluation, ReevaluateLink, ReevaluateMonitor,
       rowVars, incidentVars
<1>10. CASE \/ \E r \in Runners, m \in Monitors : CheckFails(r, m)
            \/ \E m \in Monitors : BecomesDue(m) \/ PauseMonitor(m) \/ ResumeMonitor(m)
            \/ \E w \in Windows : StartWindow(w) \/ EndWindow(w) \/ CancelWindow(w)
  BY <1>1, <1>10 DEF CheckFails, BecomesDue, PauseMonitor, ResumeMonitor,
       StartWindow, EndWindow, CancelWindow, rowVars, incidentVars
<1>11. ASSUME NEW r \in Runners, LoadBatch(r) \/ (\E m \in Monitors : LoadOne(r, m))
       PROVE  Suppressed
  <2>1. PICK S : Load(r, S)
    BY <1>11 DEF LoadBatch, LoadOne
  <2> QED  BY <1>1, <2>1 DEF Load, rowVars, incidentVars
<1> QED  BY <1>2, <1>3, <1>4, <1>5, <1>6, <1>7, <1>8, <1>9, <1>10, <1>11
         DEF Next, RunnerStep, ReevaluationStep

(* Failures during a maintenance window are recorded but neither take a        *)
(* monitor offline nor open an incident: only a save of an outdated snapshot   *)
(* can turn the status during a window.                                        *)
THEOREM MaintenanceIsRespected == Spec => MaintenanceSuppresses
<1>1. TypeOK /\ Inv /\ [Next]_vars => [Suppressed]_vars
  BY SuppressedStep
<1> QED  BY <1>1, Invariance, PTL DEF Spec, MaintenanceSuppresses, Suppressed

-----------------------------------------------------------------------------
(* The refinement of OutageAlerts *)

(* A monitor that is up has not had the incident of its next outage, unless    *)
(* re-evaluation has created one for it that it has yet to link.              *)
NotYetAlerted ==
    \A m \in Undisturbed :
        status[m] = "operational" => m \notin alerted \/ (opening = m /\ created # None)

(* What OutageAlerts lets a monitor do. *)
AlertMove(m) ==
    \/ Alerts!Fails(m) \/ Alerts!FailsSilently(m) \/ Alerts!Recorded(m) \/ Alerts!Alarmed(m)
    \/ Alerts!Recovers(m) \/ Alerts!SeenTo(m)

(* The monitors something is promised for after the step. *)
StillUndisturbed == Monitors \ (disturbed' \cup interrupted')

(* A step as OutageAlerts sees it, with what keeps NotYetAlerted. *)
AlertsGoOn ==
    /\ disturbed \subseteq disturbed' /\ interrupted \subseteq interrupted'
    /\ \A m \in StillUndisturbed : AlertMove(m)
    /\ NotYetAlerted'

(* The mapping, monitor by monitor, before and after a step. *)
LEMMA PlaceIs ==
    ASSUME NEW m \in Monitors
    PROVE  /\ Place[m] = IF status[m] = "operational" THEN "up"
                         ELSE IF m \in Alerting \ alerted THEN "owed" ELSE "down"
           /\ Place'[m] = IF status'[m] = "operational" THEN "up"
                          ELSE IF m \in Alerting \ alerted' THEN "owed" ELSE "down"
BY DEF Place

LEMMA AlarmIs ==
    ASSUME NEW m \in Monitors
    PROVE  /\ Alarm[m] = {i \in Incidents :
                             state[i] = "triggered" /\ incidentOf[i] = m /\ created # i}
           /\ Alarm'[m] = {i \in Incidents :
                             state'[i] = "triggered" /\ incidentOf'[i] = m /\ created' # i}
BY DEF Alarm

(* An alarm is the incident the row points at, during an outage. *)
LEMMA AlarmIsCurrent ==
    ASSUME Inv, NEW m \in Undisturbed, NEW i \in Alarm[m]
    PROVE  current[m] = i /\ status[m] = "offline" /\ i \in Incidents
BY AlarmIs DEF Inv, PointedAt, RecoveredIsQuiet, Undisturbed

(* A monitor a step leaves alone, its incidents perhaps seen to. *)
LEMMA LeftAlone ==
    ASSUME NEW m \in Monitors, status'[m] = status[m], m \in alerted' <=> m \in alerted,
           \A i \in Incidents :
              state'[i] = "triggered" /\ incidentOf'[i] = m /\ created' # i
                => state[i] = "triggered" /\ incidentOf[i] = m /\ created # i
    PROVE  AlertMove(m)
<1>1. Place'[m] = Place[m]
  BY PlaceIs
<1>2. Alarm'[m] \subseteq Alarm[m]
  BY AlarmIs
<1> QED  BY <1>1, <1>2 DEF AlertMove, Alerts!SeenTo

(* Steps that change nothing the mapping reads. *)
LEMMA AlertsStutter ==
    ASSUME NotYetAlerted, created = None \/ opening' = opening,
           UNCHANGED <<status, state, incidentOf, alerted, created, disturbed, interrupted>>
    PROVE  AlertsGoOn
<1>1. \A m \in StillUndisturbed : AlertMove(m)
  BY LeftAlone DEF StillUndisturbed
<1>2. NotYetAlerted'
  BY DEF NotYetAlerted, Undisturbed
<1> QED  BY <1>1, <1>2 DEF AlertsGoOn

(* A check that takes a monitor offline begins an outage, and alarms.          *)
LEMMA OutageBegins ==
    ASSUME TypeOK, Inv, NotYetAlerted, NEW r \in Runners, NEW m \in Monitors,
           NEW result \in CheckStatus, CheckTakesOffline(r, m, result)
    PROVE  AlertsGoOn
<1>1. RecordCheck(r, m, result)
  BY DEF CheckTakesOffline
<1>2. /\ batch[r][m].status = "operational" /\ status' = [status EXCEPT ![m] = "offline"]
      /\ UNCHANGED <<opening, created, interrupted>> /\ disturbed \subseteq disturbed'
      /\ m \notin disturbed' => status[m] = "operational"
  BY <1>1, CheckFacts DEF CheckTakesOffline, TakesOffline
<1>3. \A n \in Monitors \ {m} : status'[n] = status[n]
  BY <1>2 DEF TypeOK
<1>4. status'[m] = "offline"
  BY <1>2 DEF TypeOK
<1>5. CASE m \in Alerting
  <2>1. PICK i \in Incidents :
          /\ state[i] = "absent" /\ state' = [state EXCEPT ![i] = "triggered"]
          /\ incidentOf' = [incidentOf EXCEPT ![i] = m]
          /\ alerted' = alerted \cup {m}
    BY <1>5 DEF CheckTakesOffline, OpenIncident, CreateIncident
  <2>2. /\ \A j \in Incidents \ {i} : state'[j] = state[j] /\ incidentOf'[j] = incidentOf[j]
        /\ state'[i] = "triggered" /\ incidentOf'[i] = m
    BY <2>1 DEF TypeOK
  <2>3. created' # i
    BY <1>2, <2>1, NoneAssumption DEF Inv, CreatedBelongs
  <2>4. \A n \in Monitors \ {m} : AlertMove(n)
    BY <1>2, <1>3, <2>1, <2>2, LeftAlone
  <2>5. ASSUME m \in StillUndisturbed
        PROVE  AlertMove(m)
    <3>1. m \in Undisturbed /\ status[m] = "operational"
      BY <1>2, <2>5 DEF StillUndisturbed, Undisturbed
    <3>2. Alarm[m] = {}
      BY <3>1, AlarmIsCurrent
    <3>3. \A j \in Incidents :
             state'[j] = "triggered" /\ incidentOf'[j] = m /\ created' # j <=> j = i
      BY <1>2, <2>2, <2>3, <3>2, AlarmIs
    <3>4. Alarm'[m] = {i}
      BY <3>3, AlarmIs
    <3>5. Place[m] = "up" /\ Place'[m] = "down"
      BY <1>4, <2>1, <3>1, PlaceIs
    <3> QED  BY <1>5, <3>4, <3>5 DEF AlertMove, Alerts!Fails
  <2>6. NotYetAlerted'
    BY <1>2, <1>3, <1>4, <2>1 DEF NotYetAlerted, Undisturbed
  <2> QED  BY <1>2, <2>4, <2>5, <2>6 DEF AlertsGoOn, StillUndisturbed
<1>6. CASE m \notin Alerting
  <2>1. UNCHANGED <<state, incidentOf, alerted>>
    BY <1>6 DEF CheckTakesOffline, incidentVars
  <2>2. \A n \in Monitors \ {m} : AlertMove(n)
    BY <1>2, <1>3, <2>1, LeftAlone
  <2>3. ASSUME m \in StillUndisturbed
        PROVE  AlertMove(m)
    <3>1. m \in Undisturbed /\ status[m] = "operational"
      BY <1>2, <2>3 DEF StillUndisturbed, Undisturbed
    <3>2. Alarm[m] = {}
      BY <3>1, AlarmIsCurrent
    <3>3. Alarm'[m] = {}
      BY <1>2, <2>1, <3>2, AlarmIs
    <3>4. Place[m] = "up" /\ Place'[m] = "down"
      BY <1>4, <1>6, <3>1, PlaceIs
    <3> QED  BY <1>6, <3>3, <3>4 DEF AlertMove, Alerts!Fails
  <2>4. NotYetAlerted'
    BY <1>2, <1>3, <1>4, <2>1 DEF NotYetAlerted, Undisturbed
  <2> QED  BY <1>2, <2>2, <2>3, <2>4 DEF AlertsGoOn, StillUndisturbed
<1> QED  BY <1>5, <1>6

(* A check that brings a monitor back ends its outage and its alarm. *)
LEMMA OutageEnds ==
    ASSUME TypeOK, Inv, NotYetAlerted, NEW r \in Runners, NEW m \in Monitors,
           NEW result \in CheckStatus, CheckBringsBack(r, m, result)
    PROVE  AlertsGoOn
<1>1. RecordCheck(r, m, result)
  BY DEF CheckBringsBack
<1> DEFINE i == batch[r][m].current
<1>2. /\ batch[r][m].status = "offline" /\ status' = [status EXCEPT ![m] = "operational"]
      /\ alerted' = alerted \ {m} /\ incidentOf' = incidentOf
      /\ UNCHANGED <<opening, created, interrupted>> /\ disturbed \subseteq disturbed'
      /\ m \notin disturbed' => status[m] = "offline" /\ current[m] \in {i, None}
      /\ CloseIncident(m, i) /\ i \in Incidents \cup {None}
  BY <1>1, CheckFacts DEF CheckBringsBack, BringsBack, Snapshot
<1> HIDE DEF i
<1>3. /\ \A n \in Monitors \ {m} : status'[n] = status[n] /\ (n \in alerted' <=> n \in alerted)
      /\ status'[m] = "operational" /\ m \notin alerted'
  BY <1>2 DEF TypeOK
<1>4. \A j \in Incidents : state'[j] = "triggered" => state[j] = "triggered" /\ j # i
  BY <1>2, NoneAssumption DEF CloseIncident, TypeOK
<1>5. \A n \in Monitors \ {m} : AlertMove(n)
  BY <1>2, <1>3, <1>4, LeftAlone
<1>6. ASSUME m \in StillUndisturbed
      PROVE  AlertMove(m)
  <2>1. m \in Undisturbed /\ status[m] = "offline" /\ current[m] \in {i, None}
    BY <1>2, <1>6 DEF StillUndisturbed, Undisturbed
  <2>2. \A j \in Alarm'[m] : FALSE
    <3> SUFFICES ASSUME NEW j \in Alarm'[m] PROVE FALSE
      OBVIOUS
    <3>1. j \in Incidents /\ j \in Alarm[m] /\ j # i
      BY <1>2, <1>4, AlarmIs
    <3>2. current[m] = j
      BY <2>1, <3>1, AlarmIsCurrent
    <3> QED  BY <2>1, <3>1, <3>2, NoneAssumption
  <2>3. Place[m] # "up" /\ Place'[m] = "up"
    BY <1>3, <2>1, PlaceIs
  <2> QED  BY <2>2, <2>3 DEF AlertMove, Alerts!Recovers
<1>7. NotYetAlerted'
  BY <1>2, <1>3 DEF NotYetAlerted, Undisturbed
<1> QED  BY <1>2, <1>5, <1>6, <1>7 DEF AlertsGoOn, StillUndisturbed

(* A write of the status of one monitor that is excused when the status is not *)
(* the one it had: other checks, PATCH.                                       *)
LEMMA StatusRewritten ==
    ASSUME TypeOK, NotYetAlerted, NEW m \in Monitors, NEW s \in Snapshot,
           status' = [status EXCEPT ![m] = s.status], Disturb(m, s),
           UNCHANGED <<state, incidentOf, alerted, created, opening, interrupted>>
    PROVE  AlertsGoOn
<1>1. disturbed \subseteq disturbed' /\ (m \in StillUndisturbed => status[m] = s.status)
  BY DEF Disturb, Outdated, StillUndisturbed, TypeOK
<1>2. \A n \in StillUndisturbed : status'[n] = status[n]
  BY <1>1 DEF TypeOK, StillUndisturbed
<1>3. \A n \in StillUndisturbed : AlertMove(n)
  BY <1>2, LeftAlone DEF StillUndisturbed
<1>4. NotYetAlerted'
  BY <1>1, <1>2 DEF NotYetAlerted, Undisturbed, StillUndisturbed
<1> QED  BY <1>1, <1>3, <1>4 DEF AlertsGoOn

(* Re-evaluation: an outage that owes its alarm, the incident, the link. *)
LEMMA ReevaluationAlerts ==
    ASSUME TypeOK, Inv, NotYetAlerted,
           \/ ReevaluateMarkOffline \/ ReevaluateLink
           \/ \E i \in Incidents : ReevaluateCreate(i)
    PROVE  AlertsGoOn
<1>1. CASE ReevaluateMarkOffline
  <2>1. /\ phase = "mark" /\ status' = [status EXCEPT ![opening] = "offline"]
        /\ UNCHANGED <<state, incidentOf, alerted, created, opening, disturbed, interrupted>>
    BY <1>1 DEF ReevaluateMarkOffline, incidentVars, historyVars
  <2>2. opening \in Monitors /\ created = None
    BY <2>1 DEF TypeOK
  <2>3. \A n \in Monitors \ {opening} : status'[n] = status[n]
    BY <2>1 DEF TypeOK
  <2>4. status'[opening] = "offline"
    BY <2>1, <2>2 DEF TypeOK
  <2>5. \A n \in Monitors \ {opening} : AlertMove(n)
    BY <2>1, <2>3, LeftAlone
  <2>6. ASSUME opening \in StillUndisturbed
        PROVE  AlertMove(opening)
    <3>1. opening \in Undisturbed
      BY <2>1, <2>6 DEF StillUndisturbed, Undisturbed
    <3>2. CASE status[opening] = "offline"
      BY <2>1, <2>2, <2>4, <3>2, LeftAlone
    <3>3. CASE status[opening] = "operational"
      <4>1. opening \notin alerted
        BY <2>2, <3>1, <3>3 DEF NotYetAlerted
      <4>2. Alarm'[opening] = Alarm[opening]
        BY <2>1, <2>2, AlarmIs
      <4>3. Alarm[opening] = {}
        BY <3>1, <3>3, AlarmIsCurrent
      <4>4. /\ Place[opening] = "up"
            /\ Place'[opening] = IF opening \in Alerting THEN "owed" ELSE "down"
        BY <2>1, <2>2, <2>4, <3>3, <4>1, PlaceIs
      <4>5. CASE opening \in Alerting
        BY <4>2, <4>4, <4>5 DEF AlertMove, Alerts!FailsSilently
      <4>6. CASE opening \notin Alerting
        BY <4>2, <4>3, <4>4, <4>6 DEF AlertMove, Alerts!Fails
      <4> QED  BY <4>5, <4>6
    <3> QED  BY <2>2, <3>2, <3>3 DEF TypeOK, MonitorStatus
  <2>7. NotYetAlerted'
    BY <2>1, <2>3, <2>4 DEF NotYetAlerted, Undisturbed
  <2> QED  BY <2>1, <2>5, <2>6, <2>7 DEF AlertsGoOn, StillUndisturbed
<1>2. ASSUME NEW i \in Incidents, ReevaluateCreate(i)
      PROVE  AlertsGoOn
  <2>1. /\ phase = "create" /\ state[i] = "absent" /\ created' = i
        /\ state' = [state EXCEPT ![i] = "triggered"]
        /\ incidentOf' = [incidentOf EXCEPT ![i] = opening]
        /\ alerted' = alerted \cup {opening}
        /\ UNCHANGED <<status, opening, disturbed, interrupted>>
    BY <1>2 DEF ReevaluateCreate, CreateIncident, rowVars
  <2>2. opening \in Monitors /\ created = None /\ i # None
    BY <2>1, NoneAssumption DEF TypeOK
  <2>3. \A j \in Incidents \ {i} : state'[j] = state[j] /\ incidentOf'[j] = incidentOf[j]
    BY <2>1 DEF TypeOK
  <2>4. \A n \in Monitors \ {opening} : AlertMove(n)
    BY <2>1, <2>2, <2>3, NoneAssumption, LeftAlone
  <2>5. AlertMove(opening)
    <3>1. CASE status[opening] # "operational" /\ opening \in Alerting \ alerted
      <4>1. Place[opening] = "owed" /\ Place'[opening] = "down"
        BY <2>1, <2>2, <3>1, PlaceIs
      <4>2. \A j \in Incidents :
              state'[j] = "triggered" /\ incidentOf'[j] = opening /\ created' # j
                <=> state[j] = "triggered" /\ incidentOf[j] = opening /\ created # j
        BY <2>1, <2>2, <2>3, NoneAssumption
      <4>3. \A j : j \in Alarm'[opening] <=> j \in Alarm[opening]
        BY <2>2, <4>2, AlarmIs
      <4>4. Alarm[opening] \in SUBSET Incidents /\ Alarm'[opening] \in SUBSET Incidents
        BY <2>2, AlarmIs
      <4>5. Alarm'[opening] = Alarm[opening]
        BY <4>3, <4>4
      <4> QED  BY <4>1, <4>5 DEF AlertMove, Alerts!Recorded
    <3>2. CASE status[opening] = "operational" \/ opening \notin Alerting \ alerted
      <4>1. Place'[opening] = Place[opening]
        BY <2>1, <2>2, <3>2, PlaceIs
      <4>2. Alarm'[opening] \subseteq Alarm[opening]
        BY <2>1, <2>2, <2>3, NoneAssumption, AlarmIs
      <4> QED  BY <4>1, <4>2 DEF AlertMove, Alerts!SeenTo
    <3> QED  BY <3>1, <3>2
  <2>6. NotYetAlerted'
    BY <2>1, <2>2 DEF NotYetAlerted, Undisturbed
  <2> QED  BY <2>1, <2>4, <2>5, <2>6 DEF AlertsGoOn, StillUndisturbed
<1>3. CASE ReevaluateLink
  <2>1. /\ phase = "link" /\ created' = None
        /\ Disturb(opening, [status |-> "offline", current |-> None])
        /\ UNCHANGED <<status, state, incidentOf, alerted, interrupted>>
    BY <1>3 DEF ReevaluateLink, incidentVars
  <2>2. opening \in Monitors /\ created \in Incidents /\ created # None
        /\ incidentOf[created] = opening
    BY <2>1 DEF TypeOK, Inv, CreatedBelongs
  <2>3. disturbed \subseteq disturbed'
        /\ (opening \in StillUndisturbed => status[opening] = "offline" /\ current[opening] = None)
    BY <2>1, <2>2 DEF Disturb, Outdated, StillUndisturbed, TypeOK
  <2>4. \A n \in Monitors \ {opening} : AlertMove(n)
    BY <2>1, <2>2, LeftAlone
  <2>5. ASSUME opening \in StillUndisturbed
        PROVE  AlertMove(opening)
    <3>1. /\ opening \in Undisturbed /\ status[opening] = "offline"
          /\ current[opening] = None
      BY <2>1, <2>3, <2>5 DEF StillUndisturbed, Undisturbed
    <3>2. Alarm[opening] = {}
      BY <3>1, NoneAssumption, AlarmIsCurrent
    <3>3. Place'[opening] = "down" /\ Place[opening] = "down"
      <4>1. opening \in Alerting => opening \in alerted
        BY <2>1, <3>1 DEF Inv, OutageIsAlerted
      <4> QED  BY <2>1, <2>2, <3>1, <4>1, PlaceIs
    <3>4. CASE state[created] = "triggered"
      <4>1. \A j \in Incidents :
              state'[j] = "triggered" /\ incidentOf'[j] = opening /\ created' # j <=> j = created
        BY <2>1, <2>2, <3>2, <3>4, NoneAssumption, AlarmIs
      <4>2. Alarm'[opening] = {created}
        BY <2>2, <4>1, AlarmIs
      <4> QED  BY <2>2, <3>2, <3>3, <4>2 DEF AlertMove, Alerts!Alarmed
    <3>5. CASE state[created] # "triggered"
      BY <2>1, <2>2, <3>5, LeftAlone
    <3> QED  BY <3>4, <3>5
  <2>6. NotYetAlerted'
    BY <2>1, <2>3 DEF NotYetAlerted, Undisturbed, StillUndisturbed
  <2> QED  BY <2>1, <2>3, <2>4, <2>5, <2>6 DEF AlertsGoOn, StillUndisturbed
<1> QED  BY <1>1, <1>2, <1>3

(* A crash leaves alarms alone, except that of a re-evaluation it cuts short. *)
LEMMA CrashAlerts ==
    ASSUME TypeOK, Inv, NotYetAlerted, Crash
    PROVE  AlertsGoOn
<1>1. /\ UNCHANGED <<status, state, incidentOf, alerted, disturbed>> /\ created' = None
      /\ interrupted \subseteq interrupted'
      /\ phase = "link" => opening \in interrupted'
  BY DEF Crash, rowVars, incidentVars
<1>2. created # None => phase = "link"
  BY DEF TypeOK
<1>3. CASE created = None
  BY <1>1, <1>3, LeftAlone DEF AlertsGoOn, StillUndisturbed, NotYetAlerted, Undisturbed
<1>4. CASE created # None
  <2>1. incidentOf[created] = opening /\ opening \in interrupted'
    BY <1>1, <1>2, <1>4 DEF Inv, CreatedBelongs
  <2>2. ASSUME NEW n \in StillUndisturbed
        PROVE  AlertMove(n)
    <3>1. n \in Monitors /\ n # opening
      BY <2>1 DEF StillUndisturbed
    <3> QED  BY <1>1, <2>1, <3>1, LeftAlone
  <2>3. NotYetAlerted'
    BY <1>1, <2>1 DEF NotYetAlerted, Undisturbed
  <2> QED  BY <1>1, <2>2, <2>3 DEF AlertsGoOn
<1> QED  BY <1>3, <1>4

(* Whoever acknowledges, resolves or purges ends alarms and raises none. *)
LEMMA IncidentsSeenTo ==
    ASSUME TypeOK, NotYetAlerted,
           \/ \E c \in Clients : AcknowledgeIncident(c) \/ ResolveIncident(c)
           \/ \E i \in Incidents : PurgeIncident(i)
    PROVE  AlertsGoOn
<1>1. /\ UNCHANGED <<status, alerted, created, opening, disturbed, interrupted>>
      /\ \A j \in Incidents : state'[j] = "triggered" =>
            state[j] = "triggered" /\ incidentOf'[j] = incidentOf[j]
  <2>1. ASSUME NEW c \in Clients, AcknowledgeIncident(c) \/ ResolveIncident(c)
        PROVE  /\ UNCHANGED <<status, alerted, created, opening, disturbed, interrupted>>
               /\ \A j \in Incidents : state'[j] = "triggered" =>
                     state[j] = "triggered" /\ incidentOf'[j] = incidentOf[j]
    <3>1. PICK i \in Incidents, st \in {"acknowledged", "resolved"} :
            state' = [state EXCEPT ![i] = st]
      BY <2>1 DEF AcknowledgeIncident, ResolveIncident, TypeOK, Requests
    <3>2. UNCHANGED <<status, incidentOf, alerted, created, opening, disturbed, interrupted>>
      BY <2>1 DEF AcknowledgeIncident, ResolveIncident, rowVars, jobVars, historyVars
    <3> QED  BY <3>1, <3>2 DEF TypeOK
  <2>2. ASSUME NEW i \in Incidents, PurgeIncident(i)
        PROVE  /\ UNCHANGED <<status, alerted, created, opening, disturbed, interrupted>>
               /\ \A j \in Incidents : state'[j] = "triggered" =>
                     state[j] = "triggered" /\ incidentOf'[j] = incidentOf[j]
    BY <2>2 DEF PurgeIncident, jobVars, historyVars, TypeOK
  <2> QED  BY <2>1, <2>2
<1>2. \A m \in StillUndisturbed : AlertMove(m)
  BY <1>1, LeftAlone DEF StillUndisturbed
<1>3. NotYetAlerted'
  BY <1>1 DEF NotYetAlerted, Undisturbed
<1> QED  BY <1>1, <1>2, <1>3 DEF AlertsGoOn

(* Every step is one OutageAlerts allows. *)
LEMMA AlertsStep ==
    ASSUME TypeOK, Inv, NotYetAlerted, [Next]_vars
    PROVE  AlertsGoOn
<1>1. ASSUME created = None \/ opening' = opening,
             UNCHANGED <<status, state, incidentOf, alerted, created, disturbed, interrupted>>
      PROVE  AlertsGoOn
  BY <1>1, AlertsStutter
<1>2. ASSUME NEW r \in Runners, RunnerStep(r)
      PROVE  AlertsGoOn
  <2>1. PICK m \in Monitors, result \in CheckStatus :
          \/ CheckTakesOffline(r, m, result)
          \/ CheckBringsBack(r, m, result)
          \/ CheckKeepsStatus(r, m, result)
    BY <1>2 DEF RunnerStep
  <2>2. CASE CheckKeepsStatus(r, m, result)
    <3>1. RecordCheck(r, m, result)
      BY <2>2 DEF CheckKeepsStatus
    <3>2. /\ batch[r][m] \in Snapshot /\ Disturb(m, batch[r][m])
          /\ status' = [status EXCEPT ![m] = batch[r][m].status]
          /\ UNCHANGED <<state, incidentOf, alerted, created, opening, interrupted>>
      BY <2>2, <3>1, CheckFacts DEF CheckKeepsStatus, RecordCheck, incidentVars
    <3> QED  BY <3>2, StatusRewritten
  <2> QED  BY <2>1, <2>2, OutageBegins, OutageEnds
<1>3. CASE ReevaluationStep
  <2>1. CASE LoadReevaluation
    BY <1>1, <2>1 DEF LoadReevaluation, rowVars, incidentVars, historyVars
  <2>2. ASSUME NEW m \in Monitors, ReevaluateMonitor(m)
        PROVE  AlertsGoOn
    <3>1. created = None
      BY <2>2 DEF ReevaluateMonitor, TypeOK
    <3> QED  BY <1>1, <2>2, <3>1 DEF ReevaluateMonitor, rowVars, incidentVars, historyVars
  <2> QED  BY <1>3, <2>1, <2>2, ReevaluationAlerts DEF ReevaluationStep
<1>4. ASSUME NEW c \in Clients, RequestStep(c)
      PROVE  AlertsGoOn
  <2>1. ASSUME NEW pause \in BOOLEAN, PatchMonitorSave(c, pause)
        PROVE  AlertsGoOn
    <3>1. edit[c].monitor \in Monitors /\ edit[c].snapshot \in Snapshot
      BY <2>1 DEF PatchMonitorSave, TypeOK, Edits
    <3>2. /\ status' = [status EXCEPT ![edit[c].monitor] = edit[c].snapshot.status]
          /\ Disturb(edit[c].monitor, edit[c].snapshot)
          /\ UNCHANGED <<state, incidentOf, alerted, created, opening, interrupted>>
      BY <2>1 DEF PatchMonitorSave, incidentVars, jobVars
    <3> QED  BY <3>1, <3>2, StatusRewritten
  <2>2. ASSUME NEW op \in {"acknowledge", "resolve"}, NEW i \in Incidents,
               LifecycleRead(c, op, i)
        PROVE  AlertsGoOn
    BY <1>1, <2>2 DEF LifecycleRead, rowVars, incidentVars, jobVars, historyVars
  <2>3. ASSUME NEW m \in Monitors, PatchMonitorRead(c, m)
        PROVE  AlertsGoOn
    BY <1>1, <2>3 DEF PatchMonitorRead, rowVars, incidentVars, jobVars, historyVars
  <2> QED  BY <1>4, <2>1, <2>2, <2>3, IncidentsSeenTo DEF RequestStep
<1>5. CASE \/ \E r \in Runners, m \in Monitors : CheckFails(r, m)
           \/ \E m \in Monitors : BecomesDue(m) \/ PauseMonitor(m) \/ ResumeMonitor(m)
  BY <1>1, <1>5 DEF CheckFails, BecomesDue, PauseMonitor, ResumeMonitor,
       rowVars, incidentVars, jobVars, historyVars
<1>6. CASE \E w \in Windows : StartWindow(w) \/ EndWindow(w) \/ CancelWindow(w)
  BY <1>1, <1>6 DEF StartWindow, EndWindow, CancelWindow, rowVars, incidentVars, jobVars,
       historyVars
<1>7. ASSUME NEW r \in Runners, LoadBatch(r) \/ (\E m \in Monitors : LoadOne(r, m))
      PROVE  AlertsGoOn
  <2>1. PICK S : Load(r, S)
    BY <1>7 DEF LoadBatch, LoadOne
  <2> QED  BY <1>1, <2>1 DEF Load, rowVars, incidentVars, jobVars, historyVars
<1>8. CASE UNCHANGED vars
  BY <1>1, <1>8 DEF vars, rowVars, incidentVars, jobVars, historyVars
<1> QED  BY <1>2, <1>3, <1>4, <1>5, <1>6, <1>7, <1>8, CrashAlerts, IncidentsSeenTo DEF Next

LEMMA AlertsInvariance == Spec => [](TypeOK /\ Inv /\ NotYetAlerted)
<1>1. Init => NotYetAlerted
  BY DEF Init, NotYetAlerted
<1>2. TypeOK /\ Inv /\ NotYetAlerted /\ [Next]_vars => NotYetAlerted'
  BY AlertsStep DEF AlertsGoOn
<1> QED  BY <1>1, <1>2, Invariance, PTL DEF Spec

(* ImplementsAlerts: for any monitors, windows, runners, clients and bounds,   *)
(* monitoring is a system of OutageAlerts.  Each step of run_checks, of a       *)
(* re-evaluation or of a request is, for every monitor no race or crash has    *)
(* excused, a move of that system.                                             *)
THEOREM AlertsAreImplemented == Spec => ImplementsAlerts
<1>1. Init => Alerts!Init
  BY DEF Init, Alerts!Init, Place, Alarm
<1>2. TypeOK /\ Inv /\ NotYetAlerted /\ [Next]_vars => Alerts!Next
  <2> SUFFICES ASSUME TypeOK, Inv, NotYetAlerted, [Next]_vars
               PROVE  Alerts!Next
    OBVIOUS
  <2>1. AlertsGoOn /\ TypeOK'
    BY AlertsStep, NextType
  <2>2. /\ Place' \in [Monitors -> {"up", "owed", "down"}]
        /\ Alarm' \in [Monitors -> SUBSET Incidents]
    BY DEF Place, Alarm
  <2>3. disturbed' \cup interrupted' \subseteq Monitors
    BY <2>1 DEF TypeOK
  <2>4. \A m \in Monitors \ (disturbed' \cup interrupted') :
           \/ Alerts!Fails(m) \/ Alerts!FailsSilently(m) \/ Alerts!Recorded(m)
           \/ Alerts!Alarmed(m) \/ Alerts!Recovers(m) \/ Alerts!SeenTo(m)
    BY <2>1 DEF AlertsGoOn, StillUndisturbed, AlertMove
  <2> QED  BY <2>1, <2>2, <2>3, <2>4 DEF AlertsGoOn, Alerts!Next
<1> QED  BY <1>1, <1>2, AlertsInvariance, PTL DEF Spec, ImplementsAlerts, Alerts!Spec

(* Of any system of OutageAlerts, and hence of monitoring: a monitor has at    *)
(* most one unacknowledged incident at a time, and none while it is up or owes *)
(* the incident of its outage.                                                 *)
THEOREM AlarmsFollow == Spec => []Alerts!AlarmsFollowOutages
<1>1. Alerts!Init => Alerts!AlarmsFollowOutages
  BY DEF Alerts!Init, Alerts!AlarmsFollowOutages
<1>2. Alerts!AlarmsFollowOutages /\ [Alerts!Next]_(Alerts!vars) => Alerts!AlarmsFollowOutages'
  BY DEF Alerts!AlarmsFollowOutages, Alerts!Next, Alerts!vars, Alerts!Fails,
       Alerts!FailsSilently, Alerts!Recorded, Alerts!Alarmed, Alerts!Recovers, Alerts!SeenTo
<1> QED  BY <1>1, <1>2, AlertsAreImplemented, PTL DEF ImplementsAlerts, Alerts!Spec

-----------------------------------------------------------------------------
(* MonitorChecks: the inductive invariant                                    *)

(* The last time run_checks was started, if the scheduler was up.              *)
LastTurn == now - (now % JobPeriod)

(* While nothing comes in between (steady), next_check_at is last_check_at     *)
(* plus interval_seconds, a run in progress has loaded both as they are, it    *)
(* began at the last turn of the job, and a monitor that is not being checked  *)
(* was not due then.  So a heartbeat monitor is checked at the first turn      *)
(* after it falls due: the bound on its lateness rests on this.                *)
TurnInv ==
    /\ run # Null => up /\ now % JobPeriod <= MaxDelay
    /\ steady => up
    /\ steady /\ last # Null => next = last + interval
    /\ steady /\ run # Null =>
         run.last = last /\ run.interval = interval
    /\ /\ monitor.type = "heartbeat" /\ steady /\ run # Null
       /\ last # Null /\ interval > 0
       => LastTurn - JobPeriod < next
    /\ /\ monitor.type = "heartbeat" /\ steady /\ run = Null /\ ~isPaused
       /\ last # Null /\ interval > 0
       => LastTurn < next

(* A journey goes on only after a live answer, and what the steps behind it    *)
(* extract is in hand: requests are rendered from it (_render_template).       *)
JourneyInv ==
    run # Null /\ monitor.type \in StepTypes =>
        /\ run.step > 1 => reached
        /\ \A j \in 1 .. run.step - 1 : monitor.steps[j].extract \subseteq run.vars

-----------------------------------------------------------------------------
(* Remainders                                                                  *)

(* Division with remainder. *)
LEMMA Division ==
    ASSUME NEW p \in Nat \ {0}, NEW n \in Nat
    PROVE  /\ n \div p \in Nat /\ n % p \in 0 .. p - 1
           /\ n = (p * (n \div p)) + (n % p)
OBVIOUS

(* The remainder of a multiple plus something smaller is what was added. *)
LEMMA Remainder ==
    ASSUME NEW p \in Nat \ {0}, NEW q \in Nat, NEW r \in 0 .. p - 1
    PROVE  ((p * q) + r) % p = r
OBVIOUS

(* The clock moves on by one: its remainder does too, or wraps. *)
LEMMA NextRemainder ==
    ASSUME NEW p \in Nat \ {0}, NEW n \in Nat
    PROVE  (n + 1) % p = IF n % p = p - 1 THEN 0 ELSE (n % p) + 1
<1> DEFINE q == n \div p
           r == n % p
<1>1. q \in Nat /\ r \in 0 .. p - 1 /\ n = (p * q) + r
  BY Division
<1> HIDE DEF q, r
<1>2. CASE r = p - 1
  <2>1. n + 1 = (p * (q + 1)) + 0
    BY <1>1, <1>2
  <2>2. (n + 1) % p = 0
    BY <1>1, <2>1, Remainder
  <2> QED  BY <1>2, <2>2 DEF r
<1>3. CASE r # p - 1
  <2>1. n + 1 = (p * q) + (r + 1) /\ r + 1 \in 0 .. p - 1
    BY <1>1, <1>3
  <2>2. (n + 1) % p = r + 1
    BY <1>1, <2>1, Remainder
  <2> QED  BY <1>3, <2>2 DEF r
<1> QED  BY <1>2, <1>3

(* Taking the remainder away leaves the last multiple at or below n. *)
LEMMA RoundedDown ==
    ASSUME NEW p \in Nat \ {0}, NEW n \in Nat
    PROVE  n - (n % p) \in 0 .. n /\ (n - (n % p)) % p = 0 /\ n < n - (n % p) + p
<1>1. n \div p \in Nat /\ n % p \in 0 .. p - 1 /\ n = (p * (n \div p)) + (n % p)
  BY Division
<1>2. n - (n % p) = (p * (n \div p)) + 0
  BY <1>1
<1>3. (n - (n % p)) % p = 0
  <2>1. 0 \in 0 .. p - 1
    OBVIOUS
  <2>2. ((p * (n \div p)) + 0) % p = 0
    BY <1>1, <2>1, Remainder
  <2> QED  BY <1>2, <2>2
<1>4. p * (n \div p) \in Nat
  BY <1>1
<1> QED  BY <1>1, <1>2, <1>3, <1>4

(* Two multiples of p are at least p apart. *)
LEMMA MultiplesApart ==
    ASSUME NEW p \in Nat \ {0}, NEW m \in Nat, NEW n \in Nat, m % p = 0, n % p = 0, m < n
    PROVE  m + p <= n
<1> DEFINE i == m \div p
           j == n \div p
<1>1. i \in Nat /\ j \in Nat /\ m = p * i /\ n = p * j
  BY Division
<1> HIDE DEF i, j
<1>2. i + 1 <= j
  <2> SUFFICES ASSUME j <= i PROVE FALSE
    BY <1>1
  <2>1. p * j <= p * i
    BY <1>1
  <2> QED  BY <1>1, <2>1
<1>3. p * (i + 1) <= p * j
  BY <1>1, <1>2
<1> QED  BY <1>1, <1>3

(* What the runners make of an answer: a status, unless they raise; and a pass *)
(* only of a live one.                                                         *)
LEMMA RunnerAnswers ==
    ASSUME NEW m \in Configs, NEW a \in Answers[m.type], NEW loaded
    PROVE  /\ RunCheck(m, loaded, a) \in Outcomes \cup {"raises"}
           /\ /\ RunCheck(m, loaded, a) = "success"
              /\ m.type # "heartbeat"
              /\ m.type = "udp" => m.criteria.expect
              => LiveAnswer(a)
<1> DEFINE result == RunCheck(m, loaded, a)
           Fine == /\ result \in Outcomes \cup {"raises"}
                   /\ result = "success" => LiveAnswer(a)
<1>1. a.kind \in AnswerKinds(m.type)
  BY AnswersAssumption
<1>2. CASE m.type \in {"api", "website"}
  <2>1. a.kind \in {"timeout", "refused", "broken", "response"} /\ result = HttpCheck(m, a)
    BY <1>1, <1>2 DEF AnswerKinds, RunCheck
  <2>2. Fine
    BY <2>1 DEF HttpCheck, Outcomes, LiveAnswer
  <2> QED  BY <2>2
<1>3. CASE m.type = "tcp"
  <2>1. a.kind \in {"timeout", "refused", "connected"} /\ result = TcpCheck(m, a)
    BY <1>1, <1>3 DEF AnswerKinds, RunCheck, StepTypes
  <2>2. Fine
    BY <2>1 DEF TcpCheck, Outcomes, LiveAnswer
  <2> QED  BY <2>2
<1>4. CASE m.type = "udp"
  <2>1. a.kind \in {"timeout", "refused", "datagram"} /\ result = UdpCheck(m, a)
    BY <1>1, <1>4 DEF AnswerKinds, RunCheck, StepTypes
  <2>2. /\ result \in Outcomes \cup {"raises"}
        /\ result = "success" /\ m.criteria.expect => LiveAnswer(a)
    BY <2>1 DEF UdpCheck, Outcomes, LiveAnswer
  <2> QED  BY <1>4, <2>2
<1>5. CASE m.type = "dns"
  <2>1. a.kind \in {"gaierror", "broken", "records"} /\ result = DnsCheck(m, a)
    BY <1>1, <1>5 DEF AnswerKinds, RunCheck, StepTypes
  <2>2. Fine
    BY <2>1 DEF DnsCheck, Outcomes, LiveAnswer
  <2> QED  BY <2>2
<1>6. CASE m.type = "ssl"
  <2>1. a.kind \in {"handshake", "refused", "cert"} /\ result = SslCheck(m, a)
    BY <1>1, <1>6 DEF AnswerKinds, RunCheck, StepTypes
  <2>2. Fine
    BY <2>1 DEF SslCheck, Outcomes, LiveAnswer
  <2> QED  BY <2>2
<1>7. CASE m.type = "ping"
  <2>1. a.kind \in {"timeout", "no_command", "exit"} /\ result = PingCheck(m, a)
    BY <1>1, <1>7 DEF AnswerKinds, RunCheck, StepTypes
  <2>2. Fine
    BY <2>1 DEF PingCheck, Outcomes, LiveAnswer
  <2> QED  BY <2>2
<1>8. CASE m.type = "heartbeat"
  <2>1. result \in Outcomes
    BY <1>8 DEF RunCheck, HeartbeatCheck, Outcomes
  <2> QED  BY <1>8, <2>1
<1>9. CASE m.type \notin {"api", "website", "tcp", "udp", "dns", "ssl", "ping", "heartbeat"}
  <2>1. result = "error"
    BY <1>9 DEF RunCheck
  <2> QED  BY <2>1 DEF Outcomes
<1> QED  BY <1>2, <1>3, <1>4, <1>5, <1>6, <1>7, <1>8, <1>9

(* The same of one HTTP step of a journey, for any step. *)
LEMMA StepAnswers ==
    ASSUME NEW m \in Configs, m.type \in StepTypes, NEW a \in Answers[m.type], NEW step
    PROVE  /\ StepCheck(step, a) \in Outcomes
           /\ StepCheck(step, a) = "success" => LiveAnswer(a)
<1>1. a.kind \in {"timeout", "refused", "broken", "response"}
  <2>1. a.kind \in AnswerKinds(m.type)
    BY AnswersAssumption
  <2>2. AnswerKinds(m.type) = {"timeout", "refused", "broken", "response"}
    BY DEF AnswerKinds, StepTypes
  <2> QED  BY <2>1, <2>2
<1> QED  BY <1>1 DEF StepCheck, Outcomes, LiveAnswer

-----------------------------------------------------------------------------
(* Types *)

(* A monitor just created satisfies the invariant. *)
LEMMA Initially ==
    ASSUME ChecksInit
    PROVE  ChecksTypeOK /\ TurnInv /\ JourneyInv
<1>1. 0 \in Times /\ 0 \in Nat /\ 0 \in 0 .. MaxEdits
  BY TimesAssumption DEF Times
<1>2. Null \notin Nat
  BY NullAssumption
<1> QED  BY <1>1, <1>2 DEF ChecksInit, ChecksTypeOK, TurnInv, JourneyInv

(* The steps of the monitor, and the one a run is at. *)
LEMMA StepsOf ==
    ASSUME ChecksTypeOK, monitor.type \in StepTypes
    PROVE  /\ Len(monitor.steps) \in Nat \ {0}
           /\ DOMAIN monitor.steps = 1 .. Len(monitor.steps)
           /\ \A k \in 1 .. Len(monitor.steps) :
                 monitor.steps[k].extract \subseteq UNION {Extractable(m) : m \in Configs}
<1>1. /\ monitor \in Configs /\ monitor.steps \in Seq(Range(monitor.steps))
      /\ monitor.steps # <<>>
  BY StepsAssumption DEF ChecksTypeOK, Accepted
<1>2. Len(monitor.steps) \in Nat \ {0} /\ DOMAIN monitor.steps = 1 .. Len(monitor.steps)
  BY <1>1
<1>3. \A k \in 1 .. Len(monitor.steps) : monitor.steps[k].extract \subseteq Extractable(monitor)
  BY <1>2 DEF Extractable, Range
<1> QED  BY <1>1, <1>2, <1>3

(* The numbers the arithmetic below is about. *)
LEMMA NowIsNat ==
    ASSUME ChecksTypeOK
    PROVE  now \in Nat /\ interval \in Nat /\ JobPeriod \in Nat \ {0}
           /\ MaxDelay \in 0 .. JobPeriod - 1
<1>1. now \in 0 .. MaxTime /\ interval \in Intervals
  BY DEF ChecksTypeOK, Times
<1>2. MaxTime \in Nat /\ Intervals \subseteq Nat
  BY TimesAssumption
<1> QED  BY <1>1, <1>2, TimesAssumption

(* What recording a check leaves behind. *)
LEMMA RecordType ==
    ASSUME ChecksTypeOK, run # Null, NEW outcome \in Outcomes, Record(outcome),
           reached' \in BOOLEAN
    PROVE  ChecksTypeOK'
<1>1. run \in Runs /\ now \in Times /\ interval \in Intervals
  BY DEF ChecksTypeOK
<1>2. now + run.interval \in Nat
  <2>1. run.interval \in Intervals
    BY <1>1 DEF Runs
  <2>2. run.interval \in Nat
    BY <2>1, TimesAssumption
  <2> QED  BY <2>2, NowIsNat
<1>3. [at |-> now, status |-> outcome] \in Check
  BY <1>1 DEF Check
<1>4. history' \subseteq Check /\ last' \in Times \cup {Null} /\ next' \in Nat
  BY <1>1, <1>2, <1>3 DEF Record, ChecksTypeOK
<1>5. steady' \in BOOLEAN
  BY DEF Record
<1> QED  BY <1>1, <1>4, <1>5 DEF Record, ChecksTypeOK
(* What the run loads of the monitor, and what it has extracted, are a run. *)
LEMMA LoadedType ==
    ASSUME ChecksTypeOK
    PROVE  /\ Loaded \in Runs /\ Loaded # Null /\ Loaded.step = 1
           /\ Loaded.interval = interval /\ Loaded.last = last
<1>1. Loaded \in Runs
  BY DEF ChecksTypeOK, Loaded, Runs
<1> QED  BY <1>1, NullAssumption DEF Loaded

(* A journey that goes on is a run at its next step, with what the step       *)
(* extracted added.                                                           *)
LEMMA NextStepType ==
    ASSUME ChecksTypeOK, run # Null, monitor.type \in StepTypes, run.step < Len(monitor.steps),
           NEW r, r = [run EXCEPT !.step = @ + 1, !.vars = Extracted(monitor.steps[run.step])]
    PROVE  /\ r \in Runs /\ r # Null /\ r.step = run.step + 1
           /\ r.last = run.last /\ r.interval = run.interval
           /\ r.vars = run.vars \cup monitor.steps[run.step].extract
<1>1. run \in Runs
  BY DEF ChecksTypeOK
<1>2. run.step \in Nat \ {0} /\ run.vars \in SUBSET UNION {Extractable(m) : m \in Configs}
  BY <1>1 DEF Runs
<1>3. run.step \in 1 .. Len(monitor.steps)
  BY <1>2, StepsOf
<1>4. monitor.steps[run.step].extract \subseteq UNION {Extractable(m) : m \in Configs}
  BY <1>3, StepsOf
<1>5. Extracted(monitor.steps[run.step]) \in SUBSET UNION {Extractable(m) : m \in Configs}
  BY <1>2, <1>4 DEF Extracted
<1>6. run.step + 1 \in Nat \ {0}
  BY <1>2
<1>7. r \in Runs
  BY <1>1, <1>5, <1>6, Zenon DEF Runs
<1>8. r.step = run.step + 1 /\ r.vars = Extracted(monitor.steps[run.step])
      /\ r.last = run.last /\ r.interval = run.interval
  BY <1>1 DEF Runs
<1> QED  BY <1>7, <1>8, NullAssumption DEF Extracted

(* Whatever the runner of the monitor makes of an answer preserves the        *)
(* types: execute_check, an exception, one step of a journey.                 *)
LEMMA CheckType ==
    ASSUME ChecksTypeOK, NEW a \in Answers[monitor.type],
           ExecuteCheck(a) \/ CheckRaises(a) \/ RunStep(a)
    PROVE  ChecksTypeOK'
<1>1. CASE ExecuteCheck(a)
  <2>1. RunCheck(monitor, run, a) \in Outcomes /\ run # Null
    BY <1>1, RunnerAnswers DEF ExecuteCheck, ChecksTypeOK
  <2>2. Record(RunCheck(monitor, run, a)) /\ reached' \in BOOLEAN
    BY <1>1 DEF ExecuteCheck, LiveAnswer
  <2> QED  BY <2>1, <2>2, RecordType
<1>2. CASE CheckRaises(a)
  BY <1>2 DEF CheckRaises, ChecksTypeOK, monitorVars, ghostVars, Accepted
<1>3. CASE RunStep(a)
  <2>1. /\ run # Null /\ monitor.type \in StepTypes /\ monitor \in Configs
        /\ reached' \in BOOLEAN
    BY <1>3 DEF RunStep, ChecksTypeOK, LiveAnswer
  <2> DEFINE step == monitor.steps[run.step]
  <2>2. StepCheck(step, a) \in Outcomes
    BY <2>1, StepAnswers
  <2>3. CASE StepCheck(step, a) = "success" /\ run.step < Len(monitor.steps)
    <3>1. /\ run' = [run EXCEPT !.step = @ + 1, !.vars = Extracted(step)]
          /\ UNCHANGED <<monitor, now, up, isPaused, interval, last, next, history, patch,
                         edits, steady>>
      BY <1>3, <2>3 DEF RunStep, monitorVars
    <3>2. run' \in Runs /\ run'.step = run.step + 1
      BY <2>1, <2>3, <3>1, NextStepType
    <3>3. run.step \in Nat /\ Len(monitor.steps) \in Nat
      BY <2>1, StepsOf DEF ChecksTypeOK, Runs
    <3>4. run'.step <= Len(monitor.steps)
      BY <2>3, <3>2, <3>3
    <3> QED  BY <2>1, <3>1, <3>2, <3>4 DEF ChecksTypeOK
  <2>4. CASE ~(StepCheck(step, a) = "success" /\ run.step < Len(monitor.steps))
    <3>1. Record(StepCheck(step, a))
      BY <1>3, <2>4 DEF RunStep
    <3> QED  BY <2>1, <2>2, <3>1, RecordType
  <2> QED  BY <2>3, <2>4
<1> QED  BY <1>1, <1>2, <1>3

(* Every step preserves the types. *)
LEMMA TypeStep ==
    ASSUME ChecksTypeOK, [ChecksNext]_checksVars
    PROVE  ChecksTypeOK'
<1>1. CASE Tick
  <2>1. /\ now' = now + 1 /\ now < MaxTime
        /\ run' = run \/ (run = Null /\ run' = Loaded)
        /\ UNCHANGED <<monitor, up, isPaused, interval, last, next, history, patch, edits,
                       steady, sent, reached>>
    BY <1>1 DEF Tick, monitorVars, ghostVars
  <2>2. now' \in Times
    BY <2>1, TimesAssumption DEF ChecksTypeOK, Times
  <2>3. run' \in Runs \cup {Null}
    BY <2>1, LoadedType DEF ChecksTypeOK
  <2>4. run' # Null =>
          run'.step <= (IF monitor.type \in StepTypes THEN Len(monitor.steps) ELSE 1)
    BY <2>1, LoadedType, StepsOf DEF ChecksTypeOK
  <2> QED  BY <2>1, <2>2, <2>3, <2>4 DEF ChecksTypeOK, Accepted
<1>2. ASSUME NEW a \in Answers[monitor.type], ExecuteCheck(a) \/ CheckRaises(a) \/ RunStep(a)
      PROVE  ChecksTypeOK'
  BY <1>2, CheckType
<1>3. ASSUME Disturbance
      PROVE  edits' \in 0 .. MaxEdits /\ steady' \in BOOLEAN
  <2>1. edits \in 0 .. MaxEdits /\ edits < MaxEdits /\ edits' = edits + 1
        /\ steady' = FALSE
    BY <1>3 DEF Disturbance, ChecksTypeOK
  <2>2. MaxEdits \in Nat
    BY TimesAssumption
  <2>3. edits' \in 0 .. MaxEdits
    BY <2>1, <2>2
  <2> QED  BY <2>1, <2>3
<1>4. CASE Pause
  BY <1>3, <1>4 DEF Pause, Disturbance, ChecksTypeOK
<1>5. CASE Resume
  <2>1. now \in Nat
    BY NowIsNat
  <2> QED  BY <1>5, <2>1 DEF Resume, ChecksTypeOK
<1>6. CASE EditLoad
  <2>1. [last |-> last, next |-> next] \in Patches
    BY DEF ChecksTypeOK, Patches
  <2> QED  BY <1>3, <1>6, <2>1 DEF EditLoad, Disturbance, ChecksTypeOK, monitorVars
<1>7. ASSUME NEW i \in Intervals, NEW p \in BOOLEAN, EditSave(i, p)
      PROVE  ChecksTypeOK'
  <2>1. patch.last \in Times \cup {Null} /\ patch.next \in Nat
    BY <1>7 DEF EditSave, ChecksTypeOK, Patches
  <2> QED  BY <1>7, <2>1 DEF EditSave, ChecksTypeOK
<1>8. CASE Stop
  BY <1>3, <1>8 DEF Stop, Disturbance, ChecksTypeOK, monitorVars
<1>9. CASE Start
  BY <1>9 DEF Start, ChecksTypeOK, monitorVars, ghostVars
<1>10. CASE PurgeChecks
  <2>1. history' \subseteq history
    BY <1>10 DEF PurgeChecks
  <2> QED  BY <1>10, <2>1 DEF PurgeChecks, ChecksTypeOK, monitorVars, ghostVars
<1>11. CASE UNCHANGED checksVars
  BY <1>11 DEF ChecksTypeOK, checksVars, monitorVars, ghostVars
<1> QED  BY <1>1, <1>2, <1>4, <1>5, <1>6, <1>7, <1>8, <1>9, <1>10, <1>11 DEF ChecksNext

-----------------------------------------------------------------------------
(* Turns of the job *)

(* The clock moves on, and a turn of the job may begin: the case the          *)
(* invariant is there for.                                                    *)
LEMMA TurnTick ==
    ASSUME ChecksTypeOK, TurnInv, Tick
    PROVE  TurnInv'
<1>1. /\ now' = now + 1
      /\ run # Null => now % JobPeriod < MaxDelay
      /\ run' = IF run = Null /\ up /\ now' % JobPeriod = 0 /\ IsDue(now')
                THEN Loaded ELSE run
      /\ UNCHANGED <<monitor, up, isPaused, interval, last, next, steady>>
  BY DEF Tick, monitorVars, ghostVars
<1>2. now \in Nat /\ interval \in Nat /\ JobPeriod \in Nat \ {0}
      /\ MaxDelay \in 0 .. JobPeriod - 1 /\ next \in Nat
  BY NowIsNat DEF ChecksTypeOK
<1>3. now % JobPeriod \in 0 .. JobPeriod - 1
  BY <1>2, Division
<1>4. now' % JobPeriod = IF now % JobPeriod = JobPeriod - 1 THEN 0 ELSE (now % JobPeriod) + 1
  BY <1>1, <1>2, NextRemainder
<1>5. CASE now' % JobPeriod = 0
  <2>1. LastTurn' = LastTurn + JobPeriod /\ LastTurn' = now'
    BY <1>1, <1>2, <1>3, <1>4, <1>5 DEF LastTurn
  <2>2. LastTurn \in Int
    BY <1>2, <1>3 DEF LastTurn
  <2>3. CASE run = Null /\ up /\ IsDue(now')
    <3>1. run' = Loaded /\ run' # Null /\ run'.last = last /\ run'.interval = interval
      BY <1>1, <1>5, <2>3, LoadedType
    <3>2. ~isPaused /\ next <= now'
      BY <2>3 DEF IsDue
    <3>3. now' % JobPeriod <= MaxDelay
      BY <1>2, <1>5
    <3>4. LastTurn' - JobPeriod = LastTurn
      BY <1>2, <2>1, <2>2
    <3>5. /\ monitor.type = "heartbeat" /\ last # Null /\ steady /\ interval > 0
          => LastTurn' - JobPeriod < next
      BY <2>3, <3>2, <3>4 DEF TurnInv
    <3> QED  BY <1>1, <2>3, <3>1, <3>3, <3>5 DEF TurnInv
  <2>4. CASE ~(run = Null /\ up /\ IsDue(now'))
    <3>1. run' = run
      BY <1>1, <2>4
    <3>2. run = Null
      BY <1>1, <1>2, <1>3, <1>4, <1>5
    <3>3. steady /\ ~isPaused => LastTurn' < next'
      BY <1>1, <1>2, <2>1, <2>4, <3>2 DEF IsDue, TurnInv
    <3> QED  BY <1>1, <3>1, <3>2, <3>3 DEF TurnInv
  <2> QED  BY <2>3, <2>4
<1>6. CASE now' % JobPeriod # 0
  <2>1. run' = run /\ LastTurn' = LastTurn
    BY <1>1, <1>2, <1>3, <1>4, <1>6 DEF LastTurn
  <2>2. run # Null => now' % JobPeriod <= MaxDelay
    BY <1>1, <1>2, <1>3, <1>4, <1>6
  <2> QED  BY <1>1, <2>1, <2>2 DEF TurnInv
<1> QED  BY <1>5, <1>6

(* execute_check records a result: the next turn it is due at lies ahead. *)
LEMMA TurnRecord ==
    ASSUME ChecksTypeOK, TurnInv, run # Null, NEW outcome, Record(outcome)
    PROVE  TurnInv'
<1>1. /\ last' = now /\ now' = now /\ next' = now + run.interval /\ run' = Null
      /\ steady' = (interval = run.interval)
      /\ UNCHANGED <<up, isPaused, interval>>
  BY DEF Record
<1>2. now \in Nat /\ interval \in Nat /\ JobPeriod \in Nat \ {0}
  BY NowIsNat
<1>3. now % JobPeriod \in 0 .. JobPeriod - 1
  BY <1>2, Division
<1>4. LastTurn' = LastTurn /\ LastTurn <= now /\ LastTurn \in Int
  BY <1>1, <1>2, <1>3 DEF LastTurn
<1>5. up'
  BY <1>1 DEF TurnInv
<1>6. steady' => next' = now + interval
  BY <1>1
<1>7. steady' /\ interval > 0 => LastTurn' < next'
  BY <1>2, <1>4, <1>6
<1> QED  BY <1>1, <1>5, <1>6, <1>7 DEF TurnInv

(* Every step preserves TurnInv. *)
LEMMA TurnStep ==
    ASSUME ChecksTypeOK, TurnInv, [ChecksNext]_checksVars
    PROVE  TurnInv'
<1>1. ASSUME NEW a \in Answers[monitor.type], ExecuteCheck(a)
      PROVE  TurnInv'
  BY <1>1, TurnRecord DEF ExecuteCheck
<1>2. ASSUME NEW a \in Answers[monitor.type], CheckRaises(a)
      PROVE  TurnInv'
  <2>1. monitor.type # "heartbeat"
    BY <1>2 DEF CheckRaises, RunCheck, HeartbeatCheck
  <2> QED  BY <1>2, <2>1 DEF CheckRaises, TurnInv, monitorVars, ghostVars
<1>3. ASSUME NEW a \in Answers[monitor.type], RunStep(a)
      PROVE  TurnInv'
  <2>1. CASE Record(StepCheck(monitor.steps[run.step], a))
    BY <1>3, <2>1, TurnRecord DEF RunStep
  <2>2. CASE ~Record(StepCheck(monitor.steps[run.step], a))
    <3>1. /\ run # Null /\ monitor.type \in StepTypes /\ run.step < Len(monitor.steps)
          /\ run' = [run EXCEPT !.step = @ + 1, !.vars = Extracted(monitor.steps[run.step])]
          /\ UNCHANGED <<monitor, now, up, isPaused, interval, last, next, steady>>
      BY <1>3, <2>2 DEF RunStep, monitorVars
    <3>2. run' # Null /\ run'.last = run.last /\ run'.interval = run.interval
      BY <3>1, NextStepType
    <3> QED  BY <3>1, <3>2 DEF TurnInv, LastTurn
  <2> QED  BY <2>1, <2>2
<1>4. CASE Pause \/ EditLoad
  BY <1>4 DEF Pause, EditLoad, Disturbance, TurnInv, monitorVars, LastTurn
<1>5. CASE Resume
  BY <1>5 DEF Resume, TurnInv, LastTurn
<1>6. ASSUME NEW i \in Intervals, NEW p \in BOOLEAN, EditSave(i, p)
      PROVE  TurnInv'
  BY <1>6 DEF EditSave, TurnInv, LastTurn
<1>7. CASE Stop
  BY <1>7 DEF Stop, Disturbance, TurnInv
<1>8. CASE Start
  BY <1>8 DEF Start, TurnInv, monitorVars, ghostVars, LastTurn
<1>9. CASE PurgeChecks \/ UNCHANGED checksVars
  BY <1>9 DEF PurgeChecks, checksVars, TurnInv, monitorVars, ghostVars, LastTurn
<1> QED  BY <1>1, <1>2, <1>3, <1>4, <1>5, <1>6, <1>7, <1>8, <1>9, TurnTick DEF ChecksNext

-----------------------------------------------------------------------------
(* Journeys *)

(* Every step preserves JourneyInv: a journey never skips a step, and no      *)
(* step ends before its answer.                                               *)
LEMMA JourneyStep ==
    ASSUME ChecksTypeOK, JourneyInv, [ChecksNext]_checksVars
    PROVE  JourneyInv'
<1>1. ASSUME NEW a \in Answers[monitor.type], ExecuteCheck(a) \/ CheckRaises(a)
      PROVE  JourneyInv'
  <2>1. run' = Null
    BY <1>1 DEF ExecuteCheck, CheckRaises, Record
  <2> QED  BY <2>1 DEF JourneyInv
<1>2. ASSUME NEW a \in Answers[monitor.type], RunStep(a)
      PROVE  JourneyInv'
  <2> DEFINE step == monitor.steps[run.step]
  <2>1. CASE StepCheck(step, a) = "success" /\ run.step < Len(monitor.steps)
    <3>1. /\ run # Null /\ monitor.type \in StepTypes /\ UNCHANGED monitor
          /\ run' = [run EXCEPT !.step = @ + 1, !.vars = Extracted(step)]
          /\ reached' = (LiveAnswer(a) /\ (run.step = 1 \/ reached))
      BY <1>2, <2>1 DEF RunStep
    <3>2. run'.step = run.step + 1 /\ run'.vars = run.vars \cup step.extract
      BY <2>1, <3>1, NextStepType
    <3>3. run.step \in Nat \ {0}
      BY <3>1 DEF ChecksTypeOK, Runs
    <3>4. LiveAnswer(a)
      BY <2>1, <3>1, StepAnswers DEF ChecksTypeOK
    <3>5. reached'
      <4>1. run.step = 1 \/ reached
        BY <3>1, <3>3 DEF JourneyInv
      <4> QED  BY <3>1, <3>4, <4>1, Zenon
    <3>6. ASSUME NEW j \in 1 .. run'.step - 1
          PROVE  monitor.steps[j].extract \subseteq run'.vars
      <4>1. j \in 1 .. run.step - 1 \/ j = run.step
        BY <3>2, <3>3, <3>6
      <4> QED  BY <3>1, <3>2, <4>1 DEF JourneyInv
    <3> QED  BY <3>1, <3>5, <3>6 DEF JourneyInv
  <2>2. CASE ~(StepCheck(step, a) = "success" /\ run.step < Len(monitor.steps))
    BY <1>2, <2>2 DEF RunStep, Record, JourneyInv
  <2> QED  BY <2>1, <2>2
<1>3. CASE Tick
  <2>1. /\ run' = run \/ run' = Loaded
        /\ UNCHANGED <<monitor, reached>>
    BY <1>3 DEF Tick, ghostVars
  <2>2. CASE run' = Loaded
    BY <2>1, <2>2, LoadedType DEF JourneyInv
  <2> QED  BY <2>1, <2>2 DEF JourneyInv
<1>4. CASE Pause \/ EditLoad \/ Resume
  BY <1>4 DEF Pause, EditLoad, Resume, Disturbance, JourneyInv
<1>5. ASSUME NEW i \in Intervals, NEW p \in BOOLEAN, EditSave(i, p)
      PROVE  JourneyInv'
  BY <1>5 DEF EditSave, JourneyInv
<1>6. CASE Stop \/ Start
  BY <1>6 DEF Stop, Disturbance, Start, ghostVars, JourneyInv
<1>7. CASE PurgeChecks \/ UNCHANGED checksVars
  BY <1>7 DEF PurgeChecks, checksVars, ghostVars, JourneyInv
<1> QED  BY <1>1, <1>2, <1>3, <1>4, <1>5, <1>6, <1>7 DEF ChecksNext

ChecksInv == ChecksTypeOK /\ TurnInv /\ JourneyInv

(* The conjunction is inductive: it holds of every state of every behaviour. *)
LEMMA ChecksInvariant == ChecksSpec => []ChecksInv
<1>1. ChecksInit => ChecksInv
  BY Initially DEF ChecksInv
<1>2. ChecksInv /\ [ChecksNext]_checksVars => ChecksInv'
  BY TypeStep, TurnStep, JourneyStep DEF ChecksInv
<1> QED  BY <1>1, <1>2, PTL DEF ChecksSpec

(* Every reachable state has the types of ChecksTypeOK: in particular every   *)
(* recorded status is one a MonitorCheck row may hold, and a run never        *)
(* stands at a step its monitor does not have.                                *)
THEOREM ChecksTypeCorrect == ChecksSpec => []ChecksTypeOK
<1>1. ChecksInv => ChecksTypeOK
  BY DEF ChecksInv
<1> QED  BY <1>1, ChecksInvariant, PTL

(* Only execute_check, at the end of a check, adds to the history. *)
LEMMA RecordedBy ==
    ASSUME [ChecksNext]_checksVars, history' \ history # {}
    PROVE  \E a \in Answers[monitor.type] : ExecuteCheck(a) \/ RunStep(a)
<1>1. CASE UNCHANGED history
  BY <1>1
<1>2. Tick \/ Pause \/ Resume \/ EditLoad \/ Stop \/ Start \/ UNCHANGED checksVars
      => UNCHANGED history
  BY DEF Tick, Pause, Resume, EditLoad, Stop, Start, checksVars
<1>3. \A a \in Answers[monitor.type] : CheckRaises(a) => UNCHANGED history
  BY DEF CheckRaises
<1>4. \A i \in Intervals, p \in BOOLEAN : EditSave(i, p) => UNCHANGED history
  BY DEF EditSave
<1>5. PurgeChecks => history' \subseteq history
  BY DEF PurgeChecks
<1> QED  BY <1>1, <1>2, <1>3, <1>4, <1>5 DEF ChecksNext

(* A steady heartbeat monitor whose interval covers the period of the job     *)
(* and its delay is recorded as a success.                                    *)
LEMMA HeartbeatStep ==
    ASSUME ChecksInv, [ChecksNext]_checksVars, monitor.type = "heartbeat", steady, interval > 0,
           interval >= JobPeriod + MaxDelay - 1, NEW c \in history' \ history
    PROVE  c.status = "success"
<1>1. PICK a \in Answers[monitor.type] : ExecuteCheck(a)
  BY RecordedBy DEF RunStep, StepTypes
<1>2. /\ run # Null
      /\ history' = history \cup {[at |-> now, status |-> RunCheck(monitor, run, a)]}
  BY <1>1 DEF ExecuteCheck, Record
<1>3. c.status = HeartbeatCheck(run)
  BY <1>2 DEF RunCheck
<1>4. CASE last = Null
  BY <1>2, <1>3, <1>4 DEF HeartbeatCheck, ChecksInv, TurnInv
<1>5. CASE last # Null
  <2>1. /\ run.last = last /\ run.interval = interval /\ next = last + interval
        /\ LastTurn - JobPeriod < next /\ now % JobPeriod <= MaxDelay
    BY <1>2, <1>5 DEF ChecksInv, TurnInv
  <2>2. /\ now \in Nat /\ interval \in Nat /\ JobPeriod \in Nat \ {0}
        /\ MaxDelay \in 0 .. JobPeriod - 1 /\ last \in Nat
    <3>1. last \in 0 .. MaxTime /\ MaxTime \in Nat
      BY <1>5, TimesAssumption DEF ChecksInv, ChecksTypeOK, Times
    <3> QED  BY <3>1, NowIsNat DEF ChecksInv
  <2>3. now % JobPeriod \in 0 .. JobPeriod - 1
    BY <2>2, Division
  <2>4. now - last <= 2 * interval
    BY <2>1, <2>2, <2>3 DEF LastTurn
  <2> QED  BY <1>3, <2>1, <2>2, <2>4 DEF HeartbeatCheck
<1> QED  BY <1>4, <1>5

(* SteadyHeartbeatPasses: left alone, a heartbeat monitor of at least that    *)
(* interval never fails for the lateness of run_checks itself, for every      *)
(* period, delay and interval (_run_heartbeat_check).                          *)
THEOREM SteadyPasses == ChecksSpec => SteadyHeartbeatPasses
<1>1. ChecksInv /\ [ChecksNext]_checksVars =>
        [monitor.type = "heartbeat" /\ steady /\ interval > 0
           /\ interval >= JobPeriod + MaxDelay - 1
           => \A c \in history' \ history : c.status = "success"]_checksVars
  BY HeartbeatStep
<1> QED  BY <1>1, ChecksInvariant, PTL DEF ChecksSpec, SteadyHeartbeatPasses

(* A check recorded as a success had live answers to all its requests. *)
LEMMA PassStep ==
    ASSUME ChecksInv, [ChecksNext]_checksVars, NEW c \in history' \ history, c.status = "success",
           monitor.type # "heartbeat", monitor.type = "udp" => monitor.criteria.expect
    PROVE  reached' /\ (monitor.type \in StepTypes => run.step = Len(monitor.steps))
<1>1. PICK a \in Answers[monitor.type] : ExecuteCheck(a) \/ RunStep(a)
  BY RecordedBy
<1>2. monitor \in Configs
  BY DEF ChecksInv, ChecksTypeOK
<1>3. CASE ExecuteCheck(a)
  <2>1. /\ monitor.type \notin StepTypes
        /\ history' = history \cup {[at |-> now, status |-> RunCheck(monitor, run, a)]}
        /\ reached' = LiveAnswer(a)
    BY <1>3 DEF ExecuteCheck, Record
  <2>2. RunCheck(monitor, run, a) = "success"
    BY <2>1
  <2>3. LiveAnswer(a)
    BY <1>2, <2>2, RunnerAnswers
  <2> QED  BY <2>1, <2>3
<1>4. CASE RunStep(a)
  <2> DEFINE result == StepCheck(monitor.steps[run.step], a)
  <2>1. /\ run # Null /\ monitor.type \in StepTypes
        /\ reached' = (LiveAnswer(a) /\ (run.step = 1 \/ reached))
    BY <1>4 DEF RunStep
  <2>2. /\ ~(result = "success" /\ run.step < Len(monitor.steps))
        /\ history' = history \cup {[at |-> now, status |-> result]}
    BY <1>4 DEF RunStep, Record
  <2>3. result = "success"
    BY <2>2
  <2>4. LiveAnswer(a)
    BY <1>2, <2>1, <2>3, StepAnswers
  <2>5. run.step \in Nat \ {0} /\ Len(monitor.steps) \in Nat /\ run.step <= Len(monitor.steps)
    BY <2>1, StepsOf DEF ChecksInv, ChecksTypeOK, Runs
  <2>6. run.step = Len(monitor.steps)
    BY <2>2, <2>3, <2>5
  <2>7. run.step = 1 \/ reached
    BY <2>1, <2>5 DEF ChecksInv, JourneyInv
  <2> QED  BY <2>1, <2>4, <2>6, <2>7
<1> QED  BY <1>1, <1>3, <1>4

(* PassMeansReached: no runner of checks.py passes a monitor that did not     *)
(* answer, whatever the network does, and a journey passes at its last step   *)
(* only; heartbeat and payload-only UDP monitors excepted.                    *)
THEOREM PassesAreAnswered == ChecksSpec => PassMeansReached
<1>1. ChecksInv /\ [ChecksNext]_checksVars =>
        [\A c \in history' \ history :
           /\ c.status = "success"
           /\ monitor.type # "heartbeat"
           /\ monitor.type = "udp" => monitor.criteria.expect
           => /\ reached'
              /\ monitor.type \in StepTypes => run.step = Len(monitor.steps)]_checksVars
  BY PassStep
<1> QED  BY <1>1, ChecksInvariant, PTL DEF ChecksSpec, PassMeansReached

(* Every step uses only what earlier steps extract. *)
WellChained ==
    \A k \in 1 .. Len(monitor.steps) :
        monitor.steps[k].uses \subseteq UNION {monitor.steps[j].extract : j \in 1 .. k - 1}

(* A step of a well-chained journey is sent with every placeholder replaced. *)
LEMMA RenderedStep ==
    ASSUME ChecksInv, StepsAreRendered, [ChecksNext]_checksVars
    PROVE  StepsAreRendered'
<1> SUFFICES ASSUME monitor.type \in StepTypes, WellChained, UNCHANGED monitor
             PROVE  sent' = {}
  <2>1. UNCHANGED monitor
    BY DEF ChecksNext, Tick, ExecuteCheck, CheckRaises, RunStep, Record, Pause, Resume, EditLoad,
           EditSave, Disturbance, Stop, Start, PurgeChecks, checksVars
  <2> QED  BY <2>1 DEF StepsAreRendered, WellChained
<1>1. sent = {}
  BY DEF StepsAreRendered, WellChained
<1>2. ASSUME NEW a \in Answers[monitor.type], RunStep(a)
      PROVE  sent' = {}
  <2>1. run # Null /\ sent' = monitor.steps[run.step].uses \ run.vars
    BY <1>2 DEF RunStep
  <2>2. run.step \in Nat \ {0} /\ run.step \in 1 .. Len(monitor.steps)
    BY <2>1, StepsOf DEF ChecksInv, ChecksTypeOK, Runs
  <2>3. UNION {monitor.steps[j].extract : j \in 1 .. run.step - 1} \subseteq run.vars
    BY <2>1, <2>2 DEF ChecksInv, JourneyInv
  <2> QED  BY <2>1, <2>2, <2>3 DEF WellChained
<1>3. CASE ~\E a \in Answers[monitor.type] : RunStep(a)
  <2>1. UNCHANGED sent
    BY <1>3 DEF ChecksNext, Tick, ExecuteCheck, CheckRaises, Pause, Resume, EditLoad,
           EditSave, Disturbance, Stop, Start, PurgeChecks, checksVars, ghostVars
  <2> QED  BY <1>1, <2>1
<1> QED  BY <1>2, <1>3

(* StepsAreRendered: for journeys of any length, no request of a well-        *)
(* chained journey leaves with a placeholder in it (_render_template).       *)
THEOREM JourneysAreRendered == ChecksSpec => []StepsAreRendered
<1>1. ChecksInit => StepsAreRendered
  BY DEF ChecksInit, StepsAreRendered
<1>2. ChecksInv /\ StepsAreRendered /\ [ChecksNext]_checksVars => StepsAreRendered'
  BY RenderedStep
<1> QED  BY <1>1, <1>2, ChecksInvariant, PTL DEF ChecksSpec

-----------------------------------------------------------------------------
(* The reports                                                                 *)

(* A bucket has a length. *)
LEMMA BucketSizes ==
    ASSUME NEW since, NEW until
    PROVE  BucketSize(since, until) \in Nat \ {0}
BY BucketsAssumption DEF BucketSize

(* A time of the range falls into one bucket: that of the last start before it. *)
LEMMA BucketOfTime ==
    ASSUME NEW since \in Nat, NEW until \in Nat, NEW t \in Nat, since <= t, t < until,
           NEW s \in BucketStarts(since, until)
    PROVE  Max({since} \cup {r \in BucketStarts(since, until) : r <= t}) = s
             <=> s <= t /\ t < s + BucketSize(since, until)
<1> DEFINE b == BucketSize(since, until)
           before == {since} \cup {r \in BucketStarts(since, until) : r <= t}
           over == (t - since) % b
           top == t - over
<1>1. b \in Nat \ {0} /\ t - since \in Nat
  BY BucketSizes
<1>2. BucketStarts(since, until) = {r \in since .. until - 1 : (r - since) % b = 0}
  BY DEF BucketStarts
<1> HIDE DEF b
<1>3. /\ (t - since) - over \in 0 .. t - since
      /\ ((t - since) - over) % b = 0
      /\ over \in 0 .. b - 1
  BY <1>1, RoundedDown, Division
<1> HIDE DEF over
<1>4. /\ top \in since .. t /\ t < top + b
      /\ top - since = (t - since) - over /\ top - since \in Nat
  BY <1>1, <1>3
<1> HIDE DEF top
<1>5. (top - since) % b = 0
  BY <1>3, <1>4
<1>6. top \in before
  BY <1>2, <1>4, <1>5
<1>7. ASSUME NEW r \in before
      PROVE  r \in Nat /\ r <= top
  <2>1. CASE r = since
    BY <1>4, <2>1
  <2>2. CASE r \in BucketStarts(since, until) /\ r <= t
    <3>1. r \in Nat /\ since <= r /\ (r - since) % b = 0
      BY <1>2, <2>2
    <3>2. SUFFICES ASSUME top < r
                   PROVE  FALSE
      BY <1>4, <3>1
    <3>3. (top - since) + b <= r - since
      <4>1. r - since \in Nat /\ top - since < r - since
        BY <1>4, <3>1, <3>2
      <4> QED  BY <1>1, <1>4, <1>5, <3>1, <4>1, MultiplesApart
    <3> QED  BY <1>1, <1>4, <2>2, <3>1, <3>3
  <2> QED  BY <1>7, <2>1, <2>2
<1>8. Max(before) = top
  <2>1. Max(before) \in before /\ \A r \in before : Max(before) >= r
    <3>1. \A r \in before : top >= r
      BY <1>4, <1>7
    <3> HIDE DEF before
    <3> QED  BY <1>6, <3>1 DEF Max
  <2> HIDE DEF before
  <2>2. Max(before) >= top /\ Max(before) <= top /\ Max(before) \in Nat
    BY <1>6, <1>7, <2>1
  <2> QED  BY <1>4, <2>2
<1>9. s \in Nat /\ since <= s /\ (s - since) % b = 0
  BY <1>2
<1>10. ASSUME s <= t, t < s + b
       PROVE  top = s
  <2>1. ~(s < top)
    <3> SUFFICES ASSUME s < top PROVE FALSE
      OBVIOUS
    <3>1. (s - since) + b <= top - since
      <4>1. s - since \in Nat /\ s - since < top - since
        BY <1>4, <1>9
      <4> QED  BY <1>1, <1>4, <1>5, <1>9, <4>1, MultiplesApart
    <3> QED  BY <1>1, <1>4, <1>9, <1>10, <3>1
  <2>2. s \in before
    BY <1>10
  <2>3. s <= top
    BY <1>7, <2>2
  <2> QED  BY <1>4, <1>9, <2>1, <2>3
<1>11. top = s => s <= t /\ t < s + b
  BY <1>4
<1> QED  BY <1>8, <1>10, <1>11 DEF b

(* Every time of the range falls into some bucket. *)
LEMMA BucketExists ==
    ASSUME NEW since \in Nat, NEW until \in Nat, NEW t \in Nat, since <= t, t < until
    PROVE  \E s \in BucketStarts(since, until) : s <= t /\ t < s + BucketSize(since, until)
<1> DEFINE b == BucketSize(since, until)
           over == (t - since) % b
<1>1. b \in Nat \ {0} /\ t - since \in Nat
  BY BucketSizes
<1>2. BucketStarts(since, until) = {r \in since .. until - 1 : (r - since) % b = 0}
  BY DEF BucketStarts
<1> HIDE DEF b
<1>3. /\ (t - since) - over \in 0 .. t - since
      /\ ((t - since) - over) % b = 0
      /\ over \in 0 .. b - 1
  BY <1>1, RoundedDown, Division
<1> HIDE DEF over
<1>4. /\ t - over \in since .. until - 1 /\ t - over <= t /\ t < (t - over) + b
      /\ (t - over) - since = (t - since) - over
  BY <1>1, <1>3
<1>5. t - over \in BucketStarts(since, until)
  BY <1>2, <1>3, <1>4
<1> QED  BY <1>4, <1>5 DEF b

(* Every step leaves the history finite. *)
LEMMA FiniteStep ==
    ASSUME IsFiniteSet(history), [ChecksNext]_checksVars
    PROVE  IsFiniteSet(history')
<1>1. CASE UNCHANGED history
  BY <1>1
<1>2. ASSUME NEW row, history' = history \cup {row}
      PROVE  IsFiniteSet(history')
  BY <1>2, FS_AddElement
<1>3. CASE history' \subseteq history
  BY <1>3, FS_Subset
<1>4. \A outcome : Record(outcome) => history' = history \cup {[at |-> now, status |-> outcome]}
  BY DEF Record
<1>5. ASSUME NEW a \in Answers[monitor.type], ExecuteCheck(a) \/ CheckRaises(a) \/ RunStep(a)
      PROVE  IsFiniteSet(history')
  BY <1>1, <1>2, <1>4, <1>5 DEF ExecuteCheck, CheckRaises, RunStep
<1>6. Tick \/ Pause \/ Resume \/ EditLoad \/ Stop \/ Start \/ UNCHANGED checksVars
      => UNCHANGED history
  BY DEF Tick, Pause, Resume, EditLoad, Stop, Start, checksVars
<1>7. \A i \in Intervals, p \in BOOLEAN : EditSave(i, p) => UNCHANGED history
  BY DEF EditSave
<1>8. PurgeChecks => history' \subseteq history
  BY DEF PurgeChecks
<1> QED  BY <1>1, <1>3, <1>5, <1>6, <1>7, <1>8 DEF ChecksNext

(* The history is finite, so that its checks can be counted. *)
LEMMA HistoryIsFinite == ChecksSpec => []IsFiniteSet(history)
<1>1. ChecksInit => IsFiniteSet(history)
  BY FS_EmptySet DEF ChecksInit
<1>2. IsFiniteSet(history) /\ [ChecksNext]_checksVars => IsFiniteSet(history)'
  BY FiniteStep
<1> QED  BY <1>1, <1>2, PTL DEF ChecksSpec

FailedOf(S) == {c \in S : c.status \in Failed}

(* What the counts of a bucket, and the status shown for it, say of its       *)
(* checks.                                                                    *)
LEMMA Counts ==
    ASSUME NEW S, IsFiniteSet(S)
    PROVE  /\ Count(S).total = 0 <=> S = {}
           /\ Count(S).failed = 0 <=> FailedOf(S) = {}
           /\ BucketStatus(Count(S)) = "unknown" <=> S = {}
           /\ BucketStatus(Count(S)) \in {"unknown", "operational"} <=> FailedOf(S) = {}
<1>1. IsFiniteSet(FailedOf(S)) /\ Cardinality(FailedOf(S)) <= Cardinality(S)
  BY FS_Subset DEF FailedOf
<1>2. /\ Cardinality(S) \in Nat /\ Cardinality(FailedOf(S)) \in Nat
      /\ Cardinality(S) = 0 <=> S = {}
      /\ Cardinality(FailedOf(S)) = 0 <=> FailedOf(S) = {}
  BY <1>1, FS_CardinalityType, FS_EmptySet
<1>3. Count(S).total = Cardinality(S) /\ Count(S).failed = Cardinality(FailedOf(S))
  BY DEF Count, FailedOf
<1>4. S = {} => FailedOf(S) = {}
  BY DEF FailedOf
<1> HIDE DEF FailedOf
<1>5. Count(S).total = 0 => BucketStatus(Count(S)) = "unknown"
  BY <1>1, <1>2, <1>3 DEF BucketStatus
<1>6. Count(S).total # 0 /\ Count(S).failed = 0 => BucketStatus(Count(S)) = "operational"
  BY <1>1, <1>2, <1>3 DEF BucketStatus
<1>7. Count(S).failed # 0 => BucketStatus(Count(S)) \in {"degraded", "offline"}
  BY <1>1, <1>2, <1>3 DEF BucketStatus
<1> QED  BY <1>2, <1>3, <1>4, <1>5, <1>6, <1>7

(* A bucket ends at the next start or with the range. *)
LEMMA BucketEnd ==
    ASSUME NEW until \in Nat, NEW e \in Nat
    PROVE  Min({until, e}) = IF e < until THEN e ELSE until
<1>1. \A x \in {until, e} : (\A y \in {until, e} : x <= y) <=> x = IF e < until THEN e ELSE until
  OBVIOUS
<1> QED  BY <1>1 DEF Min

(* The checks a report of a range reads. *)
InRange(since, until) == {c \in history : c.at >= since /\ c.at < until}

(* The timeline of any finite history agrees with the uptime of the range:    *)
(* its buckets share the checks out, none is lost and none counted twice.     *)
LEMMA TimelineStep ==
    ASSUME history \subseteq Check, IsFiniteSet(history), now \in Nat, MaxTime \in Nat
    PROVE  TimelineAgreesWithUptime
<1> SUFFICES ASSUME NEW since \in 0 .. now + 1, NEW until \in 0 .. now + 1
             PROVE  LET timeline == BuildStatusTimeline(since, until)
                        whole == ComputeUptime(since, until)
                        End(s) == Min({until, s + BucketSize(since, until)})
                    IN  /\ \A s \in DOMAIN timeline : timeline[s] = ComputeUptime(s, End(s))
                        /\ whole.failed = 0 <=>
                             \A s \in DOMAIN timeline :
                                 BucketStatus(timeline[s]) \in {"unknown", "operational"}
                        /\ whole.total = 0 <=>
                             \A s \in DOMAIN timeline : BucketStatus(timeline[s]) = "unknown"
  BY DEF TimelineAgreesWithUptime
<1> DEFINE b == BucketSize(since, until)
           starts == BucketStarts(since, until)
           kept == InRange(since, until)
           BucketOf(c) == Max({since} \cup {s \in starts : s <= c.at})
           Bucket(s) == {c \in kept : BucketOf(c) = s}
           timeline == BuildStatusTimeline(since, until)
           End(s) == Min({until, s + BucketSize(since, until)})
<1>1. timeline = [s \in starts |-> Count(Bucket(s))]
  BY DEF BuildStatusTimeline, InRange
<1>2. since \in Nat /\ until \in Nat /\ b \in Nat \ {0}
  BY BucketSizes
<1>3. \A c \in history : c.at \in Nat
  BY DEF Check, Times
<1>4. \A s \in starts : s \in Nat /\ since <= s /\ s < until
  BY <1>2 DEF BucketStarts
<1>5. ASSUME NEW s \in starts
      PROVE  Bucket(s) = InRange(s, End(s))
  <2>1. End(s) = IF s + b < until THEN s + b ELSE until
    BY <1>2, <1>4, BucketEnd
  <2>2. ASSUME NEW c \in history
        PROVE  c \in Bucket(s) <=> c \in InRange(s, End(s))
    <3>1. c.at \in Nat /\ s \in Nat /\ since <= s /\ s < until
      BY <1>3, <1>4
    <3>2. c.at >= s /\ c.at < End(s) <=> c.at >= s /\ c.at < until /\ c.at < s + b
      BY <1>2, <2>1, <3>1
    <3>3. CASE c.at >= since /\ c.at < until
      <4>1. BucketOf(c) = s <=> s <= c.at /\ c.at < s + b
        BY <1>2, <3>1, <3>3, BucketOfTime
      <4> HIDE DEF BucketOf, b, End
      <4> QED  BY <3>1, <3>2, <3>3, <4>1 DEF InRange
    <3>4. CASE ~(c.at >= since /\ c.at < until)
      <4>1. ~(c.at >= s /\ c.at < End(s))
        BY <1>2, <3>1, <3>2, <3>4
      <4> HIDE DEF End, BucketOf
      <4> QED  BY <3>4, <4>1 DEF InRange
    <3> QED  BY <3>3, <3>4
  <2> HIDE DEF End, BucketOf
  <2> QED  BY <2>2 DEF InRange
<1>6. \A s, e : ComputeUptime(s, e) = Count(InRange(s, e))
  BY DEF ComputeUptime, InRange
<1>7. ASSUME NEW c \in kept
      PROVE  \E s \in starts : c \in Bucket(s)
  <2>1. c.at \in Nat /\ since <= c.at /\ c.at < until
    BY <1>3 DEF InRange
  <2>2. PICK s \in starts : s <= c.at /\ c.at < s + b
    BY <1>2, <2>1, BucketExists
  <2>3. BucketOf(c) = s
    BY <1>2, <2>1, <2>2, BucketOfTime
  <2> QED  BY <2>3
<1>8. IsFiniteSet(kept) /\ \A s \in starts : IsFiniteSet(Bucket(s))
  <2>1. kept \subseteq history /\ \A s \in starts : Bucket(s) \subseteq history
    BY DEF InRange
  <2> HIDE DEF Bucket, kept
  <2> QED  BY <2>1, FS_Subset
<1>9. kept = {} <=> \A s \in starts : Bucket(s) = {}
  BY <1>7
<1>10. FailedOf(kept) = {} <=> \A s \in starts : FailedOf(Bucket(s)) = {}
  BY <1>7 DEF FailedOf
<1> HIDE DEF Bucket, kept, starts, End
<1>11. DOMAIN timeline = starts /\ \A s \in starts : timeline[s] = Count(Bucket(s))
  BY <1>1
<1>12. ComputeUptime(since, until) = Count(kept)
  BY <1>6 DEF kept
<1> HIDE DEF timeline
<1>13. \A s \in DOMAIN timeline : timeline[s] = ComputeUptime(s, End(s))
  BY <1>5, <1>6, <1>11
<1>14. Count(kept).failed = 0 <=>
         \A s \in starts : BucketStatus(Count(Bucket(s))) \in {"unknown", "operational"}
  BY <1>8, <1>10, Counts
<1>15. Count(kept).total = 0 <=>
         \A s \in starts : BucketStatus(Count(Bucket(s))) = "unknown"
  BY <1>8, <1>9, Counts
<1> QED  BY <1>11, <1>12, <1>13, <1>14, <1>15 DEF timeline, End

(* TimelineAgreesWithUptime: whatever checks are left after edits, pauses     *)
(* and purges, and whatever the bucket sizes, each bucket of                  *)
(* build_status_timeline is the uptime of its own range, the timeline shows   *)
(* a failure exactly when compute_uptime counts one, and it is unknown        *)
(* throughout exactly when there is nothing to count.                         *)
THEOREM ReportsAgree == ChecksSpec => []TimelineAgreesWithUptime
<1>1. ChecksInv /\ IsFiniteSet(history) => TimelineAgreesWithUptime
  <2> SUFFICES ASSUME ChecksInv, IsFiniteSet(history)
               PROVE  TimelineAgreesWithUptime
    OBVIOUS
  <2>1. history \subseteq Check /\ now \in Nat /\ MaxTime \in Nat
    BY NowIsNat, TimesAssumption DEF ChecksInv, ChecksTypeOK
  <2> QED  BY <2>1, TimelineStep
<1> QED  BY <1>1, ChecksInvariant, HistoryIsFinite, PTL

=============================================================================
