-------------------------- MODULE MonitorIncidents --------------------------
(***************************************************************************)
(* The monitoring core: the run_checks job that probes monitors and opens   *)
(* and closes incidents, the process_maintenance job that re-evaluates the  *)
(* monitors of a window that has ended, and the API requests that touch the *)
(* same rows (acknowledge, resolve, pause, resume, PATCH of a monitor).     *)
(*                                                                          *)
(* The database commits statement by statement (autocommit) except where    *)
(* the code opens transaction.atomic(): a transaction is one action, every  *)
(* other read and write is an action of its own.  Jobs and requests keep    *)
(* the rows they have read as Python objects, so a decision is taken on a   *)
(* snapshot that may be older than the row it is written to.                *)
(***************************************************************************)
EXTENDS Naturals, Sequences, FiniteSets

CONSTANTS
    Monitors,      \* rows of monitoring_monitor
    Incidents,     \* identities of incidents the jobs may open
    Windows,       \* scheduled maintenance windows
    Runners,       \* processes that execute run_checks
    Manual,        \* the runners started by hand rather than by the scheduler
    Clients,       \* API workers serving a request
    Retries,       \* Monitor.retries
    Alerting,      \* monitors with alert_on_failure
    Linked,        \* ScheduledMaintenance.monitors (empty = project-wide)
    NameRank,      \* position of a monitor in the name order
    BatchSize,     \* run_checks.BATCH_SIZE
    MaxFaults,     \* bound on crashes and failed checks
    None           \* SQL NULL, Python None

MonitorStatus == {"operational", "offline"}
CheckStatus == {"success", "failure"}
IncidentState == {"absent", "triggered", "acknowledged", "resolved"}

(***************************************************************************)
(* What a job or a request remembers of a monitor row it has read.          *)
(***************************************************************************)
Snapshot == [status : MonitorStatus, current : Incidents \cup {None}]

ASSUME RetriesAssumption == Retries \in [Monitors -> Nat]
ASSUME LinkedAssumption == Linked \in [Windows -> SUBSET Monitors]
ASSUME NameRankAssumption ==
    /\ NameRank \in [Monitors -> Nat]
    /\ \A m, n \in Monitors : NameRank[m] = NameRank[n] => m = n
ASSUME BoundsAssumption == BatchSize \in Nat /\ MaxFaults \in Nat
ASSUME NoneAssumption ==
    None \notin Monitors \cup Incidents \cup Windows \cup Snapshot

VARIABLES
    status,        \* Monitor.status
    current,       \* Monitor.current_incident
    paused,        \* Monitor.is_paused
    due,           \* Monitor.next_check_at is NULL or has passed
    checks,        \* MonitorCheck.status per monitor, newest first
    state,         \* Incident.state ("absent": no such row)
    incidentOf,    \* Incident.monitor
    window,        \* ScheduledMaintenance.status
    batch,         \* run_checks: the rows each runner has loaded, still to check
    ending,        \* process_maintenance: window completed, monitors not loaded yet
    reeval,        \* process_maintenance: the rows loaded, still to re-evaluate
    opening,       \* process_maintenance: monitor whose incident is being opened
    phase,         \* process_maintenance: next statement for opening
    created,       \* process_maintenance: incident created, not yet linked
    request,       \* acknowledge or resolve request between its read and its write
    edit,          \* PATCH of a monitor between its read and its save
    faults,        \* crashes and failed checks so far
    disturbed,     \* history: monitors written from an outdated snapshot
    interrupted,   \* history: monitors whose re-evaluation a crash cut short
    alerted        \* history: monitors whose present outage has had an incident

rowVars == <<status, current, paused, due>>
incidentVars == <<state, incidentOf>>
jobVars == <<ending, reeval, opening, phase, created>>
requestVars == <<request, edit>>
historyVars == <<disturbed, interrupted, alerted>>
vars == <<rowVars, checks, incidentVars, window, batch, jobVars, requestVars,
          faults, historyVars>>

Requests == [op : {"acknowledge", "resolve"}, incident : Incidents]
Edits == [monitor : Monitors, snapshot : Snapshot, due : BOOLEAN]

Init ==
    /\ status = [m \in Monitors |-> "operational"]
    /\ current = [m \in Monitors |-> None]
    /\ paused = [m \in Monitors |-> FALSE]
    /\ due = [m \in Monitors |-> TRUE]
    /\ checks = [m \in Monitors |-> <<>>]
    /\ state = [i \in Incidents |-> "absent"]
    /\ incidentOf = [i \in Incidents |-> None]
    /\ window = [w \in Windows |-> "scheduled"]
    /\ batch = [r \in Runners |-> [m \in Monitors |-> None]]
    /\ ending = None
    /\ reeval = [m \in Monitors |-> None]
    /\ opening = None
    /\ phase = "idle"
    /\ created = None
    /\ request = [c \in Clients |-> None]
    /\ edit = [c \in Clients |-> None]
    /\ faults = 0
    /\ disturbed = {}
    /\ interrupted = {}
    /\ alerted = {}

-----------------------------------------------------------------------------
(* Rows as the code reads them *)

Row(m) == [status |-> status[m], current |-> current[m]]

UnderMaintenance(m) ==
    \E w \in Windows : window[w] = "in_progress"
                       /\ (Linked[w] = {} \/ m \in Linked[w])

(***************************************************************************)
(* A snapshot the row has moved away from: another writer has changed the   *)
(* status, or linked an incident this snapshot does not know.  An incident  *)
(* that has merely been unlinked in the meantime does not count.            *)
(***************************************************************************)
Outdated(m, s) ==
    s.status # status[m] \/ current[m] \notin {s.current, None}

Disturb(m, s) == disturbed' = IF Outdated(m, s) THEN disturbed \cup {m} ELSE disturbed

-----------------------------------------------------------------------------
(* run_checks *)

RunnerIdle(r) == batch[r] = [m \in Monitors |-> None]

Due == {m \in Monitors : due[m] /\ ~paused[m]}

(* Faulty variant: the slice is one row short. *)
FirstByNameShort(S, n) ==
    {m \in S : Cardinality({k \in S : NameRank[k] < NameRank[m]}) < n - 1}

FirstByName(S, n) ==
    {m \in S : Cardinality({k \in S : NameRank[k] < NameRank[m]}) < n}

Load(r, S) ==
    /\ RunnerIdle(r)
    /\ S # {}
    /\ batch' = [batch EXCEPT ![r] =
                   [m \in Monitors |-> IF m \in S THEN Row(m) ELSE None]]
    /\ UNCHANGED <<rowVars, checks, incidentVars, window, jobVars, requestVars,
                   faults, historyVars>>

LoadBatch(r) == Load(r, FirstByName(Due, BatchSize))

(* run_checks --monitor-id *)
LoadOne(r, m) == r \in Manual /\ ~paused[m] /\ Load(r, {m})

InTurn(r, m) ==
    /\ batch[r][m] # None
    /\ \A n \in Monitors : NameRank[n] < NameRank[m] => batch[r][n] = None

Smaller(a, b) == IF a < b THEN a ELSE b

(***************************************************************************)
(* Only the newest Retries[m] checks are ever read (and whether there is    *)
(* one at all), so older ones are forgotten.                                *)
(***************************************************************************)
Prepend(m, result) ==
    LET kept == Smaller(Len(checks[m]), IF Retries[m] = 0 THEN 0 ELSE Retries[m] - 1)
    IN  [k \in 1 .. kept + 1 |-> IF k = 1 THEN result ELSE checks[m][k - 1]]

AllRecent(history, m, result) ==
    \A k \in 1 .. Retries[m] : k <= Len(history) => history[k] = result

RecordCheck(r, m, result) ==
    /\ InTurn(r, m)
    /\ checks' = [checks EXCEPT ![m] = Prepend(m, result)]
    /\ due' = [due EXCEPT ![m] = FALSE]
    /\ batch' = [batch EXCEPT ![r][m] = None]
    /\ Disturb(m, batch[r][m])
    /\ UNCHANGED <<paused, window, jobVars, requestVars, faults, interrupted>>

CreateIncident(m, i) ==
    /\ state[i] = "absent"
    /\ state' = [state EXCEPT ![i] = "triggered"]
    /\ incidentOf' = [incidentOf EXCEPT ![i] = m]
    /\ alerted' = alerted \cup {m}

(* Faulty variant: the monitor is not pointed at its incident. *)
OpenIncidentUnlinked(m) ==
    /\ \E i \in Incidents : CreateIncident(m, i)
    /\ UNCHANGED current

OpenIncident(m) ==
    \E i \in Incidents :
        /\ CreateIncident(m, i)
        /\ current' = [current EXCEPT ![m] = i]

(* Faulty variant: the pointer is cleared, the incident stays open. *)
CloseIncidentUnresolved(m, i) ==
    /\ UNCHANGED state
    /\ current' = [current EXCEPT ![m] = None]

CloseIncident(m, i) ==
    IF i = None
    THEN UNCHANGED <<state, current>>
    ELSE /\ state' = [state EXCEPT ![i] = IF @ = "absent" THEN @ ELSE "resolved"]
         /\ current' = [current EXCEPT ![m] = None]

(* Faulty variant: maintenance is not asked about. *)
TakesOfflineAnyway(m, s, result) ==
    /\ AllRecent(Prepend(m, result), m, "failure")
    /\ s.status = "operational"

TakesOffline(m, s, result) ==
    /\ AllRecent(Prepend(m, result), m, "failure")
    /\ s.status = "operational"
    /\ ~UnderMaintenance(m)

(* Faulty variant: only a monitor with an incident recovers. *)
BringsBackLinked(m, s, result) ==
    /\ AllRecent(Prepend(m, result), m, "success")
    /\ s.status = "offline"
    /\ s.current # None

BringsBack(m, s, result) ==
    /\ AllRecent(Prepend(m, result), m, "success")
    /\ s.status = "offline"

CheckTakesOffline(r, m, result) ==
    /\ RecordCheck(r, m, result)
    /\ TakesOffline(m, batch[r][m], result)
    /\ status' = [status EXCEPT ![m] = "offline"]
    /\ IF m \in Alerting
       THEN OpenIncident(m)
       ELSE UNCHANGED <<incidentVars, current, alerted>>

CheckBringsBack(r, m, result) ==
    /\ RecordCheck(r, m, result)
    /\ BringsBack(m, batch[r][m], result)
    /\ status' = [status EXCEPT ![m] = "operational"]
    /\ CloseIncident(m, batch[r][m].current)
    /\ alerted' = alerted \ {m}
    /\ UNCHANGED incidentOf

CheckKeepsStatus(r, m, result) ==
    /\ RecordCheck(r, m, result)
    /\ ~TakesOffline(m, batch[r][m], result)
    /\ ~BringsBack(m, batch[r][m], result)
    /\ status' = [status EXCEPT ![m] = batch[r][m].status]
    /\ UNCHANGED <<incidentVars, current, alerted>>

(* execute_check raised: its transaction is rolled back and the loop goes on *)
CheckFails(r, m) ==
    /\ InTurn(r, m)
    /\ faults < MaxFaults
    /\ faults' = faults + 1
    /\ batch' = [batch EXCEPT ![r][m] = None]
    /\ UNCHANGED <<rowVars, checks, incidentVars, window, jobVars, requestVars,
                   historyVars>>

(* next_check_at passes *)
BecomesDue(m) ==
    /\ ~due[m]
    /\ due' = [due EXCEPT ![m] = TRUE]
    /\ UNCHANGED <<status, current, paused, checks, incidentVars, window, batch,
                   jobVars, requestVars, faults, historyVars>>

-----------------------------------------------------------------------------
(* process_maintenance *)

JobIdle ==
    /\ ending = None
    /\ opening = None
    /\ reeval = [m \in Monitors |-> None]

StartWindow(w) ==
    /\ JobIdle
    /\ window[w] = "scheduled"
    /\ window' = [window EXCEPT ![w] = "in_progress"]
    /\ UNCHANGED <<rowVars, checks, incidentVars, batch, jobVars, requestVars,
                   faults, historyVars>>

EndWindow(w) ==
    /\ JobIdle
    /\ window[w] = "in_progress"
    /\ window' = [window EXCEPT ![w] = "completed"]
    /\ ending' = w
    /\ UNCHANGED <<rowVars, checks, incidentVars, batch, reeval, opening, phase,
                   created, requestVars, faults, historyVars>>

MonitorsForMaintenance(w) ==
    IF Linked[w] # {} THEN Linked[w] ELSE {m \in Monitors : ~paused[m]}

LoadReevaluation ==
    /\ ending # None
    /\ reeval' = [m \in Monitors |->
                    IF m \in MonitorsForMaintenance(ending) THEN Row(m) ELSE None]
    /\ ending' = None
    /\ UNCHANGED <<rowVars, checks, incidentVars, window, batch, opening, phase,
                   created, requestVars, faults, historyVars>>

StillFailing(m, s) ==
    /\ ~UnderMaintenance(m)
    /\ m \in Alerting
    /\ s.current = None
    /\ Len(checks[m]) >= Retries[m]
    /\ Len(checks[m]) > 0
    /\ AllRecent(checks[m], m, "failure")

ReevaluateMonitor(m) ==
    LET s == reeval[m] IN
    /\ s # None
    /\ opening = None
    /\ \A n \in Monitors : NameRank[n] < NameRank[m] => reeval[n] = None
    /\ reeval' = [reeval EXCEPT ![m] = None]
    /\ \/ /\ StillFailing(m, s)
          /\ opening' = m
          /\ phase' = IF s.status # "offline" THEN "mark" ELSE "create"
       \/ /\ ~StillFailing(m, s)
          /\ UNCHANGED <<opening, phase>>
    /\ UNCHANGED <<rowVars, checks, incidentVars, window, batch, ending, created,
                   requestVars, faults, historyVars>>

(* Faulty variant: marked offline, the incident is left to the next check. *)
ReevaluateMarkOfflineOnly ==
    /\ phase = "mark"
    /\ status' = [status EXCEPT ![opening] = "offline"]
    /\ opening' = None
    /\ phase' = "idle"
    /\ UNCHANGED <<current, paused, due, checks, incidentVars, window, batch, ending,
                   reeval, created, requestVars, faults, historyVars>>

ReevaluateMarkOffline ==
    /\ phase = "mark"
    /\ status' = [status EXCEPT ![opening] = "offline"]
    /\ phase' = "create"
    /\ UNCHANGED <<current, paused, due, checks, incidentVars, window, batch, ending,
                   reeval, opening, created, requestVars, faults, historyVars>>

ReevaluateCreate(i) ==
    /\ phase = "create"
    /\ CreateIncident(opening, i)
    /\ created' = i
    /\ phase' = "link"
    /\ UNCHANGED <<rowVars, checks, window, batch, ending, reeval, opening,
                   requestVars, faults, disturbed, interrupted>>

ReevaluateLink ==
    /\ phase = "link"
    /\ current' = [current EXCEPT ![opening] = created]
    /\ Disturb(opening, [status |-> "offline", current |-> None])
    /\ opening' = None
    /\ created' = None
    /\ phase' = "idle"
    /\ UNCHANGED <<status, paused, due, checks, incidentVars, window, batch, ending,
                   reeval, requestVars, faults, interrupted, alerted>>

(***************************************************************************)
(* The scheduler container dies and is restarted: what its jobs held in     *)
(* memory is gone, what they had committed stays.                           *)
(***************************************************************************)
Crash ==
    /\ faults < MaxFaults
    /\ faults' = faults + 1
    /\ batch' = [r \in Runners |-> [m \in Monitors |-> None]]
    /\ ending' = None
    /\ reeval' = [m \in Monitors |-> None]
    /\ opening' = None
    /\ phase' = "idle"
    /\ created' = None
    /\ interrupted' = IF phase \in {"create", "link"}
                      THEN interrupted \cup {opening} ELSE interrupted
    /\ UNCHANGED <<rowVars, checks, incidentVars, window, requestVars, disturbed,
                   alerted>>

-----------------------------------------------------------------------------
(* API requests *)

CancelWindow(w) ==
    /\ window[w] \in {"scheduled", "in_progress"}
    /\ window' = [window EXCEPT ![w] = "cancelled"]
    /\ UNCHANGED <<rowVars, checks, incidentVars, batch, jobVars, requestVars,
                   faults, historyVars>>

(* The view reads the incident, refuses a resolved one, then calls the service *)
LifecycleRead(c, op, i) ==
    /\ request[c] = None
    /\ edit[c] = None
    /\ state[i] \in {"triggered", "acknowledged"}
    /\ request' = [request EXCEPT ![c] = [op |-> op, incident |-> i]]
    /\ UNCHANGED <<rowVars, checks, incidentVars, window, batch, jobVars, edit,
                   faults, historyVars>>

AcknowledgeIncident(c) ==
    /\ request[c] # None
    /\ request[c].op = "acknowledge"
    /\ state' = [state EXCEPT ![request[c].incident] = "acknowledged"]
    /\ request' = [request EXCEPT ![c] = None]
    /\ UNCHANGED <<rowVars, checks, incidentOf, window, batch, jobVars, edit,
                   faults, historyVars>>

ResolveIncident(c) ==
    /\ request[c] # None
    /\ request[c].op = "resolve"
    /\ LET i == request[c].incident IN
       /\ state' = [state EXCEPT ![i] = "resolved"]
       /\ current' = [m \in Monitors |-> IF current[m] = i THEN None ELSE current[m]]
    /\ request' = [request EXCEPT ![c] = None]
    /\ UNCHANGED <<status, paused, due, checks, incidentOf, window, batch, jobVars,
                   edit, faults, historyVars>>

PauseMonitor(m) ==
    /\ ~paused[m]
    /\ paused' = [paused EXCEPT ![m] = TRUE]
    /\ UNCHANGED <<status, current, due, checks, incidentVars, window, batch, jobVars,
                   requestVars, faults, historyVars>>

ResumeMonitor(m) ==
    /\ paused[m]
    /\ paused' = [paused EXCEPT ![m] = FALSE]
    /\ due' = [due EXCEPT ![m] = TRUE]
    /\ UNCHANGED <<status, current, checks, incidentVars, window, batch, jobVars,
                   requestVars, faults, historyVars>>

PatchMonitorRead(c, m) ==
    /\ request[c] = None
    /\ edit[c] = None
    /\ edit' = [edit EXCEPT ![c] =
                  [monitor |-> m, snapshot |-> Row(m), due |-> due[m]]]
    /\ UNCHANGED <<rowVars, checks, incidentVars, window, batch, jobVars, request,
                   faults, historyVars>>

(* serializer.save() writes every column, the ones only jobs own included *)
PatchMonitorSave(c, pause) ==
    /\ edit[c] # None
    /\ LET m == edit[c].monitor
           s == edit[c].snapshot
       IN  /\ status' = [status EXCEPT ![m] = s.status]
           /\ current' = [current EXCEPT ![m] = s.current]
           /\ due' = [due EXCEPT ![m] = edit[c].due]
           /\ paused' = [paused EXCEPT ![m] = pause]
           /\ Disturb(m, s)
    /\ edit' = [edit EXCEPT ![c] = None]
    /\ UNCHANGED <<checks, incidentVars, window, batch, jobVars, request, faults,
                   interrupted, alerted>>

InFlight(i) ==
    \/ \E r \in Runners, m \in Monitors :
          batch[r][m] # None /\ batch[r][m].current = i
    \/ \E m \in Monitors : reeval[m] # None /\ reeval[m].current = i
    \/ \E c \in Clients : \/ request[c] # None /\ request[c].incident = i
                          \/ edit[c] # None /\ edit[c].snapshot.current = i
    \/ created = i

(***************************************************************************)
(* purge_expired deletes resolved incidents days after their resolution:    *)
(* whatever was in flight then has ended.  Identities are reused.           *)
(***************************************************************************)
PurgeIncident(i) ==
    /\ state[i] = "resolved"
    /\ ~InFlight(i)
    /\ state' = [state EXCEPT ![i] = "absent"]
    /\ incidentOf' = [incidentOf EXCEPT ![i] = None]
    /\ current' = [m \in Monitors |-> IF current[m] = i THEN None ELSE current[m]]
    /\ UNCHANGED <<status, paused, due, checks, window, batch, jobVars, requestVars,
                   faults, historyVars>>

-----------------------------------------------------------------------------
RunnerStep(r) ==
    \E m \in Monitors, result \in CheckStatus :
        \/ CheckTakesOffline(r, m, result)
        \/ CheckBringsBack(r, m, result)
        \/ CheckKeepsStatus(r, m, result)

ReevaluationStep ==
    \/ LoadReevaluation
    \/ \E m \in Monitors : ReevaluateMonitor(m)
    \/ ReevaluateMarkOffline
    \/ \E i \in Incidents : ReevaluateCreate(i)
    \/ ReevaluateLink

RequestStep(c) ==
    \/ \E op \in {"acknowledge", "resolve"}, i \in Incidents : LifecycleRead(c, op, i)
    \/ AcknowledgeIncident(c)
    \/ ResolveIncident(c)
    \/ \E m \in Monitors : PatchMonitorRead(c, m)
    \/ \E pause \in BOOLEAN : PatchMonitorSave(c, pause)

Next ==
    \/ \E r \in Runners : LoadBatch(r)
    \/ \E r \in Runners, m \in Monitors : LoadOne(r, m) \/ CheckFails(r, m)
    \/ \E r \in Runners : RunnerStep(r)
    \/ \E m \in Monitors : BecomesDue(m) \/ PauseMonitor(m) \/ ResumeMonitor(m)
    \/ \E w \in Windows : StartWindow(w) \/ EndWindow(w) \/ CancelWindow(w)
    \/ ReevaluationStep
    \/ Crash
    \/ \E c \in Clients : RequestStep(c)
    \/ \E i \in Incidents : PurgeIncident(i)

Spec == Init /\ [][Next]_vars

(***************************************************************************)
(* The scheduler fires both jobs every minute, a loaded batch is worked off *)
(* and time passes.  Operators and API clients owe nothing.  The retention  *)
(* purge is fair so that identities do not run out.                         *)
(***************************************************************************)
Fairness ==
    /\ \A r \in Runners \ Manual : WF_vars(LoadBatch(r))
    /\ \A r \in Runners : WF_vars(RunnerStep(r))
    /\ \A m \in Monitors : WF_vars(BecomesDue(m))
    /\ \A w \in Windows : WF_vars(EndWindow(w))
    /\ \A i \in Incidents : WF_vars(PurgeIncident(i))
    /\ WF_vars(ReevaluationStep)

FairSpec == Spec /\ Fairness

-----------------------------------------------------------------------------
(* Properties *)

(* Every variable keeps the type of the column, list or local it stands for. *)
TypeOK ==
    /\ status \in [Monitors -> MonitorStatus]
    /\ current \in [Monitors -> Incidents \cup {None}]
    /\ paused \in [Monitors -> BOOLEAN]
    /\ due \in [Monitors -> BOOLEAN]
    /\ checks \in [Monitors -> Seq(CheckStatus)]
    /\ state \in [Incidents -> IncidentState]
    /\ incidentOf \in [Incidents -> Monitors \cup {None}]
    /\ window \in [Windows -> {"scheduled", "in_progress", "completed", "cancelled"}]
    /\ batch \in [Runners -> [Monitors -> Snapshot \cup {None}]]
    /\ ending \in Windows \cup {None}
    /\ reeval \in [Monitors -> Snapshot \cup {None}]
    /\ opening \in Monitors \cup {None}
    /\ phase \in {"idle", "mark", "create", "link"}
    /\ created \in Incidents \cup {None}
    /\ (opening = None) <=> (phase = "idle")
    /\ (created = None) <=> (phase # "link")
    /\ request \in [Clients -> Requests \cup {None}]
    /\ edit \in [Clients -> Edits \cup {None}]
    /\ faults \in 0 .. MaxFaults
    /\ disturbed \in SUBSET Monitors
    /\ interrupted \in SUBSET Monitors
    /\ alerted \in SUBSET Monitors

Undisturbed == Monitors \ (disturbed \cup interrupted)

(* An incident nobody has acknowledged yet belongs to an outage that goes on  *)
(* and is the current_incident of its monitor, the only pointer by which      *)
(* _close_incident will ever find it, or re-evaluation is about to make it    *)
(* so.  A monitor that has recovered has none left, and an outage has at most *)
(* one at any time.  Exempt are monitors written from an outdated snapshot or *)
(* whose re-evaluation a crash cut short.                                     *)
UnacknowledgedIsTracked ==
    \A i \in Incidents :
        state[i] = "triggered" /\ incidentOf[i] \in Undisturbed
            => \/ current[incidentOf[i]] = i /\ status[incidentOf[i]] = "offline"
               \/ created = i

(* No silent outage: an offline monitor with alert_on_failure has had an      *)
(* incident during this outage, or re-evaluation is about to create it.       *)
OutageIsAlerted ==
    \A m \in Undisturbed \cap Alerting :
        status[m] = "offline" => m \in alerted \/ (opening = m /\ phase = "create")

(* Seen through this mapping monitoring is a system of OutageAlerts: an outage *)
(* owes its alarm until an incident is created for it (_update_monitor_status, *)
(* reevaluate_after_maintenance), and the incident is the monitor's alarm once *)
(* its row points at it and until somebody acknowledges or resolves it.        *)
Place ==
    [m \in Monitors |->
        IF status[m] = "operational" THEN "up"
        ELSE IF m \in Alerting \ alerted THEN "owed" ELSE "down"]

Alarm ==
    [m \in Monitors |->
        {i \in Incidents : state[i] = "triggered" /\ incidentOf[i] = m /\ created # i}]

Alerts == INSTANCE OutageAlerts
          WITH place <- Place, alarm <- Alarm, excused <- disturbed \cup interrupted

(* Outside the races and crashes the history variables name, whatever the job  *)
(* runs, the requests and the maintenance windows do, in any order, alarms     *)
(* follow outages.                                                             *)
ImplementsAlerts == Alerts!Spec

(* No step takes a monitor offline or opens an incident for it while a        *)
(* maintenance window covers it (docstring of _update_monitor_status).        *)
MaintenanceSuppresses ==
    [][/\ \A m \in Monitors \ disturbed' :
            status[m] = "operational" /\ status'[m] = "offline" => ~UnderMaintenance(m)
       /\ \A i \in Incidents :
            state[i] = "absent" /\ state'[i] = "triggered"
                => ~UnderMaintenance(incidentOf'[i])]_vars

(* Every due monitor that is not paused is checked before long.               *)
DueIsChecked ==
    \A m \in Monitors : due[m] /\ ~paused[m] ~> ~due[m] \/ paused[m]

(* A monitor whose checks keep succeeding is operational in the end, whatever *)
(* window, race or crash it has been through.                                 *)
RecoveryIsSeen ==
    \A m \in Monitors :
        <>[](~paused[m] /\ \A k \in DOMAIN checks[m] : checks[m][k] = "success")
            => <>[](status[m] = "operational")

=============================================================================
