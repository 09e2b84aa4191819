------------------------- MODULE MaintenanceWindows -------------------------
(***************************************************************************)
(* Scheduled maintenance windows: the process_maintenance job that starts   *)
(* and completes them as time passes and creates the next occurrence of a   *)
(* recurring one, and the requests that cancel, edit or delete windows at   *)
(* the same time.  One recurring series is followed.                        *)
(*                                                                          *)
(* Time is counted in days.  The calendar (length of the week, lengths of   *)
(* the months) is a parameter: a short calendar shows the same cases.       *)
(***************************************************************************)
EXTENDS Integers, Sequences, FiniteSets

CONSTANTS
    MaxWindows,    \* bound on the windows of the series
    Monitors,
    InitialCovers, \* ScheduledMaintenance.monitors of the first window
    FirstStarts,   \* when the first window may start
    Duration,      \* ends_at - starts_at
    Recurrences,   \* the recurrence settings to look at
    WeekLength,    \* 7
    MonthLength,   \* lengths of the months, repeated every year
    SearchDays,    \* 366, how far the weekly search goes
    MaxTime,       \* bound on the clock
    Clients,       \* API workers serving a request
    MaxFaults,     \* bound on crashes
    MaxRequests,   \* bound on requests
    None

Windows == 1 .. MaxWindows
Frequencies == {"none", "daily", "weekly", "monthly"}

ASSUME WindowsAssumption ==
    /\ MaxWindows \in Nat \ {0}
    /\ FirstStarts \in SUBSET Nat
    /\ Duration \in Nat \ {0}
    /\ InitialCovers \in SUBSET Monitors
    /\ MaxTime \in Nat
    /\ MaxFaults \in Nat
    /\ MaxRequests \in Nat
ASSUME CalendarAssumption ==
    /\ WeekLength \in Nat \ {0}
    /\ SearchDays \in Nat /\ SearchDays >= WeekLength
    /\ MonthLength \in Seq(Nat \ {0})
    /\ MonthLength # <<>>
ASSUME RecurrencesAssumption ==
    Recurrences \in SUBSET [frequency : Frequencies, interval : Nat,
                            weekdays : SUBSET Nat, until : Nat \cup {None}]
ASSUME NoneAssumption == None \notin Windows \cup Nat

WindowStatus == {"absent", "scheduled", "in_progress", "completed", "cancelled", "deleted"}
Requests == [op : {"cancel", "patch"}, window : Windows, status : WindowStatus]

ASSUME RequestsAssumption == None \notin Requests

VARIABLES
    now,           \* the clock
    recurrence,    \* recurrence_frequency, _interval, _weekdays and _until
    status,        \* ScheduledMaintenance.status
    starts,        \* starts_at
    covers,        \* monitors (empty = every monitor of the project)
    phase,         \* the job: idle, starting or ending
    begun,         \* the time its run began
    toStart,       \* windows loaded, still to start
    toEnd,         \* windows loaded, still to complete
    ending,        \* the window whose completion is being handled
    task,          \* next task of handle_maintenance_ended
    clone,         \* occurrence created, its monitors not set yet
    request,       \* request between its read and its write
    faults,
    requests,
    parent,        \* history: the window an occurrence was cloned from
    reevaluated,   \* history: windows whose monitors were re-evaluated
    interrupted,   \* history: windows whose completion a crash cut short
    undone,        \* history: how often a request saved over a completion
    raced          \* history: windows cancelled while a run or a PATCH held them

rowVars == <<status, starts, covers>>
taskVars == <<ending, task, clone>>
jobVars == <<phase, begun, toStart, toEnd, taskVars>>
clientVars == <<request, requests>>
historyVars == <<parent, reevaluated, interrupted, undone, raced>>
vars == <<now, recurrence, rowVars, jobVars, clientVars, faults, historyVars>>

Init ==
    /\ now = 0
    /\ recurrence \in Recurrences
    /\ status = [w \in Windows |-> IF w = 1 THEN "scheduled" ELSE "absent"]
    /\ \E t \in FirstStarts : starts = [w \in Windows |-> IF w = 1 THEN t ELSE 0]
    /\ covers = [w \in Windows |-> IF w = 1 THEN InitialCovers ELSE {}]
    /\ phase = "idle"
    /\ begun = 0
    /\ toStart = {}
    /\ toEnd = {}
    /\ ending = None
    /\ task = "none"
    /\ clone = None
    /\ request = [c \in Clients |-> None]
    /\ faults = 0
    /\ requests = 0
    /\ parent = [w \in Windows |-> None]
    /\ reevaluated = {}
    /\ interrupted = {}
    /\ undone = [w \in Windows |-> 0]
    /\ raced = {}

Exists(w) == status[w] \notin {"absent", "deleted"}
Ends(w) == starts[w] + Duration

-----------------------------------------------------------------------------
(* The calendar *)

Weekday(day) == day % WeekLength

LengthOfMonth(k) == MonthLength[1 + (k % Len(MonthLength))]

MonthStart[k \in Nat] == IF k = 0 THEN 0 ELSE MonthStart[k - 1] + LengthOfMonth(k - 1)

MonthOf(day) == CHOOSE k \in 0 .. day : MonthStart[k] <= day /\ day < MonthStart[k + 1]
DayOfMonth(day) == day - MonthStart[MonthOf(day)]

Smaller(a, b) == IF a < b THEN a ELSE b

(* Faulty variant: the day runs over into the month after. *)
AddMonthsUnclamped(day, n) == MonthStart[MonthOf(day) + n] + DayOfMonth(day)

AddMonths(day, n) ==
    LET month == MonthOf(day) + n
    IN  MonthStart[month] + Smaller(DayOfMonth(day), LengthOfMonth(month) - 1)

-----------------------------------------------------------------------------
(* schedule_next_occurrence *)

Interval == IF recurrence.interval = 0 THEN 1 ELSE recurrence.interval

SelectedWeekdays(start) ==
    IF recurrence.weekdays = {} THEN {Weekday(start)} ELSE recurrence.weekdays

NextWeekly(w) ==
    LET found == {day \in starts[w] + 1 .. starts[w] + SearchDays :
                    Weekday(day) \in SelectedWeekdays(starts[w])}
    IN  IF found = {}
        THEN starts[w] + Interval * WeekLength
        ELSE CHOOSE day \in found : \A other \in found : day <= other

NextStart(w) ==
    CASE recurrence.frequency = "daily"   -> starts[w] + Interval
      [] recurrence.frequency = "weekly"  -> NextWeekly(w)
      [] recurrence.frequency = "monthly" -> AddMonths(starts[w], Interval)

(* Faulty variant: an interval of zero ends the series. *)
RecursOnlyPositive(w) ==
    /\ recurrence.frequency # "none"
    /\ recurrence.interval > 0
    /\ recurrence.until # None => now < recurrence.until /\ NextStart(w) < recurrence.until

Recurs(w) ==
    /\ recurrence.frequency # "none"
    /\ recurrence.until # None => now < recurrence.until /\ NextStart(w) < recurrence.until

-----------------------------------------------------------------------------
(* process_maintenance *)

(* Faulty variant: a window is started on the minute or never. *)
LoadStartingExact ==
    /\ phase = "idle"
    /\ phase' = "starting"
    /\ begun' = now
    /\ toStart' = {w \in Windows : status[w] = "scheduled" /\ starts[w] = now}
    /\ UNCHANGED <<now, recurrence, rowVars, toEnd, taskVars, clientVars, faults,
                   historyVars>>

LoadStarting ==
    /\ phase = "idle"
    /\ phase' = "starting"
    /\ begun' = now
    /\ toStart' = {w \in Windows : status[w] = "scheduled" /\ starts[w] <= now}
    /\ UNCHANGED <<now, recurrence, rowVars, toEnd, taskVars, clientVars, faults,
                   historyVars>>

(* A save of a window that has been deleted raises and ends the run *)
AbortRun ==
    /\ phase' = "idle"
    /\ begun' = 0
    /\ toStart' = {}
    /\ toEnd' = {}

(* The status is saved whatever it has become since the window was loaded *)
StartWindow(w) ==
    /\ w \in toStart
    /\ IF Exists(w)
       THEN /\ status' = [status EXCEPT ![w] = "in_progress"]
            /\ toStart' = toStart \ {w}
            /\ UNCHANGED <<phase, begun, toEnd>>
       ELSE AbortRun /\ UNCHANGED status
    /\ UNCHANGED <<now, recurrence, starts, covers, taskVars, clientVars, faults,
                   historyVars>>

(* Faulty variant: cancelled windows are completed, too. *)
OverdueUnlessCompleted(w) ==
    status[w] \in {"scheduled", "in_progress", "cancelled"} /\ Ends(w) <= begun

(* Faulty variant: a completed window is completed again. *)
OverdueAgain(w) == status[w] \in {"in_progress", "completed"} /\ Ends(w) <= begun

Overdue(w) == status[w] = "in_progress" /\ Ends(w) <= begun

LoadEnding ==
    /\ phase = "starting"
    /\ toStart = {}
    /\ phase' = "ending"
    /\ toEnd' = {w \in Windows : Overdue(w)}
    /\ begun' = 0
    /\ UNCHANGED <<now, recurrence, rowVars, toStart, taskVars, clientVars, faults,
                   historyVars>>

(* An identity is left for the next occurrence (a bound of the model) *)
Room == \E w \in Windows : status[w] = "absent"

CompleteWindow(w) ==
    /\ w \in toEnd
    /\ ending = None
    /\ Room
    /\ IF Exists(w)
       THEN /\ status' = [status EXCEPT ![w] = "completed"]
            /\ toEnd' = toEnd \ {w}
            /\ ending' = w
            /\ task' = "schedule"
            /\ UNCHANGED <<phase, begun, toStart>>
       ELSE AbortRun /\ UNCHANGED <<status, ending, task>>
    /\ UNCHANGED <<now, recurrence, starts, covers, clone, clientVars, faults, historyVars>>

(* The clone is saved first; until its monitors are set it has none *)
ScheduleNext(w) ==
    /\ task = "schedule"
    /\ Recurs(ending)
    /\ status[w] = "absent"
    /\ \A v \in Windows : v < w => status[v] # "absent"
    /\ status' = [status EXCEPT ![w] = "scheduled"]
    /\ starts' = [starts EXCEPT ![w] = NextStart(ending)]
    /\ clone' = w
    /\ parent' = [parent EXCEPT ![w] = ending]
    /\ task' = "link"
    /\ UNCHANGED <<now, recurrence, covers, phase, begun, toStart, toEnd, ending,
                   clientVars, faults, reevaluated, interrupted, undone, raced>>

ScheduleNone ==
    /\ task = "schedule"
    /\ ~Recurs(ending)
    /\ task' = "reevaluate"
    /\ UNCHANGED <<now, recurrence, rowVars, phase, begun, toStart, toEnd, ending, clone,
                   clientVars, faults, historyVars>>

(* Faulty variant: the monitors of the clone are not set. *)
LinkCloneNot ==
    /\ task = "link"
    /\ clone' = None
    /\ task' = "reevaluate"
    /\ UNCHANGED <<now, recurrence, rowVars, phase, begun, toStart, toEnd,
                   ending, clientVars, faults, historyVars>>

(* The monitors are read afresh; an error is logged and handling goes on *)
LinkClone ==
    /\ task = "link"
    /\ covers' = IF Exists(clone)
                 THEN [covers EXCEPT ![clone] = IF Exists(ending) THEN covers[ending] ELSE {}]
                 ELSE covers
    /\ clone' = None
    /\ task' = "reevaluate"
    /\ UNCHANGED <<now, recurrence, status, starts, phase, begun, toStart, toEnd,
                   ending, clientVars, faults, historyVars>>

(* reevaluate_monitors_after_maintenance: see MonitorIncidents *)
Reevaluate ==
    /\ task = "reevaluate"
    /\ reevaluated' = reevaluated \cup {ending}
    /\ ending' = None
    /\ task' = "none"
    /\ UNCHANGED <<now, recurrence, rowVars, phase, begun, toStart, toEnd, clone,
                   clientVars, faults, parent, interrupted, undone, raced>>

EndRun ==
    /\ phase = "ending"
    /\ toEnd = {}
    /\ ending = None
    /\ AbortRun
    /\ UNCHANGED <<now, recurrence, rowVars, taskVars, clientVars, faults, historyVars>>

(* The scheduler container is restarted: nothing resumes a completion *)
Crash ==
    /\ faults < MaxFaults
    /\ phase # "idle"
    /\ faults' = faults + 1
    /\ AbortRun
    /\ ending' = None
    /\ task' = "none"
    /\ clone' = None
    /\ interrupted' = IF ending = None THEN interrupted
                      ELSE interrupted \cup ({ending, clone} \ {None})
    /\ UNCHANGED <<now, recurrence, rowVars, clientVars, parent, reevaluated, undone, raced>>

Tick ==
    /\ now < MaxTime
    /\ now' = now + 1
    /\ UNCHANGED <<recurrence, rowVars, jobVars, clientVars, faults, historyVars>>

-----------------------------------------------------------------------------
(* API requests *)

(* cancel refuses a completed window; PATCH takes any *)
ReadWindow(c, op, w) ==
    /\ request[c] = None
    /\ requests < MaxRequests
    /\ requests' = requests + 1
    /\ Exists(w)
    /\ op = "cancel" => status[w] # "completed"
    /\ request' = [request EXCEPT ![c] = [op |-> op, window |-> w, status |-> status[w]]]
    /\ UNCHANGED <<now, recurrence, rowVars, jobVars, faults, historyVars>>

Answer(c, op) ==
    /\ request[c] # None
    /\ request[c].op = op
    /\ request' = [request EXCEPT ![c] = None]
    /\ UNCHANGED <<now, recurrence, starts, covers, jobVars, requests, faults, parent,
                   reevaluated, interrupted>>

CancelWindow(c) ==
    LET w == request[c].window IN
    /\ Answer(c, "cancel")
    /\ status' = IF Exists(w) THEN [status EXCEPT ![w] = "cancelled"] ELSE status
    /\ raced' = IF \/ w \in toStart \cup toEnd
                   \/ \E d \in Clients \ {c} : request[d] # None /\ request[d].window = w
                THEN raced \cup {w} ELSE raced
    /\ undone' = IF status[w] = "completed" THEN [undone EXCEPT ![w] = @ + 1] ELSE undone

(* serializer.save() writes back the status it read, read-only or not *)
PatchWindow(c) ==
    LET w == request[c].window IN
    /\ Answer(c, "patch")
    /\ status' = IF Exists(w) THEN [status EXCEPT ![w] = request[c].status] ELSE status
    /\ undone' = IF status[w] = "completed" /\ request[c].status # "completed"
                 THEN [undone EXCEPT ![w] = @ + 1] ELSE undone
    /\ UNCHANGED raced

DeleteWindow(w) ==
    /\ Exists(w)
    /\ requests < MaxRequests
    /\ requests' = requests + 1
    /\ status' = [status EXCEPT ![w] = "deleted"]
    /\ UNCHANGED <<now, recurrence, starts, covers, jobVars, request, faults,
                   historyVars>>

-----------------------------------------------------------------------------
JobStep ==
    \/ \E w \in Windows : StartWindow(w) \/ CompleteWindow(w) \/ ScheduleNext(w)
    \/ LoadEnding
    \/ ScheduleNone
    \/ LinkClone
    \/ Reevaluate
    \/ EndRun

Next ==
    \/ LoadStarting
    \/ JobStep
    \/ Crash
    \/ Tick
    \/ \E c \in Clients, op \in {"cancel", "patch"}, w \in Windows : ReadWindow(c, op, w)
    \/ \E c \in Clients : CancelWindow(c) \/ PatchWindow(c)
    \/ \E w \in Windows : DeleteWindow(w)

Spec == Init /\ [][Next]_vars

(* The scheduler starts the job every minute, a run goes on, time passes. *)
Fairness == WF_vars(LoadStarting) /\ WF_vars(JobStep) /\ WF_vars(Tick)

FairSpec == Spec /\ Fairness

-----------------------------------------------------------------------------
(* Properties *)

(* Every variable keeps the type of the column or local it stands for. *)
TypeOK ==
    /\ now \in 0 .. MaxTime
    /\ recurrence \in Recurrences
    /\ status \in [Windows -> WindowStatus]
    /\ starts \in [Windows -> Nat]
    /\ covers \in [Windows -> SUBSET Monitors]
    /\ phase \in {"idle", "starting", "ending"}
    /\ begun \in 0 .. MaxTime
    /\ toStart \in SUBSET Windows
    /\ toEnd \in SUBSET Windows
    /\ ending \in Windows \cup {None}
    /\ task \in {"none", "schedule", "link", "reevaluate"}
    /\ (ending = None) <=> (task = "none")
    /\ clone \in Windows \cup {None}
    /\ (clone = None) <=> (task # "link")
    /\ request \in [Clients -> Requests \cup {None}]
    /\ faults \in 0 .. MaxFaults
    /\ requests \in 0 .. MaxRequests
    /\ parent \in [Windows -> Windows \cup {None}]
    /\ reevaluated \in SUBSET Windows
    /\ interrupted \in SUBSET Windows
    /\ undone \in [Windows -> Nat]
    /\ raced \in SUBSET Windows

Children(w) == {v \in Windows : parent[v] = w}

(* A window has one next occurrence, whatever is cancelled, deleted or crashes *)
(* meanwhile; only a request that saves an older status over its completion    *)
(* makes another possible.                                                     *)
OneOccurrence ==
    \A w \in Windows : Cardinality(Children(w)) <= 1 + undone[w]

(* handle_maintenance_ended runs to its end: the monitors of a completed window *)
(* are re-evaluated and a recurring window has its next occurrence.  A crash   *)
(* after the status is saved loses both for good, which is the exception.      *)
CompletionIsHandled ==
    \A w \in Windows \ interrupted :
        status[w] = "completed" /\ ending # w
            => /\ w \in reevaluated
               /\ \/ Children(w) # {}
                  \/ recurrence.frequency = "none"
                  \/ /\ recurrence.until # None
                     /\ now >= recurrence.until \/ NextStart(w) >= recurrence.until

(* An occurrence suppresses the alerts of the monitors its series is about,    *)
(* never those of the whole project, unless a crash or a deletion hits between *)
(* the creation of the clone and the setting of its monitors.                  *)
CloneKeepsMonitors ==
    \A w \in Windows \ interrupted :
        /\ parent[w] # None
        /\ clone # w
        /\ status[parent[w]] # "deleted"
        /\ Exists(w)
        => covers[w] = covers[parent[w]]

InRhythm(from, to) ==
    /\ recurrence.until # None => to < recurrence.until
    /\ recurrence.frequency = "daily" => to - from = Interval
    /\ recurrence.frequency = "weekly" =>
         /\ to > from
         /\ \/ Weekday(to) \in SelectedWeekdays(from)
            \/ /\ SelectedWeekdays(from) \cap (0 .. WeekLength - 1) = {}
               /\ to - from = Interval * WeekLength
         /\ \A day \in from + 1 .. to - 1 : Weekday(day) \notin SelectedWeekdays(from)
    /\ recurrence.frequency = "monthly" =>
         /\ MonthOf(to) - MonthOf(from) = Interval
         /\ \/ DayOfMonth(to) = DayOfMonth(from)
            \/ /\ DayOfMonth(to) < DayOfMonth(from)
               /\ DayOfMonth(to) = LengthOfMonth(MonthOf(to)) - 1

(* The next occurrence keeps the rhythm of the series: so many days later; the *)
(* first selected weekday after the last start, or so many weeks later if no   *)
(* day of the week is selected (the setting is not validated); so many months  *)
(* later on the same day, or the last day of a shorter month; and never past   *)
(* its end.                                                                    *)
KeepsRhythm ==
    \A w \in Windows :
        parent[w] # None => InRhythm(starts[parent[w]], starts[w])

(* A cancelled window suppresses nothing any more: no run of the job starts or *)
(* completes it, unless the run had loaded it (or a PATCH had read it) before   *)
(* it was cancelled and saves over the cancellation.                           *)
CancelHolds ==
    [][\A w \in Windows \ raced :
         status[w] = "cancelled" => status'[w] \in {"cancelled", "deleted"}]_vars

(* A window whose time has come does not stay scheduled, and one whose time is *)
(* over does not stay in progress.                                             *)
WindowsMove ==
    \A w \in Windows :
        /\ status[w] = "scheduled" /\ starts[w] <= now ~> status[w] # "scheduled" \/ ~Room
        /\ status[w] = "in_progress" /\ Ends(w) <= now
             ~> status[w] # "in_progress" \/ ~Room

=============================================================================
