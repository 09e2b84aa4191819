--------------------------- MODULE MonitorChecks ---------------------------
(***************************************************************************)
(* One monitor and its checks: run_checks loads it when it is due, the      *)
(* runner of its type turns what the network answers into a status, and     *)
(* execute_check records it.  The API pauses, resumes and edits the         *)
(* monitor, the retention purge forgets old checks, and the uptime and      *)
(* status-timeline reports are computed from the checks that are left.      *)
(*                                                                          *)
(* What a status does to incidents is in MonitorIncidents.  The network is  *)
(* external: an answer is any member of Answers.  Time is counted in ticks, *)
(* JobPeriod of them between two runs of the job; DayTicks, WeekTicks and   *)
(* the bucket sizes keep the order and not the proportions of the code's.   *)
(***************************************************************************)
EXTENDS Integers, SequencesExt, FiniteSetsExt

CONSTANTS
    Configs,       \* the monitors one may ask for
    Answers,       \* what the network may answer, by kind of exchange
    Intervals,     \* values of interval_seconds
    JobPeriod,     \* between two runs of run_checks
    MaxDelay,      \* how late in a run the monitor's turn may come
    Retention,     \* RetentionPolicy.retention_days for monitor_checks
    DayTicks, WeekTicks,                       \* 24 hours, 7 days
    SmallBucket, MediumBucket, LargeBucket,    \* 5, 60 and 1440 minutes
    MaxTime,       \* bound on the clock
    MaxEdits,      \* bound on the API requests and on stops of the scheduler
    Null

ASSUME TimesAssumption ==
    /\ JobPeriod \in Nat \ {0} /\ MaxDelay \in 0 .. JobPeriod - 1
    /\ Intervals \subseteq Nat /\ Retention \in Nat
    /\ MaxTime \in Nat /\ MaxEdits \in Nat
ASSUME BucketsAssumption ==
    /\ DayTicks \in Nat /\ WeekTicks \in Nat /\ DayTicks <= WeekTicks
    /\ {SmallBucket, MediumBucket, LargeBucket} \subseteq Nat \ {0}

Outcomes == {"success", "failure", "timeout", "error"}
Failed == {"failure", "timeout", "error"}
StepTypes == {"multi_step_api", "journey"}

(* What may come back from the exchange a runner starts *)
AnswerKinds(type) ==
    CASE type \in StepTypes \cup {"api", "website"} ->
             {"timeout", "refused", "broken", "response"}
      [] type = "tcp" -> {"timeout", "refused", "connected"}
      [] type = "udp" -> {"timeout", "refused", "datagram"}
      [] type = "dns" -> {"gaierror", "broken", "records"}
      [] type = "ssl" -> {"handshake", "refused", "cert"}
      [] type = "ping" -> {"timeout", "no_command", "exit"}
      [] OTHER -> {"none"}

ASSUME AnswersAssumption ==
    \A m \in Configs : \A a \in Answers[m.type] : a.kind \in AnswerKinds(m.type)
ASSUME StepsAssumption ==
    \A m \in Configs : m.steps \in Seq(Range(m.steps))

Times == 0 .. MaxTime
Extractable(m) == UNION {step.extract : step \in Range(m.steps)}
Runs == [interval : Intervals, last : Times \cup {Null}, step : Nat \ {0},
         vars : SUBSET UNION {Extractable(m) : m \in Configs}]
Patches == [last : Times \cup {Null}, next : Nat]

ASSUME NullAssumption == Null \notin Nat \cup Runs \cup Patches

VARIABLES
    monitor,       \* Monitor: type, target, criteria, steps
    now,
    up,            \* the scheduler is running
    isPaused,      \* Monitor.is_paused
    interval,      \* Monitor.interval_seconds
    last,          \* Monitor.last_check_at
    next,          \* Monitor.next_check_at
    history,       \* the MonitorCheck rows
    run,           \* run_checks: the row it loaded, and how far its steps are
    patch,         \* PATCH of the monitor between its read and its save
    edits,         \* requests and stops so far
    steady,        \* history: nothing has come in between since the last check
    sent,          \* history: placeholders left in the request just sent
    reached        \* history: the last check's requests all had live answers

monitorVars == <<isPaused, interval, last, next>>
ghostVars == <<steady, sent, reached>>
checksVars == <<monitor, now, up, monitorVars, history, run, patch, edits, ghostVars>>

Check == [at : Times, status : Outcomes]

(* MonitorSerializer.validate *)
Accepted(m) ==
    /\ m.type \notin StepTypes \cup {"heartbeat"} => m.target # "blank"
    /\ m.type \in StepTypes => m.steps # <<>>

ChecksInit ==
    /\ monitor \in {m \in Configs : Accepted(m)}
    /\ now = 0
    /\ up = TRUE
    /\ isPaused = FALSE
    /\ interval \in Intervals
    /\ last = Null
    /\ next = 0
    /\ history = {}
    /\ run = Null
    /\ patch = Null
    /\ edits = 0
    /\ steady = TRUE
    /\ sent = {}
    /\ reached = TRUE

-----------------------------------------------------------------------------
(* The runners: from an answer of the network to a status, or an exception *)

StatusCodeFails(rule, code) ==
    \/ rule.op = "equals" /\ code # rule.value
    \/ rule.op = "not_equals" /\ code = rule.value
    \/ rule.op = "lt" /\ code >= rule.value
    \/ rule.op = "gt" /\ code <= rule.value

(* A body is the set of the fragments it is made of *)
BodyFails(rule, body) ==
    \/ rule.op = "contains" /\ rule.value \notin body
    \/ rule.op = "not_contains" /\ rule.value \in body
    \/ rule.op = "equals" /\ body # {rule.value}

TimeFails(rule, ms) ==
    \/ rule.op = "lt" /\ ms >= rule.value
    \/ rule.op = "lte" /\ ms > rule.value

(* A rule that is absent, or whose operator is not known, passes *)
EvaluateCriteria(response, criteria) ==
    /\ ~StatusCodeFails(criteria.code, response.code)
    /\ ~BodyFails(criteria.body, response.body)
    /\ ~TimeFails(criteria.time, response.ms)

HttpCheck(m, a) ==
    CASE a.kind = "timeout" -> "timeout"
      [] a.kind \in {"refused", "broken"} -> "error"
      [] a.kind = "response" ->
            IF EvaluateCriteria(a, m.criteria) THEN "success" ELSE "failure"

TcpCheck(m, a) ==
    IF m.target = "malformed" THEN "error" ELSE
    CASE a.kind = "refused" -> "error"
      [] a.kind = "timeout" -> "timeout"
      [] a.kind = "connected" -> "success"

UdpCheck(m, a) ==
    IF m.target = "malformed" THEN "error" ELSE
    IF m.criteria.payload = "bad_hex" THEN "raises" ELSE
    CASE a.kind = "refused" -> "error"
      [] a.kind = "timeout" -> IF m.criteria.expect THEN "timeout" ELSE "success"
      [] a.kind = "datagram" -> "success"

DnsCheck(m, a) ==
    IF m.target = "malformed" THEN "error" ELSE
    CASE a.kind = "broken" -> "error"
      [] a.kind = "gaierror" -> "failure"
      [] a.kind = "records" ->
            IF a.records = {} \/ ~(m.criteria.expected \subseteq a.records)
            THEN "failure" ELSE "success"

(* A wildcard covers its own domain and everything below it *)
HostnameMatchesCert(host, names) ==
    \E p \in names : IF p.wild THEN IsSuffix(p.labels, host) ELSE p.labels = host

SslCheck(m, a) ==
    IF m.target = "malformed" THEN "raises" ELSE
    CASE a.kind = "handshake" -> "failure"
      [] a.kind = "refused" -> "error"
      [] a.kind = "cert" ->
            IF \/ a.days = Null
               \/ a.days < m.criteria.min_days
               \/ /\ m.criteria.match /\ a.names # {}
                  /\ ~HostnameMatchesCert(m.criteria.host, a.names)
            THEN "failure" ELSE "success"

PingCheck(m, a) ==
    IF m.target = "malformed" THEN "error" ELSE
    CASE a.kind = "no_command" -> "error"
      [] a.kind = "timeout" -> "timeout"
      [] a.kind = "exit" -> IF a.code = 0 THEN "success" ELSE "failure"

(* Faulty: one interval of grace instead of two. *)
HeartbeatCheckStrict(loaded) ==
    IF loaded.last # Null /\ now - loaded.last > loaded.interval
    THEN "failure" ELSE "success"

HeartbeatCheck(loaded) ==
    IF loaded.last # Null /\ now - loaded.last > 2 * loaded.interval
    THEN "failure" ELSE "success"

RunCheck(m, loaded, a) ==
    CASE m.type \in {"api", "website"} -> HttpCheck(m, a)
      [] m.type = "tcp" -> TcpCheck(m, a)
      [] m.type = "udp" -> UdpCheck(m, a)
      [] m.type = "dns" -> DnsCheck(m, a)
      [] m.type = "ssl" -> SslCheck(m, a)
      [] m.type = "ping" -> PingCheck(m, a)
      [] m.type = "heartbeat" -> HeartbeatCheck(loaded)
      [] OTHER -> "error"

(* One HTTP step of a multi_step_api or journey monitor *)
StepPasses(step, a) ==
    /\ step.expect # Null => a.code = step.expect
    /\ step.contains # Null => step.contains \in a.body
    /\ step.extract \subseteq a.fields

(* Faulty: a step whose request raises is skipped. *)
StepCheckSkips(step, a) ==
    CASE a.kind \in {"timeout", "refused", "broken"} -> "success"
      [] a.kind = "response" -> IF StepPasses(step, a) THEN "success" ELSE "failure"

StepCheck(step, a) ==
    CASE a.kind = "timeout" -> "timeout"
      [] a.kind \in {"refused", "broken"} -> "error"
      [] a.kind = "response" -> IF StepPasses(step, a) THEN "success" ELSE "failure"

(* An answer only a target that is up can have given *)
LiveAnswer(a) ==
    \/ a.kind \in {"response", "connected", "datagram", "cert"}
    \/ a.kind = "records" /\ a.records # {}
    \/ a.kind = "exit" /\ a.code = 0

-----------------------------------------------------------------------------
(* run_checks *)

IsDue(t) == ~isPaused /\ next <= t

Loaded == [interval |-> interval, last |-> last, step |-> 1, vars |-> {}]

(* The clock; at every JobPeriod the scheduler starts the job *)
Tick ==
    /\ now < MaxTime
    /\ run # Null => now % JobPeriod < MaxDelay
    /\ now' = now + 1
    /\ run' = IF run = Null /\ up /\ now' % JobPeriod = 0 /\ IsDue(now')
              THEN Loaded ELSE run
    /\ UNCHANGED <<monitor, up, monitorVars, history, patch, edits, ghostVars>>

(* execute_check: the row, last_check_at and next_check_at in one transaction *)
Record(status) ==
    /\ history' = history \cup {[at |-> now, status |-> status]}
    /\ last' = now
    /\ next' = now + run.interval
    /\ run' = Null
    /\ steady' = (interval = run.interval)
    /\ UNCHANGED <<monitor, now, up, isPaused, interval, patch, edits>>

ExecuteCheck(a) ==
    /\ run # Null
    /\ monitor.type \notin StepTypes
    /\ RunCheck(monitor, run, a) # "raises"
    /\ Record(RunCheck(monitor, run, a))
    /\ reached' = LiveAnswer(a)
    /\ UNCHANGED sent

(* The loop of run_checks logs the exception and goes on: nothing is recorded *)
CheckRaises(a) ==
    /\ run # Null
    /\ monitor.type \notin StepTypes
    /\ RunCheck(monitor, run, a) = "raises"
    /\ run' = Null
    /\ UNCHANGED <<monitor, now, up, monitorVars, history, patch, edits, ghostVars>>

(* Faulty: the variables of a step replace those of the steps before it. *)
ExtractedOnly(step) == step.extract

(* variables: what the steps so far have extracted *)
Extracted(step) == run.vars \cup step.extract

RunStep(a) ==
    LET step == monitor.steps[run.step]
        result == StepCheck(step, a)
    IN
    /\ run # Null
    /\ monitor.type \in StepTypes
    /\ sent' = step.uses \ run.vars
    /\ reached' = (LiveAnswer(a) /\ (run.step = 1 \/ reached))
    /\ IF result = "success" /\ run.step < Len(monitor.steps)
       THEN /\ run' = [run EXCEPT !.step = @ + 1, !.vars = Extracted(step)]
            /\ UNCHANGED <<monitor, now, up, monitorVars, history, patch, edits, steady>>
       ELSE Record(result)

-----------------------------------------------------------------------------
(* The API, the scheduler's process and the retention purge *)

Disturbance ==
    /\ edits < MaxEdits
    /\ edits' = edits + 1
    /\ steady' = FALSE
    /\ UNCHANGED <<monitor, now, sent, reached>>

Pause ==
    /\ ~isPaused
    /\ Disturbance
    /\ isPaused' = TRUE
    /\ UNCHANGED <<up, interval, last, next, history, run, patch>>

(* Not counted, like Start: a Pause or a PATCH comes before each *)
Resume ==
    /\ isPaused
    /\ isPaused' = FALSE
    /\ next' = now
    /\ steady' = FALSE
    /\ UNCHANGED <<monitor, now, up, interval, last, history, run, patch, edits, sent,
                   reached>>

EditLoad ==
    /\ patch = Null
    /\ Disturbance
    /\ patch' = [last |-> last, next |-> next]
    /\ UNCHANGED <<up, monitorVars, history, run>>

(* serializer.save() writes every column, those it has only read included; *)
(* interval_seconds and is_paused may come from the request                *)
EditSave(i, p) ==
    /\ patch # Null
    /\ patch' = Null
    /\ interval' = i
    /\ isPaused' = p
    /\ last' = patch.last
    /\ next' = patch.next
    /\ steady' = FALSE
    /\ UNCHANGED <<monitor, now, up, history, run, edits, sent, reached>>

(* The scheduler's process stops, in the middle of a check perhaps *)
Stop ==
    /\ up
    /\ Disturbance
    /\ up' = FALSE
    /\ run' = Null
    /\ UNCHANGED <<monitorVars, history, patch>>

Start ==
    /\ ~up
    /\ up' = TRUE
    /\ UNCHANGED <<monitor, now, monitorVars, history, run, patch, edits, ghostVars>>

PurgeChecks ==
    /\ \E c \in history : c.at < now - Retention
    /\ history' = {c \in history : c.at >= now - Retention}
    /\ UNCHANGED <<monitor, now, up, monitorVars, run, patch, edits, ghostVars>>

-----------------------------------------------------------------------------
ChecksNext ==
    \/ Tick
    \/ \E a \in Answers[monitor.type] : ExecuteCheck(a) \/ CheckRaises(a) \/ RunStep(a)
    \/ Pause \/ Resume \/ EditLoad \/ Stop \/ Start \/ PurgeChecks
    \/ \E i \in Intervals, p \in BOOLEAN : EditSave(i, p)

ChecksSpec == ChecksInit /\ [][ChecksNext]_checksVars

-----------------------------------------------------------------------------
(* The reports *)

Count(S) == [total |-> Cardinality(S),
             failed |-> Cardinality({c \in S : c.status \in Failed})]

ComputeUptime(since, until) ==
    Count({c \in history : c.at >= since /\ c.at < until})

BucketSize(since, until) ==
    IF until - since <= DayTicks THEN SmallBucket
    ELSE IF until - since <= WeekTicks THEN MediumBucket
    ELSE LargeBucket

(* Faulty: no bucket is begun that would run past the end. *)
BucketStartsWhole(since, until) ==
    LET b == BucketSize(since, until)
    IN  {t \in since .. until - 1 : (t - since) % b = 0 /\ t + b <= until}

BucketStarts(since, until) ==
    LET b == BucketSize(since, until)
    IN  {t \in since .. until - 1 : (t - since) % b = 0}

(* Each check goes to the last bucket that starts no later *)
BuildStatusTimeline(since, until) ==
    LET starts == BucketStarts(since, until)
        checks == {c \in history : c.at >= since /\ c.at < until}
        BucketOf(c) == Max({since} \cup {s \in starts : s <= c.at})
    IN  [s \in starts |-> Count({c \in checks : BucketOf(c) = s})]

BucketStatus(data) ==
    CASE data.total = 0 -> "unknown"
      [] data.total > 0 /\ data.failed = 0 -> "operational"
      [] 0 < data.failed /\ data.failed < data.total -> "degraded"
      [] OTHER -> "offline"

-----------------------------------------------------------------------------
(* Properties *)

(* Every variable keeps the type of the column or local it stands for, and a    *)
(* run is at a step the monitor has.                                           *)
ChecksTypeOK ==
    /\ monitor \in Configs /\ Accepted(monitor)
    /\ now \in Times
    /\ {up, isPaused, steady, reached} \subseteq BOOLEAN
    /\ interval \in Intervals
    /\ last \in Times \cup {Null}
    /\ next \in Nat
    /\ history \subseteq Check
    /\ run \in Runs \cup {Null}
    /\ run # Null => run.step <= (IF monitor.type \in StepTypes THEN Len(monitor.steps) ELSE 1)
    /\ patch \in Patches \cup {Null}
    /\ edits \in 0 .. MaxEdits

(* The two reports tell the same story of any range: what the timeline says of *)
(* a bucket is what the uptime report says of that bucket's part of the range, *)
(* partial last bucket included, and the uptime is 100 percent exactly when no *)
(* bucket is degraded or offline (uptime.compute_uptime, build_status_timeline).*)
TimelineAgreesWithUptime ==
    \A since, until \in 0 .. now + 1 :
        LET timeline == BuildStatusTimeline(since, until)
            whole == ComputeUptime(since, until)
            End(s) == Min({until, s + BucketSize(since, until)})
        IN  /\ \A s \in DOMAIN timeline : timeline[s] = ComputeUptime(s, End(s))
            /\ whole.failed = 0 <=>
                 \A s \in DOMAIN timeline :
                     BucketStatus(timeline[s]) \in {"unknown", "operational"}
            /\ whole.total = 0 <=>
                 \A s \in DOMAIN timeline : BucketStatus(timeline[s]) = "unknown"

(* A heartbeat monitor is failed for its lateness only: when nothing came      *)
(* between two of its checks (no pause, no edit, no stop of the scheduler) and *)
(* its interval is not 0 and no shorter than the job's period plus the longest *)
(* wait in a run, the second check passes (_run_heartbeat_check reads          *)
(* last_check_at, which execute_check itself refreshes).                       *)
SteadyHeartbeatPasses ==
    [][monitor.type = "heartbeat" /\ steady /\ interval > 0
       /\ interval >= JobPeriod + MaxDelay - 1
         => \A c \in history' \ history : c.status = "success"]_checksVars

(* A check that passes got a live answer from its target, for every step of a  *)
(* journey.  Two kinds of monitor are exempt, for the code asks them nothing:  *)
(* heartbeat, and udp without expect_response.                                 *)
PassMeansReached ==
    [][\A c \in history' \ history :
         /\ c.status = "success"
         /\ monitor.type # "heartbeat"
         /\ monitor.type = "udp" => monitor.criteria.expect
         => /\ reached'
            /\ monitor.type \in StepTypes => run.step = Len(monitor.steps)]_checksVars

(* A journey whose steps use only what earlier steps extract never sends a     *)
(* request with a placeholder left in it (_render_template, _extract_json_path):*)
(* a missing value ends the journey first, a later step forgets nothing.       *)
StepsAreRendered ==
    LET steps == monitor.steps
        WellChained == \A k \in 1 .. Len(steps) :
                          steps[k].uses \subseteq UNION {steps[j].extract : j \in 1 .. k - 1}
    IN  monitor.type \in StepTypes /\ WellChained => sent = {}

=============================================================================
