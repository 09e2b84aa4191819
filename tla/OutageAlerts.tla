---------------------------- MODULE OutageAlerts ----------------------------
(***************************************************************************)
(* What monitoring promises to whoever is on call, without checks, batches, *)
(* windows or requests: alarms that follow outages.  An outage of a monitor *)
(* with alert_on_failure begins with an alarm or owes one; a monitor has at *)
(* most one alarm at a time; nothing but an outage raises one; and the      *)
(* recovery ends it, if nobody has seen to it before.  A monitor that is    *)
(* excused (a write from an outdated row, a crash) may do anything.         *)
(***************************************************************************)
CONSTANTS Monitors, Incidents, Alerting

VARIABLES
    place,         \* where a monitor is: "up", "down", or down and owing an alarm
    alarm,         \* the incidents of a monitor nobody has seen to
    excused        \* monitors for which nothing is promised any more

vars == <<place, alarm, excused>>

Init ==
    /\ place = [m \in Monitors |-> "up"]
    /\ alarm = [m \in Monitors |-> {}]
    /\ excused = {}

\* An outage begins, alarmed at once unless nobody is to be told.
Fails(m) ==
    /\ place[m] = "up" /\ place'[m] = "down"
    /\ IF m \in Alerting THEN \E i \in Incidents : alarm'[m] = {i} ELSE alarm'[m] = {}

\* An outage begins and the alarm is to follow.
FailsSilently(m) ==
    /\ m \in Alerting
    /\ place[m] = "up" /\ place'[m] = "owed"
    /\ alarm'[m] = alarm[m]

\* The incident of an outage that owed one is on record ...
Recorded(m) ==
    /\ place[m] = "owed" /\ place'[m] = "down"
    /\ alarm'[m] = alarm[m]

\* ... and becomes the alarm of its monitor; an outage may have another one once
\* the last has been seen to.
Alarmed(m) ==
    /\ place[m] = "down" /\ place'[m] = "down"
    /\ alarm[m] = {} /\ \E i \in Incidents : alarm'[m] = {i}

Recovers(m) ==
    /\ place[m] # "up" /\ place'[m] = "up"
    /\ alarm'[m] = {}

\* Somebody acknowledges or resolves the incident.
SeenTo(m) ==
    /\ place'[m] = place[m]
    /\ alarm'[m] \subseteq alarm[m]

Next ==
    /\ place' \in [Monitors -> {"up", "owed", "down"}]
    /\ alarm' \in [Monitors -> SUBSET Incidents]
    /\ excused \subseteq excused' /\ excused' \subseteq Monitors
    /\ \A m \in Monitors \ excused' :
          \/ Fails(m) \/ FailsSilently(m) \/ Recorded(m) \/ Alarmed(m)
          \/ Recovers(m) \/ SeenTo(m)

Spec == Init /\ [][Next]_vars

(* Two alarms of a monitor are one, and a monitor that is up, or owes its      *)
(* alarm, has none.                                                            *)
AlarmsFollowOutages ==
    \A m \in Monitors \ excused :
        /\ \A i, j \in alarm[m] : i = j
        /\ place[m] \in {"up", "owed"} => alarm[m] = {}

=============================================================================
