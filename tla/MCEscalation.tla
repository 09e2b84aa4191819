---------------------------- MODULE MCEscalation ----------------------------
(* Instances of Escalation for TLC. *)
EXTENDS Escalation

CONSTANTS i1, i2, p1, p2, r1, t1

FirstHasTeam == [i \in Incidents |-> IF i = i1 THEN t1 ELSE None]
AllCritical == [i \in Incidents |-> "critical"]
FirstOfTeam == [p \in Policies |-> IF p = p1 THEN t1 ELSE None]
RankPolicies == [p \in Policies |-> IF p = p1 THEN 1 ELSE 2]
AnySeverity == [p \in Policies |-> {}]
SecondIsShort == [p \in Policies |-> IF p = p1 THEN Orders ELSE {1}]
Minutes == [o \in Orders |-> o]
RuleMinutes == [r \in Rules |-> 1]
AllIncidents == [r \in Rules |-> Incidents]
=============================================================================
