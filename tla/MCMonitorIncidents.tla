------------------------- MODULE MCMonitorIncidents -------------------------
(* Instances of MonitorIncidents for TLC. *)
EXTENDS MonitorIncidents, TLC

CONSTANTS m1, m2, w1

IncidentSymmetry == Permutations(Incidents)
RetriesOne == [m \in Monitors |-> 1]
RetriesTwo == [m \in Monitors |-> 2]
LinkedToAll == [w \in Windows |-> Monitors]
LinkedToFirst == [w \in Windows |-> {m1}]
ByName == [m \in Monitors |-> IF m = m1 THEN 1 ELSE 2]
=============================================================================
