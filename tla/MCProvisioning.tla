--------------------------- MODULE MCProvisioning ---------------------------
(* Two accounts, the team of the defaults and "Unassigned".                *)
EXTENDS Provisioning

CONSTANTS t1, t2, Staff, member

Settings(push, auto, r) ==
    [autoProvision |-> auto, autoDeprovision |-> TRUE, push |-> push,
     teams |-> {t1}, role |-> r]

DefaultTeams == {Settings(FALSE, TRUE, member), Settings(FALSE, FALSE, member),
                 Settings(FALSE, TRUE, Null)}
PushGroups == {Settings(TRUE, TRUE, member)}
Either == DefaultTeams \cup PushGroups
Alike == Permutations(Connectors) \cup Permutations(UserIds) \cup Permutations(Emails)
StaffOnly == [t \in Teams |-> IF t = t1 THEN Staff ELSE Null]
=============================================================================
