----------------------------- MODULE MCRequests -----------------------------
(* Instances of Requests for TLC. *)
EXTENDS Requests, TLC

CONSTANTS u1, u2, k1

RolePermissions ==
    [r \in Roles |-> IF r = Admin THEN {All} ELSE {<<"monitor", "create">>}]
AllPermissions == {All, <<"monitor", "create">>, <<"monitor", "*">>}
NewKeyPermissions == {{<<"monitor", "*">>}}
EditedPermissions == {{All}}

Alike == Permutations(Threads) \cup Permutations(Teams)

Call(skip, tenant, session, bearer) ==
    [skip |-> skip, tenant |-> tenant, project |-> TRUE, session |-> session, bearer |-> bearer]

\* Tokens with and without a tenant, a key, a session of a member and of a
\* stranger, and an anonymous registration.
SomeCalls ==
    {Call(FALSE, "named", None, u1), Call(FALSE, "named", None, u2),
     Call(FALSE, "named", None, k1), Call(FALSE, "absent", None, u1),
     Call(FALSE, "unknown", None, u2), Call(FALSE, "absent", u1, None),
     Call(FALSE, "named", u2, None), Call(TRUE, "absent", None, None)}
=============================================================================
