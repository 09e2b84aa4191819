SPECIFICATION ScimSpec
CONSTANTS
    t1 = t1
    t2 = t2
    Staff = Staff
    member = member
    Null = Null
    UserIds = {u1, u2}
    Emails = {e1, e2}
    Anon = Anon
    Teams = {t1, t2}
    Names = {Staff, Unassigned}
    Unassigned = Unassigned
    Roles = {member}
    Connectors = {c1, c2}
    Configs <- Either
    InitialNames <- StaffOnly
    MaxMembers = 2
    MaxRequests = 4
    MaxFaults = 1
SYMMETRY Alike

    
PROPERTIES
    PutIsExact
CHECK_DEADLOCK FALSE
