SPECIFICATION Spec
CONSTANTS
    u1 = u1
    u2 = u2
    k1 = k1
    None = None
    Threads = {t1, t2}
    Users = {u1, u2}
    Superusers = {}
    Owner = u1
    TenantMembers = {u1}
    Teams = {a, b}
    Resources = {x}
    Keys = {k1}
    Roles = {admin, custom}
    SystemRoles = {admin}
    Admin = admin
    Permissions <- AllPermissions
    Grants <- RolePermissions
    KeyGrants <- NewKeyPermissions
    EditGrants <- EditedPermissions
    Calls <- SomeCalls
    Limit = 1
    MaxRequests = 2
SYMMETRY Alike
INVARIANTS
    LimitHolds
PROPERTIES
    AttributedToCaller
    CreatorSees
CHECK_DEADLOCK FALSE
