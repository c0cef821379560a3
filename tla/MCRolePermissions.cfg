SPECIFICATION FairSpec
CONSTANTS
    t1 = t1
    t2 = t2
    base = base
    child = child
    other = other
    n1 = n1
    n2 = n2
    Tenants <- MCTenants
    Roles <- MCRoles
    TenantOf <- MCTenantOf
    Parent <- MCParent
    NoParent = NoParent
    InitialRoles <- MCInitial
    InitialGrants <- MCGrants
    Held <- MCHeld
    Open <- MCOpen
    Defaults <- MCDefaults
    Choices <- MCChoices
    Perms <- MCPerms
    Declared <- MCDeclared
    e1 = e1
    e2 = e2
    p1 = p1
    y1 = y1
    g1 = g1
    q1 = q1
    q2 = q2
    Editors = {e1, e2}
    Local = {e1}
    Publishers = {p1}
    Syncs = {y1}
    Granters = {g1}
    Requests = {q1, q2}
    Sessions = {s1, s2}
    Listener = listener
    listener = listener
    s1 = s1
    s2 = s2
    Calls <- MCCalls
    Nobody = Nobody
    MaxFailures = 1
INVARIANTS
    TypeOK
    MapFollowsRegistry
    MapSettles
    AssignmentReachesSessions
PROPERTIES
    ChangesReachMap
