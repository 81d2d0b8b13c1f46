CONSTANTS
    h1 = h1
    h2 = h2
    u1 = u1
    u2 = u2
    t1 = t1
    t2 = t2
    t3 = t3
    s1 = s1
    m1 = m1
    l1 = l1
    None = None
    Admin = Admin
    Handlers = {h1, h2}
    Tenants = {s1}
    UserIds = {u1, u2}
    Names = {m1}
    TokenIds = {t1, t2, t3}
    DefaultLabels = {l1}
    AccessLife = 2
    RefreshLife = 1
    Failures = TRUE
    LastTime = 3
SPECIFICATION Spec
SYMMETRY Symmetry
INVARIANTS TypeOK FormerMemberShutOut OneTokenUnlessRaced TokensHaveUsers
PROPERTY ImplementsLoginSessions
CHECK_DEADLOCK FALSE
