SPECIFICATION MCSpec
CONSTANTS
    Null = Null
    c1 = c1
    e1 = e1
    a1 = a1
    admin = admin
    teacher = teacher
    h1 = h1
    h2 = h2
    v0 = v0
    v1 = v1
    v2 = v2
    v3 = v3
    SeedClasses = {c1}
    SeedEnrollments = {e1}
    Aliases = {a1, a2}
    Staff = {admin, teacher}
    RoleOf <- StaffRoles
    ScopeOf <- StaffScopes
    Calls = {h1, h2}
    k1 = k1
    k2 = k2
    Keys = {k1, k2}
    Faults = TRUE
    Visits = {v0, v1, v2, v3}
    AbsoluteTtl = 2
    InactivityTtl = 2
    LockoutDuration = 1
    MaxFailedPinAttempts = 2
    Limits <- SmallLimits
    MaxTime = 1
INVARIANTS
    ClassesAreSound
    StudentLoginsAreSound
PROPERTIES
    LeftIsFinal
SYMMETRY Interchangeable
CHECK_DEADLOCK FALSE
