SPECIFICATION MCSpec
CONSTANTS
    Null = Null
    s1 = s1
    s2 = s2
    ann = ann
    bob = bob
    eve = eve
    c1 = c1
    i1 = i1
    k1 = k1
    k2 = k2
    h1 = h1
    h2 = h2
    v1 = v1
    v2 = v2
    vA = vA
    vB = vB
    vP = vP
    SeedTenants = {s1, s2}
    SeedInvitations = {i1}
    Emails = {ann, bob, eve}
    SchoolClasses = {c1}
    ClassTenant <- ClassHomes
    InviteRoles = {"TEACHER"}
    PlatformCapabilities <- Granted
    Calls = {h1, h2}
    Keys = {k1, k2}
    Faults = TRUE
    Visits = {v1, v2, vA, vB, vP}
    AbsoluteTtl = 2
    InactivityTtl = 2
    LockoutDuration = 1
    MaxFailedLoginAttempts = 2
    MaxTime = 1
INVARIANTS
    MembershipsAreSound
    StaffLoginsAreSound
PROPERTIES
    AdministratorRemains
SYMMETRY Interchangeable
CHECK_DEADLOCK FALSE
