SPECIFICATION MCSpec
CONSTANTS
    Null = Null
    ada = ada
    tom = tom
    asa = asa
    sup = sup
    account1 = account1
    account2 = account2
    account3 = account3
    s1 = s1
    c1 = c1
    r1 = r1
    t1 = t1
    t2 = t2
    x1 = x1
    x2 = x2
    h1 = h1
    h2 = h2
    k1 = k1
    k2 = k2
    Students = {s1}
    StudentClass <- ClassOf
    Classes = {c1}
    Refs = {r1}
    Staff = {ada, tom, asa, sup}
    AccountOf <- Accounted
    RoleOf <- Roled
    ScopeOf <- Scoped
    Attempts = {t1, t2}
    AttemptStudent <- StudentOf
    Started = {t1}
    Offered = {"ENABLED", "DISABLED", "DISABLED_WITH_ALTERNATIVE"}
    Seeds = {x1, x2}
    MaxVersion = 3
    Calls = {h1, h2}
    Keys = {k1, k2}
    Faults = TRUE
INVARIANTS
    SupportIsSound
    PathsAreTrue
    AcceptedTakesEffectOnce
PROPERTIES
    SupportTeacherGoesFirst
SYMMETRY Interchangeable
CHECK_DEADLOCK FALSE
