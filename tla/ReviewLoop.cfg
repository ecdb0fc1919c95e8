SPECIFICATION MCSpec
CONSTANTS
    Null = Null
    tom = tom
    ada = ada
    a1 = a1
    a2 = a2
    i1 = i1
    i2 = i2
    i3 = i3
    n1 = n1
    c1 = c1
    c2 = c2
    b1 = b1
    b2 = b2
    h1 = h1
    h2 = h2
    k1 = k1
    k2 = k2
    Staff = {tom, ada}
    StaffRole <- RoleOf
    StaffScope <- ScopeOf
    Attempts = {a1, a2}
    AttemptClass <- ClassOf
    Items = {i1, i2, i3}
    ItemAttempt <- AttemptOf
    Notes = {n1}
    Classes = {c1, c2}
    Bundles = {b1, b2}
    PublishedBundles = {b1}
    MaxVersion = 4
    Calls = {h1, h2}
    Keys = {k1, k2}
    Faults = TRUE
INVARIANTS
    LoopIsSound
    PublishedClosesItem
PROPERTIES
    ItemsMoveLegally
SYMMETRY Interchangeable
CHECK_DEADLOCK FALSE
