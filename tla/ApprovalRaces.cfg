SPECIFICATION MCSpec
CONSTANTS
    Null = Null
    Source = Source
    s1 = s1
    c1 = c1
    ck1 = ck1
    ck2 = ck2
    n1 = n1
    n2 = n2
    v1 = v1
    v2 = v2
    t1 = t1
    g1 = g1
    g2 = g2
    Schools = {s1}
    Volatile = {s1}
    Classes = {c1}
    Played = {c1}
    Ballots <- MCBallots
    CreateKeys = {ck1, ck2}
    Creators = {n1, n2}
    Previewers = {v1, v2}
    Teachers = {t1}
    Admins = {g1, g2}
    Faults = TRUE
SYMMETRY CallSymmetry
INVARIANTS
    RequestsAreSound
    ApprovedByBothSides
PROPERTIES
    ApprovedStaysApproved
CHECK_DEADLOCK FALSE
