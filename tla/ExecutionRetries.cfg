SPECIFICATION MCSpec
CONSTANTS
    Null = Null
    Source = Source
    s1 = s1
    s2 = s2
    c1 = c1
    c2 = c2
    ck1 = ck1
    ck2 = ck2
    n1 = n1
    n2 = n2
    v1 = v1
    v2 = v2
    ek1 = ek1
    ek2 = ek2
    x1 = x1
    x2 = x2
    w1 = w1
    Schools = {s1, s2}
    Volatile = {s1}
    Classes = {c1, c2}
    Played = {}
    Split = {c2}
    Ballots <- MCBallots
    CreateKeys = {ck1, ck2}
    ExecuteKeys = {ek1, ek2}
    Creators = {n1, n2}
    Previewers = {v1, v2}
    Teachers = {}
    Admins = {}
    Executors = {x1, x2}
    Reviewers = {w1}
    Faults = TRUE
INVARIANTS
    ExecutionsAreSound
    ResumeKeepsSettledUnits
    MovesAreTrue
PROPERTIES
    ExecutionEnds
CHECK_DEADLOCK FALSE
