SPECIFICATION MCSpec
CONSTANTS
    Null = Null
    a1 = a1
    a2 = a2
    k1 = k1
    k2 = k2
    k3 = k3
    x0 = x0
    l1 = l1
    l2 = l2
    p1 = p1
    p2 = p2
    e1 = e1
    c1 = c1
    c2 = c2
    Attempts = {a1, a2}
    Keys = {k1, k2, k3}
    Actions <- MCActions
    EvaluatedLogs <- MCEvaluated
    Submissions <- MCRivals
    NonInteractive = TRUE
    Launchers = {l1, l2}
    Actors = {p1, p2}
    Entrants = {e1}
    Completers = {c1, c2}
    Faults = TRUE
SYMMETRY RequestSymmetry
INVARIANTS
    RowsAreSound
    OneScorer
    ResponseMatchesOutcome
    SettledRecordIsTrue
PROPERTIES
    NoStepBack
CHECK_DEADLOCK FALSE
