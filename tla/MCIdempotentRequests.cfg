SPECIFICATION Spec
CONSTANTS
    Null = Null
    Nobody = Nobody
    w1 = w1
    w2 = w2
    w3 = w3
    k1 = k1
    h1 = h1
    h2 = h2
    r1 = r1
    r2 = r2
    Workers = {w1, w2, w3}
    RecordKeys = {k1}
    Hashes = {h1, h2}
    Responses = {r1, r2}
    MaxGeneration = 2
INVARIANTS
    RecordsAreSound
    ReplayIsAuthentic
PROPERTIES
    NoSecondExecution
    ImplementsContract
