CONSTANTS
    c1 = c1
    c2 = c2
    c3 = c3
    t1 = t1
    t2 = t2
    u1 = u1
    u2 = u2
    u3 = u3
    a = a
    b = b
    EmptyId = EmptyId
    NoConn = NoConn
    Conns = {c1, c2, c3}
    Threads = {t1}
    Ids <- MCIds
    Uuid <- MCUuid
    NewIds <- MixedNames
SPECIFICATION Spec
CHECK_DEADLOCK FALSE
INVARIANTS NoNullContext EntriesAreHeld OpenAreFound
