SPECIFICATION FairSpec
CONSTANTS
    g1 = g1  g2 = g2  t1 = t1  t2 = t2  t3 = t3
    Tasks = {t1, t2}
    Grants = {g1, g2}
    Faults = {"read_error", "write_error", "short_write", "crash"}
    MaxCrashes = 1
    TokioTimer = FALSE
    Missing = Missing
    Torn = Torn
INVARIANTS
    TypeOK
    NoPhantomGrant
PROPERTIES
    EveryCallAnswered
