SPECIFICATION Spec
CONSTANTS
    g1 = g1  g2 = g2  t1 = t1  t2 = t2  t3 = t3
    Tasks = {t1, t2, t3}
    Grants = {g1, g2}
    Faults = {"read_error"}
    MaxCrashes = 0
    TokioTimer = TRUE
    Missing = Missing
    Torn = Torn
SYMMETRY Symmetry
INVARIANTS
    AcknowledgedKept
    WriterAlone
PROPERTIES
    Atomic
