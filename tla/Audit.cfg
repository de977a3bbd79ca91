SPECIFICATION Spec
CONSTANTS
    None = None
    k1 = k1
    k2 = k2
    plain = plain
    Callers = {c1, c2}
    EventIds = {e1, e2}
    Instants = {0, 1}
    Windows <- MCWindows
    Requests <- MCRequests
    Faults = {"storage_raises", "answer_lost", "records_raise"}
    MaxEvents = 4
    MaxTime = 2
CHECK_DEADLOCK FALSE
SYMMETRY Symmetry
INVARIANTS
    CheckpointsVerify
    TamperEvident
    ExportsTruthful
PROPERTIES
    ImplementsWriteOnce
