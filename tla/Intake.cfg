SPECIFICATION IntakeSpec
CONSTANTS
    None = None
    Normalized = Normalized
    Callers = {c1, c2, c3}
    Scopes = {s1, s2}
    Externals = {x1, x2}
    Bodies = {b1, b2}
    MixedBodies = {b1}
    Entries = {"normalize", "direct", "full"}
    Faults = {"save_raises", "delete_raises"}
    MaxCalls = 4
SYMMETRY Symmetry
INVARIANTS
    SubmissionsBacked
    LockedAllOrNothing
