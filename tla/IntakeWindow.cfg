SPECIFICATION Spec
CONSTANTS
    None = None
    Normalized = Normalized
    Callers = {c1, c2, c3}
    Scopes = {s1}
    Externals = {x1}
    Bodies = {b1}
    Entries = {"direct", "full"}
    Faults = {"save_raises"}
    MaxCalls = 3
SYMMETRY Symmetry
INVARIANTS
    AcceptedIsSubmitted
