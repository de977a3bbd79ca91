SPECIFICATION Spec
CONSTANTS
    None = None
    x = x
    y = y
    z = z
    web = web
    WindowOf <- MCWindowOf
    Products <- MCProducts
    Channels = {web}
    Instants = {1, 2}
    MaxInstant = 9
    Callers = {c1, c2}
    PolicyIds = {p1}
    VersionIds = {v1}
    SimulationIds = {s1}
    Proposals = {q1}
    Contents = {x, y}
    Operations = {"draft", "update", "simulate", "publish"}
    Faults = {"update_audit"}
    MaxCalls = 5
SYMMETRY Symmetry
INVARIANTS
    PublishedWasSimulated
