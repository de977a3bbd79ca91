SPECIFICATION Spec
CONSTANTS
    None = None
    x = x
    y = y
    z = z
    web = web
    WindowOf <- MCWindowOf
    Products <- MCProducts
    Channels = {web}
    Instants = {1, 2}
    MaxInstant = 9
    Callers = {c1, c2}
    PolicyIds = {p1}
    VersionIds = {v1}
    SimulationIds = {s1}
    Proposals = {q1}
    Contents = {x}
    Operations = {"draft", "simulate", "publish", "decide"}
    Faults = {"draft_audit"}
    MaxCalls = 4
SYMMETRY Symmetry
PROPERTIES
    PublishedIsFinal
