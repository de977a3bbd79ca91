SPECIFICATION ChangesSpec
CONSTANTS
    None = None
    x = x
    y = y
    z = z
    web = web
    WindowOf <- MCWindowOf
    Products <- MCProducts
    Channels = {web}
    Instants = {1, 2}
    MaxInstant = 9
    Callers = {c1, c2}
    PolicyIds = {p1}
    VersionIds = {v1, v2}
    SimulationIds = {s1, s2}
    Proposals = {q1}
    Contents = {x, y}
    FewContents = {y}
    Operations = {"draft", "update", "version", "simulate", "publish", "decide"}
    Faults = {"validation", "draft_audit", "update_audit", "simulation_audit", "commit_audit"}
    MaxCalls = 6
SYMMETRY Symmetry
INVARIANTS
    SelectionUnambiguous
    AuditedBeforeVisible
    SteadyChangesKept
    SteadyPublishedWasSimulated
