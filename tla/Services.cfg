SPECIFICATION ServicesSpec
CONSTANTS
    None = None
    Callers = {c1, c2}
    Proposals = {p1, p2}
    DecisionIds = {d1, d2}
    MaxCalls = 3
    Ids = {i, w}
    Webhooks = {w}
    Settings = {a}
    Keys = {k1, k2}
    ChangeCalls = 4
    Versions = {v1, v2}
    Codes = {"a", "b"}
    Factors = {"f"}
    Outcomes = {"approve", "reject"}
    Texts = {"t"}
    Drafts <- MCDrafts
    MaxRevision = 3
    MaxVersion = 3
    CatalogCalls = 3
    Events = {"e1", "e2", "e3", "e4"}
    Projections = {"p1", "p2", "p3"}
    EventKeys = {"k1", "k2", "k3"}
    Tenants = {"t1", "t2"}
    TenantOf <- MCTenantOf
    SlotOf <- MCSlotOf
    KeysOf <- MCKeysOf
    OccurredAt <- MCOccurredAt
    Clock = {1, 3}
    EventCalls = 4
CHECK_DEADLOCK FALSE
SYMMETRY Symmetry
INVARIANTS
    AnswersWereTrue
    EvidenceUnderLock
    EventsCounted
PROPERTIES
    ImplementsWriteOnce
    ConfigurationsReplay
    CatalogsKept
