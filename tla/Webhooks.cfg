SPECIFICATION FairSpec
CONSTANTS
    None = None
    w1 = w1
    Callers = {c1, c2}
    Events = {e1}
    Configurations = {w1}
    MaxAttempts <- OneConfiguration
    ReprocessKeys = {r1}
    AttemptLimit = 3
    Faults = {"dispatch_raises", "answer_lost"}
    MaxCalls = 5
    MaxLost = 1
INVARIANTS
    DeliveriesKept
    AcceptedOnce
    MarkedWasAccepted
PROPERTIES
    DeliveriesFinal
    ImplementsClaim
    CallsReturn
