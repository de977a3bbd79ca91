SPECIFICATION FairSpec
CONSTANTS
    None = None
    p1 = p1
    p2 = p2
    j1 = j1
    Callers = {c1, c2}
    Keys = {k1, k2}
    Plans = {p1}
    Jobs = {j1}
    PlanJobs <- OnePlan
    Required = {j1}
    Reasons = {"operator"}
    Outcomes = {"completed", "recoverable"}
    Faults <- AnyFault
    MaxCalls = 3
INVARIANTS
    ReservationsOwned
    StoresAgree
    EventsDelivered
PROPERTIES
    ImplementsClaim
    CallsReturn
