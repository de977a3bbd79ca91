SPECIFICATION FairSpec
CONSTANTS
    None = None
    fits = fits
    other = other
    s1 = s1
    MaxItems = 2
    Callers = {c1, c2}
    Versions = {v1, v2}
    Contents = {fits, other}
    Scopes = {s1}
    ScopesOf <- MCScopesOf
    Reviews = {x1, x2}
    Outputs <- MCOutputs
    Faults = {"config_audit_raises", "executor_missing", "evidence_refused",
              "evidence_audit_raises", "execution_audit_raises"}
    MaxRevision = 2
INVARIANTS
    TypeOK
    ReviewsPinned
    ResultsAgree
    ReservationsOwned
PROPERTIES
    ConfigurationsKept
    ReservedIsReviewed
