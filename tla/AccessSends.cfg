SPECIFICATION Spec
CONSTANTS
    None = None
    Codes = {"a", "r", "s", "w"}
    Factors = {"f", "g"}
    Outcomes = {"approve", "reject", "approve_with_changes", "request_more_data", "unable_to_decide"}
    Texts = {"t"}
    OtherFields = {"income"}
    MaxCases = 2
    Classes = {"kyc", "bureau", "open"}
    MockClasses = {"kyc", "bureau"}
    AdapterIds = {"m", "n"}
    MaxAttempts = 5
    MaxTimeout = 120000
    MaxCost = 1000000
    MaxActualCost = 1000000000
    NoItem = None
    NoId = None
    Ids = {"t1", "t2", "c", "d11", "q", "q14", "a~b", "proposal:submit", "decision:read", "tenant:admin", "service-client", "tenant-admin"}
    DocumentLike = {"d11", "q14"}
    ScopeOnly = {"a~b"}
    TrustedKeys = {"k"}
    Issuer = "i"
    Audience = "a"
    RequiredScopes = {}
    Skew = 1
    MaxTokens = 2
    RulePool <- MCRulePool
    CriterionPool <- MCCriterionPool
    LimitPool <- MCLimitPool
    FallbackPool <- MCFallbacks
    ValuePool <- MCValues
    SimulatedLimits <- MCSimulatedLimits
    SimulatedValues <- MCSimulatedValues
    ReasonCatalog <- MCCatalog
    Answered = {0, 2}
    ConfigurationPool <- MCConfigurations
    AllowedAdapters <- MCAllowed
    ExecutionPool <- MCExecutions
    ScenarioPool = {"synthetic_success", "synthetic_failure"}
    TokenPool <- MCTokens
    PayloadTenants <- MCPayloadTenants
    RolesPool <- MCRoles
    TenantCatalogs <- MCCatalogs
    Clock = {0, 1, 2, 3, 4, 5}
    TenantIds = {"t1", "t2", "t3"}
    SubjectPool <- MCSubjects
    RequestPool <- MCRequests
    MetadataEntries <- MCEntries
    MaxOf <- MCMost
    CriticalRoles = {"payer", "guarantor"}
    OtherRoles = {"merchant"}
    PayloadPool <- MCPayloads
    FieldValues <- MCFieldValues
    MaxMaskingDepth = 2
    MaxScanDepth = 2
    CriticalServices = {"decision", "integration"}
    OperationTypes = {"http", "job"}
    CustomerScopes = {"dashboard:read"}
    CuratedSources = {"projection"}
    RestrictedCodes = {"risk_score"}
    FreshnessTarget = 3
    Components = {"api", "callbacks"}
    AllEvents = None
    Nothing = None
    MaxEntries = 7
    Words <- MCVocabulary
    Numeral <- MCNumerals
    DashboardPool <- MCDashboards
    ImpactPool <- MCImpacts
    TreePool <- MCTrees
    KeyPool <- MCKeyPool
    ScopePool = {"dashboard:read", "proposal:submit"}
    SourcePool = {"projection", "ledger"}
    Context <- MCContext
    AttributePool <- MCAttributes
    AllowedAttributes <- MCAllowedAttributes
INVARIANTS
    Sends
CHECK_DEADLOCK FALSE
