-------------------------------- MODULE RuleInputs --------------------------------
(***************************************************************************)
(* Inputs of the rules that change no state: a state is one input, and the *)
(* invariants state what the rules make of it.  What an input is made of   *)
(* is a parameter: the policies and cases of services/decision, the        *)
(* configurations and answers of services/integration, the tokens and      *)
(* contexts of services/identity-tenant, the payloads of                   *)
(* services/proposal-intake.                                               *)
(***************************************************************************)
EXTENDS PolicySimulations, IntegrationJobs, TenantAccess, ProposalContract

CONSTANTS
    RulePool, CriterionPool, LimitPool, FallbackPool, ValuePool,
    SimulatedLimits, SimulatedValues,  \* of these a simulation has fewer
    ReasonCatalog,      \* the content of a reason code catalog
    Answered,           \* values a customer gives where data was asked for
    ConfigurationPool,
    AllowedAdapters,    \* classes with an adapter that is allowed and can run
    ExecutionPool,      \* items of a plan, with the answers to their attempts
    ScenarioPool,       \* scenarios of the class kyc
    TokenPool, PayloadTenants, RolesPool, TenantCatalogs, Clock,
    TenantIds,          \* of tenants in the catalog, and others
    SubjectPool, RequestPool,
    MetadataEntries,    \* entries that come along with a context
    PayloadPool,        \* payloads of proposals
    FieldValues         \* what one of their fields may be changed to

VARIABLES topic, input

vars == <<topic, input>>

Init == topic = "none" /\ input = None

Pick(name, value) == topic' = name /\ input' = value

AtMostOne(S) == {{}} \cup {{one} : one \in S}
OneOrTwo(S) == {{one, other} : one, other \in S}

OneEach(items) == \A one, other \in items : one.class = other.class => one = other

(* Items of a plan, and what their adapters may answer to each attempt *)
Answerable(items, answers) ==
    /\ items \subseteq Configurations
    /\ IsFiniteSet(items)
    /\ OneEach(items)
    /\ \A item \in items : \A n \in 1..item.attempts :
        answers[item.class][n] \in AdapterAnswers

-----------------------------------------------------------------------------
ASSUME PolicyInputsAssumption ==
    /\ RulePool \subseteq Rules
    /\ CriterionPool \subseteq Tests
    /\ LimitPool \subseteq Limits /\ SimulatedLimits \subseteq Limits
    /\ FallbackPool \subseteq Fallbacks
    /\ ValuePool \subseteq Values /\ SimulatedValues \subseteq Values
    /\ Answered \subseteq Nat

PickEvaluation ==
    /\ topic = "none"
    /\ \E rules \in OneOrTwo(RulePool), criteria \in AtMostOne(CriterionPool),
          limits \in OneOrTwo(LimitPool) \cup {{}}, fallback \in FallbackPool,
          values \in ValuePool :
           LET policy == [rules |-> rules, criteria |-> criteria, limits |-> limits,
                          fallback |-> fallback]
           IN /\ InScope(policy, values)
              /\ Pick("evaluation", [policy |-> policy, values |-> values])

OnEvaluation(Property(_, _, _)) ==
    topic = "evaluation" => Property(input.policy, ReasonCatalog, input.values)

(* A policy approves only what all its rules, criteria and limits allow       *)
(* (evaluate_policy_case of services/decision).                               *)
Approvals == OnEvaluation(ApprovedWithinPolicy)

(* An approval with changes offers terms within every limit (evaluate_policy_case). *)
Adjustments == OnEvaluation(AdjustedWithinLimits)

(* A rejection names codes that a triggered rule rejects with                 *)
(* (_fallback_reject_reason_code_refs and the agreement of the rules).        *)
Rejections == OnEvaluation(RejectionsHaveGrounds)

(* What an evaluation says can be made a decision of (CreditDecision.create). *)
Decisions == OnEvaluation(EvaluationsDecide)

(* request_more_data asks once for what is missing (required fields of a result). *)
Questions ==
    topic = "evaluation" =>
        \A given \in Answered : AskedOnce(input.policy, ReasonCatalog, input.values, given)

(* An explanation shows no factor of a reason it hides (to_explainable_response). *)
Explanations ==
    topic = "evaluation" =>
        \A seen \in AtMostOne(Codes) :
            FactorsOfShownReasons(input.policy, ReasonCatalog, input.values, seen)

PickSimulation ==
    /\ topic = "none"
    /\ \E rules \in OneOrTwo(RulePool) \cup {{}}, criteria \in AtMostOne(CriterionPool),
          limits \in AtMostOne(SimulatedLimits), fallback \in FallbackPool,
          values, others \in SimulatedValues :
           LET policy == [rules |-> rules, criteria |-> criteria, limits |-> limits,
                          fallback |-> fallback]
               cases == <<[id |-> 1, values |-> values], [id |-> 2, values |-> others]>>
           IN /\ MaySimulate(policy, "draft", cases)
              /\ Pick("simulation", [policy |-> policy, cases |-> cases])

(* A clean simulation, which a publication asks for, is decided by rules alone *)
(* (_require_publication_simulation).                                         *)
Simulations ==
    topic = "simulation" => CleanIsDecidedByRules(input.policy, ReasonCatalog, input.cases)

(* What the evaluator, the simulations and the decisions make of one policy   *)
(* agrees: whatever of these is shown or stored follows from that policy.     *)
EvaluationsAgree ==
    /\ Approvals /\ Adjustments /\ Rejections
    /\ Decisions /\ Questions /\ Explanations
    /\ Simulations

-----------------------------------------------------------------------------
ASSUME JobInputsAssumption ==
    /\ ConfigurationPool \subseteq Configurations
    /\ \A execution \in ExecutionPool : Answerable(execution.items, execution.answers)

PickPlan ==
    /\ topic = "none"
    /\ \E configurations \in {c \in OneOrTwo(ConfigurationPool) \cup {{}} : OneEach(c)},
          required, others \in SUBSET Classes :
        Pick("plan", [configurations |-> configurations, required |-> required, others |-> others])

(* A ready plan covers what was required, with adapters that are allowed      *)
(* (plan_integrations of services/integration).                               *)
ReadyPlans ==
    topic = "plan" =>
        ReadyPlansCover(input.configurations, input.required, input.others, AllowedAdapters)

PickExecution ==
    /\ topic = "none"
    /\ \E execution \in ExecutionPool, scenario \in ScenarioPool :
        LET plan == Plan("ready", execution.items, {})
            scenarios == [class \in {"kyc"} |-> scenario]
        IN /\ MayExecute(plan, scenarios, AllowedAdapters)
           /\ Pick("execution", [plan |-> plan, scenarios |-> scenarios,
                                 answers |-> execution.answers])

OnExecution(Property(_, _, _)) ==
    topic = "execution" => Property(input.plan, input.scenarios, input.answers)

(* Attempts, costs, schedules and dead letters of an execution agree (dispatch). *)
Calls == OnExecution(CallsAccounted)

(* A job fails for good only when it may not be called again (dispatch).      *)
Failures == OnExecution(FailuresAreFinal)

(* An execution fails exactly when a class that must not fail does            *)
(* (_execution_status_from_jobs).                                             *)
Outcome == OnExecution(FailsClosed)

(* The delays recorded for the attempts of a job grow until the timeout cuts  *)
(* the backoff, and are bounded (_backoff_ms, _jitter_ms).                    *)
Delays == OnExecution(DelaysGrow)

(* With the mock adapters a reprocess repeats the failure                     *)
(* (_reprocess_scenario_from_original_execution).                             *)
Reprocesses == OnExecution(ReprocessesFailAgain)

(* Every attempt of a planned job is counted, paid, recorded with its delay   *)
(* and given its share in the outcome, and none is made that the plan does    *)
(* not allow.                                                                 *)
JobsAccounted == ReadyPlans /\ Calls /\ Failures /\ Outcome /\ Delays /\ Reprocesses

-----------------------------------------------------------------------------
ASSUME AccessInputsAssumption ==
    /\ \A token \in TokenPool :
        /\ token.issued \in Nat /\ token.expires \in Nat
        /\ token.notBefore \in Nat \cup {NoId}
    /\ \A catalog \in TenantCatalogs : \A tenant \in DOMAIN catalog :
        catalog[tenant] \in TenantEntries
    /\ Clock \subseteq Nat
    /\ SubjectPool \subseteq Subjects

PickToken ==
    /\ topic = "none"
    /\ \E token \in TokenPool, payloadTenant \in PayloadTenants, roles \in RolesPool,
          catalog \in TenantCatalogs, now \in Clock :
        Pick("token", [token |-> token, payloadTenant |-> payloadTenant, roles |-> roles,
                       catalog |-> catalog, now |-> now])

(* A grant is for the tenant, tier and time of the token it was made from     *)
(* (AuthorizationPolicy.authorize of services/identity-tenant).               *)
Grants ==
    topic = "token" =>
        \A operation \in DOMAIN Registry, tenant \in DOMAIN input.catalog :
            GrantsAreBacked(input.token, input.payloadTenant, input.roles, input.catalog,
                            input.now, operation, tenant)

(* Whatever context is authorised can be sent (context_to_grpc_metadata).     *)
Sends ==
    topic = "token" =>
        \A operation \in DOMAIN Registry, tenant \in DOMAIN input.catalog,
           request \in RequestPool :
            AuthorizedCanSend(input.token, input.payloadTenant, input.roles, input.catalog,
                              input.now, operation, tenant, request)

(* An operator of one tenant reads no other (the catalog of tenants).         *)
Tenants ==
    topic = "token" =>
        \A read \in TenantIds, trusted \in TenantIds \cup {NoId} :
            TenantsStayApart(input.catalog, input.token.client, read, trusted)

PickContext ==
    /\ topic = "none"
    /\ \E subject \in SubjectPool,
          others \in {<<>>} \cup {<<entry>> : entry \in MetadataEntries} :
        Pick("context", [subject |-> subject, others |-> others])

OnContext(Property(_, _, _)) ==
    topic = "context" =>
        \A request \in RequestPool : Property(input.subject, request, input.others)

(* The receiver of a context grants what its sender had granted               *)
(* (authorization_subject_from_grpc_metadata).                                *)
Arrivals == OnContext(ContextsArrive)

(* No gRPC metadata takes the place of the sender's (_metadata_to_mapping).   *)
Replacements == OnContext(NothingReplaced)

(* Between the token of a client and the last service that is called for it,  *)
(* nobody gains a tenant, a tier, a scope or time.                            *)
AccessBacked == Grants /\ Tenants /\ Arrivals /\ Replacements

-----------------------------------------------------------------------------
ASSUME PayloadInputsAssumption == \A payload \in PayloadPool : IsPayload(payload)

(* Changes of one field to a value the contract lists for it *)
Changes(payload) ==
    {c \in UNION {UNION {
        {<<structure, i, field, value>> : field \in DOMAIN Contract[structure].values,
                                          value \in FieldValues} :
            i \in DOMAIN payload[structure]} : structure \in DOMAIN payload} :
        c[4] \in Contract[c[1]].values[c[3]]}

Changed(payload, c) ==
    [payload EXCEPT ![c[1]][c[2]] = WithField(payload[c[1]][c[2]], c[3], c[4])]

Without(payload, c) ==
    [payload EXCEPT ![c[1]][c[2]] =
        [field \in DOMAIN payload[c[1]][c[2]] \ {c[3]} |-> payload[c[1]][c[2]][field]]]

(* A payload, or one with one field changed or left out, and one change more *)
PickProposal ==
    /\ topic = "none"
    /\ \E payload \in PayloadPool :
        \E first \in Changes(payload), second \in Changes(payload) :
            \E edited \in {payload, Changed(payload, first), Without(payload, first)} :
                Pick("proposal", [payload |-> edited, change |-> second])

(* Every receivable of an accepted proposal has an identified payer           *)
(* (validate_and_normalize_proposal of services/proposal-intake).             *)
Payers == topic = "proposal" => PayersAreIdentified(input.payload)

(* Documents and e-mails stay in a canonical proposal in free text alone.     *)
Identity == topic = "proposal" => IdentityOnlyInText(input.payload)

(* A fingerprint tells apart what it should, and nothing else                 *)
(* (_fingerprint_proposal).                                                   *)
Fingerprints ==
    topic = "proposal" =>
        FingerprintsTellApart(input.payload, input.change[1], input.change[2], input.change[3],
                              input.change[4])

(* What is kept of an accepted proposal names its payers, holds no document,  *)
(* and is told apart from others by its fingerprint.                          *)
ContractKept == Payers /\ Identity /\ Fingerprints

-----------------------------------------------------------------------------
Next ==
    \/ PickEvaluation
    \/ PickSimulation
    \/ PickPlan
    \/ PickExecution
    \/ PickToken
    \/ PickContext
    \/ PickProposal

Spec == Init /\ [][Next]_vars
=============================================================================
