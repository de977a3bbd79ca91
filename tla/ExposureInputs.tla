------------------------------- MODULE ExposureInputs -------------------------------
(***************************************************************************)
(* Inputs of what is shown outside, beside those of RuleInputs: the events *)
(* and impacts of a dashboard (services/reporting-insights), the payloads, *)
(* keys and attributes of masking (packages/security) and of the gates of  *)
(* telemetry (packages/observability).  Again a state is one input.        *)
(***************************************************************************)
EXTENDS RuleInputs, DashboardFigures, ObservabilityGates

CONSTANTS
    DashboardPool,      \* sequences of business events
    ImpactPool,         \* operational impacts
    TreePool,           \* payloads
    KeyPool,            \* keys of entries
    ScopePool,          \* scopes of a customer, and others
    SourcePool,         \* curated sources, and others
    Context,            \* the entries of a telemetry context
    AttributePool,      \* sequences of attributes
    AllowedAttributes   \* the attributes of metrics, but for the tier

IsSequence(s) == s \in Seq({s[i] : i \in DOMAIN s})

-----------------------------------------------------------------------------
ASSUME DashboardInputsAssumption ==
    /\ \A events \in DashboardPool :
        IsSequence(events) /\ \A i \in DOMAIN events : IsEvent(events[i])
    /\ \A impact \in ImpactPool : IsImpact(impact)

PickDashboard ==
    /\ topic = "none"
    /\ \E events \in DashboardPool : Pick("dashboard", events)

PickImpacts ==
    /\ topic = "none"
    /\ \E one, two, three \in ImpactPool : Pick("impacts", {one, two, three})

OnEvents(Property(_, _)) ==
    topic = "dashboard" =>
        \A tenant \in TenantIds : EventsOf(tenant, input) # {} => Property(tenant, input)

(* The integration cards of a dashboard add up to its events (build_dashboard of *)
(* services/reporting-insights).                                              *)
Cards == OnEvents(CardsMatchEvents)

(* The order of events changes their lateness alone (BusinessMetricsProjection). *)
Orders == OnEvents(LAMBDA tenant, events : OrderOnlyCountsLate(tenant, events, {}))

(* The funnel and the decisions of a dashboard agree (apply).                 *)
Funnels == OnEvents(FunnelAgrees)

(* One restricted code hides the whole dashboard of its tenant                *)
(* (_validate_safe_mapping).                                                  *)
Hidden ==
    topic = "dashboard" =>
        \A tenant \in TenantIds :
            OneCodeHidesAll([tenant |-> tenant, scopes |-> {"dashboard:read"}], input)

(* The health of a component is the worst of its impacts                      *)
(* (_merge_operational_impacts).                                              *)
Health == topic = "impacts" => \A tenant \in TenantIds : WorstIsShown(tenant, input)

(* The figures of a dashboard follow from the events of its tenant, in any    *)
(* order, and none is shown that one of them hides.                           *)
FiguresAgree == Cards /\ Orders /\ Funnels /\ Hidden /\ Health

-----------------------------------------------------------------------------
ASSUME TreeInputsAssumption == \A payload \in TreePool : IsTree(payload)

PickPayload ==
    /\ topic = "none"
    /\ \E payload \in TreePool : Pick("payload", payload)

OnPayload(Property(_)) == topic = "payload" => Property(input)

(* Masking loses no entry of a mapping (_deduplicated_key of packages/security). *)
EntriesStay == OnPayload(EntriesKept)

(* Masking what is masked changes no key and shows no more                    *)
(* (build_structured_log masks twice).                                        *)
MaskedTwice == OnPayload(TwiceOmitsMore)

(* What the technical gate finds in a masked payload is no identifier that stands *)
(* by itself (mask_text and _scan_payload).                                   *)
Masks == OnPayload(MaskedIsAccepted)

(* Masking hides what identifies, loses nothing else, and may be repeated.    *)
MaskingHolds == EntriesStay /\ MaskedTwice /\ Masks

-----------------------------------------------------------------------------
ASSUME GateInputsAssumption ==
    /\ KeyPool \subseteq NodeKeys
    /\ IsTelemetryContext(Context)
    /\ \A attributes \in AttributePool :
        IsAttributes(attributes) /\ Len(attributes) + Len(Context) <= MaxEntries
    /\ AllowedAttributes \cap ReservedKeys \subseteq {TierKey}

(* A payload that a gate accepts is accepted when it is masked                *)
(* (validate_observability_exposure_payload).                                 *)
StaysAccepted ==
    topic = "payload" =>
        \A exposure \in Exposures, scopes \in SUBSET ScopePool, source \in SourcePool :
            AcceptedStaysAccepted(input, exposure, TextOf({}, {}), scopes, source)

PickKey ==
    /\ topic = "none"
    /\ \E key \in KeyPool : Pick("key", key)

(* The lists of keys of masking and gates agree, but for known differences    *)
(* (_scan_key and _is_secret_key).                                            *)
KeyLists == topic = "key" => KeyListsAgree(input)

PickCapability ==
    /\ topic = "none"
    /\ \E capability \in Catalog, signal \in OperationSignals \cup ServiceSignals :
        Pick("capability", [capability |-> capability, signal |-> signal])

(* No capability or signal of the catalog can go                              *)
(* (validate_observability_gate_catalog).                                     *)
Capabilities == topic = "capability" => CatalogIsTight(input.capability, input.signal)

PickAttributes ==
    /\ topic = "none"
    /\ \E attributes \in AttributePool : Pick("attributes", attributes)

(* Spans carry the identifiers of their context, metrics none                 *)
(* (_safe_span_attributes, _safe_metric_attributes).                          *)
Contexts == topic = "attributes" => ContextIsCarried(Context, input, AllowedAttributes)

(* Gates, masking and telemetry agree on what may be shown, although each has *)
(* lists of its own.                                                          *)
GatesAgree == StaysAccepted /\ KeyLists /\ Capabilities /\ Contexts

-----------------------------------------------------------------------------
PickExposed ==
    \/ PickDashboard
    \/ PickImpacts
    \/ PickPayload
    \/ PickKey
    \/ PickCapability
    \/ PickAttributes

AllSpec == Init /\ [][Next \/ PickExposed]_vars
=============================================================================
