---------------------------- MODULE ObservabilityGates ----------------------------
(***************************************************************************)
(* The gates of packages/observability (gates.py): which payload may be    *)
(* shown inside, in the catalog of signals or to a customer, and which     *)
(* catalog of capabilities covers every critical service; and the          *)
(* attributes of spans and metrics (telemetry.py), which masking and a     *)
(* list of allowed keys make of what a caller gives.                       *)
(*                                                                         *)
(* A finding is the key it is at and what it is about: a term, an          *)
(* identifier or the shape of the payload.  The pattern of secret          *)
(* assignments asks for a brace and a bracket after the value and finds    *)
(* none of the texts modelled.                                             *)
(***************************************************************************)
EXTENDS PayloadMasking

CONSTANTS
    MaxScanDepth,        \* 12 in _MAX_SCAN_DEPTH
    CriticalServices,    \* the seven of _CRITICAL_SERVICE_NAMES
    OperationTypes,      \* http, grpc, event, job, integration
    CustomerScopes,      \* _CUSTOMER_FACING_SCOPES
    CuratedSources       \* _CURATED_CUSTOMER_FACING_SOURCES

Exposures == {"technical_internal", "internal_catalog", "customer_facing"}

-----------------------------------------------------------------------------
Common == {<<"api", "key">>, <<"bearer">>, <<"cnpj">>, <<"cpf">>, <<"decision", "id">>, <<"email">>,
           <<"payload">>, <<"proposal", "id">>, <<"secret">>, <<"token">>}

RawSignals == {<<"raw", "log">>, <<"raw", "trace">>, <<"logs", "raw">>, <<"traces", "raw">>}

OfRequests == {<<"correlation", "id">>, <<"request", "id">>, <<"trace", "id">>}

ForbiddenKeyTerms(exposure) ==
    CASE exposure = "technical_internal" ->
            Common \cup {<<"apikey">>, <<"authorization">>, <<"client", "secret">>, <<"headers">>,
                         <<"output">>, <<"password">>, <<"prompt">>, <<"raw", "error">>, <<"senha">>}
      [] exposure = "internal_catalog" ->
            Common \cup RawSignals \cup OfRequests
                \cup {<<"credential">>, <<"credentials">>, <<"password">>, <<"receiver">>,
                      <<"tenant", "id">>, <<"webhook">>}
      [] OTHER ->
            Common \cup RawSignals \cup OfRequests
                \cup {<<"transactional", "database">>, <<"banco", "transacional">>,
                      <<"cost", "currency">>, <<"stack", "trace">>}
                \cup {<<term>> : term \in
                        {"bank", "billing", "cpu", "currency", "datasource", "fatura", "grafana",
                         "host", "loki", "memory", "moeda", "node", "pod", "price", "pricing",
                         "prometheus", "promql", "query", "stacktrace", "tarifa", "tempo",
                         "transacional"}}

ForbiddenTextTerms(exposure) ==
    IF exposure # "technical_internal" THEN ForbiddenKeyTerms(exposure)
    ELSE ForbiddenKeyTerms(exposure)
            \ {<<"apikey">>, <<"cnpj">>, <<"cpf">>, <<"decision", "id">>, <<"email">>, <<"headers">>,
               <<"payload">>, <<"proposal", "id">>}

SafeKeys(exposure) ==
    IF exposure = "technical_internal"
    THEN {<<"output", "validation", "status">>, <<"payload", "digest">>,
          <<"prompt", "fingerprint">>, <<"prompt", "version">>}
    ELSE {<<"tenant", "ref">>, <<"tenant", "isolation", "tier">>, <<"tempo", "medio">>,
          <<"tempo", "de", "resposta">>, <<"signal", "not", "available">>}

(* Terms that _matches_forbidden_identifier finds inside a word too *)
SubstringTerms == {<<"token">>, <<"secret">>, <<"credential">>, <<"password">>, <<"apikey">>}

(* The terms that two words are when nothing is between them *)
Joined ==
    [pair \in {<<"api", "key">>, <<"stack", "trace">>} |->
        IF pair = <<"api", "key">> THEN <<"apikey">> ELSE <<"stacktrace">>]

(* _matches_forbidden_identifier of the key in lower case, where the words of *)
(* "camel" have become one                                                    *)
Matches(key, term) ==
    IF key.style = "camel" /\ Len(key.words) > 1
    THEN \/ term \in SubstringTerms /\ Among(key.words, {term})
         \/ \E pair \in DOMAIN Joined :
              /\ term = Joined[pair]
              /\ \/ key.words = pair
                 \/ term \in SubstringTerms /\ Among(key.words, {pair})
    ELSE Among(key.words, {term})

(* _scan_key *)
KeyRefused(key, value, exposure) ==
    /\ ~(key.style # "camel" /\ key.words \in SafeKeys(exposure))
    /\ ~(exposure = "technical_internal" /\ key.words = <<"payload">> /\ value.kind = "omitted")
    /\ \E term \in ForbiddenKeyTerms(exposure) : Matches(key, term)

(* _is_safe_technical_identifier: a hash or trace under its own key *)
IsHashKey(key) ==
    key.words \in {<<"event", "id">>, <<"idempotency", "key">>, <<"trace", "id">>}
        /\ key.style # "camel"

(* _scan_text *)
TextFindings(text, key, exposure) ==
    (text.shows \cap {"cpf", "cnpj", "email", "phone", "glued"})
        \cup (IF "run" \in text.shows /\ ~("hash" \in text.shows /\ IsHashKey(key))
              THEN {"run"} ELSE {})
        \cup {"term" : term \in text.words \cap ForbiddenTextTerms(exposure)}

(* _scan_payload of one value; what a container holds is scanned by itself *)
ValueFindings(value, key, exposure, depth) ==
    CASE depth > MaxScanDepth -> {"max_depth"}
      [] depth <= MaxScanDepth /\ value.kind = "text" -> TextFindings(value, key, exposure)
      [] depth <= MaxScanDepth /\ value.kind = "number" ->
            IF value.shows \cap {"cpf", "cnpj"} = {} THEN {} ELSE {"number"}
      [] depth <= MaxScanDepth /\ value.kind \in {"bytes", "back", "set"} -> {value.kind}
      [] OTHER -> {}

(* What is deeper than the first node that is too deep is not looked at *)
Findings(payload, exposure) ==
    LET reached == {path \in DOMAIN payload : Len(path) <= MaxScanDepth + 1}
        refused == {path \in reached :
                        /\ IsEntry(payload, path)
                        /\ KeyRefused(payload[path].key, payload[path].value, exposure)}
    IN {[key |-> payload[path].key, about |-> "key"] : path \in refused}
       \cup UNION {{[key |-> payload[path].key, about |-> about] :
                        about \in ValueFindings(payload[path].value, payload[path].key, exposure,
                                                Len(path))} : path \in reached}

(* _validate_customer_access_context *)
MayShowCustomer(payload, expectedTenant, scopes, source) ==
    /\ payload[<<>>].value = Mapping
    /\ \E path \in DOMAIN payload :
        Len(path) = 1 /\ payload[path] = Node(Key(<<"tenant", "ref">>), expectedTenant)
    /\ scopes \cap CustomerScopes # {}
    /\ source \in CuratedSources

(* validate_observability_exposure_payload *)
MayExpose(payload, exposure, expectedTenant, scopes, source) ==
    /\ exposure = "customer_facing" => MayShowCustomer(payload, expectedTenant, scopes, source)
    /\ Findings(payload, exposure) = {}

-----------------------------------------------------------------------------
OperationSignals == {"structured_log", "metric", "trace_span", "correlation_id"}

ServiceSignals == {"health", "readiness"}

ASSUME GatesAssumption ==
    MaxScanDepth \in Nat /\ CriticalServices # {} /\ "none" \notin OperationTypes

Capability(service, operation, signals) ==
    [service |-> service, operation |-> operation, signals |-> signals]

(* observability_gate_catalog; a capability is named after its content *)
Catalog ==
    {Capability(service, operation, OperationSignals) :
        service \in CriticalServices, operation \in OperationTypes}
    \cup {Capability(service, "none", {signal}) :
            service \in CriticalServices, signal \in ServiceSignals}

SignalsCovered(capabilities, service) ==
    ServiceSignals \subseteq UNION {c.signals : c \in {d \in capabilities : d.service = service}}

(* validate_observability_gate_catalog *)
ValidCatalog(capabilities) ==
    /\ capabilities # {}
    /\ \A c \in capabilities :
        c.signals # {} /\ (c.operation # "none" => OperationSignals \subseteq c.signals)
    /\ \A service \in CriticalServices :
        /\ \A operation \in OperationTypes :
            \E c \in capabilities : c.service = service /\ c.operation = operation
        /\ SignalsCovered(capabilities, service)

-----------------------------------------------------------------------------
ReservedKeys ==
    {Key(words) : words \in {<<"correlation", "id">>, <<"request", "id">>, <<"trace", "id">>,
                             <<"tenant", "id">>, <<"tenant", "isolation", "tier">>}}

(* What gets a number is named in no list *)
ASSUME NumeralsAssumption ==
    \A n \in DOMAIN Numeral :
        \A term \in (UNION {ForbiddenKeyTerms(exposure) : exposure \in Exposures})
                        \cup {key.words : key \in ReservedKeys} :
            \A i \in DOMAIN term : term[i] # Numeral[n]

(* The caller's attributes but for reserved keys                              *)
(* (_without_reserved_context_attributes), then those assigned of the context *)
WithContext(attributes, context, assigned) ==
    LET n == Len(attributes)
        own == {i \in 1..n : attributes[i].key \notin ReservedKeys}
        added == {n + j : j \in {j \in DOMAIN context : context[j].key \in assigned}}
    IN [i \in own \cup added |-> IF i <= n THEN attributes[i] ELSE context[i - n]]

(* The keys of a dictionary differ; the context has texts under reserved keys *)
IsAttributes(attributes) ==
    /\ attributes \in Seq([key : NodeKeys, value : NodeValues])
    /\ \A i, j \in DOMAIN attributes :
        attributes[i].key = attributes[j].key /\ ~attributes[i].key.noisy => i = j

IsTelemetryContext(context) ==
    /\ IsAttributes(context)
    /\ \A i \in DOMAIN context : context[i].key \in ReservedKeys /\ context[i].value \in TextValues

MappingOf(entries) ==
    [path \in {<<>>} \cup {<<i>> : i \in DOMAIN entries} |->
        IF path = <<>> THEN Node(NoKey, Mapping) ELSE entries[path[1]]]

(* _sanitize_attributes *)
Sanitized(entries, allowed) ==
    LET masked == MaskSensitiveData(MappingOf(entries)) IN
    {masked[<<i>>] : i \in {j \in DOMAIN entries :
                            /\ masked[<<j>>].key \in allowed
                            /\ masked[<<j>>].value.kind \in {"text", "number", "omitted"}}}

TierKey == Key(<<"tenant", "isolation", "tier">>)

(* _safe_span_attributes *)
SpanAttributes(context, attributes, allowed) ==
    Sanitized(WithContext(attributes, context, ReservedKeys), allowed \cup ReservedKeys)

(* _safe_metric_attributes *)
MetricAttributes(context, attributes, allowed) ==
    Sanitized(WithContext(attributes, context, {TierKey}), allowed \cup {TierKey})

-----------------------------------------------------------------------------
(* What masking leaves of a payload shows no identifier that stands by        *)
(* itself, no bytes and no cycle: what the technical gate still refuses is a  *)
(* key, a word, digits inside a word or a run of them, a number, a set or     *)
(* what is too deep, or it stands under prompt_version, numbered or not.      *)
MaskedIsAccepted(payload) ==
    \A finding \in Findings(MaskSensitiveData(payload), "technical_internal") :
        \/ finding.about \in {"key", "term", "glued", "run", "number", "set", "max_depth"}
        \/ SubSeq(finding.key.words, 1, 2) \in SafeTechnical

(* What the gate accepts of a payload it accepts of the masked payload too,   *)
(* when its keys are printed as they are: masking gives no value that is      *)
(* refused, and leaves the reference to the customer's tenant.                *)
AcceptedStaysAccepted(payload, exposure, expectedTenant, scopes, source) ==
    (\A path \in DOMAIN payload : ~payload[path].key.noisy)
        /\ MayExpose(payload, exposure, expectedTenant, scopes, source)
    => MayExpose(MaskSensitiveData(payload), exposure, expectedTenant, scopes, source)

(* Three lists are kept apart: keys that the technical gate refuses are       *)
(* masked, but for what is no secret, an output that is not of a model, and   *)
(* keys in capitals; and they are refused to customers, but for words that    *)
(* only the technical list has.                                               *)
KeyListsAgree(key) ==
    KeyRefused(key, Number({}), "technical_internal") =>
        /\ \/ IsOmitted(Normalized(key))
           \/ Normalized(key) \in SafeReferences
           \/ key.style = "upper"
           \/ Among(key.words, {<<"bearer">>, <<"raw", "error">>, <<"decision", "id">>,
                                <<"proposal", "id">>, <<"output">>, <<"apikey">>, <<"api", "key">>})
        /\ \/ KeyRefused(key, Number({}), "customer_facing")
           \/ key.style # "camel" /\ key.words \in SafeKeys("customer_facing")
           \/ Among(key.words, {<<"authorization">>, <<"headers">>, <<"output">>, <<"password">>,
                                <<"prompt">>, <<"raw", "error">>, <<"senha">>, <<"apikey">>,
                                <<"api", "key">>})

(* The catalog covers every critical service and nothing in it is there       *)
(* twice: without any one capability, or any one signal, it is refused.       *)
CatalogIsTight(capability, signal) ==
    LET without == Catalog \ {capability}
        weaker == [capability EXCEPT !.signals = @ \ {signal}]
    IN /\ ValidCatalog(Catalog)
       /\ capability \in Catalog => ~ValidCatalog(without)
       /\ capability \in Catalog /\ signal \in capability.signals =>
            ~ValidCatalog(without \cup {weaker})

(* A span carries the identifiers of its context, masked, whatever attributes *)
(* the caller gives, unless a key of them becomes a reserved one when what is *)
(* not printed is removed: then a value of the caller's has the key, and that *)
(* of the context gets a number and is dropped.  A metric has no identifier.  *)
ContextIsCarried(context, attributes, allowed) ==
    LET span == SpanAttributes(context, attributes, allowed)
        metric == MetricAttributes(context, attributes, allowed)
    IN \A i \in DOMAIN context :
        LET key == context[i].key
            Masked(value) == MaskedValue(value, key, 1)
            known == {j \in DOMAIN attributes :
                        attributes[j].key.noisy /\ SafeKey(attributes[j].key) = key}
            carried == {entry.value : entry \in {e \in span : e.key = key}}
        IN /\ known = {} => carried = {Masked(context[i].value)}
           /\ known # {} => carried \subseteq {Masked(attributes[j].value) : j \in known}
           /\ key # TierKey => \A entry \in metric : entry.key # key
=============================================================================
