----------------------------- MODULE DashboardFigures -----------------------------
(***************************************************************************)
(* Figures of services/reporting-insights: what each kind of business      *)
(* event adds to the projection it belongs to (apply), and the customer's  *)
(* dashboard that build_dashboard makes of all of a tenant's projections.  *)
(*                                                                         *)
(* The counters of a projection are one bag of figures: <<counter, name>>  *)
(* for the counts by status or code, and <<sum, scope>> for costs,         *)
(* latencies and errors, where the scope is AllEvents or an integration.   *)
(* An integration is its class and adapter; a text is a member of a set.   *)
(***************************************************************************)
EXTENDS Integers, Sequences, FiniteSets, Bags, Functions

CONSTANTS
    RestrictedCodes,  \* reason codes with a word of _FORBIDDEN_OUTPUT_TERMS
    FreshnessTarget,  \* 300 s in _FRESHNESS_TARGET_SECONDS
    Components,       \* api, callbacks, integrations
    AllEvents,        \* scope of the sums over all events
    Nothing           \* absence of a value

DecisionOutcomes == {"approved", "declined", "approved_with_changes", "inconclusive"}

EventTypes == {"proposal", "decision_query", "decision", "integration", "ai_review", "callback"}

ScopeOf(event) == <<event.class, event.adapter>>

(* What an event is by the time it is recorded *)
IsEvent(event) ==
    /\ event.type \in EventTypes
    /\ event.type = "decision" => event.status \in DecisionOutcomes
    /\ event.at \in Int /\ event.processed \in Int
    /\ event.estimated \in Nat /\ event.actual \in Nat /\ event.errors \in Nat
    /\ event.latency \in Nat \cup {Nothing}
    /\ ScopeOf(event) # AllEvents

ASSUME NothingAssumption == Nothing \notin Int

-----------------------------------------------------------------------------
(* ProjectionKey.from_event *)
KeyOf(event) ==
    [tenant |-> event.tenant, tier |-> event.tier, product |-> event.product,
     period |-> event.day, channel |-> event.channel]

Amount(figure, n) == IF n = 0 THEN EmptyBag ELSE [f \in {figure} |-> n]

(* Costs, errors and the latency, when there is one *)
Sums(event, scope) ==
    Amount(<<"estimated", scope>>, event.estimated) (+) Amount(<<"actual", scope>>, event.actual)
    (+) Amount(<<"errors", scope>>, event.errors)
    (+) (IF event.latency = Nothing THEN EmptyBag
         ELSE Amount(<<"latency", scope>>, event.latency) (+) Amount(<<"latencies", scope>>, 1))

(* The outcome of a decision counts in the funnel too, after "decided" *)
Counted(event) ==
    CASE event.type = "proposal" -> Amount(<<"funnel", event.status>>, 1)
      [] event.type = "decision_query" -> Amount(<<"query", event.status>>, 1)
      [] event.type = "decision" ->
            SetToBag({<<"funnel", "decided">>, <<"funnel", event.status>>,
                      <<"decision", event.status>>}
                     \cup {<<"code", code>> : code \in event.codes})
      [] event.type = "integration" ->
            Amount(<<"integration", <<ScopeOf(event), event.status>>>>, 1)
            (+) Sums(event, ScopeOf(event))
      [] event.type = "ai_review" -> Amount(<<"review", event.status>>, 1)
      [] event.type = "callback" -> Amount(<<"callback", event.status>>, 1)

EmptyProjection(key) ==
    [key |-> key, counters |-> EmptyBag, late |-> 0, last |-> Nothing, processed |-> Nothing]

Later(known, at) == IF known = Nothing \/ at > known THEN at ELSE known

(* BusinessMetricsProjection.apply *)
Apply(projection, event) ==
    [projection EXCEPT
        !.counters = @ (+) Counted(event) (+) Sums(event, AllEvents),
        !.late = @ + IF projection.last # Nothing /\ event.at < projection.last THEN 1 ELSE 0,
        !.last = Later(@, event.at),
        !.processed = Later(@, event.processed)]

(* The projection of a key after the first n events *)
ProjectionOf(events, key) ==
    LET after[n \in 0..Len(events)] ==
            IF n = 0 THEN EmptyProjection(key)
            ELSE IF KeyOf(events[n]) = key THEN Apply(after[n - 1], events[n])
            ELSE after[n - 1]
    IN after[Len(events)]

KeysIn(events) == {KeyOf(events[i]) : i \in DOMAIN events}

(* _freshness of a projection with at least one event *)
Lag(projection) ==
    IF projection.processed > projection.last THEN projection.processed - projection.last ELSE 0

Longest(lags) == CHOOSE lag \in lags : \A other \in lags : other <= lag

IsStale(projection) == Lag(projection) > FreshnessTarget

-----------------------------------------------------------------------------
(* Projections stand under their keys *)
Figure(projection, figure) ==
    IF BagIn(figure, projection.counters) THEN projection.counters[figure] ELSE 0

(* _sum_counts and the sums over snapshots *)
Total(projections, figure) ==
    SumFunction([key \in DOMAIN projections |-> Figure(projections[key], figure)])

NamesOf(projections, counter) ==
    {figure[2] : figure \in {f \in UNION {BagToSet(projections[key].counters) :
                                            key \in DOMAIN projections} : f[1] = counter}}

CountCards(projections, counter) ==
    [name \in NamesOf(projections, counter) |-> Total(projections, <<counter, name>>)]

(* _rate_per_10k and _safe_average *)
Rate(n, received) == IF received <= 0 THEN Nothing ELSE (n * 10000) \div received

Average(total, n) == IF n <= 0 THEN Nothing ELSE total \div n

FunnelCards(projections) ==
    LET counts == CountCards(projections, "funnel")
        received == Total(projections, <<"funnel", "received">>)
    IN [name \in DOMAIN counts |->
            [count |-> counts[name], rate |-> Rate(counts[name], received)]]

ScopesOf(projections, class) ==
    {name[1] : name \in {n \in NamesOf(projections, "integration") : n[1][1] = class}}

SumOver(projections, sum, scopes) ==
    SumFunction([scope \in scopes |-> Total(projections, <<sum, scope>>)])

AverageOfAverages(projections, scopes) ==
    LET timed == {scope \in scopes : Total(projections, <<"latencies", scope>>) > 0}
    IN Average(SumFunction([scope \in timed |->
                                Average(Total(projections, <<"latency", scope>>),
                                        Total(projections, <<"latencies", scope>>))]),
               Cardinality(timed))

AverageLatency(projections, scopes) ==
    Average(SumOver(projections, "latency", scopes), SumOver(projections, "latencies", scopes))

(* _integration_cards: one for each class *)
IntegrationCards(projections) ==
    [class \in {name[1][1] : name \in NamesOf(projections, "integration")} |->
        LET scopes == ScopesOf(projections, class)
        IN [counts |->
                [status \in {n[2] : n \in {m \in NamesOf(projections, "integration") :
                                                m[1] \in scopes}} |->
                    SumFunction([scope \in scopes |->
                        Total(projections, <<"integration", <<scope, status>>>>)])],
            estimated |-> SumOver(projections, "estimated", scopes),
            actual |-> SumOver(projections, "actual", scopes),
            errors |-> SumOver(projections, "errors", scopes),
            latency |-> AverageLatency(projections, scopes)]]

-----------------------------------------------------------------------------
Rank(status) ==
    CASE status = "unknown" -> 0 [] status = "operational" -> 1
      [] status = "degraded" -> 2 [] status = "unavailable" -> 3

IsImpact(impact) ==
    impact.status \in {"unknown", "operational", "degraded", "unavailable"} /\ impact.message \in Nat

(* The worst status, and of these the last message; _merge_operational_impacts *)
WorstImpact(impacts) ==
    CHOOSE impact \in impacts :
        \A other \in impacts :
            \/ Rank(other.status) < Rank(impact.status)
            \/ other.status = impact.status /\ other.message <= impact.message

HealthCard(component, impacts) ==
    IF impacts = {} THEN [status |-> "unknown", message |-> 0, incidents |-> {}]
    ELSE [status |-> WorstImpact(impacts).status, message |-> WorstImpact(impacts).message,
          incidents |-> UNION {impact.incidents : impact \in impacts}]

(* _operational_health_cards *)
HealthCards(tenant, impacts) ==
    [component \in Components |->
        HealthCard(component,
            {i \in impacts : i.tenant = tenant /\ i.component = component})]

-----------------------------------------------------------------------------
ProjectionsFor(tenant, events) ==
    [key \in {k \in KeysIn(events) : k.tenant = tenant} |-> ProjectionOf(events, key)]

(* require_dashboard_read, and the tenant that may be asked for *)
MayReadDashboard(context, asked) ==
    /\ context.scopes \cap {"dashboard:read", "reporting:read"} # {}
    /\ asked \in {Nothing, context.tenant}

(* _validate_safe_mapping, over all that the cards say *)
IsSafe(projections) == NamesOf(projections, "code") \cap RestrictedCodes = {}

SingleOrBridge(tiers) == IF Cardinality(tiers) = 1 THEN CHOOSE tier \in tiers : TRUE ELSE "bridge"

Dashboard(tenant, events, impacts) ==
    LET projections == ProjectionsFor(tenant, events)
        keys == DOMAIN projections
    IN [tenant |-> tenant,
        tier |-> SingleOrBridge({key.tier : key \in keys}),
        products |-> {key.product : key \in keys},
        channels |-> {key.channel : key \in keys} \ {Nothing},
        periods |-> {key.period : key \in keys},
        funnel |-> FunnelCards(projections),
        counts |-> [counter \in {"callback", "decision", "query", "code", "review"} |->
                        CountCards(projections, counter)],
        estimated |-> Total(projections, <<"estimated", AllEvents>>),
        actual |-> Total(projections, <<"actual", AllEvents>>),
        errors |-> Total(projections, <<"errors", AllEvents>>),
        late |-> SumFunction([key \in keys |-> projections[key].late]),
        latency |-> AverageLatency(projections, {AllEvents}),
        stale |-> \E key \in keys : IsStale(projections[key]),
        lag |-> Longest({Lag(projections[key]) : key \in keys}),
        integrations |-> IntegrationCards(projections),
        health |-> HealthCards(tenant, impacts)]

(* Whether build_dashboard answers with a dashboard *)
Shows(context, asked, events) ==
    /\ MayReadDashboard(context, asked)
    /\ DOMAIN ProjectionsFor(context.tenant, events) # {}
    /\ IsSafe(ProjectionsFor(context.tenant, events))

-----------------------------------------------------------------------------
EventsOf(tenant, events) == {i \in DOMAIN events : events[i].tenant = tenant}

(* The cards of each class of integration say what its events say, whatever    *)
(* projections they were spread over: costs and errors are their sums, and the *)
(* average latency is that of the events with one, not of adapters or periods. *)
CardsMatchEvents(tenant, events) ==
    LET cards == Dashboard(tenant, events, {}).integrations
    IN \A class \in DOMAIN cards :
        LET own == {i \in EventsOf(tenant, events) :
                        events[i].type = "integration" /\ events[i].class = class}
            timed == {i \in own : events[i].latency # Nothing}
        IN /\ own # {}
           /\ cards[class].actual = SumFunction([i \in own |-> events[i].actual])
           /\ cards[class].estimated = SumFunction([i \in own |-> events[i].estimated])
           /\ cards[class].errors = SumFunction([i \in own |-> events[i].errors])
           /\ cards[class].latency =
                Average(SumFunction([i \in timed |-> events[i].latency]), Cardinality(timed))

(* The orders in which n events may come: each has one place *)
OrdersOf(n) ==
    {order \in [1..n -> 1..n] :
        \A i \in 1..n : \E j \in 1..n : \A k \in 1..n : order[k] = i <=> k = j}

Reordered(events, order) == [i \in 1..Len(events) |-> events[order[i]]]

(* Events out of order change how many of them were late and nothing else: the *)
(* dashboard of the same events in any other order is the same.               *)
OrderOnlyCountsLate(tenant, events, impacts) ==
    LET dashboard == Dashboard(tenant, events, impacts)
    IN \A order \in OrdersOf(Len(events)) :
        LET other == Dashboard(tenant, Reordered(events, order), impacts)
        IN [dashboard EXCEPT !.late = 0] = [other EXCEPT !.late = 0]

(* Every decision stands in the funnel as decided and as its outcome, so that  *)
(* the outcomes of the funnel and of the decisions agree on the dashboard.     *)
FunnelAgrees(tenant, events) ==
    LET dashboard == Dashboard(tenant, events, {})
        outcomes == dashboard.counts["decision"]
    IN \A outcome \in DOMAIN outcomes :
        /\ outcome \in DOMAIN dashboard.funnel
        /\ dashboard.funnel[outcome].count >= outcomes[outcome]
        /\ dashboard.funnel["decided"].count >= outcomes[outcome]

(* The health of a component is the worst its own impacts say, with all their *)
(* incidents; another tenant's impacts show nowhere.                          *)
WorstIsShown(tenant, impacts) ==
    \A component \in Components :
        LET card == HealthCards(tenant, impacts)[component]
            own == {i \in impacts : i.tenant = tenant /\ i.component = component}
        IN /\ \A i \in own : Rank(i.status) <= Rank(card.status) /\ i.incidents \subseteq card.incidents
           /\ own # {} => \E i \in own : i.status = card.status /\ i.message = card.message
           /\ own = {} => card.status = "unknown" /\ card.incidents = {}

(* Events are recorded with reason codes that a dashboard refuses to show; one  *)
(* of them hides the whole dashboard of its tenant, all periods, and no other's *)
OneCodeHidesAll(context, events) ==
    LET restricted == {i \in EventsOf(context.tenant, events) :
                        events[i].type = "decision" /\ events[i].codes \cap RestrictedCodes # {}}
    IN MayReadDashboard(context, Nothing) /\ EventsOf(context.tenant, events) # {} =>
        (Shows(context, Nothing, events) <=> restricted = {})
=============================================================================
