------------------------------- MODULE MCServices -------------------------------
(***************************************************************************)
(* Four components that share no state, for one run of TLC: decisions and  *)
(* their queries, changes of configurations, reason code catalogs and      *)
(* business projections.  A behaviour is a behaviour of one of them, the   *)
(* other three stay as they are at the start.                              *)
(***************************************************************************)
EXTENDS DecisionQueries, Sequences, TLC

CONSTANTS
    \* ConfigurationChanges
    Ids, Webhooks, Settings, Keys, ChangeCalls,
    \* ReasonCodeCatalogs
    Versions, Codes, Factors, Outcomes, Texts, Drafts, MaxRevision, MaxVersion, CatalogCalls,
    \* BusinessProjection
    Events, Projections, EventKeys, Tenants, TenantOf, SlotOf, KeysOf, OccurredAt, Clock, EventCalls

VARIABLES
    part,  \* the component that runs
    configs, requestRecords, configPc, request, key, previous, acceptedConfigs, mixed, shared,
    configCalls,
    catalogs, catalogPc, target, base, written, acceptedContents, referred, undone, catalogCalls,
    fields, eventRecords, projectionLock, projectionPc, event, at, todo, stage, seen, created,
    overlapped, projectionCalls

configurationVars ==
    <<configs, requestRecords, configPc, request, key, previous, acceptedConfigs, mixed, shared,
      configCalls>>
catalogVars ==
    <<catalogs, catalogPc, target, base, written, acceptedContents, referred, undone, catalogCalls>>
projectionVars ==
    <<fields, eventRecords, projectionLock, projectionPc, event, at, todo, stage, seen, created,
      overlapped, projectionCalls>>

Changes == INSTANCE ConfigurationChanges WITH
    records <- requestRecords, pc <- configPc, accepted <- acceptedConfigs, calls <- configCalls,
    MaxCalls <- ChangeCalls

ReasonCatalogs == INSTANCE ReasonCodeCatalogs WITH
    pc <- catalogPc, accepted <- acceptedContents, calls <- catalogCalls, MaxCalls <- CatalogCalls

Projection == INSTANCE BusinessProjection WITH
    Keys <- EventKeys, records <- eventRecords, lock <- projectionLock, pc <- projectionPc,
    calls <- projectionCalls, MaxCalls <- EventCalls

ASSUME InstancesAssumption ==
    Changes!ConstantsAssumption /\ ReasonCatalogs!ConstantsAssumption
        /\ Projection!ConstantsAssumption

Parts == {"decisions", "configurations", "catalogs", "projections"}

ServicesInit ==
    /\ part \in Parts
    /\ Init /\ Changes!Init /\ ReasonCatalogs!Init /\ Projection!Init

ServicesNext ==
    /\ UNCHANGED part
    /\ IF part = "decisions" THEN Next ELSE UNCHANGED vars
    /\ IF part = "configurations" THEN Changes!Next ELSE UNCHANGED configurationVars
    /\ IF part = "catalogs" THEN ReasonCatalogs!Next ELSE UNCHANGED catalogVars
    /\ IF part = "projections" THEN Projection!Next ELSE UNCHANGED projectionVars

ServicesSpec ==
    ServicesInit /\ [][ServicesNext]_<<part, vars, configurationVars, catalogVars, projectionVars>>

Symmetry ==
    Permutations(Callers) \cup Permutations(DecisionIds) \cup Permutations(Proposals)
        \cup Permutations(Keys) \cup Permutations(Versions)
-----------------------------------------------------------------------------
Reason(outcome, active) == [outcome |-> outcome, active |-> active, factors |-> {"f"}, text |-> "t"]

Factor == [f |-> [text |-> "t", required |-> FALSE]]

(* One reason; two; the first with the other outcome. *)
MCDrafts ==
    {[reasons |-> [a |-> Reason("approve", TRUE)], factors |-> Factor],
     [reasons |-> [a |-> Reason("approve", TRUE), b |-> Reason("reject", TRUE)], factors |-> Factor],
     [reasons |-> [a |-> Reason("reject", TRUE), b |-> Reason("reject", FALSE)], factors |-> Factor]}

(* e2 repeats the event of e1 for another day; e3 shares a key with e2 only; *)
(* e4 is of another tenant and has the event id of e1.                       *)
MCTenantOf == ("e1" :> "t1") @@ ("e2" :> "t1") @@ ("e3" :> "t1") @@ ("e4" :> "t2")
MCSlotOf == ("e1" :> "p1") @@ ("e2" :> "p2") @@ ("e3" :> "p1") @@ ("e4" :> "p3")
MCKeysOf == ("e1" :> <<"k1">>) @@ ("e2" :> <<"k1", "k2">>) @@ ("e3" :> <<"k3", "k2">>)
            @@ ("e4" :> <<"k1">>)
MCOccurredAt == ("e1" :> 2) @@ ("e2" :> 1) @@ ("e3" :> 1) @@ ("e4" :> 1)
-----------------------------------------------------------------------------
(* A configuration between its changes is what the last accepted call asked   *)
(* for, whatever audits failed; what a replay of configure_webhook or disable *)
(* answers with is there; and a key answers for one request (service.py of    *)
(* services/integration).                                                     *)
ConfigurationsReplay ==
    [][/\ (Changes!TypeOK /\ Changes!AcceptedIsVisible /\ Changes!ReplaysAvailable)'
       /\ Changes!KeysStayBound]_configurationVars

(* No update of a catalog loses what another accepted one put into it, what a *)
(* policy was validated with stays valid, versions made at the same time have *)
(* two numbers, and a published catalog never changes (service.py of          *)
(* services/decision).                                                        *)
CatalogsKept ==
    [][/\ (ReasonCatalogs!TypeOK /\ ReasonCatalogs!VersionsDistinct)'
       /\ (ReasonCatalogs!AcceptedKept /\ ReasonCatalogs!ReferencesStayValid)'
       /\ ReasonCatalogs!PublishedStays]_catalogVars

(* An event and its repetitions are counted once, in every counter alike; a   *)
(* projection is processed after what it counts; an answer counts its event or *)
(* one it repeats, for its own tenant (record_event, list_tenant_snapshots of *)
(* services/reporting-insights).                                              *)
EventsCounted ==
    /\ Projection!TypeOK
    /\ Projection!CountedOnce
    /\ Projection!ProcessedAfterEvents
    /\ Projection!AnswersCountEvent
    /\ Projection!AnswersOwnTenant
    /\ Projection!QuietSnapshotsAgree
=============================================================================
