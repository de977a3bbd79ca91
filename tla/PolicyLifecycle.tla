--------------------------- MODULE PolicyLifecycle ---------------------------
(***************************************************************************)
(* The life of credit policies in services/decision: create_policy_draft,  *)
(* update_policy_draft, create_policy_version, run_policy_simulation,      *)
(* publish_policy and execute_credit_decision of application/service.py,   *)
(* running concurrently over the policy, simulation and decision           *)
(* repositories of adapters/persistence.                                   *)
(*                                                                         *)
(* Each repository has a lock of its own and the service has none: a call  *)
(* is a sequence of repository calls, and a step is one of them, with the  *)
(* pure computation after it.  Some audit intents are published under the  *)
(* lock of the repository before it commits, others after it has committed *)
(* and with a compensation when the publisher raises.  One tenant.         *)
(***************************************************************************)
EXTENDS PolicyWindows

CONSTANTS
    Callers,        \* threads that call the service
    PolicyIds,      \* policy_id values
    VersionIds,     \* policy_version_id values
    SimulationIds,  \* simulation_id values
    Proposals,      \* proposal_id values
    Contents,       \* governed contents: rules, criteria, limits, applicability
    WindowOf,       \* WindowOf[x]: product and applicability of content x
    Operations,     \* which calls are made
    Faults,         \* what may fail: validations and audit intents
    MaxCalls        \* bound on the number of calls in a behaviour

AllOperations == {"draft", "update", "version", "simulate", "publish", "decide"}

AllFaults == {"validation", "draft_audit", "update_audit", "simulation_audit", "commit_audit"}

Keys == [policy : PolicyIds, version : VersionIds]

Positive == Nat \ {0}

Policies == [content : Contents, status : {"draft", "published"},
             version : Positive, revision : Positive]

(* clean: the status is completed and there are no issues. *)
Simulations == [key : Keys, revision : Positive, content : Contents, clean : BOOLEAN]

ASSUME ConstantsAssumption ==
    /\ WindowOf \in [Contents -> Windows]
    /\ Operations \subseteq AllOperations
    /\ Faults \subseteq AllFaults
    /\ MaxCalls \in Nat

ASSUME NoneAssumption ==
    /\ None \notin Policies
    /\ None \notin Simulations
    /\ None \notin [key : Keys, policy : Policies]

VARIABLES
    policies,       \* the stored policy of every key
    simulations,    \* the stored result of every simulation id
    decisions,      \* the stored decision of every proposal
    audited,        \* audited publications: key, policy and its simulation
    accepted,       \* the newest policy a caller was told of, for every key
    pc,             \* where every caller is in its call
    call,           \* the locals of its call
    calls           \* number of calls made so far

repositoryVars == <<policies, simulations, decisions>>
vars == <<repositoryVars, audited, accepted, pc, call, calls>>

Phases == {"idle", "number", "save_draft", "audit_draft", "save_update", "audit_update",
           "save_version", "save_simulation", "audit_simulation", "evidence",
           "commit", "commit_decision"}

(* key: the policy called for; base: the policy as read; candidate: the      *)
(* policy to store; id and result: the simulation; proposal: what to decide. *)
NoCall == [key |-> None, base |-> None, candidate |-> None,
           id |-> None, result |-> None, proposal |-> None]

Calls == [key : Keys \cup {None},
          base : Policies \cup {None},
          candidate : Policies \cup {None},
          id : SimulationIds \cup {None},
          result : Simulations \cup {None},
          proposal : Proposals \cup {None}]

TypeOK ==
    /\ policies \in [Keys -> Policies \cup {None}]
    /\ simulations \in [SimulationIds -> Simulations \cup {None}]
    /\ decisions \in [Proposals -> [key : Keys, policy : Policies] \cup {None}]
    /\ audited \subseteq [key : Keys, policy : Policies, simulation : Simulations]
    /\ accepted \in [Keys -> Policies \cup {None}]
    /\ pc \in [Callers -> Phases]
    /\ call \in [Callers -> Calls]
    /\ calls \in Nat

Init ==
    /\ policies = [k \in Keys |-> None]
    /\ simulations = [i \in SimulationIds |-> None]
    /\ decisions = [p \in Proposals |-> None]
    /\ audited = {}
    /\ accepted = [k \in Keys |-> None]
    /\ pc = [c \in Callers |-> "idle"]
    /\ call = [c \in Callers |-> NoCall]
    /\ calls = 0
-----------------------------------------------------------------------------
Stored(k) == policies[k] # None

IsDraft(k) == Stored(k) /\ policies[k].status = "draft"

IsPublished(k) == Stored(k) /\ policies[k].status = "published"

HasRevision(k, revision) == Stored(k) /\ policies[k].revision = revision

VersionsOf(id) == {policies[k].version : k \in {l \in Keys : l.policy = id /\ Stored(l)}}

(* next_version is one more than the greatest number, or 1.  There are never  *)
(* more numbers than calls.                                                  *)
IsNextVersion(id, n) ==
    /\ \A m \in VersionsOf(id) : m < n
    /\ n = 1 \/ n - 1 \in VersionsOf(id)

Numbers == 1..MaxCalls

NewDraft(x, version) ==
    [content |-> x, status |-> "draft", version |-> version, revision |-> 1]

UpdatedDraft(p, x) == [p EXCEPT !.content = x, !.revision = @ + 1]

Published(p) == [p EXCEPT !.status = "published", !.revision = @ + 1]

(* The call of c starts with these locals and goes to a phase. *)
Begin(c, operation, phase, locals) ==
    /\ operation \in Operations
    /\ pc[c] = "idle"
    /\ calls < MaxCalls
    /\ calls' = calls + 1
    /\ pc' = [pc EXCEPT ![c] = phase]
    /\ call' = [call EXCEPT ![c] = locals]

Goto(c, phase) == pc' = [pc EXCEPT ![c] = phase] /\ UNCHANGED call

(* The call returns, with a result or an error. *)
Return(c) ==
    /\ pc' = [pc EXCEPT ![c] = "idle"]
    /\ call' = [call EXCEPT ![c] = NoCall]

(* The caller is told that p is the policy of k. *)
Tell(k, p) ==
    accepted' = IF accepted[k] = None \/ accepted[k].revision < p.revision
                  THEN [accepted EXCEPT ![k] = p] ELSE accepted

(* A stored policy is replaced. *)
Store(k, p) == policies' = [policies EXCEPT ![k] = p]
-----------------------------------------------------------------------------
(* Calls.  A call that fails before its first step below changes nothing and *)
(* is left out.                                                              *)

(* create_policy_draft: the number of the version is read first. *)
CreateDraft(c) ==
    /\ \E k \in Keys, x \in Contents, n \in Numbers :
        /\ IsNextVersion(k.policy, n)
        /\ Begin(c, "draft", "save_draft",
                 [NoCall EXCEPT !.key = k, !.candidate = NewDraft(x, n)])
    /\ UNCHANGED <<repositoryVars, audited, accepted>>

(* save *)
SaveDraft(c) ==
    /\ pc[c] = "save_draft"
    /\ ~Stored(call[c].key)
    /\ Store(call[c].key, call[c].candidate)
    /\ Goto(c, "audit_draft")
    /\ UNCHANGED <<simulations, decisions, audited, accepted, calls>>

(* delete compares nothing *)
DraftAuditFails(c) ==
    /\ pc[c] = "audit_draft"
    /\ "draft_audit" \in Faults
    /\ Store(call[c].key, None)
    /\ Return(c)
    /\ UNCHANGED <<simulations, decisions, audited, accepted, calls>>

(* update_policy_draft reads the policy and derives the next revision. *)
UpdateDraft(c) ==
    /\ \E k \in Keys, x \in Contents :
        /\ IsDraft(k)
        /\ Begin(c, "update", "save_update",
                 [NoCall EXCEPT !.key = k, !.base = policies[k],
                                !.candidate = UpdatedDraft(policies[k], x)])
    /\ UNCHANGED <<repositoryVars, audited, accepted>>

(* Mutation: update does not compare revisions. *)
AlwaysCurrent(c) == Stored(call[c].key)

(* The policy still has the revision that was read. *)
BaseIsCurrent(c) == HasRevision(call[c].key, call[c].base.revision)

(* update *)
SaveUpdate(c) ==
    /\ pc[c] = "save_update"
    /\ BaseIsCurrent(c)
    /\ Store(call[c].key, call[c].candidate)
    /\ Goto(c, "audit_update")
    /\ UNCHANGED <<simulations, decisions, audited, accepted, calls>>

(* restore_if_current compares revisions, not policies *)
Restored(c) ==
    IF HasRevision(call[c].key, call[c].candidate.revision)
      THEN Store(call[c].key, call[c].base) ELSE UNCHANGED policies

UpdateAuditFails(c) ==
    /\ pc[c] = "audit_update"
    /\ "update_audit" \in Faults
    /\ Restored(c)
    /\ Return(c)
    /\ UNCHANGED <<simulations, decisions, audited, accepted, calls>>

(* The audit intent of a draft or of an update is published. *)
ChangeAudited(c) ==
    /\ pc[c] \in {"audit_draft", "audit_update"}
    /\ Tell(call[c].key, call[c].candidate)
    /\ Return(c)
    /\ UNCHANGED <<repositoryVars, audited, calls>>

(* create_policy_version reads a published policy, ... *)
CreateVersion(c) ==
    /\ \E k \in Keys, v \in VersionIds :
        /\ IsPublished(k)
        /\ v # k.version
        /\ Begin(c, "version", "number", [NoCall EXCEPT !.key = [k EXCEPT !.version = v]])
    /\ UNCHANGED <<repositoryVars, audited, accepted>>

(* ... then next_version. *)
TakeNumber(c) ==
    /\ pc[c] = "number"
    /\ \E x \in Contents, n \in Numbers :
        /\ IsNextVersion(call[c].key.policy, n)
        /\ call' = [call EXCEPT ![c].candidate = NewDraft(x, n)]
    /\ pc' = [pc EXCEPT ![c] = "save_version"]
    /\ UNCHANGED <<repositoryVars, audited, accepted, calls>>

VersionIsNew(c) ==
    /\ ~Stored(call[c].key)
    /\ call[c].candidate.version \notin VersionsOf(call[c].key.policy)

(* save_new_version, audited before it commits *)
SaveVersion(c) ==
    /\ pc[c] = "save_version"
    /\ VersionIsNew(c)
    /\ Store(call[c].key, call[c].candidate)
    /\ Tell(call[c].key, call[c].candidate)
    /\ Return(c)
    /\ UNCHANGED <<simulations, decisions, audited, calls>>
-----------------------------------------------------------------------------
(* run_policy_simulation of a draft, with any outcome *)
Simulate(c) ==
    /\ \E k \in Keys, i \in SimulationIds, clean \in BOOLEAN :
        /\ IsDraft(k)
        /\ Begin(c, "simulate", "save_simulation",
                 [NoCall EXCEPT !.id = i,
                                !.result = [key |-> k, revision |-> policies[k].revision,
                                            content |-> policies[k].content, clean |-> clean]])
    /\ UNCHANGED <<repositoryVars, audited, accepted>>

SaveSimulation(c) ==
    /\ pc[c] = "save_simulation"
    /\ simulations[call[c].id] = None
    /\ simulations' = [simulations EXCEPT ![call[c].id] = call[c].result]
    /\ Goto(c, "audit_simulation")
    /\ UNCHANGED <<policies, decisions, audited, accepted, calls>>

SimulationAudited(c) ==
    /\ pc[c] = "audit_simulation"
    /\ Return(c)
    /\ UNCHANGED <<repositoryVars, audited, accepted, calls>>

SimulationAuditFails(c) ==
    /\ pc[c] = "audit_simulation"
    /\ "simulation_audit" \in Faults
    /\ simulations' = [simulations EXCEPT ![call[c].id] = None]
    /\ Return(c)
    /\ UNCHANGED <<policies, decisions, audited, accepted, calls>>

(* publish_policy reads a draft with a start, ... *)
Publish(c) ==
    /\ \E k \in Keys, i \in SimulationIds :
        /\ IsDraft(k)
        /\ WindowOf[policies[k].content].start # None
        /\ Begin(c, "publish", "evidence",
                 [NoCall EXCEPT !.key = k, !.base = policies[k], !.id = i])
    /\ UNCHANGED <<repositoryVars, audited, accepted>>

(* Mutation: the revision that was simulated does not matter. *)
SimulatesAnyRevision(s, k, p) == s.key = k /\ s.clean

(* _require_publication_simulation compares ids and revisions. *)
Simulates(s, k, p) == s.key = k /\ s.revision = p.revision /\ s.clean

EvidenceFound(c) ==
    /\ simulations[call[c].id] # None
    /\ Simulates(simulations[call[c].id], call[c].key, call[c].base)

(* ... then the simulation, and derives the published policy. *)
CheckEvidence(c) ==
    /\ pc[c] = "evidence"
    /\ EvidenceFound(c)
    /\ call' = [call EXCEPT ![c].candidate = Published(call[c].base),
                            ![c].result = simulations[call[c].id]]
    /\ pc' = [pc EXCEPT ![c] = "commit"]
    /\ UNCHANGED <<repositoryVars, audited, accepted, calls>>

WindowIsFree(c) ==
    \A l \in Keys \ {call[c].key} :
        IsPublished(l) =>
            ~Conflict(WindowOf[call[c].candidate.content], WindowOf[policies[l].content])

(* Mutation: the audit intent is not published. *)
NothingAudited(c) == UNCHANGED audited

PublicationAudited(c) ==
    audited' = audited \cup {[key |-> call[c].key, policy |-> call[c].candidate,
                              simulation |-> call[c].result]}

(* publish_if_no_window_conflict, audited before it commits *)
CommitPublication(c) ==
    /\ pc[c] = "commit"
    /\ BaseIsCurrent(c)
    /\ WindowIsFree(c)
    /\ PublicationAudited(c)
    /\ Store(call[c].key, call[c].candidate)
    /\ Tell(call[c].key, call[c].candidate)
    /\ Return(c)
    /\ UNCHANGED <<simulations, decisions, calls>>
-----------------------------------------------------------------------------
(* The keys that _select_published_policy finds. *)
Matches(product, channel, t) ==
    {k \in Keys : IsPublished(k) /\ AppliesTo(WindowOf[policies[k].content], product, channel, t)}

(* execute_credit_decision selects the one policy that applies, ... *)
Decide(c) ==
    /\ \E p \in Proposals, product \in Products, channel \in Channels, t \in Instants, k \in Keys :
        /\ Matches(product, channel, t) = {k}
        /\ Begin(c, "decide", "commit_decision",
                 [NoCall EXCEPT !.key = k, !.candidate = policies[k], !.proposal = p])
    /\ UNCHANGED <<repositoryVars, audited, accepted>>

Undecided(p) == decisions[p] = None

(* ... and saves the decision, audited before it commits. *)
CommitDecision(c) ==
    /\ pc[c] = "commit_decision"
    /\ Undecided(call[c].proposal)
    /\ decisions' = [decisions EXCEPT ![call[c].proposal] =
                        [key |-> call[c].key, policy |-> call[c].candidate]]
    /\ Return(c)
    /\ UNCHANGED <<policies, simulations, audited, accepted, calls>>

(* A repository refuses, *)
Refused(c) ==
    \/ pc[c] = "save_draft" /\ Stored(call[c].key)
    \/ pc[c] = "save_update" /\ ~BaseIsCurrent(c)
    \/ pc[c] = "save_version" /\ ~VersionIsNew(c)
    \/ pc[c] = "save_simulation" /\ simulations[call[c].id] # None
    \/ pc[c] = "evidence" /\ ~EvidenceFound(c)
    \/ pc[c] = "commit" /\ ~(BaseIsCurrent(c) /\ WindowIsFree(c))
    \/ pc[c] = "commit_decision" /\ ~Undecided(call[c].proposal)

(* or the audit intent before a commit does, *)
CommitAuditFails(c) ==
    pc[c] \in {"save_version", "commit", "commit_decision"} /\ "commit_audit" \in Faults

(* or the catalog of reason codes or an expired window: nothing is changed.  *)
Invalid(c) ==
    pc[c] \in {"save_draft", "save_update", "save_version", "commit", "commit_decision"}
        /\ "validation" \in Faults

Fail(c) ==
    /\ Refused(c) \/ CommitAuditFails(c) \/ Invalid(c)
    /\ Return(c)
    /\ UNCHANGED <<repositoryVars, audited, accepted, calls>>
-----------------------------------------------------------------------------
(* Begin asks for an idle caller too; here no locals are tried for others. *)
CallStep(c) ==
    /\ pc[c] = "idle"
    /\ \/ CreateDraft(c) \/ UpdateDraft(c) \/ CreateVersion(c)
       \/ Simulate(c) \/ Publish(c) \/ Decide(c)

Proceed(c) ==
    \/ SaveDraft(c) \/ DraftAuditFails(c)
    \/ SaveUpdate(c) \/ UpdateAuditFails(c)
    \/ ChangeAudited(c)
    \/ TakeNumber(c) \/ SaveVersion(c)
    \/ SaveSimulation(c) \/ SimulationAudited(c) \/ SimulationAuditFails(c)
    \/ CheckEvidence(c) \/ CommitPublication(c)
    \/ CommitDecision(c)
    \/ Fail(c)

(* The bound on calls is used up and every call has returned. *)
Finished ==
    /\ calls = MaxCalls
    /\ \A c \in Callers : pc[c] = "idle"
    /\ UNCHANGED vars

Next ==
    \/ \E c \in Callers : CallStep(c) \/ Proceed(c)
    \/ Finished

Spec == Init /\ [][Next]_vars
-----------------------------------------------------------------------------
(* Properties. *)

(* Whatever interleaves and fails, no decision ever finds two policies: the  *)
(* check of the windows under the repository's lock keeps published policies *)
(* of a product and channel apart, also for concurrent publications.         *)
SelectionUnambiguous ==
    \A product \in Products, channel \in Channels, t \in Instants :
        \A k, l \in Matches(product, channel, t) : k = l

(* A published policy in the store was audited as published, as it is.       *)
AuditedBeforeVisible ==
    \A k \in Keys : IsPublished(k) =>
        \E a \in audited : a.key = k /\ a.policy = policies[k]

(* What was published is what was simulated: the audited simulation of a     *)
(* stored published policy evaluated the content that decisions now use.     *)
PublishedWasSimulated ==
    \A k \in Keys : IsPublished(k) =>
        \E a \in audited : /\ a.key = k
                           /\ a.policy = policies[k]
                           /\ a.simulation.content = policies[k].content

(* No accepted change is lost: the policy a caller was told of is stored, or *)
(* was followed by a later revision; a failing call never undoes the change  *)
(* of another one.  (Where the audit of a created draft does not fail.)      *)
AcceptedKept ==
    \A k \in Keys : accepted[k] # None =>
        /\ Stored(k)
        /\ accepted[k].revision <= policies[k].revision
        /\ accepted[k].revision = policies[k].revision => accepted[k] = policies[k]

(* A decision can be explained: the policy it was taken with is still        *)
(* stored, published and unchanged.  (Under the same condition.)             *)
DecisionsExplained ==
    \A p \in Proposals : decisions[p] # None =>
        policies[decisions[p].key] = decisions[p].policy

(* A proposal is decided once.                                               *)
DecisionsFinal ==
    [][\A p \in Proposals : decisions[p] # None => decisions'[p] = decisions[p]]_vars

(* A published policy is never changed or removed.                           *)
PublishedIsFinal ==
    [][\A k \in Keys : IsPublished(k) => policies'[k] = policies[k]]_vars

(* The versions of a policy have different numbers.                          *)
VersionsDistinct ==
    \A k, l \in Keys :
        k.policy = l.policy /\ Stored(k) /\ Stored(l) /\ policies[k].version = policies[l].version
            => k = l

-----------------------------------------------------------------------------
(* What makes SelectionUnambiguous inductive. *)

(* Published policies do not conflict. *)
PublishedApart ==
    \A k, l \in Keys :
        /\ IsPublished(k) /\ IsPublished(l)
        /\ Conflict(WindowOf[policies[k].content], WindowOf[policies[l].content])
        => k = l

(* The locals a call needs in each of its phases; what it stores without a    *)
(* check of the windows is a draft.                                          *)
HasLocals(phase, l) ==
    /\ phase \notin {"idle", "save_simulation", "audit_simulation"} => l.key \in Keys
    /\ phase \notin {"idle", "number", "save_simulation", "audit_simulation", "evidence"}
          => l.candidate \in Policies
    /\ phase \in {"save_update", "audit_update", "evidence", "commit"} => l.base \in Policies
    /\ phase \in {"save_simulation", "audit_simulation", "evidence"} => l.id \in SimulationIds
    /\ phase \in {"save_simulation", "audit_simulation", "commit"} => l.result \in Simulations
    /\ phase = "commit_decision" => l.proposal \in Proposals
    /\ phase \in {"save_draft", "audit_draft", "save_update", "audit_update", "save_version"}
          => l.candidate.status = "draft"
    /\ phase \in {"save_update", "audit_update"} => l.base.status = "draft"

LocalsSet == \A c \in Callers : HasLocals(pc[c], call[c])

IInv == TypeOK /\ LocalsSet /\ PublishedApart

-----------------------------------------------------------------------------
(* What makes AcceptedKept, DecisionsExplained and PublishedWasSimulated      *)
(* inductive where no change is compensated: a policy is replaced only by    *)
(* its next revision, and not at all once it is published.                   *)

(* p is the policy of k, or an older revision of it. *)
Seen(k, p) ==
    /\ Stored(k)
    /\ p.revision <= policies[k].revision
    /\ p.revision = policies[k].revision => p = policies[k]

(* The simulation s evaluated the content of the policy, or of an older one. *)
Evaluated(s) ==
    /\ Stored(s.key)
    /\ s.revision <= policies[s.key].revision
    /\ s.revision = policies[s.key].revision => s.content = policies[s.key].content

(* What the locals of a call say of the repositories. *)
ReadAt(phase, l) ==
    /\ phase \in {"save_update", "evidence", "commit"} =>
          Seen(l.key, l.base) /\ l.base.status = "draft"
    /\ phase = "save_update" => l.candidate.revision = l.base.revision + 1
    /\ phase = "commit" => l.candidate = Published(l.base) /\ Simulates(l.result, l.key, l.base)
    /\ phase \in {"audit_draft", "audit_update"} => Seen(l.key, l.candidate)
    /\ phase = "commit_decision" => IsPublished(l.key) /\ policies[l.key] = l.candidate
    /\ phase \in {"save_simulation", "commit"} => Evaluated(l.result)

ReadsHold == \A c \in Callers : ReadAt(pc[c], call[c])

EvidenceHolds == \A i \in SimulationIds : simulations[i] # None => Evaluated(simulations[i])

DecidersPublished == \A p \in Proposals : decisions[p] # None => IsPublished(decisions[p].key)

SteadyInv ==
    /\ IInv
    /\ ReadsHold
    /\ EvidenceHolds
    /\ DecidersPublished
    /\ AcceptedKept
    /\ DecisionsExplained
    /\ PublishedWasSimulated
=============================================================================
