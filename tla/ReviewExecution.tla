---------------------------- MODULE ReviewExecution ----------------------------
(***************************************************************************)
(* Consultative reviews of services/automated-review: configurations of    *)
(* the review agent, edited and published under optimistic concurrency,    *)
(* and reviews that resolve one of them, reserve their id, call the        *)
(* executor and store evidence and execution, by application/service.py    *)
(* over the repositories of adapters/persistence.                          *)
(*                                                                         *)
(* A step is one critical section of a repository, or one call out.  One   *)
(* tenant is modelled: every key starts with tenant_id.                    *)
(***************************************************************************)
EXTENDS ReviewOutput, FiniteSets

CONSTANTS
    Callers,      \* threads that call the service
    Versions,     \* versions of the configuration
    Contents,     \* what a configuration may say
    Scopes,       \* product, channel and purpose of a review
    ScopesOf,     \* the scopes that a content is for
    Reviews,      \* execution ids
    Outputs,      \* what the executor may do
    Faults,       \* what may raise
    MaxRevision,  \* bound on the revisions of a version
    None          \* absence of a value

(* executor_missing: the service was built without an executor.  The evidence *)
(* of an accepted result is refused for the text of its ids, which is not     *)
(* modelled: any evidence may be.                                             *)
AllFaults == {"config_audit_raises", "executor_missing", "evidence_refused",
              "evidence_audit_raises", "execution_audit_raises"}

ASSUME ConstantsAssumption ==
    /\ ScopesOf \in [Contents -> SUBSET Scopes]
    /\ Faults \subseteq AllFaults
    /\ MaxRevision \in Nat
    /\ None \notin Versions \cup Callers

Changes == [type : {"created", "new_version_created", "updated", "published"},
            content : Contents]

(* revision is the number of entries of the changelog *)
Configurations == [status : {"draft", "published"}, content : Contents, changelog : Seq(Changes)]

Results == {Reviewed(o) : o \in Outputs}

(* What a review refers to: the version it resolved, with what it said. *)
References == [version : Versions, content : Contents]

Executions == [version : Versions, content : Contents, result : Results]

ASSUME NoneAssumption == None \notin Configurations \cup Executions

VARIABLES
    configs,     \* the stored versions of the configuration
    reserved,    \* execution ids that are reserved
    executions,  \* the stored executions
    evidence,    \* the stored consultative evidence
    committing,  \* the caller that holds the lock of the executions
    accepted,    \* the changes that callers were told are made
    raised,      \* reviews whose call raised after the reservation
    pc,          \* where every caller is in its call
    target,      \* the version, or the review, its call is about
    read,        \* the configuration it has read
    draft        \* the configuration, or the result, it is to store

stores == <<configs, reserved, executions, evidence, committing>>
localVars == <<pc, target, read, draft>>
vars == <<stores, accepted, raised, localVars>>

Steps == {"idle", "save", "add", "reserve", "execute", "commit", "audit"}

TypeOK ==
    /\ configs \in [Versions -> Configurations \cup {None}]
    /\ reserved \subseteq Reviews
    /\ executions \in [Reviews -> Executions \cup {None}]
    /\ evidence \in [Reviews -> {EvidenceOf(r) : r \in Results} \cup {None}]
    /\ committing \in Callers \cup {None}
    /\ accepted \in [Versions -> Seq(Changes)]
    /\ raised \subseteq Reviews
    /\ pc \in [Callers -> Steps]
    /\ target \in [Callers -> Versions \cup Reviews \cup {None}]
    /\ read \in [Callers -> Configurations \cup References \cup {None}]
    /\ draft \in [Callers -> Configurations \cup Results \cup {None}]

Init ==
    /\ configs = [v \in Versions |-> None]
    /\ reserved = {}
    /\ executions = [x \in Reviews |-> None]
    /\ evidence = [x \in Reviews |-> None]
    /\ committing = None
    /\ accepted = [v \in Versions |-> <<>>]
    /\ raised = {}
    /\ pc = [c \in Callers |-> "idle"]
    /\ target = [c \in Callers |-> None]
    /\ read = [c \in Callers |-> None]
    /\ draft = [c \in Callers |-> None]

-----------------------------------------------------------------------------
Goto(c, step) == pc' = [pc EXCEPT ![c] = step]

Done(c) ==
    /\ Goto(c, "idle")
    /\ target' = [target EXCEPT ![c] = None]
    /\ read' = [read EXCEPT ![c] = None]
    /\ draft' = [draft EXCEPT ![c] = None]

Prepare(c, step, about, seen, made) ==
    /\ pc[c] = "idle"
    /\ Goto(c, step)
    /\ target' = [target EXCEPT ![c] = about]
    /\ read' = [read EXCEPT ![c] = seen]
    /\ draft' = [draft EXCEPT ![c] = made]
    /\ UNCHANGED <<stores, accepted, raised>>

IsPublished(v) == configs[v] # None /\ configs[v].status = "published"

Exists(v) == configs[v] # None

(* _require_draft *)
IsDraft(v) == Exists(v) /\ configs[v].status = "draft"

Started(type, content) ==
    [status |-> "draft", content |-> content, changelog |-> <<[type |-> type, content |-> content]>>]

Revised(k, type, status, content) ==
    [status |-> status, content |-> content,
     changelog |-> Append(k.changelog, [type |-> type, content |-> content])]

-----------------------------------------------------------------------------
(* Configurations. *)

(* create_config, up to the repository *)
CreateConfig(c) ==
    \E v \in Versions, content \in Contents :
        Prepare(c, "add", v, None, Started("created", content))

(* create_config_version: from a published version, to an id that is free *)
CreateConfigVersion(c) ==
    \E v, w \in Versions :
        /\ IsPublished(v)
        /\ configs[w] = None
        /\ Prepare(c, "add", w, configs[v], Started("new_version_created", configs[v].content))

(* update_config, of a draft and with a change in it *)
UpdateConfig(c) ==
    \E v \in Versions, content \in Contents :
        /\ IsDraft(v)
        /\ content # configs[v].content
        /\ Len(configs[v].changelog) < MaxRevision
        /\ Prepare(c, "save", v, configs[v], Revised(configs[v], "updated", "draft", content))

(* publish_config *)
PublishConfig(c) ==
    \E v \in Versions :
        /\ IsDraft(v)
        /\ Prepare(c, "save", v, configs[v],
                   Revised(configs[v], "published", "published", configs[v].content))

(* The audit is published under the lock, before the version is visible. *)
Store(c) ==
    /\ configs' = [configs EXCEPT ![target[c]] = draft[c]]
    /\ accepted' = [accepted EXCEPT ![target[c]] =
                        Append(@, draft[c].changelog[Len(draft[c].changelog)])]

Refused(c) == UNCHANGED <<configs, accepted>>

(* create of the configuration repository *)
AddConfig(c) ==
    /\ pc[c] = "add"
    /\ \/ configs[target[c]] = None /\ Store(c)
       \/ configs[target[c]] # None /\ Refused(c)
       \/ "config_audit_raises" \in Faults /\ Refused(c)
    /\ Done(c)
    /\ UNCHANGED <<reserved, executions, evidence, committing, raised>>

NotCompared(c) == TRUE

(* What save_existing compares under its lock. *)
Unchanged(c) ==
    /\ Len(configs[target[c]].changelog) = Len(read[c].changelog)
    /\ configs[target[c]].status = read[c].status

(* save_existing of the configuration repository *)
SaveConfig(c) ==
    /\ pc[c] = "save"
    /\ \/ Unchanged(c) /\ Store(c)
       \/ ~Unchanged(c) /\ Refused(c)
       \/ "config_audit_raises" \in Faults /\ Refused(c)
    /\ Done(c)
    /\ UNCHANGED <<reserved, executions, evidence, committing, raised>>

-----------------------------------------------------------------------------
(* Reviews: execute_consultative_review. *)

(* Versions are found that are not published. *)
MatchingStored(s, pin) ==
    {v \in Versions : Exists(v) /\ s \in ScopesOf[configs[v].content] /\ pin \in {v, None}}

(* _resolve_referenceable_config: the only published version for the scope, *)
(* or the only one with the given id.                                       *)
Matching(s, pin) ==
    {v \in Versions : IsPublished(v) /\ s \in ScopesOf[configs[v].content] /\ pin \in {v, None}}

AsAsked(found, pin) == pin

(* The review keeps the id of the version it found, asked for or not. *)
Found(found, pin) == CHOOSE v \in found : TRUE

Resolve(c) ==
    \E x \in Reviews, s \in Scopes, pin \in Versions \cup {None} :
        LET found == Matching(s, pin) IN
        /\ Cardinality(found) = 1
        /\ Prepare(c, "reserve", x,
                   [version |-> Found(found, pin),
                    content |-> configs[CHOOSE v \in found : TRUE].content], None)

IsStored(x) == executions[x] # None

IsTaken(x) == x \in reserved \/ IsStored(x)

(* reserve of the execution repository *)
Reserve(c) ==
    /\ pc[c] = "reserve"
    /\ committing = None
    /\ IF IsTaken(target[c])
       THEN Done(c) /\ UNCHANGED reserved
       ELSE /\ reserved' = reserved \cup {target[c]}
            /\ Goto(c, "execute")
            /\ UNCHANGED <<target, read, draft>>
    /\ UNCHANGED <<configs, executions, evidence, committing, accepted, raised>>

(* A failure of the executor ends the call. *)
ExecuteOrFail(c) ==
    /\ pc[c] = "execute"
    /\ \E output \in Outputs :
        IF output.raises
        THEN Done(c)
        ELSE /\ draft' = [draft EXCEPT ![c] = Reviewed(output)]
             /\ Goto(c, "commit")
             /\ UNCHANGED <<target, read>>
    /\ UNCHANGED <<stores, accepted, raised>>

(* The executor answers or raises; both become a result. *)
Execute(c) ==
    /\ pc[c] = "execute"
    /\ \E output \in Outputs : draft' = [draft EXCEPT ![c] = Reviewed(output)]
    /\ Goto(c, "commit")
    /\ UNCHANGED <<stores, accepted, raised, target, read>>

AnyResult(result) == TRUE

IsAccepted(result) == result.status = "completed"

(* After the reservation the call raises where nothing catches it, before it  *)
(* comes to a lock: _require_consultative_executor finds none, or             *)
(* _consultative_evidence_from_result cannot make the evidence.               *)
ReviewRaises(c) ==
    /\ \/ pc[c] = "execute" /\ "executor_missing" \in Faults
       \/ pc[c] = "commit" /\ IsAccepted(draft[c]) /\ "evidence_refused" \in Faults
    /\ raised' = raised \cup {target[c]}
    /\ Done(c)
    /\ UNCHANGED <<stores, accepted>>

(* create of the execution repository: its lock is held while the evidence is *)
(* created, if the result is accepted, which is audited and visible at once.  *)
CommitEvidence(c) ==
    /\ pc[c] = "commit"
    /\ committing = None
    /\ \/ /\ IsAccepted(draft[c])
          /\ evidence' = [evidence EXCEPT ![target[c]] = EvidenceOf(draft[c])]
          /\ committing' = c
          /\ Goto(c, "audit")
          /\ UNCHANGED <<raised, target, read, draft>>
       \/ /\ ~IsAccepted(draft[c])
          /\ committing' = c
          /\ Goto(c, "audit")
          /\ UNCHANGED <<evidence, raised, target, read, draft>>
       \/ /\ IsAccepted(draft[c])
          /\ "evidence_audit_raises" \in Faults
          /\ raised' = raised \cup {target[c]}
          /\ Done(c)
          /\ UNCHANGED <<evidence, committing>>
    /\ UNCHANGED <<configs, reserved, executions, accepted>>

(* The audit of the execution, then the execution itself. *)
CommitExecution(c) ==
    /\ pc[c] = "audit"
    /\ committing' = None
    /\ \/ /\ executions' = [executions EXCEPT ![target[c]] =
                [version |-> read[c].version, content |-> read[c].content, result |-> draft[c]]]
          /\ reserved' = reserved \ {target[c]}
          /\ UNCHANGED raised
       \/ /\ "execution_audit_raises" \in Faults
          /\ raised' = raised \cup {target[c]}
          /\ UNCHANGED <<executions, reserved>>
    /\ Done(c)
    /\ UNCHANGED <<configs, evidence, accepted>>

-----------------------------------------------------------------------------
(* A call that has begun goes on to its end. *)
Continue(c) ==
    \/ AddConfig(c) \/ SaveConfig(c)
    \/ Reserve(c) \/ Execute(c) \/ ReviewRaises(c) \/ CommitEvidence(c) \/ CommitExecution(c)

Next ==
    \E c \in Callers :
        \/ CreateConfig(c) \/ CreateConfigVersion(c) \/ UpdateConfig(c) \/ PublishConfig(c)
        \/ Resolve(c)
        \/ Continue(c)

Spec == Init /\ [][Next]_vars

FairSpec == Spec /\ \A c \in Callers : WF_vars(Continue(c))

-----------------------------------------------------------------------------
(* Every change that a caller was told is made is in the changelog of its     *)
(* version, in order, and nothing else is: concurrent editors who read the    *)
(* same revision do not overwrite each other.                                 *)
ChangesKept ==
    \A v \in Versions :
        accepted[v] = IF configs[v] = None THEN <<>> ELSE configs[v].changelog

(* What a stored review was made with is still what its version says, and     *)
(* that version is published, however long the review took and whatever was   *)
(* edited meanwhile.                                                          *)
ReviewsPinned ==
    \A x \in Reviews : executions[x] # None =>
        /\ IsPublished(executions[x].version)
        /\ configs[executions[x].version].content = executions[x].content

(* Evidence and execution agree: a stored review has evidence exactly when    *)
(* its output was accepted; and evidence of a review that is not stored is    *)
(* the work of the caller that holds the lock, or of one that raised.         *)
EvidenceMatches ==
    \A x \in Reviews :
        /\ executions[x] # None =>
            evidence[x] = IF executions[x].result.status = "completed"
                          THEN EvidenceOf(executions[x].result) ELSE None
        /\ evidence[x] # None /\ executions[x] = None =>
            \/ x \in raised
            \/ committing # None /\ target[committing] = x /\ pc[committing] = "audit"

Working(x) == {c \in Callers : pc[c] \in {"execute", "commit", "audit"} /\ target[c] = x}

(* A reserved id has one caller at work on it, or its call raised: two calls  *)
(* with one id never both ask the executor, and nothing else keeps an id      *)
(* reserved, which it then is for ever.                                       *)
ReservationsOwned ==
    \A x \in Reviews :
        /\ Cardinality(Working(x)) <= 1
        /\ x \in reserved <=> Working(x) # {} \/ x \in raised
        /\ x \in reserved => executions[x] = None

(* The constructor of the result refuses no result of the service: that an    *)
(* executor answers badly never ends a call before it has a result to store.  *)
ResultsWellFormed ==
    \A c \in Callers : pc[c] \in {"commit", "audit"} => WellFormed(draft[c])

(* Result, execution and evidence of a review agree.                          *)
ResultsAgree == EvidenceMatches /\ ResultsWellFormed

PublishedStays ==
    \A v \in Versions : IsPublished(v) => configs'[v] = configs[v]

(* After every step the changes that editors were told are made are kept, and *)
(* a published version, which reviews may use, never changes any more.        *)
ConfigurationsKept == [][ChangesKept' /\ PublishedStays]_vars

(* A reserved review is stored, unless its call raised where nothing catches: *)
(* there is no executor, the evidence is refused, or an audit raises.  What   *)
(* an executor raises or answers never is such a failure.                     *)
ReservedIsReviewed ==
    \A x \in Reviews : x \in reserved ~> executions[x] # None \/ x \in raised

(* A failing audit leaves no visible evidence: evidence without its execution *)
(* is only seen while its caller commits.                                     *)
NoEvidenceAfterFailedAudit ==
    \A x \in Reviews : evidence[x] # None /\ executions[x] = None => x \notin raised

-----------------------------------------------------------------------------
(* What makes the safety properties inductive. *)

Reviewing == {"reserve", "execute", "commit", "audit"}

Holders == {c \in Callers : pc[c] \in {"execute", "commit", "audit"}}

(* The version that a reference was made of is published and says the same. *)
Stands(r) == IsPublished(r.version) /\ configs[r.version].content = r.content

(* What is stored of a version goes on from what was read of it. *)
Follows(k, seen) ==
    /\ k # None
    /\ Len(seen.changelog) <= Len(k.changelog)
    /\ \A i \in DOMAIN seen.changelog : k.changelog[i] = seen.changelog[i]

(* What a place in a call says about what the call has read and made. *)
PlaceConsistent(c) ==
    /\ pc[c] \in {"add", "save"} => target[c] \in Versions /\ draft[c] \in Configurations
    /\ pc[c] = "add" => Len(draft[c].changelog) = 1
    /\ pc[c] = "save" =>
        /\ read[c] \in Configurations
        /\ read[c].status = "draft"
        /\ \E change \in Changes : draft[c].changelog = Append(read[c].changelog, change)
        /\ Follows(configs[target[c]], read[c])
    /\ pc[c] \in Reviewing =>
        target[c] \in Reviews /\ read[c] \in References /\ Stands(read[c])
    /\ pc[c] \in {"commit", "audit"} => draft[c] \in Results
    /\ pc[c] = "audit" =>
        evidence[target[c]] = IF IsAccepted(draft[c]) THEN EvidenceOf(draft[c]) ELSE None

(* The lock of the executions is with the caller that is between the two    *)
(* commits; a review has one caller at work on it, and none once it raised. *)
LockConsistent == \A c \in Callers : pc[c] = "audit" <=> committing = c

HoldersApart ==
    /\ \A c, d \in Holders : target[c] = target[d] => c = d
    /\ \A c \in Holders : target[c] \in reserved \ raised
    /\ \A x \in reserved : x \in raised \/ \E c \in Holders : target[c] = x
    /\ raised \subseteq reserved
    /\ \A x \in reserved : executions[x] = None

IInv ==
    /\ TypeOK
    /\ \A c \in Callers : PlaceConsistent(c)
    /\ LockConsistent
    /\ HoldersApart
    /\ ChangesKept
    /\ ReviewsPinned
    /\ EvidenceMatches
=============================================================================
