---------------------------- MODULE DecisionQueries ----------------------------
(***************************************************************************)
(* Decisions of services/decision and what clients are told of them:       *)
(* execute_credit_decision from its evaluation on, the public query for    *)
(* the decision or the status of a proposal and the explanation of a       *)
(* decision, called at the same time.                                      *)
(*                                                                         *)
(* Stores are locked: a step is one critical section, and the store of     *)
(* decisions stays locked while the audit intent of a decision is          *)
(* published.  One tenant is modelled: every key starts with tenant_id.    *)
(* A decision is its id and the proposal it is of.                         *)
(***************************************************************************)
EXTENDS Naturals

CONSTANTS
    Callers,      \* threads that call the service
    Proposals,
    DecisionIds,
    MaxCalls,     \* bound on the number of calls
    None          \* absence of a value

Decisions == [id : DecisionIds, proposal : Proposals]

(* PUBLIC_PROPOSAL_STATUS_VALUES *)
ProposalStatuses == {"submitted", "processing"}

ASSUME ConstantsAssumption ==
    /\ None \notin Callers \cup Decisions
    /\ None \notin Proposals \cup ProposalStatuses
    /\ MaxCalls \in Nat

VARIABLES
    decisions,  \* the stored decisions
    statuses,   \* the status snapshot of each proposal
    lock,       \* the caller that holds the lock of the decisions
    trail,      \* the audit intents that were published
    pc,         \* where every caller is in its call
    about,      \* the proposal its call is about
    found,      \* the decision its call has made or read
    status,     \* the status it has read
    told,       \* the answers that were given: [proposal, decision]
    views,      \* what a client could have been told since its call began
    calls       \* number of calls so far

locals == <<about, found, status>>
vars == <<decisions, statuses, lock, trail, pc, locals, told, views, calls>>

Steps ==
    {"idle", "save", "publish", "commit", "query", "status", "reread", "explain", "answer", "find",
     "justify", "inform"}

Intents == [event : {"completed", "rejected", "retrieved", "query_rejected"}, proposal : Proposals]

TypeOK ==
    /\ decisions \subseteq Decisions
    /\ statuses \in [Proposals -> ProposalStatuses \cup {None}]
    /\ lock \in Callers \cup {None}
    /\ trail \subseteq Intents
    /\ pc \in [Callers -> Steps]
    /\ about \in [Callers -> Proposals \cup {None}]
    /\ found \in [Callers -> Decisions \cup {None}]
    /\ status \in [Callers -> ProposalStatuses \cup {None}]
    /\ told \subseteq Decisions
    /\ views \in [Callers -> SUBSET ([decision : Decisions \cup {None},
                                      status : ProposalStatuses \cup {None}])]
    /\ calls \in 0..MaxCalls

Init ==
    /\ decisions = {}
    /\ statuses = [p \in Proposals |-> None]
    /\ lock = None
    /\ trail = {}
    /\ pc = [c \in Callers |-> "idle"]
    /\ about = [c \in Callers |-> None]
    /\ found = [c \in Callers |-> None]
    /\ status = [c \in Callers |-> None]
    /\ told = {}
    /\ views = [c \in Callers |-> {}]
    /\ calls = 0

-----------------------------------------------------------------------------
Of(p) == {d \in decisions : d.proposal = p}

(* get_by_proposal: the index holds the last decision saved, were there more *)
DecisionOf(p) == IF Of(p) = {} THEN None ELSE CHOOSE d \in Of(p) : TRUE

(* What the stores say of a proposal: its decision, else its status *)
View(decision, proposalStatus) ==
    [decision |-> decision, status |-> IF decision = None THEN proposalStatus ELSE None]

ViewOf(p) == View(DecisionOf(p), statuses[p])

Goto(c, step) == pc' = [pc EXCEPT ![c] = step]

Publish(event, p) == trail' = trail \cup {[event |-> event, proposal |-> p]}

(* The intent of a rejection is published, or its failure passed over *)
MayPublish(event, p) == Publish(event, p) \/ UNCHANGED trail

Done(c) ==
    /\ Goto(c, "idle")
    /\ about' = [about EXCEPT ![c] = None]
    /\ found' = [found EXCEPT ![c] = None]
    /\ status' = [status EXCEPT ![c] = None]

Begin(c, p, step) ==
    /\ pc[c] = "idle"
    /\ calls < MaxCalls
    /\ calls' = calls + 1
    /\ Goto(c, step)
    /\ about' = [about EXCEPT ![c] = p]
    /\ UNCHANGED status

Reads(c) == lock \in {None, c}

Find(c, decision) == found' = [found EXCEPT ![c] = decision]

-----------------------------------------------------------------------------
(* execute_credit_decision: the policy and the catalog have been read and the *)
(* decision made, with an explanation that its client may see                 *)
Execute(c) ==
    /\ \E d \in Decisions : Begin(c, d.proposal, "save") /\ Find(c, d)
    /\ UNCHANGED <<decisions, statuses, lock, trail, told>>

NewId(d) == \A e \in decisions : e.id # d.id

(* save: neither the id nor the proposal has a decision *)
IsNew(d) == \A e \in decisions : e.id # d.id /\ e.proposal # d.proposal

Lock(c) ==
    /\ pc[c] = "save"
    /\ lock = None
    /\ IF IsNew(found[c])
       THEN /\ lock' = c
            /\ Goto(c, "publish")
            /\ UNCHANGED <<trail, locals>>
       ELSE /\ MayPublish("rejected", about[c])
            /\ Done(c)
            /\ UNCHANGED lock
    /\ UNCHANGED <<decisions, statuses, told, calls>>

CommitUnaudited(c) == Goto(c, "commit") /\ UNCHANGED <<trail, lock, locals>>

(* A raising before_commit leaves the lock and nothing else *)
Abandon(c) == MayPublish("rejected", about[c]) /\ lock' = None /\ Done(c)

(* publish_audit_before_commit, under the lock *)
PublishCompleted(c) ==
    /\ pc[c] = "publish"
    /\ \/ Publish("completed", about[c]) /\ Goto(c, "commit") /\ UNCHANGED <<lock, locals>>
       \/ Abandon(c)
    /\ UNCHANGED <<decisions, statuses, told, calls>>

Commit(c) ==
    /\ pc[c] = "commit"
    /\ decisions' = decisions \cup {found[c]}
    /\ lock' = None
    /\ Done(c)
    /\ UNCHANGED <<statuses, trail, told, calls>>

-----------------------------------------------------------------------------
(* get_public_credit_decision_by_proposal *)
Query(c) ==
    /\ \E p \in Proposals : Begin(c, p, "query")
    /\ UNCHANGED <<decisions, statuses, lock, trail, found, told>>

(* _publish_public_credit_decision_query_rejection_intent *)
PublishRejection(c) == MayPublish("query_rejected", about[c])

(* A rejected or failed query: decision_not_available, decision_query_failed *)
Refuse(c) == PublishRejection(c) /\ Done(c)

ReadDecision(c) ==
    /\ pc[c] = "query"
    /\ Reads(c)
    /\ Find(c, DecisionOf(about[c]))
    /\ Goto(c, IF DecisionOf(about[c]) = None THEN "status" ELSE "explain")
    /\ UNCHANGED <<decisions, statuses, lock, trail, about, status, told, calls>>

AnswersAtOnce == "answer"

(* A status is answered with only after the decision has been read again *)
AfterStatus == "reread"

(* _public_proposal_status_snapshot *)
ReadStatus(c) ==
    /\ pc[c] = "status"
    /\ IF statuses[about[c]] = None
       THEN Refuse(c)
       ELSE /\ status' = [status EXCEPT ![c] = statuses[about[c]]]
            /\ Goto(c, AfterStatus)
            /\ UNCHANGED <<trail, about, found>>
    /\ UNCHANGED <<decisions, statuses, lock, told, calls>>

ReadAgain(c) ==
    /\ pc[c] = "reread"
    /\ Reads(c)
    /\ Find(c, DecisionOf(about[c]))
    /\ Goto(c, IF DecisionOf(about[c]) = None THEN "answer" ELSE "explain")
    /\ UNCHANGED <<decisions, statuses, lock, trail, about, status, told, calls>>

(* The catalog is read and the explanation made, or one of them raises *)
Explain(c) ==
    /\ pc[c] = "explain"
    /\ \/ Goto(c, "answer") /\ UNCHANGED <<trail, locals>>
       \/ Refuse(c)
    /\ UNCHANGED <<decisions, statuses, lock, told, calls>>

Tell(c) == told' = IF found[c] = None THEN told ELSE told \cup {found[c]}

(* The intent of the retrieval is published and the answer returned, or *)
(* publishing raises and the query fails                                *)
Answer(c) ==
    /\ pc[c] = "answer"
    /\ \/ Publish("retrieved", about[c]) /\ Tell(c) /\ Done(c)
       \/ Refuse(c) /\ UNCHANGED told
    /\ UNCHANGED <<decisions, statuses, lock, calls>>

-----------------------------------------------------------------------------
(* get_credit_decision and get_credit_decision_by_proposal: one read *)
AskWhy(c) ==
    /\ \E p \in Proposals : Begin(c, p, "find")
    /\ UNCHANGED <<decisions, statuses, lock, trail, found, told>>

FindDecision(c) ==
    /\ pc[c] = "find"
    /\ Reads(c)
    /\ IF DecisionOf(about[c]) = None
       THEN MayPublish("rejected", about[c]) /\ Done(c)
       ELSE /\ Find(c, DecisionOf(about[c]))
            /\ Goto(c, "justify")
            /\ UNCHANGED <<trail, about, status>>
    /\ UNCHANGED <<decisions, statuses, lock, told, calls>>

(* _build_credit_decision_explanation_result up to its audit intent *)
Justify(c) ==
    /\ pc[c] = "justify"
    /\ \/ Goto(c, "inform") /\ UNCHANGED <<trail, locals>>
       \/ MayPublish("rejected", about[c]) /\ Done(c)
    /\ UNCHANGED <<decisions, statuses, lock, told, calls>>

Inform(c) ==
    /\ pc[c] = "inform"
    /\ \/ Publish("retrieved", about[c]) /\ Tell(c)
       \/ MayPublish("rejected", about[c]) /\ UNCHANGED told
    /\ Done(c)
    /\ UNCHANGED <<decisions, statuses, lock, calls>>

-----------------------------------------------------------------------------
(* save of a snapshot, by whatever projects the events of proposal-intake: *)
(* the last one saved stays, in whatever order they come                   *)
SaveStatus ==
    /\ \E p \in Proposals, s \in ProposalStatuses :
        /\ statuses[p] # s
        /\ statuses' = [statuses EXCEPT ![p] = s]
    /\ UNCHANGED <<decisions, lock, trail, pc, locals, told, calls>>

Call(c) ==
    \/ Lock(c) \/ PublishCompleted(c) \/ Commit(c)
    \/ ReadDecision(c) \/ ReadStatus(c) \/ ReadAgain(c) \/ Explain(c) \/ Answer(c)
    \/ FindDecision(c) \/ Justify(c) \/ Inform(c)

(* What each call in progress could have been told, up to now *)
Observe ==
    views' = [c \in Callers |->
                IF about'[c] = None THEN {} ELSE views[c] \cup {ViewOf(about[c])'}]

Start(c) == Execute(c) \/ Query(c) \/ AskWhy(c)

Next ==
    /\ SaveStatus \/ \E c \in Callers : Start(c) \/ Call(c)
    /\ Observe

Spec == Init /\ [][Next]_vars

-----------------------------------------------------------------------------
(* What a query is about to answer was, at some instant since it began, what *)
(* the stores said: the decision, or a status when there was no decision, or *)
(* nothing when there was neither.  Decision and status are read one after   *)
(* the other, and a decision may be saved in between.                        *)
AnswersWereTrue ==
    \A c \in Callers :
        /\ pc[c] \in {"answer", "inform"} => View(found[c], status[c]) \in views[c]
        /\ pc[c] = "status" /\ statuses[about[c]] = None => View(None, None) \in views[c]

(* Evidence comes first: a decision is stored only when the intent of its    *)
(* completion was published, and no client was told of one without it being  *)
(* stored and the intent of its retrieval published.                         *)
EvidencePrecedes ==
    /\ \A d \in decisions : [event |-> "completed", proposal |-> d.proposal] \in trail
    /\ \A d \in told :
        d \in decisions /\ [event |-> "retrieved", proposal |-> d.proposal] \in trail

Evidence == INSTANCE WriteOnce WITH bound <- {<<d.proposal, d>> : d \in decisions}

(* A proposal is decided once and keeps its decision, however many calls     *)
(* decide it at the same time; what clients were told is never taken back.   *)
ImplementsWriteOnce == Evidence!Spec

(* The audit that is published under the lock of the decisions never leaves   *)
(* it locked, whatever raises: whoever holds it is in a call that goes on to  *)
(* release it, so that no query waits for ever.                               *)
LockIsInUse == lock # None => pc[lock] \in {"publish", "commit"}

(* Evidence is published under the lock before what it is about can be seen,  *)
(* and the lock is never left behind.                                         *)
EvidenceUnderLock == EvidencePrecedes /\ LockIsInUse
=============================================================================
