-------------------------- MODULE ProposalSubmission --------------------------
(***************************************************************************)
(* Submission of proposals in services/proposal-intake: the calls          *)
(* validate_and_normalize, submit_idempotent and                           *)
(* submit_with_initial_status_and_outbox of application/service.py, running *)
(* concurrently over the four repositories of adapters/persistence.        *)
(*                                                                         *)
(* Each repository has a lock of its own, so a step is one repository call. *)
(* submit_with_initial_status_and_outbox holds the lock of the service     *)
(* around all its steps; the two other calls do not take it.  One tenant is *)
(* modelled: every repository key starts with tenant_id.                   *)
(***************************************************************************)
EXTENDS Naturals

CONSTANTS
    Callers,    \* threads that call the service
    Scopes,     \* pairs of a technical client and an idempotency key
    Externals,  \* external_proposal_id values
    Bodies,     \* the rest of a canonical payload
    Entries,    \* which of the three calls are used
    Faults,     \* which repository calls may raise
    MaxCalls,   \* bound on the number of calls in a behaviour
    Normalized, \* a proposal stored by validate_and_normalize, without an id
    None        \* absence of a stored value

AllEntries == {"normalize", "direct", "full"}

AllFaults == {"save_raises", "delete_raises"}

(* _fingerprint_proposal and _proposal_id hash these parts. *)
Prints == [external : Externals, body : Bodies]
Ids == [scope : Scopes, print : Prints]

ASSUME ConstantsAssumption ==
    /\ Entries \subseteq AllEntries
    /\ Faults \subseteq AllFaults
    /\ MaxCalls \in Nat

ASSUME NoneAssumption ==
    /\ None \notin Prints
    /\ None \notin Ids
    /\ None \notin Callers
    /\ Normalized \notin Ids
    /\ Normalized # None

VARIABLES
    proposals,      \* the canonical proposal stored for every external id
    submissions,    \* the fingerprint submitted in every scope
    statuses,       \* proposals with an initial status
    outbox,         \* proposals with a pending submitted event
    lock,           \* who holds _initial_status_outbox_lock
    pc,             \* where every caller is in its call
    call,           \* its entry point, scope and fingerprint
    calls           \* number of calls made so far

recordVars == <<statuses, outbox>>
vars == <<proposals, submissions, recordVars, lock, pc, call, calls>>

Resting == {"idle", "accepted", "rejected"}

Undoing == {"undo_outbox", "undo_status", "undo_submission", "undo_proposal"}

Phases == Resting \cup Undoing \cup
            {"lock", "find", "save", "submit", "discard", "withdraw",
             "compare", "status", "outbox", "refuse"}

NoCall == [entry |-> None, scope |-> None, print |-> None]

TypeOK ==
    /\ proposals \in [Externals -> Ids \cup {Normalized, None}]
    /\ submissions \in [Scopes -> Prints \cup {None}]
    /\ statuses \subseteq Ids
    /\ outbox \subseteq Ids
    /\ lock \in Callers \cup {None}
    /\ pc \in [Callers -> Phases]
    /\ call \in [Callers -> [entry : {"direct", "full"}, scope : Scopes, print : Prints]
                            \cup {NoCall}]
    /\ calls \in Nat

Init ==
    /\ proposals = [x \in Externals |-> None]
    /\ submissions = [s \in Scopes |-> None]
    /\ statuses = {}
    /\ outbox = {}
    /\ lock = None
    /\ pc = [c \in Callers |-> "idle"]
    /\ call = [c \in Callers |-> NoCall]
    /\ calls = 0

-----------------------------------------------------------------------------
IdOf(c) == [scope |-> call[c].scope, print |-> call[c].print]

External(c) == call[c].print.external

Submitted(c) == submissions[call[c].scope]

IsFull(c) == call[c].entry = "full"

Goto(c, phase) == pc' = [pc EXCEPT ![c] = phase]

(* Leaving the with block releases the lock. *)
LockLeft(c) == IF lock = c THEN None ELSE lock

Accept(c) == Goto(c, "accepted") /\ lock' = LockLeft(c)

(* validate_and_normalize: one call of save *)
Normalize(c) ==
    /\ "normalize" \in Entries
    /\ pc[c] \in Resting
    /\ calls < MaxCalls
    /\ calls' = calls + 1
    /\ \E x \in Externals :
        /\ proposals' = IF proposals[x] = None
                          THEN [proposals EXCEPT ![x] = Normalized] ELSE proposals
        /\ Goto(c, IF proposals[x] = None THEN "accepted" ELSE "rejected")
    /\ call' = [call EXCEPT ![c] = NoCall]
    /\ UNCHANGED <<submissions, recordVars, lock>>

(* submit_idempotent or submit_with_initial_status_and_outbox is called *)
Submit(c) ==
    /\ pc[c] \in Resting
    /\ calls < MaxCalls
    /\ calls' = calls + 1
    /\ \E e \in Entries \ {"normalize"}, s \in Scopes, p \in Prints :
        /\ call' = [call EXCEPT ![c] = [entry |-> e, scope |-> s, print |-> p]]
        /\ Goto(c, IF e = "full" THEN "lock" ELSE "find")
    /\ UNCHANGED <<proposals, submissions, recordVars, lock>>

Lock(c) ==
    /\ pc[c] = "lock"
    /\ lock = None
    /\ lock' = c
    /\ Goto(c, "find")
    /\ UNCHANGED <<proposals, submissions, recordVars, call, calls>>

-----------------------------------------------------------------------------
(* submit_idempotent *)

(* find: an unused scope, ... *)
FindNothing(c) ==
    /\ pc[c] = "find"
    /\ Submitted(c) = None
    /\ Goto(c, "save")
    /\ UNCHANGED <<proposals, submissions, recordVars, lock, call, calls>>

(* ... an equivalent submission, which is replayed, ... *)
FindReplay(c) ==
    /\ pc[c] = "find"
    /\ Submitted(c) = call[c].print
    /\ IF IsFull(c) THEN Goto(c, "compare") /\ UNCHANGED lock ELSE Accept(c)
    /\ UNCHANGED <<proposals, submissions, recordVars, call, calls>>

(* ... or another one: a conflict. *)
FindConflict(c) ==
    /\ pc[c] = "find"
    /\ Submitted(c) \notin {None, call[c].print}
    /\ Goto(c, "refuse")
    /\ UNCHANGED <<proposals, submissions, recordVars, lock, call, calls>>

(* Mutation: save overwrites. *)
AlwaysSaves(x) == TRUE

CanSave(x) == proposals[x] = None

SaveProposal(c) ==
    /\ pc[c] = "save"
    /\ CanSave(External(c))
    /\ proposals' = [proposals EXCEPT ![External(c)] = IdOf(c)]
    /\ Goto(c, "submit")
    /\ UNCHANGED <<submissions, recordVars, lock, call, calls>>

(* duplicate_external_proposal_id *)
SaveDuplicate(c) ==
    /\ pc[c] = "save"
    /\ ~CanSave(External(c))
    /\ Goto(c, "refuse")
    /\ UNCHANGED <<proposals, submissions, recordVars, lock, call, calls>>

Resolution(c) ==
    CASE Submitted(c) = None -> "created"
      [] Submitted(c) = call[c].print -> "replayed"
      [] OTHER -> "conflicted"

(* The phase that follows a resolution of submit_once. *)
Resolved(c) ==
    CASE Resolution(c) = "conflicted" -> "discard"
      [] ~IsFull(c) -> "accepted"
      [] Resolution(c) = "created" -> "status"
      [] Resolution(c) = "replayed" -> "compare"

SubmitOnce(c) ==
    /\ pc[c] = "submit"
    /\ submissions' = IF Resolution(c) = "created"
                        THEN [submissions EXCEPT ![call[c].scope] = call[c].print]
                        ELSE submissions
    /\ Goto(c, Resolved(c))
    /\ UNCHANGED <<proposals, recordVars, lock, call, calls>>

(* A conflict: the proposal is deleted ... *)
Discard(c) ==
    /\ pc[c] = "discard"
    /\ proposals' = [proposals EXCEPT ![External(c)] = None]
    /\ Goto(c, "withdraw")
    /\ UNCHANGED <<submissions, recordVars, lock, call, calls>>

DiscardFails(c) ==
    /\ pc[c] = "discard"
    /\ "delete_raises" \in Faults
    /\ Goto(c, "withdraw")
    /\ UNCHANGED <<proposals, submissions, recordVars, lock, call, calls>>

(* Mutation: rollback does not compare fingerprints. *)
AlwaysRolledBack(c) == [submissions EXCEPT ![call[c].scope] = None]

(* rollback deletes a submission only if it has the caller's fingerprint *)
RolledBack(c) ==
    IF Submitted(c) = call[c].print
      THEN [submissions EXCEPT ![call[c].scope] = None] ELSE submissions

(* ... and, in any case, the submission is rolled back. *)
Withdraw(c) ==
    /\ pc[c] = "withdraw"
    /\ submissions' = RolledBack(c)
    /\ Goto(c, "refuse")
    /\ UNCHANGED <<proposals, recordVars, lock, call, calls>>

-----------------------------------------------------------------------------
(* submit_with_initial_status_and_outbox, after submit_idempotent.  Only      *)
(* holders of the service lock touch the statuses and the outbox, so the two *)
(* lookups of a replay are one step.                                         *)

Recorded(id) == id \in statuses /\ id \in outbox

CompareReplay(c) ==
    /\ pc[c] = "compare"
    /\ Recorded(IdOf(c))
    /\ Accept(c)
    /\ UNCHANGED <<proposals, submissions, recordVars, call, calls>>

(* missing_initial_status_or_outbox *)
CompareMissing(c) ==
    /\ pc[c] = "compare"
    /\ ~Recorded(IdOf(c))
    /\ Goto(c, "refuse")
    /\ UNCHANGED <<proposals, submissions, recordVars, lock, call, calls>>

(* save_initial; a status that is already there is equal or raises *)
RecordStatus(c) ==
    /\ pc[c] = "status"
    /\ statuses' = statuses \cup {IdOf(c)}
    /\ Goto(c, "outbox")
    /\ UNCHANGED <<proposals, submissions, outbox, lock, call, calls>>

(* save_pending *)
PrepareEvent(c) ==
    /\ pc[c] = "outbox"
    /\ outbox' = outbox \cup {IdOf(c)}
    /\ Accept(c)
    /\ UNCHANGED <<proposals, submissions, statuses, call, calls>>

(* The clock, the construction of the event or one of the two saves raises. *)
RecordingFails(c) ==
    /\ pc[c] \in {"status", "outbox"}
    /\ \/ "save_raises" \in Faults
       \/ pc[c] = "status" /\ IdOf(c) \in statuses
       \/ pc[c] = "outbox" /\ IdOf(c) \in outbox
    /\ Goto(c, "undo_outbox")
    /\ UNCHANGED <<proposals, submissions, recordVars, lock, call, calls>>

(* The compensation: four deletions in this order. *)
UndoOutbox(c) ==
    /\ pc[c] = "undo_outbox"
    /\ outbox' = outbox \ {IdOf(c)}
    /\ Goto(c, "undo_status")
    /\ UNCHANGED <<proposals, submissions, statuses, lock, call, calls>>

(* Mutation: the status is not deleted. *)
UndoStatusForgotten(c) ==
    /\ pc[c] = "undo_status"
    /\ Goto(c, "undo_submission")
    /\ UNCHANGED <<proposals, submissions, recordVars, lock, call, calls>>

UndoStatus(c) ==
    /\ pc[c] = "undo_status"
    /\ statuses' = statuses \ {IdOf(c)}
    /\ Goto(c, "undo_submission")
    /\ UNCHANGED <<proposals, submissions, outbox, lock, call, calls>>

UndoSubmission(c) ==
    /\ pc[c] = "undo_submission"
    /\ submissions' = RolledBack(c)
    /\ Goto(c, "undo_proposal")
    /\ UNCHANGED <<proposals, recordVars, lock, call, calls>>

UndoProposal(c) ==
    /\ pc[c] = "undo_proposal"
    /\ proposals' = [proposals EXCEPT ![External(c)] = None]
    /\ Goto(c, "refuse")
    /\ UNCHANGED <<submissions, recordVars, lock, call, calls>>

(* A deletion raises: the rest of the compensation is skipped. *)
UndoFails(c) ==
    /\ pc[c] \in Undoing
    /\ "delete_raises" \in Faults
    /\ Goto(c, "refuse")
    /\ UNCHANGED <<proposals, submissions, recordVars, lock, call, calls>>

(* The error leaves the call. *)
Refuse(c) ==
    /\ pc[c] = "refuse"
    /\ Goto(c, "rejected")
    /\ lock' = LockLeft(c)
    /\ UNCHANGED <<proposals, submissions, recordVars, call, calls>>
-----------------------------------------------------------------------------
Proceed(c) ==
    \/ Lock(c)
    \/ FindNothing(c) \/ FindReplay(c) \/ FindConflict(c)
    \/ SaveProposal(c) \/ SaveDuplicate(c)
    \/ SubmitOnce(c) \/ Discard(c) \/ DiscardFails(c) \/ Withdraw(c)
    \/ CompareReplay(c) \/ CompareMissing(c)
    \/ RecordStatus(c) \/ PrepareEvent(c) \/ RecordingFails(c)
    \/ UndoOutbox(c) \/ UndoStatus(c) \/ UndoSubmission(c) \/ UndoProposal(c)
    \/ UndoFails(c)
    \/ Refuse(c)

(* The bound on calls is used up and every call has returned. *)
Finished ==
    /\ calls = MaxCalls
    /\ \A c \in Callers : pc[c] \in Resting
    /\ UNCHANGED vars

Next ==
    \/ \E c \in Callers : Normalize(c) \/ Submit(c) \/ Proceed(c)
    \/ Finished

Spec == Init /\ [][Next]_vars
-----------------------------------------------------------------------------
(* Properties. *)

(* Every submission has its own canonical proposal in the store, whatever     *)
(* interleaves and whatever raises: no compensation of one call deletes the  *)
(* proposal under another call's submission.  In particular an external id   *)
(* is never submitted under two idempotency keys.                            *)
SubmissionsBacked ==
    \A s \in Scopes : submissions[s] # None =>
        proposals[submissions[s].external] = [scope |-> s, print |-> submissions[s]]

(* A failure leaves nothing behind: whenever no locked call is running, a     *)
(* proposal is stored, submitted, given a status and announced in the outbox, *)
(* or none of these.  (Where every submission goes through the locked call   *)
(* and the deletions of the compensation do not raise.)                      *)
AllOrNothing ==
    lock = None =>
        \A id \in Ids :
            LET submitted == submissions[id.scope] = id.print IN
            /\ proposals[id.print.external] = id <=> submitted
            /\ id \in statuses <=> submitted
            /\ id \in outbox <=> submitted

(* What a caller was told was accepted is still submitted, also as a replay: *)
(* no failing call takes back a submission that another call was given.      *)
AcceptedIsSubmitted ==
    \A c \in Callers : pc[c] = "accepted" /\ call[c] # NoCall =>
        /\ Submitted(c) = call[c].print
        /\ IsFull(c) => Recorded(IdOf(c))

-----------------------------------------------------------------------------
(* What makes SubmissionsBacked inductive. *)

(* The calls between save of their proposal and the end of their submission  *)
(* or of its compensation.                                                   *)
Owns(c) == pc[c] \in {"submit", "discard", "status", "outbox"} \cup Undoing

CallsMade == \A c \in Callers : pc[c] \notin Resting => call[c] # NoCall

(* Such a call has its proposal in the store, and is alone with its external *)
(* id; before it submits and after it rolls back there is no submission for  *)
(* that external id.                                                         *)
OwnersStore == \A c \in Callers : Owns(c) => proposals[External(c)] = IdOf(c)

OwnersApart ==
    \A c, d \in Callers : Owns(c) /\ Owns(d) /\ External(c) = External(d) => c = d

OwnersUnsubmitted ==
    \A c \in Callers : pc[c] \in {"submit", "discard", "undo_proposal"} =>
        \A s \in Scopes : submissions[s] # None => submissions[s].external # External(c)

IInv ==
    TypeOK /\ CallsMade /\ OwnersStore /\ OwnersApart /\ OwnersUnsubmitted /\ SubmissionsBacked
-----------------------------------------------------------------------------
(* What makes AllOrNothing inductive where all calls are locked and no        *)
(* deletion raises: one call at a time is between its lock and its return.   *)

(* A submission is stored, has its proposal, its status and its event.       *)
IsSubmitted(id) == submissions[id.scope] = id.print

Whole(id) ==
    /\ proposals[id.print.external] = id <=> IsSubmitted(id)
    /\ id \in statuses <=> IsSubmitted(id)
    /\ id \in outbox <=> IsSubmitted(id)

(* What the running call has already written of its submission or not yet    *)
(* deleted, in the order of its saves and of its compensation.               *)
Partly(c, saved, submitted, status, event) ==
    /\ proposals[External(c)] = IdOf(c) <=> saved
    /\ IsSubmitted(IdOf(c)) <=> submitted
    /\ IdOf(c) \in statuses => status
    /\ IdOf(c) \in outbox => event

WrittenAt(c) ==
    CASE pc[c] \in {"find", "compare", "refuse"} -> Whole(IdOf(c))
      [] pc[c] = "save" -> Partly(c, FALSE, FALSE, FALSE, FALSE) /\ Submitted(c) = None
      [] pc[c] = "submit" -> Partly(c, TRUE, FALSE, FALSE, FALSE) /\ Submitted(c) = None
      [] pc[c] = "status" -> Partly(c, TRUE, TRUE, FALSE, FALSE)
      [] pc[c] = "outbox" -> Partly(c, TRUE, TRUE, TRUE, FALSE) /\ IdOf(c) \in statuses
      [] pc[c] = "undo_outbox" -> Partly(c, TRUE, TRUE, TRUE, FALSE)
      [] pc[c] = "undo_status" -> Partly(c, TRUE, TRUE, TRUE, FALSE)
      [] pc[c] = "undo_submission" -> Partly(c, TRUE, TRUE, FALSE, FALSE)
      [] pc[c] = "undo_proposal" -> Partly(c, TRUE, FALSE, FALSE, FALSE)
      [] OTHER -> FALSE

AloneInside ==
    \A c \in Callers :
        /\ pc[c] \notin Resting => call[c] # NoCall /\ IsFull(c)
        /\ pc[c] \notin Resting \cup {"lock"} <=> lock = c

LockedInv ==
    /\ TypeOK
    /\ AloneInside
    /\ \A c \in Callers : lock = c => WrittenAt(c)
    /\ \A id \in Ids : (\A c \in Callers : lock = c => IdOf(c) # id) => Whole(id)
=============================================================================
