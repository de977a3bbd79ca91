----------------------- MODULE ProposalSubmissionProofs -----------------------
(***************************************************************************)
(* Proofs about ProposalSubmission: type correctness and SubmissionsBacked *)
(* for every number of callers, scopes and external ids, every choice of   *)
(* entry points and every fault, and AllOrNothing where all submissions go *)
(* through the lock, also for the run of MCIntake.                         *)
(***************************************************************************)
EXTENDS MCIntake, TLAPS

(* The initial state satisfies the inductive invariant.                      *)
LEMMA InitInductive == Init => IInv
  BY NoneAssumption DEF Init, IInv, TypeOK, CallsMade, OwnersStore, OwnersApart,
     OwnersUnsubmitted, SubmissionsBacked, Owns, NoCall, Resting, Undoing, Phases

(* A call that is under way has an entry point, a scope and a fingerprint.   *)
LEMMA CallTyped ==
    ASSUME TypeOK, CallsMade, NEW c \in Callers, pc[c] \notin Resting
    PROVE  /\ call[c] \in [entry : {"direct", "full"}, scope : Scopes, print : Prints]
           /\ call[c].scope \in Scopes
           /\ call[c].print \in Prints
           /\ External(c) \in Externals
           /\ IdOf(c) \in Ids
           /\ IdOf(c).scope = call[c].scope
           /\ IdOf(c).print = call[c].print
  BY DEF TypeOK, CallsMade, External, IdOf, Prints, Ids

(* Every step preserves the types.                                           *)
LEMMA TypePreserved ==
    ASSUME TypeOK, CallsMade, NEW c \in Callers, Normalize(c) \/ Submit(c) \/ Proceed(c)
    PROVE  TypeOK'
<1> USE DEF TypeOK, Goto, Phases, Resting, Undoing, recordVars
<1>1. CASE Normalize(c)
  BY <1>1 DEF Normalize
<1>2. CASE Submit(c)
  <2>1. PICK e \in Entries \ {"normalize"}, s \in Scopes, p \in Prints :
            /\ call' = [call EXCEPT ![c] = [entry |-> e, scope |-> s, print |-> p]]
            /\ pc' = [pc EXCEPT ![c] = IF e = "full" THEN "lock" ELSE "find"]
    BY <1>2 DEF Submit
  <2>2. e \in {"direct", "full"}
    BY ConstantsAssumption DEF AllEntries
  <2>3. [entry |-> e, scope |-> s, print |-> p]
            \in [entry : {"direct", "full"}, scope : Scopes, print : Prints]
    BY <2>2
  <2> QED BY <1>2, <2>1, <2>3 DEF Submit
<1>3. ASSUME pc[c] \notin Resting, Proceed(c)
      PROVE  TypeOK'
  <2> USE <1>3
  <2>1. /\ IdOf(c) \in Ids
        /\ call[c].print \in Prints
        /\ call[c].scope \in Scopes
        /\ External(c) \in Externals
    BY CallTyped
  <2>2. CASE Lock(c)
    BY <2>2 DEF Lock
  <2>3. CASE FindNothing(c) \/ FindConflict(c) \/ SaveDuplicate(c) \/ DiscardFails(c)
               \/ CompareMissing(c) \/ RecordingFails(c) \/ UndoFails(c)
    BY <2>3 DEF FindNothing, FindConflict, SaveDuplicate, DiscardFails, CompareMissing,
                RecordingFails, UndoFails
  <2>4. CASE FindReplay(c) \/ CompareReplay(c) \/ Refuse(c)
    BY <2>4 DEF FindReplay, CompareReplay, Refuse, Accept, LockLeft
  <2>5. CASE SaveProposal(c)
    BY <2>1, <2>5 DEF SaveProposal
  <2>6. CASE SubmitOnce(c)
    BY <2>1, <2>6 DEF SubmitOnce, Resolved, Resolution
  <2>7. CASE Discard(c) \/ UndoProposal(c)
    BY <2>1, <2>7 DEF Discard, UndoProposal
  <2>8. CASE Withdraw(c) \/ UndoSubmission(c)
    BY <2>1, <2>8 DEF Withdraw, UndoSubmission, RolledBack
  <2>9. CASE RecordStatus(c)
    BY <2>1, <2>9 DEF RecordStatus
  <2>10. CASE PrepareEvent(c)
    BY <2>1, <2>10 DEF PrepareEvent, Accept, LockLeft
  <2>11. CASE UndoOutbox(c) \/ UndoStatus(c)
    BY <2>11 DEF UndoOutbox, UndoStatus
  <2> QED BY <2>2, <2>3, <2>4, <2>5, <2>6, <2>7, <2>8, <2>9, <2>10, <2>11 DEF Proceed
<1>4. Proceed(c) => pc[c] \notin Resting
  BY DEF Proceed, Lock, FindNothing, FindReplay, FindConflict, SaveProposal, SaveDuplicate,
         SubmitOnce, Discard, DiscardFails, Withdraw, CompareReplay, CompareMissing,
         RecordStatus, PrepareEvent, RecordingFails, UndoOutbox, UndoStatus,
         UndoSubmission, UndoProposal, UndoFails, Refuse
<1> QED BY <1>1, <1>2, <1>3, <1>4

(* A step that only moves a caller, and makes no owner of a caller that was  *)
(* none, preserves the invariant.                                            *)
LEMMA QuietStep ==
    ASSUME IInv, NEW c \in Callers, NEW phase \in Phases,
           pc[c] \notin Resting,
           Goto(c, phase), UNCHANGED <<proposals, submissions, call>>,
           phase \in {"submit", "discard", "undo_proposal"} =>
                pc[c] \in {"submit", "discard", "undo_proposal"},
           phase \in {"status", "outbox"} \cup Undoing => Owns(c)
    PROVE  CallsMade' /\ OwnersStore' /\ OwnersApart' /\ OwnersUnsubmitted'
              /\ SubmissionsBacked'
<1> USE DEF IInv, TypeOK, Goto, Owns
<1>1. CallsMade'
  BY DEF CallsMade
<1>2. \A d \in Callers : Owns(d)' => Owns(d)
  BY DEF Undoing
<1>3. \A d \in Callers : External(d)' = External(d) /\ IdOf(d)' = IdOf(d)
  BY DEF External, IdOf
<1>4. OwnersStore' /\ OwnersApart'
  BY <1>2, <1>3 DEF OwnersStore, OwnersApart
<1>5. OwnersUnsubmitted'
  BY <1>3 DEF OwnersUnsubmitted
<1>6. SubmissionsBacked'
  BY DEF SubmissionsBacked
<1> QED BY <1>1, <1>4, <1>5, <1>6

Parts == CallsMade /\ OwnersStore /\ OwnersApart /\ OwnersUnsubmitted /\ SubmissionsBacked

(* A call begins, or validate_and_normalize runs: the caller owned nothing,  *)
(* and a proposal is stored only under a free external id.                   *)
LEMMA BeginStep ==
    ASSUME IInv, NEW c \in Callers, Normalize(c) \/ Submit(c)
    PROVE  Parts'
<1> USE DEF IInv, TypeOK, Goto
<1>1. /\ pc[c] \in Resting
      /\ pc' \in [Callers -> Phases]
      /\ pc'[c] \in {"accepted", "rejected", "lock", "find"}
      /\ \A d \in Callers \ {c} : pc'[d] = pc[d] /\ call'[d] = call[d]
      /\ pc'[c] \notin Resting => call'[c] # NoCall
      /\ UNCHANGED submissions
  <2>1. CASE Normalize(c)
    BY <2>1 DEF Normalize, Phases, Resting
  <2>2. CASE Submit(c)
    BY <2>2, NoneAssumption DEF Submit, Phases, Resting, NoCall
  <2> QED BY <2>1, <2>2
<1>2. \A d \in Callers : Owns(d)' => d # c /\ Owns(d)
  BY <1>1 DEF Owns, Undoing
<1>3. \A d \in Callers \ {c} : External(d)' = External(d) /\ IdOf(d)' = IdOf(d)
  BY <1>1 DEF External, IdOf
<1>4. \A x \in Externals : proposals[x] # None => proposals'[x] = proposals[x]
  BY DEF Normalize, Submit
<1>5. CallsMade'
  BY <1>1 DEF CallsMade
<1>6. \A d \in Callers : Owns(d) => External(d) \in Externals /\ IdOf(d) # None
  BY CallTyped, NoneAssumption DEF Owns, Undoing, Resting
<1>7. OwnersStore' /\ OwnersApart'
  BY <1>2, <1>3, <1>4, <1>6 DEF OwnersStore, OwnersApart
<1>8. OwnersUnsubmitted'
  BY <1>1, <1>3 DEF OwnersUnsubmitted
<1>9. SubmissionsBacked'
  <2> SUFFICES ASSUME NEW s \in Scopes, submissions[s] # None
               PROVE  proposals'[submissions[s].external] = [scope |-> s, print |-> submissions[s]]
    BY <1>1 DEF SubmissionsBacked
  <2>1. submissions[s] \in Prints /\ submissions[s].external \in Externals
    BY DEF Prints
  <2>2. [scope |-> s, print |-> submissions[s]] \in Ids
    BY <2>1 DEF Ids
  <2> QED BY <1>4, <2>1, <2>2, NoneAssumption DEF SubmissionsBacked
<1> QED BY <1>5, <1>7, <1>8, <1>9 DEF Parts

(* save: nobody owned the external id, and nothing was submitted for it.     *)
LEMMA SaveStep ==
    ASSUME IInv, NEW c \in Callers, SaveProposal(c)
    PROVE  Parts'
<1> USE DEF IInv, TypeOK, Goto, SaveProposal
<1> DEFINE x == External(c)
<1>1. /\ x \in Externals
      /\ IdOf(c) \in Ids
      /\ proposals[x] = None
      /\ proposals'[x] = IdOf(c)
      /\ \A y \in Externals \ {x} : proposals'[y] = proposals[y]
  BY CallTyped DEF CanSave, Resting
<1>2. \A d \in Callers : External(d)' = External(d) /\ IdOf(d)' = IdOf(d)
  BY DEF External, IdOf
<1>3. \A d \in Callers : Owns(d)' <=> d = c \/ Owns(d)
  BY DEF Owns, Undoing
<1>4. \A d \in Callers : Owns(d) => External(d) \in Externals \ {x}
  <2> SUFFICES ASSUME NEW d \in Callers, Owns(d)
               PROVE  External(d) \in Externals /\ External(d) # x
    OBVIOUS
  <2>1. External(d) \in Externals /\ IdOf(d) \in Ids
    BY CallTyped DEF Owns, Undoing, Resting
  <2> QED BY <1>1, <2>1, NoneAssumption DEF OwnersStore
<1>5. \A s \in Scopes : submissions[s] # None => submissions[s].external \in Externals \ {x}
  <2> SUFFICES ASSUME NEW s \in Scopes, submissions[s] # None
               PROVE  submissions[s].external \in Externals /\ submissions[s].external # x
    OBVIOUS
  <2>1. submissions[s] \in Prints /\ submissions[s].external \in Externals
    BY DEF Prints
  <2>2. [scope |-> s, print |-> submissions[s]] # None
    BY <2>1, NoneAssumption DEF Ids
  <2> QED BY <1>1, <2>1, <2>2 DEF SubmissionsBacked
<1>6. CallsMade'
  BY DEF CallsMade, Resting
<1>7. OwnersStore'
  BY <1>1, <1>2, <1>3, <1>4 DEF OwnersStore
<1>8. OwnersApart'
  BY <1>2, <1>3, <1>4 DEF OwnersApart
<1>9. OwnersUnsubmitted'
  <2>1. \A d \in Callers \ {c} : pc'[d] = pc[d]
    OBVIOUS
  <2> QED BY <1>2, <1>5, <2>1 DEF OwnersUnsubmitted
<1>10. SubmissionsBacked'
  BY <1>1, <1>5 DEF SubmissionsBacked
<1> QED BY <1>6, <1>7, <1>8, <1>9, <1>10 DEF Parts

(* submit_once of a new submission: the proposal was stored before.          *)
LEMMA CreatedStep ==
    ASSUME IInv, NEW c \in Callers, SubmitOnce(c), Resolution(c) = "created"
    PROVE  Parts'
<1> USE DEF IInv, TypeOK, Goto, SubmitOnce
<1>1. /\ call[c].scope \in Scopes /\ call[c].print \in Prints /\ External(c) \in Externals
      /\ Owns(c)
      /\ submissions' = [submissions EXCEPT ![call[c].scope] = call[c].print]
      /\ pc'[c] \in {"accepted", "status"}
      /\ pc' = [pc EXCEPT ![c] = pc'[c]]
  BY CallTyped DEF Owns, Resting, Resolved, Phases
<1>2. \A d \in Callers : External(d)' = External(d) /\ IdOf(d)' = IdOf(d)
  BY DEF External, IdOf
<1>3. \A d \in Callers : Owns(d)' => Owns(d)
  BY <1>1 DEF Owns, Undoing
<1>4. CallsMade'
  BY <1>1 DEF CallsMade, Resting
<1>5. OwnersStore' /\ OwnersApart'
  BY <1>2, <1>3 DEF OwnersStore, OwnersApart
<1>6. OwnersUnsubmitted'
  <2> SUFFICES ASSUME NEW d \in Callers, pc'[d] \in {"submit", "discard", "undo_proposal"},
                      NEW s \in Scopes, submissions'[s] # None
               PROVE  submissions'[s].external # External(d)
    BY <1>2 DEF OwnersUnsubmitted
  <2>1. d # c /\ pc'[d] = pc[d] /\ Owns(d)
    BY <1>1 DEF Owns, Undoing
  <2>2. External(d) # External(c)
    BY <1>1, <2>1 DEF OwnersApart
  <2> QED BY <1>1, <2>1, <2>2 DEF OwnersUnsubmitted, External
<1>7. SubmissionsBacked'
  BY <1>1 DEF SubmissionsBacked, OwnersStore, External, IdOf
<1> QED BY <1>4, <1>5, <1>6, <1>7 DEF Parts

(* A compensation deletes the proposal: nothing is submitted for it, and no  *)
(* other call has the external id.                                           *)
LEMMA DropStep ==
    ASSUME IInv, NEW c \in Callers, Discard(c) \/ UndoProposal(c)
    PROVE  Parts'
<1> USE DEF IInv, TypeOK, Goto
<1> DEFINE x == External(c)
<1>1. /\ pc[c] \in {"discard", "undo_proposal"}
      /\ pc'[c] \in {"withdraw", "refuse"}
      /\ pc' = [pc EXCEPT ![c] = pc'[c]]
      /\ proposals' = [proposals EXCEPT ![x] = None]
      /\ UNCHANGED <<submissions, call>>
  BY DEF Discard, UndoProposal, Phases, Undoing
<1>2. \A d \in Callers : External(d)' = External(d) /\ IdOf(d)' = IdOf(d)
  BY <1>1 DEF External, IdOf
<1>3. \A d \in Callers : Owns(d)' => d # c /\ Owns(d)
  BY <1>1 DEF Owns, Undoing
<1>4. Owns(c) /\ x \in Externals
  BY <1>1, CallTyped DEF Owns, Undoing, Resting
<1>5. \A d \in Callers \ {c} : Owns(d) => External(d) # x
  BY <1>4 DEF OwnersApart
<1>6. CallsMade'
  BY <1>1 DEF CallsMade, Resting
<1>7. OwnersStore' /\ OwnersApart'
  <2>1. \A y : y # x => proposals'[y] = proposals[y] \/ y \notin Externals
    BY <1>1
  <2>2. \A d \in Callers : Owns(d) => External(d) \in Externals
    BY CallTyped DEF Owns, Undoing, Resting
  <2> QED BY <1>2, <1>3, <1>5, <2>1, <2>2 DEF OwnersStore, OwnersApart
<1>8. OwnersUnsubmitted'
  BY <1>1, <1>2 DEF OwnersUnsubmitted
<1>9. SubmissionsBacked'
  <2> SUFFICES ASSUME NEW s \in Scopes, submissions[s] # None
               PROVE  proposals'[submissions[s].external] = [scope |-> s, print |-> submissions[s]]
    BY <1>1 DEF SubmissionsBacked
  <2>1. submissions[s].external # x
    BY <1>1 DEF OwnersUnsubmitted
  <2>2. submissions[s].external \in Externals
    BY DEF Prints
  <2> QED BY <1>1, <2>1, <2>2 DEF SubmissionsBacked
<1> QED BY <1>6, <1>7, <1>8, <1>9 DEF Parts

(* rollback removes at most the caller's own submission, which is the only   *)
(* one its external id can have.                                             *)
LEMMA RemoveStep ==
    ASSUME IInv, NEW c \in Callers, Withdraw(c) \/ UndoSubmission(c)
    PROVE  Parts'
<1> USE DEF IInv, TypeOK, Goto
<1>1. /\ pc[c] \in {"withdraw", "undo_submission"}
      /\ pc'[c] = IF pc[c] = "withdraw" THEN "refuse" ELSE "undo_proposal"
      /\ pc' = [pc EXCEPT ![c] = pc'[c]]
      /\ submissions' = RolledBack(c)
      /\ UNCHANGED <<proposals, call>>
  BY DEF Withdraw, UndoSubmission, Phases, Undoing
<1>2. \A d \in Callers : External(d)' = External(d) /\ IdOf(d)' = IdOf(d)
  BY <1>1 DEF External, IdOf
<1>3. \A d \in Callers : Owns(d)' => Owns(d)
  BY <1>1 DEF Owns, Undoing
<1>4. \A s \in Scopes : submissions'[s] \in {submissions[s], None}
  BY <1>1 DEF RolledBack
<1>5. CallsMade'
  BY <1>1 DEF CallsMade, Resting
<1>6. OwnersStore' /\ OwnersApart'
  BY <1>1, <1>2, <1>3 DEF OwnersStore, OwnersApart
<1>7. ASSUME pc[c] = "undo_submission", NEW s \in Scopes, submissions'[s] # None
      PROVE  submissions'[s].external # External(c)
  <2> SUFFICES ASSUME submissions'[s].external = External(c)
               PROVE  FALSE
    OBVIOUS
  <2>1. submissions'[s] = submissions[s]
    BY <1>4, <1>7
  <2>2. proposals[External(c)] = [scope |-> s, print |-> submissions[s]]
    BY <1>7, <2>1 DEF SubmissionsBacked
  <2>3. proposals[External(c)] = [scope |-> call[c].scope, print |-> call[c].print]
    BY <1>7 DEF OwnersStore, Owns, Undoing, IdOf
  <2>4. s = call[c].scope /\ submissions[s] = call[c].print
    BY <2>2, <2>3
  <2>5. submissions'[s] = None
    BY <1>1, <2>4 DEF RolledBack, Submitted
  <2> QED BY <1>7, <2>5
<1>8. OwnersUnsubmitted'
  <2> SUFFICES ASSUME NEW d \in Callers, pc'[d] \in {"submit", "discard", "undo_proposal"},
                      NEW s \in Scopes, submissions'[s] # None
               PROVE  submissions'[s].external # External(d)
    BY <1>2 DEF OwnersUnsubmitted
  <2>1. CASE d = c
    BY <1>1, <1>7, <2>1
  <2>2. CASE d # c
    BY <1>1, <1>4, <2>2 DEF OwnersUnsubmitted
  <2> QED BY <2>1, <2>2
<1>9. SubmissionsBacked'
  BY <1>1, <1>4 DEF SubmissionsBacked
<1> QED BY <1>5, <1>6, <1>8, <1>9 DEF Parts

(* The steps that leave proposals and submissions alone.                     *)
LEMMA OtherSteps ==
    ASSUME IInv, NEW c \in Callers,
           \/ Lock(c) \/ FindNothing(c) \/ FindReplay(c) \/ FindConflict(c)
           \/ SaveDuplicate(c) \/ DiscardFails(c) \/ CompareReplay(c) \/ CompareMissing(c)
           \/ RecordStatus(c) \/ PrepareEvent(c) \/ RecordingFails(c)
           \/ UndoOutbox(c) \/ UndoStatus(c) \/ UndoFails(c) \/ Refuse(c)
           \/ SubmitOnce(c) /\ Resolution(c) # "created"
    PROVE  Parts'
<1> USE DEF Phases, Resting, Undoing, Owns
<1>1. CASE Lock(c) \/ FindNothing(c) \/ FindConflict(c) \/ SaveDuplicate(c) \/ DiscardFails(c)
               \/ CompareMissing(c)
  BY <1>1, QuietStep DEF Lock, FindNothing, FindConflict, SaveDuplicate, DiscardFails,
     CompareMissing, Parts
<1>2. CASE FindReplay(c) \/ CompareReplay(c) \/ Refuse(c)
  BY <1>2, QuietStep DEF FindReplay, CompareReplay, Refuse, Accept, Parts
<1>3. CASE RecordStatus(c) \/ PrepareEvent(c) \/ RecordingFails(c)
  BY <1>3, QuietStep DEF RecordStatus, PrepareEvent, RecordingFails, Accept, Parts, recordVars
<1>4. CASE UndoOutbox(c) \/ UndoStatus(c) \/ UndoFails(c)
  BY <1>4, QuietStep DEF UndoOutbox, UndoStatus, UndoFails, Parts, recordVars
<1>5. CASE SubmitOnce(c) /\ Resolution(c) # "created"
  <2>1. Resolved(c) \in {"discard", "accepted", "compare"}
    BY <1>5 DEF Resolved, Resolution
  <2>2. pc[c] = "submit" /\ Goto(c, Resolved(c)) /\ UNCHANGED <<proposals, submissions, call>>
    BY <1>5 DEF SubmitOnce
  <2> QED BY <2>1, <2>2, QuietStep DEF Parts
<1> QED BY <1>1, <1>2, <1>3, <1>4, <1>5

(* Every step of the specification preserves the invariant.                  *)
LEMMA StepInductive == IInv /\ [Next]_vars => IInv'
<1> SUFFICES ASSUME IInv, [Next]_vars
             PROVE  IInv'
  OBVIOUS
<1>1. ASSUME NEW c \in Callers, Normalize(c) \/ Submit(c) \/ Proceed(c)
      PROVE  IInv'
  <2>1. TypeOK'
    BY <1>1, TypePreserved DEF IInv
  <2>2. CASE Normalize(c) \/ Submit(c)
    BY <2>1, <2>2, BeginStep DEF IInv, Parts
  <2>3. CASE Proceed(c)
    <3>1. CASE SaveProposal(c)
      BY <2>1, <3>1, SaveStep DEF IInv, Parts
    <3>2. CASE SubmitOnce(c) /\ Resolution(c) = "created"
      BY <2>1, <3>2, CreatedStep DEF IInv, Parts
    <3>3. CASE Discard(c) \/ UndoProposal(c)
      BY <2>1, <3>3, DropStep DEF IInv, Parts
    <3>4. CASE Withdraw(c) \/ UndoSubmission(c)
      BY <2>1, <3>4, RemoveStep DEF IInv, Parts
    <3> QED BY <2>1, <2>3, <3>1, <3>2, <3>3, <3>4, OtherSteps DEF Proceed, IInv, Parts
  <2> QED BY <1>1, <2>2, <2>3
<1>2. CASE UNCHANGED vars
  BY <1>2 DEF vars, recordVars, IInv, TypeOK, CallsMade, OwnersStore, OwnersApart,
     OwnersUnsubmitted, SubmissionsBacked, Owns, External, IdOf
<1> QED BY <1>1, <1>2 DEF Next, Finished

(* The inductive invariant holds in every reachable state.                   *)
THEOREM Invariance == Spec => []IInv
  BY InitInductive, StepInductive, PTL DEF Spec

(* Every reachable state is well typed.                                      *)
THEOREM TypeCorrect == Spec => []TypeOK
<1>1. IInv => TypeOK
  BY DEF IInv
<1> QED BY Invariance, <1>1, PTL

(* Every submission keeps its own canonical proposal in the store: no save,  *)
(* conflict or compensation of another call takes it away.                   *)
THEOREM SubmissionsAreBacked == Spec => []SubmissionsBacked
<1>1. IInv => SubmissionsBacked
  BY DEF IInv
<1> QED BY Invariance, <1>1, PTL
-----------------------------------------------------------------------------
(* All or nothing, where all calls are locked and no deletion raises.        *)

(* submit_with_initial_status_and_outbox is called.                          *)
LockedSubmit(c) ==
    /\ pc[c] \in Resting
    /\ calls' = calls + 1
    /\ \E s \in Scopes, p \in Prints :
        call' = [call EXCEPT ![c] = [entry |-> "full", scope |-> s, print |-> p]]
    /\ Goto(c, "lock")
    /\ UNCHANGED <<proposals, submissions, recordVars, lock>>

RecordingStops(c) ==
    /\ pc[c] \in {"status", "outbox"}
    /\ Goto(c, "undo_outbox")
    /\ UNCHANGED <<proposals, submissions, recordVars, lock, call, calls>>

(* The steps of the call, without the failures of its deletions.             *)
Inside(c) ==
    \/ FindNothing(c) \/ FindReplay(c) \/ FindConflict(c)
    \/ SaveProposal(c) \/ SaveDuplicate(c)
    \/ SubmitOnce(c) \/ Discard(c) \/ Withdraw(c)
    \/ CompareReplay(c) \/ CompareMissing(c)
    \/ RecordStatus(c) \/ PrepareEvent(c) \/ RecordingStops(c)
    \/ UndoOutbox(c) \/ UndoStatus(c) \/ UndoSubmission(c) \/ UndoProposal(c)
    \/ Refuse(c)

LockedStep(c) == LockedSubmit(c) \/ Lock(c) \/ Inside(c)

LEMMA LockedInit == Init => LockedInv
<1> SUFFICES ASSUME Init PROVE LockedInv
  OBVIOUS
<1>1. TypeOK
  BY InitInductive DEF IInv
<1>2. AloneInside /\ \A c \in Callers : lock # c
  BY NoneAssumption DEF Init, AloneInside, Resting
<1>3. \A id \in Ids : Whole(id)
  BY NoneAssumption DEF Init, Whole, IsSubmitted, Ids, Prints
<1> QED BY <1>1, <1>2, <1>3 DEF LockedInv

(* The caller that has the lock, and its proposal.                           *)
LEMMA InsideTyped ==
    ASSUME LockedInv, NEW c \in Callers, pc[c] \notin Resting
    PROVE  /\ call[c].scope \in Scopes
           /\ call[c].print \in Prints
           /\ External(c) \in Externals
           /\ IdOf(c) \in Ids
           /\ IdOf(c).scope = call[c].scope
           /\ IdOf(c).print = call[c].print
           /\ Submitted(c) = call[c].print <=> IsSubmitted(IdOf(c))
           /\ IsFull(c)
           /\ pc[c] # "lock" => lock = c /\ WrittenAt(c)
<1>1. TypeOK /\ call[c] # NoCall /\ IsFull(c)
  BY DEF LockedInv, AloneInside
<1>2. call[c] \in [entry : {"direct", "full"}, scope : Scopes, print : Prints]
  BY <1>1 DEF TypeOK
<1>3. pc[c] # "lock" => lock = c /\ WrittenAt(c)
  BY DEF LockedInv, AloneInside
<1> QED BY <1>1, <1>2, <1>3 DEF External, IdOf, Prints, Ids, IsSubmitted, Submitted

(* A step of the caller that has the lock, which changes nothing of other    *)
(* proposals, and leaves its own as its new place says.                      *)
LEMMA InsideStep ==
    ASSUME LockedInv, NEW c \in Callers, lock = c, call' = call, calls' = calls,
           statuses' \subseteq Ids, outbox' \subseteq Ids,
           proposals' \in [Externals -> Ids \cup {Normalized, None}],
           submissions' \in [Scopes -> Prints \cup {None}],
           NEW phase \in Phases, Goto(c, phase),
           \A id \in Ids : id # IdOf(c) => (Whole(id) => Whole(id)'),
           \/ phase \notin Resting \cup {"lock"} /\ lock' = lock /\ WrittenAt(c)'
           \/ phase \in Resting /\ lock' = None /\ Whole(IdOf(c))'
    PROVE  LockedInv'
<1>0. TypeOK /\ AloneInside
  BY DEF LockedInv
<1>1. pc'[c] = phase /\ \A d \in Callers \ {c} : pc'[d] = pc[d]
  BY <1>0 DEF TypeOK, Goto
<1>2. \A d \in Callers \ {c} : pc[d] \in Resting \cup {"lock"}
  BY <1>0 DEF AloneInside
<1>3. TypeOK'
  <2>1. pc' \in [Callers -> Phases]
    BY <1>0 DEF TypeOK, Goto
  <2>2. lock' \in Callers \cup {None}
    OBVIOUS
  <2> QED BY <1>0, <2>1, <2>2 DEF TypeOK
<1>4. AloneInside'
  <2>1. \A d \in Callers : pc'[d] \notin Resting => call'[d] # NoCall /\ IsFull(d)'
    <3>1. pc[c] \notin Resting
      BY <1>0 DEF AloneInside
    <3> QED BY <1>0, <1>1, <3>1 DEF AloneInside, IsFull
  <2>2. \A d \in Callers : pc'[d] \notin Resting \cup {"lock"} <=> lock' = d
    BY <1>1, <1>2, NoneAssumption
  <2> QED BY <2>1, <2>2 DEF AloneInside
<1>5. \A d \in Callers : lock' = d => WrittenAt(d)'
  BY NoneAssumption
<1>6. IdOf(c)' = IdOf(c)
  BY DEF IdOf
<1>7. \A id \in Ids : id # IdOf(c) => Whole(id)
  BY DEF LockedInv
<1>8. ASSUME NEW id \in Ids, \A d \in Callers : lock' = d => IdOf(d)' # id
      PROVE  Whole(id)'
  <2>1. CASE id # IdOf(c)
    BY <1>7, <2>1
  <2>2. CASE id = IdOf(c)
    BY <1>6, <1>8, <2>2
  <2> QED BY <2>1, <2>2
<1> QED BY <1>3, <1>4, <1>5, <1>8 DEF LockedInv

LEMMA OutsideStep ==
    ASSUME LockedInv, NEW c \in Callers, LockedSubmit(c) \/ Lock(c)
    PROVE  LockedInv'
<1>0. TypeOK /\ AloneInside
  BY DEF LockedInv
<1>1. UNCHANGED <<proposals, submissions, statuses, outbox>>
  BY DEF LockedSubmit, Lock, recordVars
<1>2. \A id \in Ids : Whole(id)' <=> Whole(id)
  BY <1>1 DEF Whole, IsSubmitted
<1>3. CASE LockedSubmit(c)
  <2>1. PICK s \in Scopes, p \in Prints :
            call' = [call EXCEPT ![c] = [entry |-> "full", scope |-> s, print |-> p]]
    BY <1>3 DEF LockedSubmit
  <2>2. /\ call'[c] = [entry |-> "full", scope |-> s, print |-> p]
        /\ call' \in [Callers -> [entry : {"direct", "full"}, scope : Scopes, print : Prints]
                                 \cup {NoCall}]
        /\ \A d \in Callers \ {c} : call'[d] = call[d]
    BY <1>0, <2>1 DEF TypeOK
  <2>3. /\ pc'[c] = "lock" /\ pc' \in [Callers -> Phases]
        /\ \A d \in Callers \ {c} : pc'[d] = pc[d]
    BY <1>0, <1>3 DEF LockedSubmit, Goto, TypeOK, Phases
  <2>4. pc[c] \in Resting /\ lock # c /\ lock' = lock
    BY <1>0, <1>3 DEF LockedSubmit, AloneInside
  <2>5. TypeOK'
    BY <1>0, <1>1, <1>3, <2>2, <2>3, <2>4 DEF TypeOK, LockedSubmit
  <2>6. AloneInside'
    <3>1. call'[c] # NoCall /\ call'[c].entry = "full"
      <4>1. NoCall.scope = None /\ call'[c].scope = s /\ call'[c].entry = "full"
        BY <2>2 DEF NoCall
      <4>2. call'[c].print = p /\ NoCall.print = None
        BY <2>2 DEF NoCall
      <4> QED BY <4>1, <4>2, NoneAssumption
    <3>2. \A d \in Callers : pc'[d] \notin Resting => call'[d] # NoCall /\ call'[d].entry = "full"
      BY <1>0, <2>2, <2>3, <3>1 DEF AloneInside, IsFull
    <3>3. \A d \in Callers : pc'[d] \notin Resting \cup {"lock"} <=> lock' = d
      BY <1>0, <2>3, <2>4 DEF AloneInside
    <3> QED BY <3>2, <3>3 DEF AloneInside, IsFull
  <2>7. ASSUME NEW d \in Callers, lock' = d PROVE WrittenAt(d)' /\ IdOf(d)' = IdOf(d) /\ lock = d
    <3>1. d # c /\ lock = d /\ WrittenAt(d)
      BY <2>4, <2>7 DEF LockedInv
    <3>2. call'[d] = call[d] /\ pc'[d] = pc[d]
      BY <2>2, <2>3, <3>1
    <3> QED BY <1>1, <3>1, <3>2 DEF WrittenAt, Partly, Whole, IsSubmitted, Submitted, External, IdOf
  <2>8. ASSUME NEW id \in Ids, \A d \in Callers : lock' = d => IdOf(d)' # id PROVE Whole(id)'
    <3>1. \A d \in Callers : lock = d => IdOf(d) # id
      BY <2>4, <2>7, <2>8
    <3> QED BY <1>2, <3>1 DEF LockedInv
  <2> QED BY <2>5, <2>6, <2>7, <2>8 DEF LockedInv
<1>4. CASE Lock(c)
  <2>1. /\ pc[c] = "lock" /\ lock = None /\ lock' = c /\ call' = call /\ calls' = calls
        /\ pc'[c] = "find" /\ pc' \in [Callers -> Phases]
        /\ \A d \in Callers \ {c} : pc'[d] = pc[d]
    BY <1>0, <1>4 DEF Lock, Goto, TypeOK, Phases
  <2>2. TypeOK'
    BY <1>0, <1>1, <2>1 DEF TypeOK
  <2>3. AloneInside'
    <3>1. \A d \in Callers \ {c} : pc[d] \in Resting \cup {"lock"}
      BY <1>0, <2>1, NoneAssumption DEF AloneInside
    <3> QED BY <1>0, <2>1, <3>1 DEF AloneInside, IsFull, Resting
  <2>4. \A id \in Ids : Whole(id)
    BY <2>1, NoneAssumption DEF LockedInv
  <2>5. IdOf(c) \in Ids /\ IdOf(c)' = IdOf(c)
    BY <2>1, InsideTyped DEF IdOf, Resting
  <2>6. WrittenAt(c)'
    <3>1. Whole(IdOf(c))'
      BY <1>1, <2>4, <2>5 DEF Whole, IsSubmitted
    <3> QED BY <2>1, <3>1 DEF WrittenAt
  <2> QED BY <1>2, <2>1, <2>2, <2>3, <2>4, <2>6 DEF LockedInv
<1> QED BY <1>3, <1>4

(* Steps that change no store.                                               *)
LEMMA ReadingSteps ==
    ASSUME LockedInv, NEW c \in Callers,
           \/ FindNothing(c) \/ FindReplay(c) \/ FindConflict(c) \/ SaveDuplicate(c)
           \/ CompareReplay(c) \/ CompareMissing(c) \/ RecordingStops(c) \/ Refuse(c)
    PROVE  LockedInv'
<1>0. TypeOK /\ pc[c] \notin Resting \cup {"lock"}
  BY DEF LockedInv, FindNothing, FindReplay, FindConflict, SaveDuplicate, CompareReplay,
         CompareMissing, RecordingStops, Refuse, Resting
<1>1. /\ IdOf(c) \in Ids /\ lock = c /\ WrittenAt(c) /\ IsFull(c)
      /\ IdOf(c).scope = call[c].scope /\ IdOf(c).print = call[c].print
      /\ call[c].print \in Prints
      /\ Submitted(c) = call[c].print <=> IsSubmitted(IdOf(c))
  BY <1>0, InsideTyped
<1>2. /\ UNCHANGED <<proposals, submissions, statuses, outbox, call, calls>>
      /\ statuses' \subseteq Ids /\ outbox' \subseteq Ids
      /\ proposals' \in [Externals -> Ids \cup {Normalized, None}]
      /\ submissions' \in [Scopes -> Prints \cup {None}]
  BY <1>0 DEF TypeOK, FindNothing, FindReplay, FindConflict, SaveDuplicate, CompareReplay,
         CompareMissing, RecordingStops, Refuse, Accept, recordVars
<1>3. /\ \A id \in Ids : Whole(id)' <=> Whole(id)
      /\ IdOf(c)' = IdOf(c) /\ External(c)' = External(c)
      /\ Submitted(c)' = Submitted(c)
      /\ IsSubmitted(IdOf(c))' <=> IsSubmitted(IdOf(c))
      /\ Whole(IdOf(c))' <=> Whole(IdOf(c))
  BY <1>2 DEF Whole, IsSubmitted, IdOf, External, Submitted
<1> DEFINE Moves(phase) ==
             /\ Goto(c, phase)
             /\ \/ phase \notin Resting \cup {"lock"} /\ lock' = lock /\ WrittenAt(c)'
                \/ phase \in Resting /\ lock' = None /\ Whole(IdOf(c))'
<1>4. ASSUME NEW phase \in Phases, Moves(phase) PROVE LockedInv'
  BY <1>1, <1>2, <1>3, <1>4, InsideStep
<1>5. ASSUME NEW phase \in Phases, Goto(c, phase) PROVE pc'[c] = phase
  BY <1>0, <1>5 DEF TypeOK, Goto
<1>6. CASE FindNothing(c)
  <2>1. Goto(c, "save") /\ lock' = lock /\ pc[c] = "find" /\ Submitted(c) = None
    BY <1>6 DEF FindNothing
  <2>2. ~IsSubmitted(IdOf(c)) /\ Whole(IdOf(c))
    BY <1>1, <2>1, NoneAssumption DEF WrittenAt
  <2>3. pc'[c] = "save"
    BY <1>5, <2>1 DEF Phases
  <2>4. Partly(c, FALSE, FALSE, FALSE, FALSE)
    BY <1>1, <2>2 DEF Whole, Partly, External
  <2>5. Partly(c, FALSE, FALSE, FALSE, FALSE)' /\ Submitted(c)' = None
    BY <1>2, <1>3, <2>1, <2>4 DEF Partly
  <2>6. WrittenAt(c)'
    BY <2>3, <2>5 DEF WrittenAt
  <2>7. Moves("save")
    BY <2>1, <2>6 DEF Resting
  <2> HIDE DEF Moves
  <2> QED BY <1>4, <2>7 DEF Phases
<1>7. CASE FindReplay(c) \/ FindConflict(c)
  <2>1. Whole(IdOf(c))'
    BY <1>1, <1>3, <1>7 DEF WrittenAt, FindReplay, FindConflict
  <2>2. PICK phase \in {"compare", "refuse"} : Goto(c, phase) /\ lock' = lock
    BY <1>1, <1>7 DEF FindReplay, FindConflict
  <2>3. pc'[c] = phase /\ phase \in Phases
    BY <1>5, <2>2 DEF Phases
  <2>4. WrittenAt(c)'
    BY <2>1, <2>2, <2>3 DEF WrittenAt
  <2>5. Moves(phase)
    BY <2>2, <2>4 DEF Resting
  <2> HIDE DEF Moves
  <2> QED BY <1>4, <2>3, <2>5
<1>8. CASE SaveDuplicate(c)
  <2>1. Goto(c, "refuse") /\ lock' = lock /\ pc[c] = "save"
    BY <1>8 DEF SaveDuplicate
  <2>2. Partly(c, FALSE, FALSE, FALSE, FALSE)
    BY <1>1, <2>1 DEF WrittenAt
  <2>3. Whole(IdOf(c))'
    BY <1>1, <1>3, <2>2 DEF Partly, Whole, External
  <2>4. pc'[c] = "refuse"
    BY <1>5, <2>1 DEF Phases
  <2>5. WrittenAt(c)'
    BY <2>3, <2>4 DEF WrittenAt
  <2>6. Moves("refuse")
    BY <2>1, <2>5 DEF Resting
  <2> HIDE DEF Moves
  <2> QED BY <1>4, <2>6 DEF Phases
<1>9. CASE CompareMissing(c)
  <2>1. Goto(c, "refuse") /\ lock' = lock /\ pc[c] = "compare"
    BY <1>9 DEF CompareMissing
  <2>2. Whole(IdOf(c))'
    BY <1>1, <1>3, <2>1 DEF WrittenAt
  <2>3. pc'[c] = "refuse"
    BY <1>5, <2>1 DEF Phases
  <2>4. WrittenAt(c)'
    BY <2>2, <2>3 DEF WrittenAt
  <2>5. Moves("refuse")
    BY <2>1, <2>4 DEF Resting
  <2> HIDE DEF Moves
  <2> QED BY <1>4, <2>5 DEF Phases
<1>10. CASE CompareReplay(c) \/ Refuse(c)
  <2>1. Whole(IdOf(c))'
    BY <1>1, <1>3, <1>10 DEF WrittenAt, CompareReplay, Refuse
  <2>2. PICK phase \in {"accepted", "rejected"} : Goto(c, phase)
    BY <1>10 DEF CompareReplay, Refuse, Accept
  <2>3. lock' = None
    BY <1>1, <1>10 DEF CompareReplay, Refuse, Accept, LockLeft
  <2>4. Moves(phase) /\ phase \in Phases
    BY <2>1, <2>2, <2>3 DEF Resting, Phases
  <2> HIDE DEF Moves
  <2> QED BY <1>4, <2>4
<1>11. CASE RecordingStops(c)
  <2>1. Goto(c, "undo_outbox") /\ lock' = lock /\ pc[c] \in {"status", "outbox"}
    BY <1>11 DEF RecordingStops
  <2>2. Partly(c, TRUE, TRUE, TRUE, FALSE)
    BY <1>1, <2>1 DEF WrittenAt, Partly
  <2>3. Partly(c, TRUE, TRUE, TRUE, FALSE)'
    BY <1>2, <1>3, <2>2 DEF Partly
  <2>4. pc'[c] = "undo_outbox"
    BY <1>5, <2>1 DEF Phases, Undoing
  <2>5. WrittenAt(c)'
    BY <2>3, <2>4 DEF WrittenAt
  <2>6. Moves("undo_outbox")
    BY <2>1, <2>5 DEF Resting
  <2> HIDE DEF Moves
  <2> QED BY <1>4, <2>6 DEF Phases, Undoing
<1> QED BY <1>6, <1>7, <1>8, <1>9, <1>10, <1>11

(* Steps that save, and the deletions that undo them.                        *)
LEMMA WritingSteps ==
    ASSUME LockedInv, NEW c \in Callers,
           \/ SaveProposal(c) \/ SubmitOnce(c) \/ RecordStatus(c) \/ PrepareEvent(c)
           \/ UndoOutbox(c) \/ UndoStatus(c) \/ UndoSubmission(c) \/ UndoProposal(c)
    PROVE  LockedInv'
<1>0. TypeOK /\ pc[c] \notin Resting \cup {"lock"}
  BY DEF LockedInv, SaveProposal, SubmitOnce, RecordStatus, PrepareEvent, UndoOutbox, UndoStatus,
         UndoSubmission, UndoProposal, Resting
<1>1. /\ IdOf(c) \in Ids /\ lock = c /\ WrittenAt(c) /\ IsFull(c)
      /\ IdOf(c).scope = call[c].scope /\ IdOf(c).print = call[c].print
      /\ call[c].print \in Prints /\ call[c].scope \in Scopes /\ External(c) \in Externals
      /\ IdOf(c).print.external = External(c)
      /\ Submitted(c) = call[c].print <=> IsSubmitted(IdOf(c))
      /\ Submitted(c) = submissions[IdOf(c).scope]
  BY <1>0, InsideTyped DEF External, Submitted
<1>2. PICK me \in Ids : me = IdOf(c)
  BY <1>1
<1>3. UNCHANGED <<call, calls>>
  BY DEF SaveProposal, SubmitOnce, RecordStatus, PrepareEvent, UndoOutbox, UndoStatus,
         UndoSubmission, UndoProposal, Accept
<1>4. IdOf(c)' = me /\ External(c)' = me.print.external /\ External(c) = me.print.external
        /\ IsFull(c)'
  BY <1>1, <1>2, <1>3 DEF IdOf, External, IsFull
<1>5. me # None /\ me.print # None /\ me.print \in Prints /\ me.scope \in Scopes
        /\ me.print.external \in Externals
        /\ \A id \in Ids : id.scope = me.scope /\ id.print = me.print => id = me
  BY <1>1, <1>2, NoneAssumption DEF Ids, Prints
<1> DEFINE Moves(phase) ==
             /\ Goto(c, phase)
             /\ statuses' \subseteq Ids /\ outbox' \subseteq Ids
             /\ proposals' \in [Externals -> Ids \cup {Normalized, None}]
             /\ submissions' \in [Scopes -> Prints \cup {None}]
             /\ \A id \in Ids : id # me => (Whole(id) => Whole(id)')
             /\ \/ phase \notin Resting \cup {"lock"} /\ lock' = lock /\ WrittenAt(c)'
                \/ phase \in Resting /\ lock' = None /\ Whole(me)'
<1>6. ASSUME NEW phase \in Phases, Moves(phase) PROVE LockedInv'
  BY <1>1, <1>2, <1>3, <1>4, <1>6, InsideStep
<1>7. ASSUME NEW phase \in Phases, Goto(c, phase) PROVE pc'[c] = phase
  BY <1>0, <1>7 DEF TypeOK, Goto
<1>8. CASE SaveProposal(c)
  <2>1. /\ pc[c] = "save" /\ Goto(c, "submit") /\ lock' = lock
        /\ proposals[me.print.external] = None
        /\ proposals' = [proposals EXCEPT ![me.print.external] = me]
        /\ UNCHANGED <<submissions, statuses, outbox>>
    BY <1>2, <1>4, <1>8 DEF SaveProposal, CanSave, recordVars
  <2>2. Partly(c, FALSE, FALSE, FALSE, FALSE) /\ Submitted(c) = None /\ pc'[c] = "submit"
    BY <1>1, <1>7, <2>1 DEF WrittenAt, Phases
  <2>3. proposals'[me.print.external] = me
    BY <1>0, <1>5, <2>1 DEF TypeOK
  <2>4. Partly(c, TRUE, FALSE, FALSE, FALSE)' /\ Submitted(c)' = None
    BY <1>2, <1>3, <1>4, <2>1, <2>2, <2>3 DEF Partly, IsSubmitted, Submitted
  <2>5. WrittenAt(c)'
    BY <2>2, <2>4 DEF WrittenAt
  <2>6. ASSUME NEW id \in Ids, id # me PROVE Whole(id)' <=> Whole(id)
    <3>1. id.print.external \in Externals /\ id # None
      BY NoneAssumption DEF Ids, Prints
    <3>2. proposals'[id.print.external] = id <=> proposals[id.print.external] = id
      BY <1>0, <2>1, <2>6, <3>1 DEF TypeOK
    <3> QED BY <2>1, <3>2 DEF Whole, IsSubmitted
  <2>7. Moves("submit")
    BY <1>0, <1>5, <2>1, <2>5, <2>6 DEF TypeOK, Resting
  <2> HIDE DEF Moves
  <2> QED BY <1>6, <2>7 DEF Phases
<1>9. CASE SubmitOnce(c)
  <2>1. pc[c] = "submit" /\ lock' = lock /\ UNCHANGED <<proposals, statuses, outbox>>
    BY <1>9 DEF SubmitOnce, recordVars
  <2>2. Partly(c, TRUE, FALSE, FALSE, FALSE) /\ Submitted(c) = None
    BY <1>1, <2>1 DEF WrittenAt
  <2>3. Resolution(c) = "created"
    BY <1>1, <1>2, <1>5, <2>2 DEF Resolution
  <2>4. Goto(c, "status") /\ submissions' = [submissions EXCEPT ![me.scope] = me.print]
    BY <1>1, <1>2, <1>9, <2>3 DEF SubmitOnce, Resolved
  <2>5. pc'[c] = "status" /\ submissions'[me.scope] = me.print
    BY <1>0, <1>5, <1>7, <2>4 DEF TypeOK, Phases
  <2>6. Partly(c, TRUE, TRUE, FALSE, FALSE)'
    BY <1>2, <1>4, <2>1, <2>2, <2>5 DEF Partly, IsSubmitted
  <2>7. WrittenAt(c)'
    BY <2>5, <2>6 DEF WrittenAt
  <2>8. ASSUME NEW id \in Ids, id # me PROVE Whole(id)' <=> Whole(id)
    <3>1. id.scope \in Scopes /\ id.print # None
      BY NoneAssumption DEF Ids
    <3>2. submissions[me.scope] = None
      BY <1>1, <1>2, <2>2
    <3>3. submissions'[id.scope] = id.print <=> submissions[id.scope] = id.print
      BY <1>0, <1>5, <2>4, <2>8, <3>1, <3>2 DEF TypeOK
    <3> QED BY <2>1, <3>3 DEF Whole, IsSubmitted
  <2>9. Moves("status")
    BY <1>0, <1>5, <2>1, <2>4, <2>7, <2>8 DEF TypeOK, Resting
  <2> HIDE DEF Moves
  <2> QED BY <1>6, <2>9 DEF Phases
<1>10. CASE RecordStatus(c)
  <2>1. /\ pc[c] = "status" /\ Goto(c, "outbox") /\ lock' = lock
        /\ statuses' = statuses \cup {me}
        /\ UNCHANGED <<proposals, submissions, outbox>>
    BY <1>2, <1>10 DEF RecordStatus
  <2>2. Partly(c, TRUE, TRUE, FALSE, FALSE) /\ pc'[c] = "outbox"
    BY <1>1, <1>7, <2>1 DEF WrittenAt, Phases
  <2>3. Partly(c, TRUE, TRUE, TRUE, FALSE)' /\ me \in statuses'
    BY <1>2, <1>4, <2>1, <2>2 DEF Partly, IsSubmitted
  <2>4. WrittenAt(c)'
    BY <1>4, <2>2, <2>3 DEF WrittenAt
  <2>5. ASSUME NEW id \in Ids, id # me PROVE Whole(id)' <=> Whole(id)
    BY <2>1, <2>5 DEF Whole, IsSubmitted
  <2>6. Moves("outbox")
    BY <1>0, <2>1, <2>4, <2>5 DEF TypeOK, Resting
  <2> HIDE DEF Moves
  <2> QED BY <1>6, <2>6 DEF Phases
<1>11. CASE PrepareEvent(c)
  <2>1. /\ pc[c] = "outbox" /\ Goto(c, "accepted") /\ lock' = None
        /\ outbox' = outbox \cup {me}
        /\ UNCHANGED <<proposals, submissions, statuses>>
    BY <1>1, <1>2, <1>11 DEF PrepareEvent, Accept, LockLeft
  <2>2. Partly(c, TRUE, TRUE, TRUE, FALSE) /\ me \in statuses
    BY <1>1, <1>2, <2>1 DEF WrittenAt
  <2>3. Whole(me)'
    BY <1>2, <1>4, <2>1, <2>2 DEF Partly, IsSubmitted, Whole
  <2>4. ASSUME NEW id \in Ids, id # me PROVE Whole(id)' <=> Whole(id)
    BY <2>1, <2>4 DEF Whole, IsSubmitted
  <2>5. Moves("accepted")
    BY <1>0, <2>1, <2>3, <2>4 DEF TypeOK, Resting
  <2> HIDE DEF Moves
  <2> QED BY <1>6, <2>5 DEF Phases, Resting
<1>12. CASE UndoOutbox(c)
  <2>1. /\ pc[c] = "undo_outbox" /\ Goto(c, "undo_status") /\ lock' = lock
        /\ outbox' = outbox \ {me}
        /\ UNCHANGED <<proposals, submissions, statuses>>
    BY <1>2, <1>12 DEF UndoOutbox
  <2>2. Partly(c, TRUE, TRUE, TRUE, FALSE) /\ pc'[c] = "undo_status"
    BY <1>1, <1>7, <2>1 DEF WrittenAt, Phases, Undoing
  <2>3. Partly(c, TRUE, TRUE, TRUE, FALSE)'
    BY <1>2, <1>4, <2>1, <2>2 DEF Partly, IsSubmitted
  <2>4. WrittenAt(c)'
    BY <2>2, <2>3 DEF WrittenAt
  <2>5. ASSUME NEW id \in Ids, id # me PROVE Whole(id)' <=> Whole(id)
    BY <2>1, <2>5 DEF Whole, IsSubmitted
  <2>6. Moves("undo_status")
    BY <1>0, <2>1, <2>4, <2>5 DEF TypeOK, Resting
  <2> HIDE DEF Moves
  <2> QED BY <1>6, <2>6 DEF Phases, Undoing
<1>13. CASE UndoStatus(c)
  <2>1. /\ pc[c] = "undo_status" /\ Goto(c, "undo_submission") /\ lock' = lock
        /\ statuses' = statuses \ {me}
        /\ UNCHANGED <<proposals, submissions, outbox>>
    BY <1>2, <1>13 DEF UndoStatus
  <2>2. Partly(c, TRUE, TRUE, TRUE, FALSE) /\ pc'[c] = "undo_submission"
    BY <1>1, <1>7, <2>1 DEF WrittenAt, Phases, Undoing
  <2>3. Partly(c, TRUE, TRUE, FALSE, FALSE)'
    BY <1>2, <1>4, <2>1, <2>2 DEF Partly, IsSubmitted
  <2>4. WrittenAt(c)'
    BY <2>2, <2>3 DEF WrittenAt
  <2>5. ASSUME NEW id \in Ids, id # me PROVE Whole(id)' <=> Whole(id)
    BY <2>1, <2>5 DEF Whole, IsSubmitted
  <2>6. Moves("undo_submission")
    BY <1>0, <2>1, <2>4, <2>5 DEF TypeOK, Resting
  <2> HIDE DEF Moves
  <2> QED BY <1>6, <2>6 DEF Phases, Undoing
<1>14. CASE UndoSubmission(c)
  <2>1. /\ pc[c] = "undo_submission" /\ Goto(c, "undo_proposal") /\ lock' = lock
        /\ submissions' = RolledBack(c)
        /\ UNCHANGED <<proposals, statuses, outbox>>
    BY <1>14 DEF UndoSubmission, recordVars
  <2>2. Partly(c, TRUE, TRUE, FALSE, FALSE) /\ pc'[c] = "undo_proposal"
    BY <1>1, <1>7, <2>1 DEF WrittenAt, Phases, Undoing
  <2>3. /\ submissions[me.scope] = me.print
        /\ submissions' = [submissions EXCEPT ![me.scope] = None]
    BY <1>1, <1>2, <2>1, <2>2 DEF Partly, RolledBack, IsSubmitted
  <2>4. submissions'[me.scope] = None
    BY <1>0, <1>5, <2>3 DEF TypeOK
  <2>5. Partly(c, TRUE, FALSE, FALSE, FALSE)'
    BY <1>2, <1>4, <1>5, <2>1, <2>2, <2>4 DEF Partly, IsSubmitted
  <2>6. WrittenAt(c)'
    BY <2>2, <2>5 DEF WrittenAt
  <2>7. ASSUME NEW id \in Ids, id # me PROVE Whole(id)' <=> Whole(id)
    <3>1. id.scope \in Scopes /\ id.print # None
      BY NoneAssumption DEF Ids
    <3>2. submissions'[id.scope] = id.print <=> submissions[id.scope] = id.print
      BY <1>0, <1>5, <2>3, <2>7, <3>1 DEF TypeOK
    <3> QED BY <2>1, <3>2 DEF Whole, IsSubmitted
  <2>8. Moves("undo_proposal")
    BY <1>0, <1>5, <2>1, <2>3, <2>6, <2>7 DEF TypeOK, Resting
  <2> HIDE DEF Moves
  <2> QED BY <1>6, <2>8 DEF Phases, Undoing
<1>15. CASE UndoProposal(c)
  <2>1. /\ pc[c] = "undo_proposal" /\ Goto(c, "refuse") /\ lock' = lock
        /\ proposals' = [proposals EXCEPT ![me.print.external] = None]
        /\ UNCHANGED <<submissions, statuses, outbox>>
    BY <1>4, <1>15 DEF UndoProposal, recordVars
  <2>2. Partly(c, TRUE, FALSE, FALSE, FALSE) /\ pc'[c] = "refuse"
    BY <1>1, <1>7, <2>1 DEF WrittenAt, Phases
  <2>3. /\ proposals'[me.print.external] = None
        /\ proposals[me.print.external] = me
    BY <1>0, <1>2, <1>4, <1>5, <2>1, <2>2 DEF TypeOK, Partly
  <2>4. Whole(me)'
    BY <1>2, <1>5, <2>1, <2>2, <2>3 DEF Partly, Whole, IsSubmitted
  <2>5. WrittenAt(c)'
    BY <1>4, <2>2, <2>4 DEF WrittenAt, Whole, IsSubmitted
  <2>6. ASSUME NEW id \in Ids, id # me PROVE Whole(id)' <=> Whole(id)
    <3>1. id.print.external \in Externals /\ id # None
      BY NoneAssumption DEF Ids, Prints
    <3>2. proposals'[id.print.external] = id <=> proposals[id.print.external] = id
      BY <1>0, <2>1, <2>3, <2>6, <3>1 DEF TypeOK
    <3> QED BY <2>1, <3>2 DEF Whole, IsSubmitted
  <2>7. Moves("refuse")
    BY <1>0, <1>5, <2>1, <2>5, <2>6 DEF TypeOK, Resting
  <2> HIDE DEF Moves
  <2> QED BY <1>6, <2>7 DEF Phases
<1> QED BY <1>8, <1>9, <1>10, <1>11, <1>12, <1>13, <1>14, <1>15

(* The lock leaves no scope to be taken between find and submit_once.        *)
LEMMA LockedStepInductive ==
    ASSUME LockedInv, NEW c \in Callers, LockedStep(c)
    PROVE  LockedInv'
<1>1. ~Discard(c) /\ ~Withdraw(c)
  <2>1. pc[c] \notin {"discard", "withdraw"}
    BY InsideTyped DEF WrittenAt, Resting
  <2> QED BY <2>1 DEF Discard, Withdraw
<1> QED BY <1>1, OutsideStep, ReadingSteps, WritingSteps DEF LockedStep, Inside

LEMMA LockedUnchanged == LockedInv /\ UNCHANGED vars => LockedInv'
<1> SUFFICES ASSUME LockedInv, UNCHANGED vars PROVE LockedInv'
  OBVIOUS
<1>1. UNCHANGED <<proposals, submissions, statuses, outbox, lock, pc, call, calls>>
  BY DEF vars, recordVars
<1>2. TypeOK' /\ AloneInside'
  BY <1>1 DEF LockedInv, TypeOK, AloneInside, IsFull
<1>3. \A c \in Callers : lock' = c => WrittenAt(c)'
  BY <1>1 DEF LockedInv, WrittenAt, Partly, Whole, IsSubmitted, Submitted, External, IdOf
<1>4. \A id \in Ids : (\A c \in Callers : lock' = c => IdOf(c)' # id) => Whole(id)'
  BY <1>1 DEF LockedInv, Whole, IsSubmitted, IdOf
<1> QED BY <1>2, <1>3, <1>4 DEF LockedInv

LEMMA WholeIsAllOrNothing == LockedInv => AllOrNothing
  BY NoneAssumption DEF LockedInv, AllOrNothing, Whole, IsSubmitted

(* Where all calls are locked and no deletion raises, a failure leaves       *)
(* nothing behind.                                                           *)
THEOREM LockedCallsLeaveNothing ==
    ASSUME Entries = {"full"}, "delete_raises" \notin Faults
    PROVE  Spec => []AllOrNothing
<1>1. ASSUME LockedInv, [Next]_vars PROVE LockedInv'
  <2>1. ASSUME NEW c \in Callers, Submit(c) PROVE LockedSubmit(c)
    BY <2>1 DEF Submit, LockedSubmit
  <2>2. ASSUME NEW c \in Callers, Proceed(c) PROVE LockedStep(c)
    BY <2>2 DEF Proceed, LockedStep, Inside, RecordingFails, RecordingStops, DiscardFails, UndoFails
  <2>3. \A c \in Callers : ~Normalize(c)
    BY DEF Normalize
  <2> QED BY <1>1, <2>1, <2>2, <2>3, LockedStepInductive, LockedUnchanged
          DEF Next, Finished, LockedStep
<1> QED
  BY <1>1, LockedInit, WholeIsAllOrNothing, PTL DEF Spec

(* The same of the instance that a run composes with the three entry points. *)
THEOREM LockedIsAllOrNothing == IntakeSpec => []LockedAllOrNothing
<1> DEFINE Kept == locked => LockedInv
<1>1. IntakeInit => Kept
  BY LockedInit DEF IntakeInit
<1>2. ASSUME Kept, [IntakeNext]_<<vars, locked>> PROVE Kept'
  <2>1. CASE UNCHANGED <<vars, locked>>
    BY <1>2, <2>1, LockedUnchanged
  <2>2. CASE IntakeNext
    <3> SUFFICES ASSUME locked' PROVE LockedInv'
      OBVIOUS
    <3>1. locked /\ LockedInv /\ Locked!Next
      BY <1>2, <2>2 DEF IntakeNext
    <3>2. ASSUME NEW c \in Callers, Locked!Submit(c) PROVE LockedSubmit(c)
      BY <3>2 DEF Locked!Submit, LockedSubmit, Locked!Goto, Goto, Locked!Prints, Prints,
         Locked!recordVars, recordVars, Locked!Resting, Resting
    <3>3. ASSUME NEW c \in Callers, Locked!Proceed(c) PROVE LockedStep(c)
      <4>1. /\ (Locked!Lock(c) <=> Lock(c))
            /\ (Locked!FindNothing(c) <=> FindNothing(c))
            /\ (Locked!FindReplay(c) <=> FindReplay(c))
            /\ (Locked!FindConflict(c) <=> FindConflict(c))
        BY DEF Locked!Goto, Goto, Locked!recordVars, recordVars, Locked!Submitted, Submitted,
           Locked!IsFull, IsFull, Locked!LockLeft, LockLeft, Locked!Accept, Accept, Locked!Lock,
           Lock, Locked!FindNothing, FindNothing, Locked!FindReplay, FindReplay,
           Locked!FindConflict, FindConflict
      <4>2. /\ (Locked!SaveProposal(c) <=> SaveProposal(c))
            /\ (Locked!SaveDuplicate(c) <=> SaveDuplicate(c))
        BY DEF Locked!Goto, Goto, Locked!recordVars, recordVars, Locked!CanSave, CanSave,
           Locked!IdOf, IdOf, Locked!External, External, Locked!SaveProposal, SaveProposal,
           Locked!SaveDuplicate, SaveDuplicate
      <4>3. (Locked!SubmitOnce(c) <=> SubmitOnce(c))
        BY DEF Locked!Goto, Goto, Locked!recordVars, recordVars, Locked!Submitted, Submitted,
           Locked!IsFull, IsFull, Locked!Resolution, Resolution, Locked!Resolved, Resolved,
           Locked!SubmitOnce, SubmitOnce
      <4>4. /\ (Locked!Discard(c) <=> Discard(c))
            /\ (Locked!Withdraw(c) <=> Withdraw(c))
            /\ (Locked!UndoSubmission(c) <=> UndoSubmission(c))
            /\ (Locked!UndoProposal(c) <=> UndoProposal(c))
        BY DEF Locked!Goto, Goto, Locked!recordVars, recordVars, Locked!External, External,
           Locked!Submitted, Submitted, Locked!RolledBack, RolledBack, Locked!Discard, Discard,
           Locked!Withdraw, Withdraw, Locked!UndoSubmission, UndoSubmission, Locked!UndoProposal,
           UndoProposal
      <4>5. /\ (Locked!CompareReplay(c) <=> CompareReplay(c))
            /\ (Locked!CompareMissing(c) <=> CompareMissing(c))
            /\ (Locked!Refuse(c) <=> Refuse(c))
        BY DEF Locked!Goto, Goto, Locked!recordVars, recordVars, Locked!IdOf, IdOf,
           Locked!LockLeft, LockLeft, Locked!Accept, Accept, Locked!Recorded, Recorded,
           Locked!CompareReplay, CompareReplay, Locked!CompareMissing, CompareMissing,
           Locked!Refuse, Refuse
      <4>6. /\ (Locked!RecordStatus(c) <=> RecordStatus(c))
            /\ (Locked!PrepareEvent(c) <=> PrepareEvent(c))
            /\ (Locked!UndoOutbox(c) <=> UndoOutbox(c))
            /\ (Locked!UndoStatus(c) <=> UndoStatus(c))
        BY DEF Locked!Goto, Goto, Locked!recordVars, recordVars, Locked!IdOf, IdOf,
           Locked!LockLeft, LockLeft, Locked!Accept, Accept, Locked!RecordStatus, RecordStatus,
           Locked!PrepareEvent, PrepareEvent, Locked!UndoOutbox, UndoOutbox, Locked!UndoStatus,
           UndoStatus
      <4>7. Locked!RecordingFails(c) => RecordingStops(c)
        BY DEF Locked!RecordingFails, RecordingStops, Locked!Goto, Goto, Locked!recordVars,
           recordVars
      <4>8. ~Locked!DiscardFails(c) /\ ~Locked!UndoFails(c)
        BY DEF Locked!DiscardFails, Locked!UndoFails
      <4> QED
        BY <3>3, <4>1, <4>2, <4>3, <4>4, <4>5, <4>6, <4>7, <4>8
           DEF Locked!Proceed, LockedStep, Inside
    <3>4. \A c \in Callers : ~Locked!Normalize(c)
      BY DEF Locked!Normalize
    <3>5. Locked!Finished => UNCHANGED vars
      BY DEF Locked!Finished, Locked!vars, vars, Locked!recordVars, recordVars
    <3> QED BY <3>1, <3>2, <3>3, <3>4, <3>5, LockedStepInductive, LockedUnchanged
            DEF Locked!Next, LockedStep
  <2> QED BY <1>2, <2>1, <2>2
<1>3. Kept => LockedAllOrNothing
  BY WholeIsAllOrNothing DEF LockedAllOrNothing
<1> QED
  BY <1>1, <1>2, <1>3, PTL DEF IntakeSpec
=============================================================================
