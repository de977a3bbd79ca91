---------------------- MODULE IntegrationExecutionProofs ----------------------
(***************************************************************************)
(* Proofs about IntegrationExecution, for any sets of callers, keys, plans *)
(* and jobs and for any faults.  IInv is the inductive invariant: the type *)
(* invariant, what the phase of a call says about its locals and the store,*)
(* and the ownership of reservations.  That stored executions are final    *)
(* and that the service implements IdempotentClaim are facts about single  *)
(* steps that follow from it.  StoresInv and EventsInv add to it what makes *)
(* the agreement of the stores and the delivery of events inductive.       *)
(***************************************************************************)
EXTENDS IntegrationExecution, TLAPS

(* What the constants of the model say, in the form the proofs use. *)
LEMMA JobsOfType ==
    ASSUME NEW p \in Prints
    PROVE  JobsOf(p) \subseteq Jobs
  BY ConstantsAssumption DEF JobsOf, Prints, StartPrints, ReprocessPrints, StartLetters

(* A dispatch reports outcomes of jobs, and letters of an execution. *)
LEMMA DispatchType ==
    ASSUME NEW id \in ExecutionIds, NEW J \in SUBSET Jobs, NEW outcome \in [J -> Outcomes]
    PROVE  /\ outcome \in JobOutcomes
           /\ LettersOf(id, outcome) \subseteq Letters
  BY DEF JobOutcomes, LettersOf, Letters

(* Before its dispatch a call has no outcome. *)
LEMMA NoOutcomeType == NoOutcome \in JobOutcomes
<1>1. NoOutcome \in [{} -> Outcomes]
  BY DEF NoOutcome
<1> QED
  BY <1>1 DEF JobOutcomes

(* The events of an execution are a sequence of event kinds. *)
LEMMA EventsType ==
    ASSUME NEW p, NEW outcome
    PROVE  EventsOf(p, outcome) \in Seq(EventKinds)
<1>1. \A s, t \in Seq(EventKinds) : s \o t \in Seq(EventKinds)
  OBVIOUS
<1>2. <<"execution", "cost">> \in Seq(EventKinds)
  BY DEF EventKinds
<1>3. \A P, e : e \in EventKinds => When(P, e) \in Seq(EventKinds)
  BY DEF When
<1>4. {"retry", "dlq", "reprocess"} \subseteq EventKinds
  BY DEF EventKinds
<1> DEFINE some(S) == \E j \in DOMAIN outcome : outcome[j] \in S
<1>5. /\ When(some(RetryableClasses), "retry") \in Seq(EventKinds)
      /\ When(some(FailureClasses), "dlq") \in Seq(EventKinds)
      /\ When(p.kind = "reprocess", "reprocess") \in Seq(EventKinds)
  BY <1>3, <1>4
<1> QED
  BY <1>1, <1>2, <1>5 DEF EventsOf

LEMMA InitInductive == Init => IInv
<1> SUFFICES ASSUME Init PROVE IInv
  OBVIOUS
<1>2. TypeOK
  BY NoOutcomeType, ConstantsAssumption DEF Init, TypeOK, Phases, Resting
<1>3. PhasesConsistent /\ ReservationsOwned
  BY DEF Init, PhasesConsistent, PhaseConsistent, ReservationsOwned, Holding
<1> QED
  BY <1>2, <1>3 DEF IInv

(* The steps of a call that change nothing but its phase. *)
MovesOnly(c) ==
    /\ \E p \in Phases : pc' = [pc EXCEPT ![c] = p]
    /\ UNCHANGED <<storeVars, dlqVars, eventVars, audited, localVars, calls>>

LEMMA Movers ==
    ASSUME NEW c \in Callers,
           \/ ReserveHit(c) \/ ReserveConflict(c) \/ ReserveWait(c)
           \/ CheckPasses(c) \/ CheckFails(c) \/ SaveFails(c) \/ MarkFails(c)
           \/ PublishFails(c) \/ EndPublication(c) \/ AuditFails(c)
    PROVE  MovesOnly(c)
  BY DEF ReserveHit, ReserveConflict, ReserveWait, CheckPasses, CheckFails, SaveFails,
         MarkFails, PublishFails, EndPublication, AuditFails, MovesOnly, Phases, Resting

(* Waking the waiters keeps every phase a phase. *)
LEMMA WokenType ==
    ASSUME TypeOK PROVE Woken(pc) \in [Callers -> Phases]
  BY DEF TypeOK, Woken, Phases

(* A caller inside a call has a key and a fingerprint. *)
LEMMA CallType ==
    ASSUME TypeOK, PhasesConsistent, NEW c \in Callers, pc[c] # "idle"
    PROVE  /\ call[c] \in [key : Keys, print : Prints]
           /\ IdOf(c) \in ExecutionIds
           /\ JobsOf(call[c].print) \subseteq Jobs
<1>1. call[c] \in [key : Keys, print : Prints]
  BY DEF TypeOK, PhasesConsistent, PhaseConsistent
<1> QED
  BY <1>1, JobsOfType DEF IdOf, ExecutionIds

LEMMA TypePreserved ==
    ASSUME TypeOK, PhasesConsistent, [Next]_vars
    PROVE  TypeOK'
<1>1. CASE UNCHANGED vars
  BY <1>1 DEF TypeOK, vars, storeVars, dlqVars, eventVars, localVars
<1>2. ASSUME NEW c \in Callers, CallStart(c) PROVE TypeOK'
  <2>1. PICK k \in Keys, p \in Plans : Begin(c, k, [kind |-> "start", plan |-> p], {})
    BY <1>2 DEF CallStart
  <2>2. [kind |-> "start", plan |-> p] \in Prints
    BY DEF Prints, StartPrints
  <2> QED
    BY <2>1, <2>2, NoOutcomeType DEF TypeOK, Begin, storeVars, dlqVars, eventVars, Phases
<1>3. ASSUME NEW c \in Callers, CallReprocess(c) PROVE TypeOK'
  <2>1. PICK k \in Keys, r \in Reasons, d \in letters \cap StartLetters :
            Begin(c, k, [kind |-> "reprocess", letter |-> d, reason |-> r], ReprocessesOf(d))
    BY <1>3 DEF CallReprocess
  <2>2. [kind |-> "reprocess", letter |-> d, reason |-> r] \in Prints
    BY DEF Prints, ReprocessPrints
  <2>3. ReprocessesOf(d) \subseteq ExecutionIds
    BY DEF TypeOK, ReprocessesOf
  <2> QED
    BY <2>1, <2>2, <2>3, NoOutcomeType DEF TypeOK, Begin, storeVars, dlqVars, eventVars, Phases
<1>4. ASSUME NEW c \in Callers, MovesOnly(c) PROVE TypeOK'
  BY <1>4 DEF TypeOK, MovesOnly, storeVars, dlqVars, eventVars, localVars
<1>5. ASSUME NEW c \in Callers, ReserveNew(c) PROVE TypeOK'
  <2>1. call[c] \in [key : Keys, print : Prints]
    BY <1>5, CallType DEF ReserveNew
  <2> QED
    BY <1>5, <2>1 DEF TypeOK, ReserveNew, dlqVars, eventVars, Phases
<1>6. ASSUME NEW c \in Callers, Dispatch(c) PROVE TypeOK'
  <2>1. PICK outcome \in [JobsOf(call[c].print) -> Outcomes] :
            /\ letters' = letters \cup LettersOf(IdOf(c), outcome)
            /\ result' = [result EXCEPT ![c] = outcome]
    BY <1>6 DEF Dispatch
  <2>2. IdOf(c) \in ExecutionIds /\ JobsOf(call[c].print) \subseteq Jobs
    BY <1>6, CallType DEF Dispatch
  <2>3. outcome \in JobOutcomes /\ LettersOf(IdOf(c), outcome) \subseteq Letters
    BY <2>2, DispatchType
  <2> QED
    BY <1>6, <2>1, <2>3 DEF TypeOK, Dispatch, storeVars, eventVars, Phases
<1>7. ASSUME NEW c \in Callers, DispatchRaises(c) PROVE TypeOK'
  <2>1. PICK J \in SUBSET JobsOf(call[c].print) : \E outcome \in [J -> Outcomes] :
            letters' = letters \cup LettersOf(IdOf(c), outcome)
    BY <1>7 DEF DispatchRaises
  <2>2. PICK outcome \in [J -> Outcomes] : letters' = letters \cup LettersOf(IdOf(c), outcome)
    BY <2>1
  <2>3. IdOf(c) \in ExecutionIds /\ JobsOf(call[c].print) \subseteq Jobs
    BY <1>7, CallType DEF DispatchRaises
  <2>4. LettersOf(IdOf(c), outcome) \subseteq Letters
    BY <2>3, DispatchType
  <2> QED
    BY <1>7, <2>2, <2>4 DEF TypeOK, DispatchRaises, storeVars, eventVars, localVars, Phases
<1>8. ASSUME NEW c \in Callers, Save(c) PROVE TypeOK'
  <2>1. call[c] \in [key : Keys, print : Prints]
    BY <1>8, CallType DEF Save
  <2>2. Created(c) \in Executions
    BY <2>1 DEF TypeOK, Created, Executions
  <2> QED
    BY <1>8, <2>1, <2>2, WokenType
    DEF TypeOK, Save, ReservationPopped, dlqVars, eventVars, localVars, Phases
<1>9. ASSUME NEW c \in Callers, MarkReprocessed(c) PROVE TypeOK'
  <2>1. /\ call[c] \in [key : Keys, print : Prints]
        /\ IdOf(c) \in ExecutionIds
    BY <1>9, CallType DEF MarkReprocessed
  <2>2. call[c].print.letter \in StartLetters
    BY <1>9, <2>1 DEF MarkReprocessed, PhasesConsistent, PhaseConsistent, IsReprocess, Prints, StartPrints, ReprocessPrints
  <2>3. history' \in Seq(StartLetters \X ExecutionIds)
    BY <1>9, <2>1, <2>2 DEF TypeOK, MarkReprocessed
  <2> QED
    BY <1>9, <2>1, <2>2, <2>3 DEF TypeOK, MarkReprocessed, storeVars, eventVars, localVars, Phases
<1>10. ASSUME NEW c \in Callers, Stage(c) PROVE TypeOK'
  <2>1. call[c].key \in Keys
    BY <1>10, CallType DEF Stage
  <2>2. staged' \in [Keys -> Seq(EventKinds)]
    BY <1>10, <2>1, EventsType DEF TypeOK, Stage
  <2> QED
    BY <1>10, <2>2 DEF TypeOK, Stage, storeVars, dlqVars, localVars, Phases
<1>11. ASSUME NEW c \in Callers, ListUnpublished(c) PROVE TypeOK'
  <2>1. call[c].key \in Keys
    BY <1>11, CallType DEF ListUnpublished
  <2>2. {staged[call[c].key][i] : i \in DOMAIN staged[call[c].key]} \subseteq EventKinds
    BY <2>1 DEF TypeOK
  <2> QED
    BY <1>11, <2>2 DEF TypeOK, ListUnpublished, storeVars, dlqVars, eventVars, Phases
<1>12. ASSUME NEW c \in Callers, Publish(c) PROVE TypeOK'
  <2>1. call[c].key \in Keys
    BY <1>12, CallType DEF Publish
  <2> QED
    BY <1>12, <2>1 DEF TypeOK, Publish, storeVars, dlqVars, localVars, Phases
<1>13. ASSUME NEW c \in Callers, ConfirmPublished(c) PROVE TypeOK'
  <2>1. call[c].key \in Keys
    BY <1>13, CallType DEF ConfirmPublished
  <2> QED
    BY <1>13, <2>1 DEF TypeOK, ConfirmPublished, storeVars, dlqVars, Phases
<1>14. ASSUME NEW c \in Callers, AuditAccepted(c) PROVE TypeOK'
  <2>1. IdOf(c) \in ExecutionIds
    BY <1>14, CallType DEF AuditAccepted
  <2> QED
    BY <1>14, <2>1 DEF TypeOK, AuditAccepted, storeVars, dlqVars, eventVars, localVars, Phases, Resting
<1>15. ASSUME NEW c \in Callers, Fail(c) PROVE TypeOK'
  <2>1. call[c].key \in Keys
    BY <1>15, CallType DEF Fail
  <2> QED
    BY <1>15, <2>1, WokenType DEF TypeOK, Fail, dlqVars, eventVars, localVars, Phases, Resting
<1> QED
  BY <1>1, <1>2, <1>3, <1>4, <1>5, <1>6, <1>7, <1>8, <1>9, <1>10, <1>11, <1>12, <1>13, <1>14,
     <1>15, Movers DEF Next, Proceed, Reserve, Finished

(***************************************************************************)
(* The phases and the ownership of reservations.  Only ReserveNew, Save     *)
(* and Fail touch the execution store; every other step moves one caller    *)
(* between phases that are alike in PhasesConsistent and in Holding.        *)
(***************************************************************************)
LEMMA InductivePreserved ==
    ASSUME IInv, [Next]_vars
    PROVE  PhasesConsistent' /\ ReservationsOwned'
<1> DEFINE P == PhasesConsistent' /\ ReservationsOwned'
<1> USE DEF IInv
<1>1. CASE UNCHANGED vars
  BY <1>1 DEF PhasesConsistent, PhaseConsistent, ReservationsOwned, Holding, IsReprocess, StoredFor,
     vars, storeVars, localVars
<1>2. ASSUME NEW c \in Callers, NEW k \in Keys, NEW p \in Prints, NEW known,
             Begin(c, k, p, known)
      PROVE  P
  <2>1. ~Holding(c)
    BY <1>2 DEF Begin, Holding, Resting
  <2>2. [key |-> k, print |-> p] # NoCall
    BY <1>2, NoneAssumption DEF NoCall
  <2>3. PhasesConsistent'
    BY <1>2, <2>2 DEF TypeOK, PhasesConsistent, PhaseConsistent, IsReprocess, StoredFor, Begin, storeVars
  <2>4. \A d \in Callers : /\ Holding(d)' <=> Holding(d)
                           /\ Holding(d) => call'[d] = call[d]
    BY <1>2, <2>1 DEF TypeOK, Holding, Begin, storeVars
  <2>5. UNCHANGED storeVars
    BY <1>2 DEF Begin
  <2> QED
    BY <2>3, <2>4, <2>5 DEF ReservationsOwned, storeVars
(* Steps that touch neither the store nor what Holding depends on. *)
<1>3. ASSUME NEW c \in Callers, UNCHANGED <<executions, reservations, call, acquired>>,
             \A d \in Callers : Holding(d)' <=> Holding(d)
      PROVE  ReservationsOwned'
  BY <1>3 DEF ReservationsOwned
<1>4. ASSUME NEW c \in Callers, ReserveNew(c) PROVE P
  <2>1. call[c].key \in Keys /\ call[c].print \in Prints
    BY <1>4, CallType DEF ReserveNew
  <2>2. PhasesConsistent'
    BY <1>4 DEF TypeOK, PhasesConsistent, PhaseConsistent, IsReprocess, StoredFor, ReserveNew
  <2>3. ~Holding(c)
    BY <1>4 DEF ReserveNew, Holding
  <2>4. \A d \in Callers : Holding(d)' <=> d = c \/ Holding(d)
    BY <1>4 DEF TypeOK, Holding, ReserveNew
  <2>5. ASSUME NEW d \in Callers, Holding(d)
        PROVE  /\ call[d].key \in Keys
               /\ call[d].key # call[c].key
    <3>1. call[d].key \in Keys /\ call[d].print \in Prints
      BY <2>5, CallType DEF Holding
    <3> QED
      BY <1>4, <2>5, <3>1, NoneAssumption DEF ReserveNew, FreeKey, ReservationsOwned
  <2>6. ReservationsOwned'
    BY <1>4, <2>1, <2>3, <2>4, <2>5 DEF TypeOK, ReservationsOwned, ReserveNew, FreeKey
  <2> QED
    BY <2>2, <2>6
<1>5. ASSUME NEW c \in Callers, ReserveHit(c) \/ ReserveConflict(c) \/ ReserveWait(c) PROVE P
  <2>1. ~acquired[c]
    BY <1>5 DEF PhasesConsistent, PhaseConsistent, ReserveHit, ReserveConflict, ReserveWait
  <2>2. PhasesConsistent'
    BY <1>5 DEF TypeOK, PhasesConsistent, PhaseConsistent, IsReprocess, StoredFor, ReserveHit, ReserveConflict,
       ReserveWait, storeVars, localVars
  <2>3. \A d \in Callers : Holding(d)' <=> Holding(d)
    BY <1>5, <2>1 DEF TypeOK, Holding, ReserveHit, ReserveConflict, ReserveWait, storeVars, localVars
  <2> QED
    BY <1>3, <1>5, <2>2, <2>3 DEF ReserveHit, ReserveConflict, ReserveWait, storeVars, localVars
<1>6. ASSUME NEW c \in Callers,
             CheckPasses(c) \/ CheckFails(c) \/ Dispatch(c) \/ DispatchRaises(c) \/ SaveFails(c)
      PROVE  P
  <2>1. Holding(c) /\ executions[call[c].key] = None
    BY <1>6 DEF PhasesConsistent, PhaseConsistent, ReservationsOwned, Holding, CheckPasses, CheckFails, Dispatch,
       DispatchRaises, SaveFails
  <2>2. PhasesConsistent'
    BY <1>6 DEF TypeOK, PhasesConsistent, PhaseConsistent, IsReprocess, StoredFor, CheckPasses, CheckFails,
       Dispatch, DispatchRaises, SaveFails, storeVars, localVars
  <2>3. UNCHANGED <<executions, reservations, call, acquired>>
    BY <1>6 DEF CheckPasses, CheckFails, Dispatch, DispatchRaises, SaveFails, storeVars, localVars
  <2>4. \A d \in Callers : Holding(d)' <=> Holding(d)
    BY <1>6, <2>1, <2>3 DEF TypeOK, Holding, CheckPasses, CheckFails, Dispatch, DispatchRaises, SaveFails
  <2> QED
    BY <1>3, <2>2, <2>3, <2>4
<1>7. ASSUME NEW c \in Callers, Save(c) PROVE P
  <2>1. call[c].key \in Keys /\ call[c].print \in Prints
    BY <1>7, CallType DEF Save
  <2>2. Holding(c)
    BY <1>7 DEF PhasesConsistent, PhaseConsistent, Holding, Save
  <2>3. executions[call[c].key] = None /\ Created(c) # None
    BY <2>1, <2>2, NoneAssumption DEF ReservationsOwned, TypeOK, Created, Executions
  <2>4. \A d \in Callers : Holding(d) /\ d # c => call[d].key # call[c].key
    BY <2>2 DEF ReservationsOwned
  <2>5. /\ executions' = [executions EXCEPT ![call[c].key] = Created(c)]
        /\ reservations' = [reservations EXCEPT ![call[c].key] = None]
        /\ UNCHANGED <<call, acquired>>
        /\ pc'[c] \in {"mark", "stage"} /\ (pc'[c] = "mark" => IsReprocess(c))
        /\ \A d \in Callers \ {c} : pc'[d] = IF pc[d] = "waiting" THEN "reserve" ELSE pc[d]
    BY <1>7 DEF Save, ReservationPopped, localVars, Woken, TypeOK
  <2>6. StoredFor(call[c].key, call[c].print)'
    BY <2>1, <2>3, <2>5 DEF TypeOK, StoredFor, Created
  <2>7. \A k \in Keys, p \in Prints : StoredFor(k, p) => StoredFor(k, p)'
    BY <2>1, <2>3, <2>5 DEF TypeOK, StoredFor
  <2>8. PhasesConsistent'
    <3>1. ASSUME NEW d \in Callers, d # c, pc[d] # "idle"
          PROVE  call[d].key \in Keys /\ call[d].print \in Prints
      BY <3>1, CallType
    <3>2. PhaseConsistent(c)'
      BY <1>7, <2>5, <2>6 DEF PhasesConsistent, PhaseConsistent, IsReprocess, Save
    <3>3. ASSUME NEW d \in Callers, d # c PROVE PhaseConsistent(d)'
      BY <2>5, <2>7, <3>1, <3>3 DEF PhasesConsistent, PhaseConsistent, IsReprocess
    <3> QED
      BY <3>2, <3>3 DEF PhasesConsistent
  <2>9. \A d \in Callers : Holding(d)' <=> d # c /\ Holding(d)
    <3>1. ASSUME NEW d \in Callers, d # c PROVE Holding(d)' <=> Holding(d)
      <4>1. CASE pc[d] = "fail" /\ acquired[d] /\ call[d].key = call[c].key
        <5>1. executions[call[d].key] = None
          BY <4>1, <2>3
        <5> QED
          BY <5>1, <4>1, <3>1, <2>4 DEF Holding
      <4>2. CASE pc[d] = "fail" /\ acquired[d] /\ call[d].key # call[c].key
        <5>1. call[d].key \in Keys
          BY <4>2, CallType
        <5> QED
          BY <5>1, <4>2, <3>1, <2>1, <2>5 DEF Holding, TypeOK
      <4>3. CASE ~(pc[d] = "fail" /\ acquired[d])
        BY <4>3, <3>1, <2>5 DEF Holding, TypeOK
      <4> QED
        BY <4>1, <4>2, <4>3
    <3>2. ~Holding(c)'
      BY <2>5 DEF Holding
    <3> QED
      BY <3>1, <3>2
  <2>10. ReservationsOwned'
    <3>1. ASSUME NEW d \in Callers, Holding(d), d # c
          PROVE  call[d].key \in Keys /\ call[d].key # call[c].key
      BY <3>1, <2>4, CallType DEF Holding
    <3> QED
      BY <2>1, <2>2, <2>5, <2>9, <3>1 DEF ReservationsOwned, TypeOK
  <2> QED
    BY <2>8, <2>10
<1>8. ASSUME NEW c \in Callers, pc[c] \in {"mark", "stage", "list", "publish", "confirm", "audit"},
             MarkReprocessed(c) \/ MarkFails(c) \/ Stage(c) \/ ListUnpublished(c) \/ Publish(c)
             \/ PublishFails(c) \/ ConfirmPublished(c) \/ EndPublication(c) \/ AuditAccepted(c)
             \/ AuditFails(c)
      PROVE  P
  <2>1. StoredFor(call[c].key, call[c].print)
    BY <1>8 DEF PhasesConsistent, PhaseConsistent
  <2>2. /\ UNCHANGED <<executions, reservations, call, acquired>>
        /\ \E q \in {"stage", "list", "publish", "confirm", "audit", "accepted", "fail"} :
              pc' = [pc EXCEPT ![c] = q]
    BY <1>8 DEF MarkReprocessed, MarkFails, Stage, ListUnpublished, Publish, PublishFails,
       ConfirmPublished, EndPublication, AuditAccepted, AuditFails, storeVars, localVars
  <2>3. PhasesConsistent'
    <3>1. PhaseConsistent(c)'
      BY <1>8, <2>1, <2>2 DEF TypeOK, PhasesConsistent, PhaseConsistent, StoredFor
    <3>2. ASSUME NEW d \in Callers, d # c PROVE PhaseConsistent(d)'
      BY <2>2, <3>2 DEF TypeOK, PhasesConsistent, PhaseConsistent, StoredFor, IsReprocess
    <3> QED
      BY <3>1, <3>2 DEF PhasesConsistent
  <2>4. \A d \in Callers : Holding(d)' <=> Holding(d)
    BY <1>8, <2>1, <2>2 DEF TypeOK, Holding, StoredFor
  <2> QED
    BY <1>3, <2>2, <2>3, <2>4
<1>9. ASSUME NEW c \in Callers, Fail(c) PROVE P
  <2>1. call[c].key \in Keys /\ call[c].print \in Prints
    BY <1>9, CallType DEF Fail
  <2>2. UNCHANGED <<executions, call, acquired>>
    BY <1>9 DEF Fail, localVars
  <2>3. /\ pc'[c] = "rejected"
        /\ \A d \in Callers \ {c} :
              \/ pc'[d] = pc[d]
              \/ pc[d] = "waiting" /\ pc'[d] = "reserve"
    BY <1>9 DEF Fail, Woken, TypeOK
  <2>4. PhasesConsistent'
    <3>1. PhaseConsistent(c)'
      BY <1>9, <2>2, <2>3 DEF PhasesConsistent, PhaseConsistent, Fail
    <3>2. ASSUME NEW d \in Callers, d # c PROVE PhaseConsistent(d)'
      BY <2>2, <2>3, <3>2 DEF PhasesConsistent, PhaseConsistent, StoredFor, IsReprocess
    <3> QED
      BY <3>1, <3>2 DEF PhasesConsistent
  <2>5. \A d \in Callers : Holding(d)' <=> d # c /\ Holding(d)
    BY <2>2, <2>3 DEF Holding
  <2>6. Releases(c) => Holding(c)
    BY <1>9, <2>1, NoneAssumption DEF Fail, Releases, Holding, ReservationsOwned
  <2>7. CASE Holding(c)
    <3>1. Releases(c)
      BY <1>9, <2>7, <2>1 DEF Fail, Releases, Holding, ReservationsOwned
    <3>2. reservations' = [reservations EXCEPT ![call[c].key] = None]
      BY <1>9, <3>1 DEF Fail
    <3>3. ASSUME NEW d \in Callers, Holding(d), d # c
          PROVE  call[d].key \in Keys /\ call[d].key # call[c].key
      BY <3>3, <2>7, CallType DEF Holding, ReservationsOwned
    <3> QED
      BY <2>1, <2>2, <2>4, <2>5, <2>7, <3>2, <3>3 DEF ReservationsOwned, TypeOK
  <2>8. CASE ~Holding(c)
    <3>1. reservations' = reservations
      BY <1>9, <2>6, <2>8 DEF Fail
    <3> QED
      BY <2>2, <2>4, <2>5, <2>8, <3>1 DEF ReservationsOwned
  <2> QED
    BY <2>7, <2>8
<1>10. ASSUME NEW c \in Callers, CallStart(c) \/ CallReprocess(c) PROVE P
  <2>1. \E k \in Keys, p \in Prints : \E known : Begin(c, k, p, known)
    BY <1>10 DEF CallStart, CallReprocess, Prints, StartPrints, ReprocessPrints
  <2> QED
    BY <1>2, <2>1
<1>11. ASSUME NEW c \in Callers, Proceed(c) PROVE P
  BY <1>11, <1>4, <1>5, <1>6, <1>7, <1>8, <1>9
  DEF Proceed, Reserve, MarkReprocessed, MarkFails, Stage, ListUnpublished, Publish, PublishFails,
      ConfirmPublished, EndPublication, AuditAccepted, AuditFails
<1> QED
  BY <1>1, <1>10, <1>11 DEF Next, Finished

(* IInv holds in every state of every behaviour of the service. *)
THEOREM Invariance == Spec => []IInv
<1>1. IInv /\ [Next]_vars => IInv'
  BY TypePreserved, InductivePreserved DEF IInv
<1> QED
  BY InitInductive, <1>1, PTL DEF Spec

(* Every variable of the service stays in its type. *)
THEOREM TypeCorrect == Spec => []TypeOK
<1>1. IInv => TypeOK
  BY DEF IInv
<1> QED
  BY Invariance, <1>1, PTL

(* A reservation always belongs to exactly one running call, and no running  *)
(* call loses its reservation: for any number of callers, keys and plans.    *)
THEOREM ReservationsAreOwned == Spec => []ReservationsOwned
<1>1. IInv => ReservationsOwned
  BY DEF IInv
<1> QED
  BY Invariance, <1>1, PTL

(* Save is the only step that writes an execution, and it finds none. *)
LEMMA SaveFindsNone ==
    ASSUME IInv, NEW c \in Callers, Save(c)
    PROVE  /\ call[c].key \in Keys /\ call[c].print \in Prints
           /\ executions[call[c].key] = None
           /\ reservations[call[c].key] = call[c].print
<1>1. Holding(c)
  BY DEF IInv, PhasesConsistent, PhaseConsistent, Holding, Save
<1> QED
  BY <1>1, CallType DEF IInv, ReservationsOwned, Save

(* The execution store changes in three ways only. *)
LEMMA StoreSteps ==
    ASSUME [Next]_vars
    PROVE  \/ UNCHANGED storeVars
           \/ \E c \in Callers : ReserveNew(c) \/ Save(c) \/ Fail(c)
  BY DEF Next, Finished, Proceed, Reserve, CallStart, CallReprocess, Begin, ReserveHit,
     ReserveConflict, ReserveWait, CheckPasses, CheckFails, Dispatch, DispatchRaises, SaveFails,
     MarkReprocessed, MarkFails, Stage, ListUnpublished, Publish, PublishFails, ConfirmPublished,
     EndPublication, AuditAccepted, AuditFails, vars

(* A stored execution stays stored as it is. *)
LEMMA StoredStays ==
    ASSUME IInv, [Next]_vars, NEW k \in Keys, executions[k] # None
    PROVE  executions'[k] = executions[k]
<1>1. CASE UNCHANGED storeVars
  BY <1>1 DEF storeVars
<1>2. ASSUME NEW c \in Callers, ReserveNew(c) \/ Fail(c)
      PROVE  executions'[k] = executions[k]
  BY <1>2 DEF ReserveNew, Fail
<1>3. ASSUME NEW c \in Callers, Save(c)
      PROVE  executions'[k] = executions[k]
  <2>1. call[c].key # k
    BY <1>3, SaveFindsNone
  <2> QED
    BY <1>3, <2>1 DEF Save, IInv, TypeOK
<1> QED
  BY <1>1, <1>2, <1>3, StoreSteps

(* What is found by its id is found after a step. *)
FoundNext(id) ==
    /\ executions'[id.key] # None
    /\ executions'[id.key].print = id.print

LEMMA FoundStays ==
    ASSUME IInv, [Next]_vars
    PROVE  \A id \in ExecutionIds : Found(id) => FoundNext(id)
  BY StoredStays DEF Found, FoundNext, ExecutionIds

(* A stored execution is never replaced. *)
THEOREM ExecutionsAreFinal == Spec => ExecutionsFinal
<1>1. IInv /\ [Next]_vars =>
        [\A k \in Keys : executions[k] # None => executions'[k] = executions[k]]_vars
  BY StoredStays
<1> QED
  BY Invariance, <1>1, PTL DEF Spec, ExecutionsFinal

(***************************************************************************)
(* The service implements the abstract idempotent claim: a reservation is  *)
(* the claim of a key, a stored execution its settlement.                  *)
(***************************************************************************)
THEOREM Refinement == Spec => ImplementsClaim
<1>1. Init => Claims!Init
  BY DEF Init, Claims!Init
<1>2. ASSUME IInv, [Next]_vars
      PROVE  [Claims!Next]_<<reservations, executions>>
  <2>1. CASE UNCHANGED storeVars
    BY <2>1 DEF storeVars
  <2>2. ASSUME NEW c \in Callers, ReserveNew(c) PROVE Claims!Next
    <3>1. call[c].key \in Keys /\ call[c].print \in Prints
      BY <1>2, <2>2, CallType DEF IInv, ReserveNew
    <3>2. Claims!Claim(call[c].key)
      BY <2>2, <3>1 DEF ReserveNew, FreeKey, Claims!Claim
    <3> QED
      BY <3>1, <3>2 DEF Claims!Next
  <2>3. ASSUME NEW c \in Callers, Save(c) PROVE Claims!Next
    <3>1. /\ call[c].key \in Keys
          /\ reservations[call[c].key] = call[c].print /\ call[c].print # None
      BY <1>2, <2>3, SaveFindsNone, NoneAssumption
    <3>2. result[c] \in JobOutcomes
      BY <1>2 DEF IInv, TypeOK
    <3>3. Claims!Settle(call[c].key)
      BY <2>3, <3>1, <3>2 DEF Save, Created, ReservationPopped, Claims!Settle
    <3> QED
      BY <3>1, <3>3 DEF Claims!Next
  <2>4. ASSUME NEW c \in Callers, Fail(c)
        PROVE  Claims!Next \/ UNCHANGED <<reservations, executions>>
    <3>1. call[c].key \in Keys /\ call[c].print # None
      BY <1>2, <2>4, CallType, NoneAssumption DEF IInv, Fail
    <3>2. CASE Releases(c)
      <4>1. Claims!Abandon(call[c].key)
        BY <2>4, <3>1, <3>2 DEF Fail, Releases, Claims!Abandon
      <4> QED
        BY <3>1, <4>1 DEF Claims!Next
    <3>3. CASE ~Releases(c)
      BY <2>4, <3>3 DEF Fail
    <3> QED
      BY <3>2, <3>3
  <2> QED
    BY <1>2, <2>1, <2>2, <2>3, <2>4, StoreSteps
<1> QED
  BY <1>1, <1>2, Invariance, PTL DEF Spec, ImplementsClaim, Claims!Spec

-----------------------------------------------------------------------------
(* The stores that a call writes one after the other. *)

(* The other callers in a step of c: some may be woken. *)
OthersOf(c) ==
    \A d \in Callers \ {c} :
        /\ call'[d] = call[d] /\ acquired'[d] = acquired[d] /\ pending'[d] = pending[d]
        /\ \/ pc'[d] = pc[d]
           \/ pc[d] = "waiting" /\ pc'[d] = "reserve"

LEMMA StepOfOne ==
    ASSUME TypeOK, NEW c \in Callers, CallStart(c) \/ CallReprocess(c) \/ Proceed(c)
    PROVE  OthersOf(c)
<1>1. CASE CallStart(c) \/ CallReprocess(c)
  BY <1>1 DEF CallStart, CallReprocess, Begin, TypeOK, OthersOf
<1>2. CASE MovesOnly(c)
  BY <1>2 DEF MovesOnly, localVars, TypeOK, OthersOf
<1>3. CASE ReserveNew(c) \/ Dispatch(c) \/ DispatchRaises(c) \/ MarkReprocessed(c)
  BY <1>3 DEF ReserveNew, Dispatch, DispatchRaises, MarkReprocessed, localVars, TypeOK, OthersOf
<1>4. CASE Save(c) \/ Fail(c)
  BY <1>4 DEF Save, Fail, Woken, localVars, TypeOK, OthersOf
<1>5. CASE Stage(c) \/ ListUnpublished(c) \/ Publish(c) \/ ConfirmPublished(c) \/ AuditAccepted(c)
  BY <1>5 DEF Stage, ListUnpublished, Publish, ConfirmPublished, AuditAccepted, localVars, TypeOK,
     OthersOf
<1> QED
  BY <1>1, <1>2, <1>3, <1>4, <1>5, Movers DEF Proceed, Reserve

(* Only a mark writes the history; what is audited stays audited. *)
LEMMA MarkSteps ==
    ASSUME [Next]_vars
    PROVE  /\ audited \subseteq audited'
           /\ \/ UNCHANGED <<history, reprocessKeys>>
              \/ \E c \in Callers : MarkReprocessed(c)
  BY DEF Next, Finished, Proceed, Reserve, CallStart, CallReprocess, Begin, ReserveNew, ReserveHit,
     ReserveConflict, ReserveWait, CheckPasses, CheckFails, Dispatch, DispatchRaises, Save, SaveFails,
     MarkReprocessed, MarkFails, Stage, ListUnpublished, Publish, PublishFails, ConfirmPublished,
     EndPublication, AuditAccepted, AuditFails, Fail, vars, dlqVars

(* The step that marks a record: what it finds and what it adds. *)
LEMMA MarkFacts ==
    ASSUME IInv, NEW c \in Callers, MarkReprocessed(c)
    PROVE  /\ call[c].key \in Keys /\ IdOf(c) \in ExecutionIds /\ Found(IdOf(c))
           /\ call[c].print.letter \in StartLetters /\ call[c].print.letter # None
           /\ IdOf(c).key = call[c].key /\ IdOf(c).print = call[c].print
           /\ IsReprocess(c)
<1>1. /\ call[c] \in [key : Keys, print : Prints] /\ IdOf(c) \in ExecutionIds
      /\ StoredFor(call[c].key, call[c].print) /\ IsReprocess(c)
  BY CallType DEF IInv, PhasesConsistent, PhaseConsistent, MarkReprocessed
<1>2. call[c].print.letter \in StartLetters
  BY <1>1 DEF IsReprocess, Prints, StartPrints, ReprocessPrints
<1> QED
  BY <1>1, <1>2, NoneAssumption DEF IdOf, Found, StoredFor

LEMMA HistoryGrows ==
    ASSUME IInv, [Next]_vars, NEW d
    PROVE  ReprocessesOf(d) \subseteq ReprocessesOf(d)'
<1>1. history \in Seq(StartLetters \X ExecutionIds)
  BY DEF IInv, TypeOK
<1>2. CASE UNCHANGED history
  BY <1>2 DEF ReprocessesOf
<1>3. ASSUME NEW e, history' = Append(history, e)
      PROVE  ReprocessesOf(d) \subseteq ReprocessesOf(d)'
  <2>1. \A i \in DOMAIN history : i \in DOMAIN history' /\ history'[i] = history[i]
    BY <1>1, <1>3
  <2> QED
    BY <2>1 DEF ReprocessesOf
<1> QED
  BY <1>2, <1>3, MarkSteps DEF MarkReprocessed

LEMMA HistoryKept ==
    ASSUME IInv, HistoryConsistent, [Next]_vars
    PROVE  HistoryConsistent'
<1>1. history \in Seq(StartLetters \X ExecutionIds)
  BY DEF IInv, TypeOK
<1>2. \A i \in DOMAIN history : history[i][2] \in ExecutionIds /\ FoundNext(history[i][2])
  BY <1>1, FoundStays DEF HistoryConsistent
<1>3. CASE UNCHANGED <<history, reprocessKeys>>
  BY <1>2, <1>3 DEF HistoryConsistent, Found, FoundNext
<1>4. ASSUME NEW c \in Callers, MarkReprocessed(c) PROVE HistoryConsistent'
  <2> DEFINE k == call[c].key
             d == call[c].print.letter
  <2>1. /\ k \in Keys /\ IdOf(c) \in ExecutionIds /\ FoundNext(IdOf(c))
        /\ d \in StartLetters /\ d # None /\ IdOf(c).key = k /\ IdOf(c).print.letter = d
    BY <1>4, MarkFacts, FoundStays
  <2>2. /\ reprocessKeys[k] \in {None, d}
        /\ reprocessKeys' = [reprocessKeys EXCEPT ![k] = d]
    BY <1>4 DEF MarkReprocessed
  <2>3. reprocessKeys \in [Keys -> StartLetters \cup {None}]
    BY DEF IInv, TypeOK
  <2>4. CASE reprocessKeys[k] = None
    <3>1. history' = Append(history, <<d, IdOf(c)>>)
      BY <1>4, <2>4 DEF MarkReprocessed, MarksKey
    <3>2. \A i \in DOMAIN history : history[i][2].key # k
      <4>1. ASSUME NEW i \in DOMAIN history
            PROVE  history[i][1] \in StartLetters
        BY <1>1
      <4> QED
        BY <2>4, <4>1, NoneAssumption DEF HistoryConsistent
    <3>3. /\ DOMAIN history' = 1..(Len(history) + 1) /\ DOMAIN history = 1..Len(history)
          /\ Len(history) \in Nat
          /\ \A i \in DOMAIN history : history'[i] = history[i]
          /\ history'[Len(history) + 1] = <<d, IdOf(c)>>
      BY <1>1, <2>1, <3>1
    <3>4. ASSUME NEW i \in DOMAIN history', i \notin DOMAIN history
          PROVE  i = Len(history) + 1 /\ history'[i][1] = d /\ history'[i][2] = IdOf(c)
      BY <3>3, <3>4
    <3>5. \A i, j \in DOMAIN history' : history'[i][2] = history'[j][2] => i = j
      <4>1. ASSUME NEW i \in DOMAIN history
            PROVE  history'[i][2] = history[i][2] /\ history[i][2] # IdOf(c)
        BY <2>1, <3>2, <3>3, <4>1
      <4> QED
        BY <3>4, <4>1 DEF HistoryConsistent
    <3>6. \A i \in DOMAIN history' : /\ FoundNext(history'[i][2])
                                     /\ history'[i][2].print.letter = history'[i][1]
                                     /\ reprocessKeys'[history'[i][2].key] = history'[i][1]
      <4>1. ASSUME NEW i \in DOMAIN history
            PROVE  /\ FoundNext(history'[i][2])
                   /\ history'[i][2].print.letter = history'[i][1]
                   /\ reprocessKeys'[history'[i][2].key] = history'[i][1]
        <5>1. history[i][2].key \in Keys
          BY <1>2 DEF ExecutionIds
        <5> QED
          BY <1>2, <2>2, <2>3, <3>2, <3>3, <5>1 DEF HistoryConsistent
      <4>2. ASSUME NEW i \in DOMAIN history', i \notin DOMAIN history
            PROVE  /\ FoundNext(history'[i][2])
                   /\ history'[i][2].print.letter = history'[i][1]
                   /\ reprocessKeys'[history'[i][2].key] = history'[i][1]
        <5>1. history'[i][2] = IdOf(c) /\ history'[i][1] = d
          BY <3>4, <4>2
        <5> QED
          BY <2>1, <2>2, <2>3, <5>1
      <4> QED
        BY <4>1, <4>2
    <3>7. \A q \in Keys : reprocessKeys'[q] # None =>
             \E i \in DOMAIN history' : history'[i][2].key = q
      BY <2>1, <2>2, <2>3, <3>3 DEF HistoryConsistent
    <3> QED
      BY <3>5, <3>6, <3>7 DEF HistoryConsistent, Found, FoundNext
  <2>5. CASE reprocessKeys[k] = d
    <3>1. history' = history
      BY <1>4, <2>1, <2>5 DEF MarkReprocessed, MarksKey
    <3>2. reprocessKeys' = reprocessKeys
      BY <2>1, <2>2, <2>3, <2>5
    <3> QED
      BY <1>3, <3>1, <3>2
  <2> QED
    BY <2>2, <2>4, <2>5
<1> QED
  BY <1>3, <1>4, MarkSteps

(* A mark leaves its execution in the history of its record: it is appended, *)
(* or it is the one that used the key before.                                *)
LEMMA MarkIsRecorded ==
    ASSUME IInv, HistoryConsistent, NEW c \in Callers, MarkReprocessed(c)
    PROVE  IdOf(c) \in ReprocessesOf(call[c].print.letter)'
<1> DEFINE k == call[c].key
           d == call[c].print.letter
<1>1. history \in Seq(StartLetters \X ExecutionIds)
  BY DEF IInv, TypeOK
<1>2. CASE reprocessKeys[k] = None
  <2>1. history' = Append(history, <<d, IdOf(c)>>)
    BY <1>2 DEF MarkReprocessed, MarksKey
  <2>2. /\ Len(history) + 1 \in DOMAIN history'
        /\ history'[Len(history) + 1] = <<d, IdOf(c)>>
    BY <1>1, <2>1, MarkFacts
  <2>3. \E i \in DOMAIN history' : history'[i][1] = d /\ history'[i][2] = IdOf(c)
    BY <2>2
  <2> QED
    BY <2>3 DEF ReprocessesOf, MarkReprocessed, localVars
<1>3. CASE reprocessKeys[k] # None
  <2>1. history' = history
    BY <1>3 DEF MarkReprocessed, MarksKey
  <2>2. PICK i \in DOMAIN history : history[i][2].key = k
    BY <1>3, MarkFacts DEF HistoryConsistent
  <2>3. history[i][2] \in ExecutionIds /\ Found(history[i][2])
    BY <1>1, <2>2 DEF HistoryConsistent
  <2>4. history[i][2] = IdOf(c)
    BY <2>2, <2>3, MarkFacts DEF Found, ExecutionIds, IdOf
  <2>5. history[i][1] = d
    BY <2>2, <2>4, MarkFacts DEF HistoryConsistent
  <2> QED
    BY <2>1, <2>2, <2>4, <2>5 DEF ReprocessesOf, MarkReprocessed, localVars
<1> QED
  BY <1>2, <1>3

(* What stood of a caller stands where its call goes on behind its mark. *)
LEMMA MarkStandsOn ==
    ASSUME IInv, [Next]_vars, NEW d \in Callers, MarkStands(d), pc[d] \in AfterMark,
           call'[d] = call[d], pc'[d] = "accepted" => pc[d] = "accepted"
    PROVE  MarkStands(d)'
<1>1. PICK x : x = call[d].print.letter
  OBVIOUS
<1>2. IsReprocess(d) => IdOf(d) \in ReprocessesOf(x)'
  BY <1>1, HistoryGrows DEF MarkStands
<1>3. IsReprocess(d) => IdOf(d)' \in ReprocessesOf(call[d].print.letter)'
  BY <1>1, <1>2 DEF IdOf, ReprocessesOf
<1>4. (IsReprocess(d)' <=> IsReprocess(d)) /\ IdOf(d)' = IdOf(d)
  BY DEF IsReprocess, IdOf
<1>5. audited \subseteq audited'
  BY MarkSteps
<1> QED
  BY <1>3, <1>4, <1>5 DEF MarkStands

LEMMA MarksKept ==
    ASSUME IInv, StoresInv, [Next]_vars, NEW d \in Callers
    PROVE  MarkStands(d)'
<1>1. CASE UNCHANGED vars
  BY <1>1 DEF StoresInv, MarkStands, IsReprocess, IdOf, ReprocessesOf, vars, dlqVars, localVars
<1>2. CASE /\ call'[d] = call[d]
           /\ pc'[d] = pc[d] \/ pc'[d] \notin AfterMark
  <2>1. CASE pc'[d] \notin AfterMark
    BY <2>1 DEF MarkStands, AfterMark
  <2>2. CASE pc'[d] = pc[d] /\ pc[d] \in AfterMark
    BY <1>2, <2>2, MarkStandsOn DEF StoresInv
  <2> QED
    BY <1>2, <2>1, <2>2
<1>3. ASSUME NEW c \in Callers, CallStart(c) \/ CallReprocess(c) \/ Proceed(c)
      PROVE  MarkStands(d)'
  <2>1. CASE d # c
    <3>1. call'[d] = call[d] /\ (pc'[d] = pc[d] \/ pc'[d] = "reserve")
      BY <1>3, <2>1, StepOfOne DEF IInv, OthersOf
    <3> QED
      BY <1>2, <3>1 DEF AfterMark
  <2>2. CASE d = c
    <3>1. CASE CallStart(d) \/ CallReprocess(d)
      <4>1. pc'[d] = "reserve"
        BY <3>1 DEF CallStart, CallReprocess, Begin, IInv, TypeOK
      <4> QED
        BY <4>1 DEF MarkStands, AfterMark
    <3>2. CASE \/ ReserveNew(d) \/ ReserveConflict(d) \/ ReserveWait(d) \/ CheckPasses(d)
               \/ CheckFails(d) \/ Dispatch(d) \/ DispatchRaises(d) \/ SaveFails(d) \/ MarkFails(d)
               \/ PublishFails(d) \/ AuditFails(d) \/ Fail(d)
      <4>1. pc'[d] \in {"check", "fail", "waiting", "dispatch", "save", "rejected"}
        BY <3>2 DEF ReserveNew, ReserveConflict, ReserveWait, CheckPasses, CheckFails, Dispatch,
           DispatchRaises, SaveFails, MarkFails, PublishFails, AuditFails, Fail, IInv, TypeOK, Woken
      <4> QED
        BY <4>1 DEF MarkStands, AfterMark
    <3>3. CASE ReserveHit(d) \/ Save(d)
      <4>1. /\ call'[d] = call[d]
            /\ IsReprocess(d) => pc'[d] = "mark"
            /\ pc'[d] # "accepted"
        BY <3>3 DEF ReserveHit, Save, IInv, TypeOK, Woken, localVars
      <4> QED
        BY <4>1 DEF MarkStands, AfterMark, IsReprocess, ReserveHit, Save, localVars
    <3>4. CASE MarkReprocessed(d)
      <4>1. IdOf(d)' = IdOf(d) /\ pc'[d] # "accepted"
        BY <3>4 DEF MarkReprocessed, IInv, TypeOK, IdOf, localVars
      <4>2. IdOf(d) \in ReprocessesOf(call[d].print.letter)'
        BY <3>4, MarkIsRecorded DEF StoresInv
      <4> QED
        BY <4>1, <4>2 DEF MarkStands
    <3>5. CASE Stage(d) \/ ListUnpublished(d) \/ Publish(d) \/ ConfirmPublished(d)
      <4>1. pc[d] \in AfterMark /\ call'[d] = call[d] /\ pc'[d] # "accepted"
        BY <3>5 DEF Stage, ListUnpublished, Publish, ConfirmPublished, IInv, TypeOK, AfterMark,
           localVars
      <4> QED
        BY <4>1, MarkStandsOn DEF StoresInv
    <3>6. CASE EndPublication(d)
      <4>1. /\ pc[d] \in AfterMark /\ UNCHANGED call
            /\ pc'[d] = IF IsReprocess(d) THEN "audit" ELSE "accepted"
        BY <3>6 DEF EndPublication, IInv, TypeOK, AfterMark, localVars
      <4>2. CASE IsReprocess(d)
        BY <4>1, <4>2, MarkStandsOn DEF StoresInv
      <4>3. CASE ~IsReprocess(d)
        BY <4>1, <4>3 DEF MarkStands, IsReprocess
      <4> QED
        BY <4>2, <4>3
    <3>7. CASE AuditAccepted(d)
      <4>1. /\ pc[d] = "audit" /\ UNCHANGED <<call, history>>
            /\ audited' = audited \cup {IdOf(d)}
        BY <3>7 DEF AuditAccepted, dlqVars, localVars
      <4> QED
        BY <4>1 DEF StoresInv, MarkStands, AfterMark, IsReprocess, IdOf, ReprocessesOf
    <3> QED
      BY <1>3, <2>2, <3>1, <3>2, <3>3, <3>4, <3>5, <3>6, <3>7 DEF Proceed, Reserve
  <2> QED
    BY <2>1, <2>2
<1> QED
  BY <1>1, <1>3 DEF Next, Finished

(* A call that is accepted left all three stores as it said: its execution,  *)
(* the history of the record it reprocessed and the audit; and the history   *)
(* agrees with the executions and with the used keys.                        *)
THEOREM StoresDoAgree == Spec => []StoresAgree
<1>1. Init => StoresInv
  BY DEF Init, StoresInv, HistoryConsistent, MarkStands, AfterMark
<1>2. IInv /\ StoresInv /\ [Next]_vars => StoresInv'
  BY HistoryKept, MarksKept DEF StoresInv
<1>3. ASSUME IInv, StoresInv PROVE StoresAgree
  <2>1. ASSUME NEW c \in Callers, pc[c] = "accepted" PROVE Found(IdOf(c))
    BY <1>3, <2>1 DEF IInv, PhasesConsistent, PhaseConsistent, StoredFor, Found, IdOf
  <2> QED
    BY <1>3, <2>1 DEF StoresInv, MarkStands, AfterMark, AcceptedIsStored, StoresAgree
<1> QED
  BY <1>1, <1>2, <1>3, Invariance, PTL DEF Spec

-----------------------------------------------------------------------------
(* The events of an execution. *)

Distinct(s) == \A i, j \in DOMAIN s : s[i] = s[j] => i = j

(* One more event at the end of distinct ones that do not have it.           *)
LEMMA DistinctGrows ==
    ASSUME NEW K \in SUBSET EventKinds, NEW s \in Seq(K), Distinct(s), s # <<>>,
           NEW e \in EventKinds \ K, NEW t \in {<<>>, <<e>>}
    PROVE  s \o t \in Seq(K \cup {e}) /\ Distinct(s \o t) /\ s \o t # <<>>
<1>1. CASE t = <<e>>
  <2>1. \A i \in DOMAIN s : s[i] \in K /\ s[i] # e
    OBVIOUS
  <2>2. /\ DOMAIN (s \o <<e>>) = 1..(Len(s) + 1) /\ DOMAIN s = 1..Len(s) /\ Len(s) \in Nat
        /\ \A i \in DOMAIN s : (s \o <<e>>)[i] = s[i]
        /\ (s \o <<e>>)[Len(s) + 1] = e
    OBVIOUS
  <2>3. Distinct(s \o <<e>>)
    <3>1. ASSUME NEW i \in DOMAIN (s \o <<e>>), i \notin DOMAIN s
          PROVE  i = Len(s) + 1
      BY <2>2, <3>1
    <3> QED
      BY <2>1, <2>2, <3>1 DEF Distinct
  <2>4. s \o <<e>> \in Seq(K \cup {e})
    OBVIOUS
  <2> QED
    BY <1>1, <2>2, <2>3, <2>4
<1>2. CASE t = <<>>
  <2>1. s \o <<>> = s
    OBVIOUS
  <2> QED
    BY <1>2, <2>1
<1> QED
  BY <1>1, <1>2

LEMMA EventsAreDistinct ==
    ASSUME NEW p, NEW outcome
    PROVE  Distinct(EventsOf(p, outcome)) /\ EventsOf(p, outcome) # <<>>
<1> DEFINE some(S) == \E j \in DOMAIN outcome : outcome[j] \in S
           base == <<"execution", "cost">>
           retry == When(some(RetryableClasses), "retry")
           dlq == When(some(FailureClasses), "dlq")
           reprocess == When(p.kind = "reprocess", "reprocess")
           retried == base \o retry
           failed == retried \o dlq
           K1 == {"execution", "cost"}
           K2 == K1 \cup {"retry"}
           K3 == K2 \cup {"dlq"}
<1>1. base \in Seq(K1) /\ Distinct(base) /\ base # <<>>
  BY DEF Distinct
<1>2. /\ retry \in {<<>>, <<"retry">>}
      /\ dlq \in {<<>>, <<"dlq">>}
      /\ reprocess \in {<<>>, <<"reprocess">>}
  BY DEF When
<1>3. /\ K1 \in SUBSET EventKinds /\ K2 \in SUBSET EventKinds /\ K3 \in SUBSET EventKinds
      /\ "retry" \in EventKinds \ K1 /\ "dlq" \in EventKinds \ K2
      /\ "reprocess" \in EventKinds \ K3
  BY DEF EventKinds
<1> HIDE DEF base, retry, dlq, reprocess, K1
<1>4. retried \in Seq(K2) /\ Distinct(retried) /\ retried # <<>>
  BY <1>1, <1>2, <1>3, DistinctGrows
<1> HIDE DEF retried, K2
<1>5. failed \in Seq(K3) /\ Distinct(failed) /\ failed # <<>>
  BY <1>2, <1>3, <1>4, DistinctGrows
<1> HIDE DEF failed, K3
<1>6. Distinct(failed \o reprocess) /\ failed \o reprocess # <<>>
  BY <1>2, <1>3, <1>5, DistinctGrows
<1> QED
  BY <1>6 DEF EventsOf, failed, retried, base, retry, dlq, reprocess

-----------------------------------------------------------------------------
(* Their publication. *)

(* What the events of a key do in every step that does not stage them.       *)
EventsGrow(k) ==
    /\ staged'[k] = staged[k]
    /\ published[k] \subseteq published'[k]
    /\ \A e \in EventKinds : delivered[k][e] > 0 => delivered'[k][e] > 0

LEMMA LoopStays ==
    ASSUME TypeOK, NEW d \in Callers, call[d].key \in Keys, LoopConsistent(d),
           EventsGrow(call[d].key),
           call'[d] = call[d], acquired'[d] = acquired[d], pending'[d] = pending[d],
           pc'[d] = pc[d]
    PROVE  LoopConsistent(d)'
<1>1. call'[d].key = call[d].key /\ StagedOf(call[d].key) = StagedOf(call[d].key)'
  BY DEF EventsGrow, StagedOf
<1>2. \A e : IsNext(d, e)' <=> IsNext(d, e)
  BY DEF IsNext, EventsGrow
<1>3. pending[d] \subseteq EventKinds
  BY DEF TypeOK
<1> QED
  BY <1>1, <1>2, <1>3 DEF LoopConsistent, EventsGrow, StagedOf

(* Outside its loop a caller has nothing to keep.                            *)
LEMMA LoopOver ==
    ASSUME NEW d \in Callers, pc'[d] \notin {"list"} \cup Publishing
    PROVE  LoopConsistent(d)'
  BY DEF LoopConsistent, Publishing

(* The callers that the step of another one leaves where they are.           *)
LEMMA LoopsOfOthers ==
    ASSUME IInv, EventsInv, NEW c \in Callers, OthersOf(c),
           \A k \in Keys : EventsGrow(k)
    PROVE  \A d \in Callers \ {c} : LoopConsistent(d)'
<1> SUFFICES ASSUME NEW d \in Callers, d # c
             PROVE  LoopConsistent(d)'
  OBVIOUS
<1>1. CASE pc'[d] \notin {"list"} \cup Publishing
  BY <1>1, LoopOver
<1>2. CASE pc'[d] \in {"list"} \cup Publishing
  <2>1. pc'[d] = pc[d]
    BY <1>2 DEF OthersOf, Publishing
  <2>2. call[d].key \in Keys
    BY <1>2, <2>1, CallType DEF IInv, Publishing
  <2> QED
    BY <2>1, <2>2, LoopStays DEF IInv, EventsInv, OthersOf
<1> QED
  BY <1>1, <1>2

(* The stores of events depend on no caller.                                 *)
LEMMA EventsStay ==
    ASSUME EventsInv, UNCHANGED eventVars
    PROVE  /\ EventOrder' /\ \A k \in Keys : StagingConsistent(k)'
           /\ \A k \in Keys : EventsGrow(k)
  BY DEF EventsInv, EventOrder, StagingConsistent, StagedOf, EventsGrow, eventVars

LEMMA QuietStepsKeepEvents ==
    ASSUME IInv, EventsInv, NEW c \in Callers,
           CallStart(c) \/ CallReprocess(c) \/ Proceed(c),
           ~(Stage(c) \/ Publish(c) \/ ConfirmPublished(c))
    PROVE  EventsInv'
<1>1. UNCHANGED eventVars
  BY DEF CallStart, CallReprocess, Begin, Proceed, Reserve, ReserveNew, ReserveHit, ReserveConflict,
     ReserveWait, CheckPasses, CheckFails, Dispatch, DispatchRaises, Save, SaveFails,
     MarkReprocessed, MarkFails, ListUnpublished, PublishFails, EndPublication, AuditAccepted,
     AuditFails, Fail
<1>2. OthersOf(c)
  BY StepOfOne DEF IInv
<1>3. LoopConsistent(c)'
  <2>1. CASE \/ CallStart(c) \/ CallReprocess(c) \/ ReserveNew(c) \/ ReserveConflict(c)
             \/ ReserveWait(c) \/ CheckPasses(c) \/ CheckFails(c) \/ Dispatch(c)
             \/ DispatchRaises(c) \/ Save(c) \/ SaveFails(c) \/ MarkFails(c)
             \/ PublishFails(c) \/ AuditFails(c) \/ Fail(c)
    <3>1. pc'[c] \notin {"list"} \cup Publishing
      BY <2>1 DEF CallStart, CallReprocess, Begin, ReserveNew, ReserveConflict, ReserveWait,
         CheckPasses, CheckFails, Dispatch, DispatchRaises, Save, SaveFails, MarkFails,
         PublishFails, AuditFails, Fail, IInv, TypeOK, Woken, Publishing
    <3> QED
      BY <3>1, LoopOver
  <2>2. CASE ReserveHit(c) \/ MarkReprocessed(c)
    <3>1. pc'[c] \notin Publishing /\ acquired'[c] = acquired[c]
          /\ (pc'[c] = "list" => ~acquired[c])
      BY <2>2 DEF ReserveHit, MarkReprocessed, IInv, TypeOK, PhasesConsistent, PhaseConsistent,
         localVars, Publishing
    <3> QED
      BY <3>1 DEF LoopConsistent, Publishing
  <2>3. CASE ListUnpublished(c)
    <3> DEFINE k == call[c].key
    <3>1. /\ pc[c] = "list" /\ pc'[c] = "publish"
          /\ call'[c] = call[c] /\ acquired'[c] = acquired[c]
          /\ pending'[c] = StagedOf(k) \ published[k]
      BY <2>3 DEF ListUnpublished, IInv, TypeOK, StagedOf
    <3>2. StagedOf(k)' = StagedOf(k) /\ k' = k /\ staged'[k] = staged[k] /\ published'[k] = published[k]
      BY <1>1, <3>1 DEF StagedOf, eventVars
    <3>3. acquired[c] => staged[k] # <<>>
      BY <3>1 DEF EventsInv, LoopConsistent
    <3> QED
      BY <3>1, <3>2, <3>3 DEF LoopConsistent, Publishing, StagedOf
  <2>4. CASE EndPublication(c) \/ AuditAccepted(c)
    <3> DEFINE k == call[c].key
    <3>1. /\ pc[c] \in Publishing /\ pc'[c] \in {"audit", "accepted"}
          /\ UNCHANGED <<call, acquired, pending>> /\ pending[c] = {}
      BY <2>4 DEF EndPublication, AuditAccepted, IInv, TypeOK, Publishing, localVars, EventsInv,
         LoopConsistent
    <3>2. /\ acquired[c] => staged[k] # <<>>
          /\ acquired[c] => StagedOf(k) \subseteq published[k] \cup pending[c]
      BY <3>1 DEF EventsInv, LoopConsistent
    <3> QED
      BY <1>1, <3>1, <3>2 DEF LoopConsistent, Publishing, StagedOf, eventVars
  <2> QED
    BY <2>1, <2>2, <2>3, <2>4 DEF Proceed, Reserve
<1> QED
  BY <1>1, <1>2, <1>3, EventsStay, LoopsOfOthers DEF EventsInv

(* The first staging of a key finds nothing of it handed over, and no loop   *)
(* that has an event of it left.                                             *)
LEMMA StageKeepsEvents ==
    ASSUME IInv, EventsInv, NEW c \in Callers, Stage(c)
    PROVE  EventsInv'
<1> DEFINE k == call[c].key
<1>1. /\ pc[c] = "stage" /\ pc' = [pc EXCEPT ![c] = "list"] /\ k \in Keys
      /\ UNCHANGED <<published, delivered, call, acquired, pending>>
  BY CallType DEF Stage, IInv, localVars
<1>2. OthersOf(c)
  BY StepOfOne DEF IInv, Proceed
<1>3. CASE staged[k] # <<>>
  <2>1. UNCHANGED eventVars
    BY <1>1, <1>3 DEF Stage, eventVars
  <2>2. LoopConsistent(c)'
    BY <1>1, <1>3, <2>1 DEF LoopConsistent, Publishing, IInv, TypeOK, eventVars
  <2> QED
    BY <1>2, <2>1, <2>2, EventsStay, LoopsOfOthers DEF EventsInv
<1>4. CASE staged[k] = <<>>
  <2>1. PICK events \in Seq(EventKinds) :
          events = EventsOf(call[c].print, result[c]) /\ Distinct(events) /\ events # <<>>
    BY EventsType, EventsAreDistinct
  <2>2. staged'[k] = events /\ \A q \in Keys : q # k => staged'[q] = staged[q]
    BY <1>1, <1>4, <2>1 DEF Stage, IInv, TypeOK
  <2>3. StagedOf(k) = {}
    BY <1>4 DEF StagedOf
  <2>4. /\ published[k] = {} /\ \A e \in EventKinds : ~(delivered[k][e] > 0)
    BY <1>1, <2>3 DEF EventsInv, StagingConsistent
  <2>5. ASSUME NEW q \in Keys PROVE StagingConsistent(q)'
    <3>1. CASE q = k
      BY <1>1, <2>1, <2>2, <2>4, <3>1 DEF StagingConsistent, Distinct
    <3>2. CASE q # k
      BY <1>1, <2>2, <3>2 DEF EventsInv, StagingConsistent, StagedOf
    <3> QED
      BY <3>1, <3>2
  <2>6. EventOrder'
    <3>1. ASSUME NEW j \in DOMAIN staged'[k]
          PROVE  /\ ~(delivered'[k][staged'[k][j]] > 0)
                 /\ staged'[k][j] \notin published'[k]
      <4>1. staged'[k][j] \in EventKinds
        BY <2>1, <2>2
      <4> QED
        BY <1>1, <2>4, <4>1
    <3> QED
      BY <1>1, <2>2, <3>1 DEF EventsInv, EventOrder
  <2>7. ASSUME NEW d \in Callers PROVE LoopConsistent(d)'
    <3>1. CASE d = c
      BY <1>1, <2>1, <2>2, <3>1 DEF LoopConsistent, Publishing, IInv, TypeOK
    <3>2. CASE d # c /\ pc'[d] \notin {"list"} \cup Publishing
      BY <3>2, LoopOver
    <3>3. CASE d # c /\ pc'[d] \in {"list"} \cup Publishing
      <4>1. pc'[d] = pc[d] /\ call'[d] = call[d]
        BY <1>1, <3>3 DEF IInv, TypeOK
      <4>2. call[d].key \in Keys
        BY <3>3, <4>1, CallType DEF IInv, Publishing
      <4>3. CASE call[d].key # k
        <5>1. EventsGrow(call[d].key)
          BY <1>1, <2>2, <4>2, <4>3 DEF EventsGrow
        <5> QED
          BY <1>1, <4>1, <4>2, <5>1, LoopStays DEF IInv, EventsInv
      <4>4. CASE call[d].key = k
        <5>1. ~acquired[d] /\ (pc[d] \in Publishing => pending[d] = {})
          BY <1>4, <2>3, <3>3, <4>1, <4>4 DEF EventsInv, LoopConsistent
        <5> QED
          BY <1>1, <4>1, <5>1 DEF LoopConsistent, Publishing
      <4> QED
        BY <4>3, <4>4
    <3> QED
      BY <3>1, <3>2, <3>3
  <2> QED
    BY <2>5, <2>6, <2>7 DEF EventsInv
<1> QED
  BY <1>3, <1>4

(* The next event of a loop is one.                                          *)
LEMMA NextIsOne ==
    ASSUME IInv, NEW c \in Callers, call[c].key \in Keys,
           NEW e \in pending[c], NEW f \in pending[c], IsNext(c, e), IsNext(c, f)
    PROVE  e = f
<1>1. staged[call[c].key] \in Seq(EventKinds)
  BY DEF IInv, TypeOK
<1>2. PICK i \in DOMAIN staged[call[c].key] :
        staged[call[c].key][i] = e /\ \A j \in 1..(i - 1) : staged[call[c].key][j] \notin pending[c]
  BY DEF IsNext
<1>3. PICK i2 \in DOMAIN staged[call[c].key] :
        staged[call[c].key][i2] = f /\ \A j \in 1..(i2 - 1) : staged[call[c].key][j] \notin pending[c]
  BY DEF IsNext
<1>4. i \in Nat \ {0} /\ i2 \in Nat \ {0}
  BY <1>1
<1>5. ~(i < i2) /\ ~(i2 < i)
  BY <1>2, <1>3, <1>4
<1> QED
  BY <1>2, <1>3, <1>4, <1>5

(* An event is handed over when all before it are marked.                    *)
LEMMA PublishKeepsEvents ==
    ASSUME IInv, EventsInv, NEW c \in Callers, Publish(c)
    PROVE  EventsInv'
<1> DEFINE k == call[c].key
<1>1. /\ pc[c] = "publish" /\ pc' = [pc EXCEPT ![c] = "confirm"] /\ k \in Keys
      /\ UNCHANGED <<staged, published, call, acquired, pending>>
  BY CallType DEF Publish, IInv, localVars
<1>2. PICK e \in pending[c] :
        IsNext(c, e) /\ delivered' = [delivered EXCEPT ![k][e] = @ + 1]
  BY DEF Publish
<1>3. e \in EventKinds /\ e \in StagedOf(k) /\ StagedOf(k) \subseteq published[k] \cup pending[c]
  BY <1>1, <1>2 DEF IInv, TypeOK, EventsInv, LoopConsistent, Publishing
<1>4. /\ delivered \in [Keys -> [EventKinds -> Nat]]
      /\ delivered'[k][e] > 0
      /\ \A q \in Keys, f \in EventKinds :
            q # k \/ f # e => delivered'[q][f] = delivered[q][f]
  BY <1>1, <1>2, <1>3 DEF IInv, TypeOK
<1>5. \A q \in Keys : EventsGrow(q)
  BY <1>1, <1>3, <1>4 DEF EventsGrow
<1>6. OthersOf(c)
  BY StepOfOne DEF IInv, Proceed
<1>7. LoopConsistent(c)'
  <2>1. \A f : IsNext(c, f)' <=> IsNext(c, f)
    BY <1>1 DEF IsNext
  <2>2. \A f \in pending'[c] : IsNext(c, f)' => delivered'[k][f] > 0
    BY <1>1, <1>2, <1>4, <2>1, NextIsOne
  <2>3. pc'[c] = "confirm" /\ k' = k /\ StagedOf(k)' = StagedOf(k)
    BY <1>1 DEF IInv, TypeOK, StagedOf
  <2> QED
    BY <1>1, <2>2, <2>3 DEF EventsInv, LoopConsistent, Publishing, StagedOf
<1>8. ASSUME NEW q \in Keys PROVE StagingConsistent(q)'
  BY <1>1, <1>3, <1>4 DEF EventsInv, StagingConsistent, StagedOf
<1>9. EventOrder'
  <2>1. ASSUME NEW q \in Keys, NEW j \in DOMAIN staged[q]
        PROVE  /\ delivered'[q][staged[q][j]] > 0 =>
                    \A i \in 1..(j - 1) : staged[q][i] \in published[q]
               /\ staged[q][j] \in published[q] => delivered'[q][staged[q][j]] > 0
    <3>1. staged[q] \in Seq(EventKinds) /\ staged[q][j] \in EventKinds
      BY DEF IInv, TypeOK
    <3>2. CASE q # k \/ staged[q][j] # e
      BY <1>4, <2>1, <3>1, <3>2 DEF EventsInv, EventOrder
    <3>3. CASE q = k /\ staged[q][j] = e
      <4>1. PICK n \in DOMAIN staged[k] :
              staged[k][n] = e /\ \A i \in 1..(n - 1) : staged[k][i] \notin pending[c]
        BY <1>2 DEF IsNext
      <4>2. n = j
        BY <2>1, <3>3, <4>1 DEF EventsInv, StagingConsistent
      <4>3. \A i \in 1..(n - 1) : i \in DOMAIN staged[k]
        BY <3>1, <3>3, <4>1
      <4>4. \A i \in 1..(n - 1) : staged[k][i] \in published[k]
        BY <1>3, <4>1, <4>3 DEF StagedOf
      <4> QED
        BY <1>4, <3>3, <4>2, <4>4
    <3> QED
      BY <3>2, <3>3
  <2> QED
    BY <1>1, <2>1 DEF EventOrder
<1> QED
  BY <1>5, <1>6, <1>7, <1>8, <1>9, LoopsOfOthers DEF EventsInv

(* A loop marks what it handed over.                                         *)
LEMMA ConfirmKeepsEvents ==
    ASSUME IInv, EventsInv, NEW c \in Callers, ConfirmPublished(c)
    PROVE  EventsInv'
<1> DEFINE k == call[c].key
<1>1. /\ pc[c] = "confirm" /\ pc' = [pc EXCEPT ![c] = "publish"] /\ k \in Keys
      /\ UNCHANGED <<staged, delivered, call, acquired>>
  BY CallType DEF ConfirmPublished, IInv
<1>2. PICK e \in pending[c] :
        /\ IsNext(c, e)
        /\ published' = [published EXCEPT ![k] = @ \cup {e}]
        /\ pending' = [pending EXCEPT ![c] = @ \ {e}]
  BY DEF ConfirmPublished
<1>3. /\ e \in EventKinds /\ e \in StagedOf(k) /\ delivered[k][e] > 0
      /\ pending[c] \subseteq StagedOf(k) /\ StagedOf(k) \subseteq published[k] \cup pending[c]
      /\ acquired[c] => staged[k] # <<>>
  BY <1>1, <1>2 DEF IInv, TypeOK, EventsInv, LoopConsistent, Publishing
<1>4. /\ published'[k] = published[k] \cup {e} /\ pending'[c] = pending[c] \ {e}
      /\ \A q \in Keys : q # k => published'[q] = published[q]
  BY <1>1, <1>2 DEF IInv, TypeOK
<1>5. \A q \in Keys : EventsGrow(q)
  BY <1>1, <1>4 DEF EventsGrow
<1>6. OthersOf(c)
  BY StepOfOne DEF IInv, Proceed
<1>7. LoopConsistent(c)'
  <2>1. pc'[c] = "publish" /\ k' = k /\ StagedOf(k)' = StagedOf(k)
    BY <1>1 DEF IInv, TypeOK, StagedOf
  <2> QED
    BY <1>1, <1>3, <1>4, <2>1 DEF LoopConsistent, Publishing, StagedOf
<1>8. ASSUME NEW q \in Keys PROVE StagingConsistent(q)'
  BY <1>1, <1>3, <1>4 DEF EventsInv, StagingConsistent, StagedOf
<1>9. EventOrder'
  BY <1>1, <1>3, <1>4 DEF EventsInv, EventOrder
<1> QED
  BY <1>5, <1>6, <1>7, <1>8, <1>9, LoopsOfOthers DEF EventsInv

(* Consumers get the events of an execution in the order in which they were  *)
(* staged, however many callers publish for one key; and the call that       *)
(* executed returns without error only when all of them were handed over.    *)
THEOREM EventsAreDelivered == Spec => []EventsDelivered
<1>1. Init => EventsInv
  BY DEF Init, EventsInv, EventOrder, StagingConsistent, StagedOf, LoopConsistent, Publishing
<1>2. ASSUME IInv, EventsInv, [Next]_vars PROVE EventsInv'
  <2>1. CASE UNCHANGED vars
    <3>1. UNCHANGED <<eventVars, pc, call, acquired, pending>>
      BY <2>1 DEF vars, localVars
    <3>2. ASSUME NEW d \in Callers PROVE LoopConsistent(d)'
      <4>1. CASE pc'[d] \notin {"list"} \cup Publishing
        BY <4>1, LoopOver
      <4>2. CASE pc[d] \in {"list"} \cup Publishing
        <5>1. call[d].key \in Keys
          BY <1>2, <4>2, CallType DEF IInv, Publishing
        <5> QED
          BY <1>2, <3>1, <5>1, EventsStay, LoopStays DEF IInv, EventsInv
      <4> QED
        BY <3>1, <4>1, <4>2
    <3> QED
      BY <1>2, <3>1, <3>2, EventsStay DEF EventsInv
  <2>2. ASSUME NEW c \in Callers, CallStart(c) \/ CallReprocess(c) \/ Proceed(c) PROVE EventsInv'
    BY <1>2, <2>2, StageKeepsEvents, PublishKeepsEvents, ConfirmKeepsEvents, QuietStepsKeepEvents
  <2> QED
    BY <1>2, <2>1, <2>2 DEF Next, Finished
<1>3. ASSUME IInv, EventsInv PROVE EventsDelivered
  <2>1. ASSUME NEW c \in Callers, pc[c] = "accepted", acquired[c]
        PROVE  LET k == call[c].key IN
               /\ staged[k] # <<>>
               /\ \A i \in DOMAIN staged[k] : delivered[k][staged[k][i]] > 0
    <3> DEFINE k == call[c].key
    <3>1. k \in Keys /\ staged[k] # <<>> /\ StagedOf(k) \subseteq published[k]
      BY <1>3, <2>1, CallType DEF IInv, EventsInv, LoopConsistent, Publishing
    <3> QED
      BY <1>3, <3>1 DEF EventsInv, EventOrder, StagedOf
  <2> QED
    BY <1>3, <2>1 DEF EventsInv, OwnerDelivers, EventsDelivered
<1> QED
  BY <1>1, <1>2, <1>3, Invariance, PTL DEF Spec
=============================================================================
