------------------------- MODULE IntegrationExecution -------------------------
(***************************************************************************)
(* The execution service of services/integration: the calls                *)
(* start_integration_execution and reprocess_integration_dlq of            *)
(* application/service.py, running concurrently over one execution store   *)
(* (in_memory_integration_execution_store.py) and one dead-letter store    *)
(* (in_memory_integration_dlq_store.py).                                   *)
(*                                                                         *)
(* One tenant is modelled: every map of both stores is keyed by tenant_id  *)
(* first.  A call is a sequence of steps of one caller; a step is what the *)
(* code does inside one critical section of a store (or one call of the    *)
(* dispatcher, of the event publisher or of the audit publisher), so every *)
(* interleaving of threads that the locks permit is a behaviour here.      *)
(* How the jobs of one dispatch run concurrently is the subject of         *)
(* IntegrationJobs; here a dispatch is one step with any outcome.          *)
(***************************************************************************)
EXTENDS Naturals, Sequences, FiniteSets

CONSTANTS
    Callers,    \* threads that call the service
    Keys,       \* idempotency keys
    Plans,      \* integration plans with their scenarios, by fingerprint
    Jobs,       \* integration classes: a plan has one item, and one job, of each
    PlanJobs,   \* PlanJobs[p]: the jobs of plan p
    Required,   \* jobs whose item is required with fallback fail_closed
    Reasons,    \* reason codes of a reprocess command
    Outcomes,   \* the job outcomes the dispatcher may report
    Faults,     \* what may go wrong outside the service
    MaxCalls,   \* bound on the number of calls in a behaviour
    None        \* absence of a stored value

FailureClasses == {"recoverable", "timeout", "non_recoverable", "invalid_result"}

RetryableClasses == {"recoverable", "timeout"}

AllOutcomes == {"completed", "partial", "missing"} \cup FailureClasses

AllFaults == {"adapter_missing", "dispatch_raises", "clock_steps_back",
              "publisher_raises", "audit_raises"}

(***************************************************************************)
(* Fingerprints, execution ids and dead-letter ids.  The code computes each *)
(* as the SHA-256 of the tuple of its parts; here it is that tuple.  Only   *)
(* the dead letters of started executions are reprocessed (the bound        *)
(* ReprocessDepth = 1 of the README).                                       *)
(***************************************************************************)
StartPrints == [kind : {"start"}, plan : Plans]
StartIds == [key : Keys, print : StartPrints]
StartLetters == [execution : StartIds, job : Jobs, class : FailureClasses]
ReprocessPrints == [kind : {"reprocess"}, letter : StartLetters, reason : Reasons]
Prints == StartPrints \cup ReprocessPrints
ExecutionIds == [key : Keys, print : Prints]
Letters == [execution : ExecutionIds, job : Jobs, class : FailureClasses]

JobOutcomes == UNION {[J -> Outcomes] : J \in SUBSET Jobs}

Executions == [print : Prints, outcome : JobOutcomes]

EventKinds == {"execution", "cost", "retry", "dlq", "reprocess"}

ASSUME ConstantsAssumption ==
    /\ PlanJobs \in [Plans -> (SUBSET Jobs) \ {{}}]
    /\ Required \subseteq Jobs
    /\ Outcomes \subseteq AllOutcomes
    /\ Faults \subseteq AllFaults
    /\ MaxCalls \in Nat

ASSUME NoneAssumption ==
    /\ None \notin Prints
    /\ None \notin Executions
    /\ None \notin StartLetters

VARIABLES
    executions,     \* the stored execution of every key
    reservations,   \* the fingerprint that reserves a key
    letters,        \* ids of the recorded dead letters
    history,        \* the pairs <<dead letter, execution that reprocessed it>>, in order
    reprocessKeys,  \* the dead letter that a reprocess key was used for
    staged,         \* the events staged for a key, in publication order
    published,      \* the staged events marked as published
    delivered,      \* how often each event was handed to the publisher
    audited,        \* executions whose reprocess was audited as accepted
    pc,             \* where every caller is in its call
    call,           \* its key and fingerprint
    acquired,       \* reservation_acquired of its call
    seen,           \* reprocess history of the record it read
    result,         \* what its dispatch reported
    pending,        \* the events its publication loop still has to publish
    calls           \* number of calls made so far

storeVars == <<executions, reservations>>
dlqVars == <<letters, history, reprocessKeys>>
eventVars == <<staged, published, delivered>>
localVars == <<call, acquired, seen, result, pending>>
vars == <<storeVars, dlqVars, eventVars, audited, pc, localVars, calls>>

Resting == {"idle", "accepted", "rejected"}

Phases == Resting \cup {"reserve", "waiting", "check", "dispatch", "save",
                        "mark", "stage", "list", "publish", "confirm",
                        "audit", "fail"}

NoCall == [key |-> None, print |-> None]
NoOutcome == [j \in {} |-> None]

TypeOK ==
    /\ executions \in [Keys -> Executions \cup {None}]
    /\ reservations \in [Keys -> Prints \cup {None}]
    /\ letters \subseteq Letters
    /\ history \in Seq(StartLetters \X ExecutionIds)
    /\ reprocessKeys \in [Keys -> StartLetters \cup {None}]
    /\ staged \in [Keys -> Seq(EventKinds)]
    /\ published \in [Keys -> SUBSET EventKinds]
    /\ delivered \in [Keys -> [EventKinds -> Nat]]
    /\ audited \subseteq ExecutionIds
    /\ pc \in [Callers -> Phases]
    /\ call \in [Callers -> [key : Keys, print : Prints] \cup {NoCall}]
    /\ acquired \in [Callers -> BOOLEAN]
    /\ seen \in [Callers -> SUBSET ExecutionIds]
    /\ result \in [Callers -> JobOutcomes]
    /\ pending \in [Callers -> SUBSET EventKinds]
    /\ calls \in Nat

Init ==
    /\ executions = [k \in Keys |-> None]
    /\ reservations = [k \in Keys |-> None]
    /\ letters = {}
    /\ history = <<>>
    /\ reprocessKeys = [k \in Keys |-> None]
    /\ staged = [k \in Keys |-> <<>>]
    /\ published = [k \in Keys |-> {}]
    /\ delivered = [k \in Keys |-> [e \in EventKinds |-> 0]]
    /\ audited = {}
    /\ pc = [c \in Callers |-> "idle"]
    /\ call = [c \in Callers |-> NoCall]
    /\ acquired = [c \in Callers |-> FALSE]
    /\ seen = [c \in Callers |-> {}]
    /\ result = [c \in Callers |-> NoOutcome]
    /\ pending = [c \in Callers |-> {}]
    /\ calls = 0

-----------------------------------------------------------------------------
(* What the code derives from stored values. *)

IsReprocess(c) == call[c].print.kind = "reprocess"

(* get_by_execution_id *)
Found(id) ==
    /\ executions[id.key] # None
    /\ executions[id.key].print = id.print

(* _execution_status_from_jobs *)
StatusOf(outcome) ==
    CASE \E j \in DOMAIN outcome \cap Required : outcome[j] \in FailureClasses -> "failed"
      [] \A j \in DOMAIN outcome : outcome[j] = "missing" -> "missing"
      [] \A j \in DOMAIN outcome : outcome[j] = "completed" -> "completed"
      [] OTHER -> "partial"

(* terminal_reprocess_statuses of _ensure_dlq_has_no_accepted_terminal_reprocess *)
TerminalStatuses == {"completed", "partial", "missing"}

(* reprocess_execution_ids of a dead letter *)
ReprocessesOf(d) == {history[i][2] : i \in {n \in DOMAIN history : history[n][1] = d}}

AcceptedTerminal(id) == Found(id) /\ StatusOf(executions[id.key].outcome) \in TerminalStatuses

JobsOf(print) ==
    IF print.kind = "start" THEN PlanJobs[print.plan] ELSE {print.letter.job}

(* The dead letters that a dispatch records: one for each job that failed. *)
LettersOf(id, outcome) ==
    {[execution |-> id, job |-> j, class |-> outcome[j]] :
        j \in {i \in DOMAIN outcome : outcome[i] \in FailureClasses}}

When(P, e) == IF P THEN <<e>> ELSE <<>>

(***************************************************************************)
(* _integration_execution_events.  The retry events of all jobs are one    *)
(* entry of the sequence, and so are the DLQ events; a retryable failure    *)
(* was retried before it became final (max_attempts of at least 2).         *)
(***************************************************************************)
EventsOf(print, outcome) ==
    LET some(S) == \E j \in DOMAIN outcome : outcome[j] \in S IN
    <<"execution", "cost">>
        \o When(some(RetryableClasses), "retry")
        \o When(some(FailureClasses), "dlq")
        \o When(print.kind = "reprocess", "reprocess")

IdOf(c) == [key |-> call[c].key, print |-> call[c].print]

(* Mutation: notify_all is forgotten. *)
NotWoken(at) == at

(* notify_all: every thread in Condition.wait() tests the store again. *)
Woken(at) == [d \in Callers |-> IF at[d] = "waiting" THEN "reserve" ELSE at[d]]
-----------------------------------------------------------------------------
(* The calls. *)

Begin(c, k, print, known) ==
    /\ pc[c] \in Resting
    /\ calls < MaxCalls
    /\ calls' = calls + 1
    /\ pc' = [pc EXCEPT ![c] = "reserve"]
    /\ call' = [call EXCEPT ![c] = [key |-> k, print |-> print]]
    /\ acquired' = [acquired EXCEPT ![c] = FALSE]
    /\ seen' = [seen EXCEPT ![c] = known]
    /\ result' = [result EXCEPT ![c] = NoOutcome]
    /\ pending' = [pending EXCEPT ![c] = {}]
    /\ UNCHANGED <<storeVars, dlqVars, eventVars, audited>>

(* start_integration_execution, up to reserve_or_get *)
CallStart(c) ==
    \E k \in Keys, p \in Plans : Begin(c, k, [kind |-> "start", plan |-> p], {})

(* reprocess_integration_dlq, up to reserve_or_get: the record is read here *)
(* and never again, so everything below works on this copy of its history.  *)
CallReprocess(c) ==
    \E k \in Keys, r \in Reasons, d \in letters \cap StartLetters :
        /\ d.class \in RetryableClasses
        /\ Begin(c, k, [kind |-> "reprocess", letter |-> d, reason |-> r],
                 ReprocessesOf(d))

FreeKey(k) == executions[k] = None /\ reservations[k] = None

StoredFor(k, print) == executions[k] # None /\ executions[k].print = print

(* reserve_or_get takes a free key ... *)
ReserveNew(c) ==
    LET k == call[c].key IN
    /\ pc[c] = "reserve"
    /\ FreeKey(k)
    /\ reservations' = [reservations EXCEPT ![k] = call[c].print]
    /\ acquired' = [acquired EXCEPT ![c] = TRUE]
    /\ pc' = [pc EXCEPT ![c] = "check"]
    /\ UNCHANGED <<executions, dlqVars, eventVars, audited, call, seen, result, pending, calls>>

(* ... returns the execution stored for the same fingerprint ... *)
ReserveHit(c) ==
    LET k == call[c].key IN
    /\ pc[c] = "reserve"
    /\ StoredFor(k, call[c].print)
    /\ pc' = [pc EXCEPT ![c] = IF IsReprocess(c) THEN "mark" ELSE "list"]
    /\ UNCHANGED <<storeVars, dlqVars, eventVars, audited, localVars, calls>>

(* ... raises when the key belongs to another fingerprint ... *)
ReserveConflict(c) ==
    LET k == call[c].key IN
    /\ pc[c] = "reserve"
    /\ \/ executions[k] # None /\ ~StoredFor(k, call[c].print)
       \/ executions[k] = None /\ reservations[k] \notin {None, call[c].print}
    /\ pc' = [pc EXCEPT ![c] = "fail"]
    /\ UNCHANGED <<storeVars, dlqVars, eventVars, audited, localVars, calls>>

(* ... or waits for the call that reserved the key for the same fingerprint. *)
ReserveWait(c) ==
    LET k == call[c].key IN
    /\ pc[c] = "reserve"
    /\ executions[k] = None /\ reservations[k] = call[c].print
    /\ pc' = [pc EXCEPT ![c] = "waiting"]
    /\ UNCHANGED <<storeVars, dlqVars, eventVars, audited, localVars, calls>>

(***************************************************************************)
(* What follows a new reservation: _preflight_mock_execution for a start;  *)
(* for a reprocess _ensure_dlq_has_no_accepted_terminal_reprocess on the   *)
(* copied record, then the lookup of the original execution.  Stored       *)
(* executions never change, so reading them in one step loses nothing.     *)
(***************************************************************************)
Eligible(c) ==
    IsReprocess(c) => /\ \A id \in seen[c] : Found(id) /\ ~AcceptedTerminal(id)
                      /\ Found(call[c].print.letter.execution)

CheckPasses(c) ==
    /\ pc[c] = "check"
    /\ Eligible(c)
    /\ pc' = [pc EXCEPT ![c] = "dispatch"]
    /\ UNCHANGED <<storeVars, dlqVars, eventVars, audited, localVars, calls>>

CheckFails(c) ==
    /\ pc[c] = "check"
    /\ ~Eligible(c) \/ "adapter_missing" \in Faults
    /\ pc' = [pc EXCEPT ![c] = "fail"]
    /\ UNCHANGED <<storeVars, dlqVars, eventVars, audited, localVars, calls>>

(* dispatch: every failed job leaves a dead letter, then the jobs return *)
Dispatch(c) ==
    /\ pc[c] = "dispatch"
    /\ \E outcome \in [JobsOf(call[c].print) -> Outcomes] :
        /\ letters' = letters \cup LettersOf(IdOf(c), outcome)
        /\ result' = [result EXCEPT ![c] = outcome]
    /\ pc' = [pc EXCEPT ![c] = "save"]
    /\ UNCHANGED <<storeVars, history, reprocessKeys, eventVars, audited,
                   call, acquired, seen, pending, calls>>

(* A job raises: the jobs that did fail have left their dead letters. *)
DispatchRaises(c) ==
    /\ pc[c] = "dispatch"
    /\ "dispatch_raises" \in Faults
    /\ \E J \in SUBSET JobsOf(call[c].print) :
        /\ J # JobsOf(call[c].print)
        /\ \E outcome \in [J -> Outcomes] :
            letters' = letters \cup LettersOf(IdOf(c), outcome)
    /\ pc' = [pc EXCEPT ![c] = "fail"]
    /\ UNCHANGED <<storeVars, history, reprocessKeys, eventVars, audited, localVars, calls>>

(* IntegrationExecution.create *)
Created(c) == [print |-> call[c].print, outcome |-> result[c]]

(* Mutation: save does not pop the reservation. *)
ReservationKept(k) == reservations

ReservationPopped(k) == [reservations EXCEPT ![k] = None]

(* create, then save: the reservation ends here *)
Save(c) ==
    LET k == call[c].key IN
    /\ pc[c] = "save"
    /\ executions[k] = None \/ StoredFor(k, call[c].print)
    /\ executions' = [executions EXCEPT ![k] = Created(c)]
    /\ reservations' = ReservationPopped(k)
    /\ pc' = [Woken(pc) EXCEPT ![c] = IF IsReprocess(c) THEN "mark" ELSE "stage"]
    /\ UNCHANGED <<dlqVars, eventVars, audited, localVars, calls>>

(* create rejects a completed_at before started_at; save rejects a key that *)
(* holds another fingerprint                                                *)
SaveFails(c) ==
    LET k == call[c].key IN
    /\ pc[c] = "save"
    /\ \/ "clock_steps_back" \in Faults
       \/ executions[k] # None /\ ~StoredFor(k, call[c].print)
    /\ pc' = [pc EXCEPT ![c] = "fail"]
    /\ UNCHANGED <<storeVars, dlqVars, eventVars, audited, localVars, calls>>

(* Mutation: mark_reprocessed counts every call. *)
MarksAlways(k) == TRUE

(* mark_reprocessed counts a key once ... *)
MarksKey(k) == reprocessKeys[k] = None

(* ... after a save as well as after a hit. *)
MarkReprocessed(c) ==
    LET k == call[c].key
        d == call[c].print.letter IN
    /\ pc[c] = "mark"
    /\ reprocessKeys[k] \in {None, d}
    /\ reprocessKeys' = [reprocessKeys EXCEPT ![k] = d]
    /\ history' = IF MarksKey(k) THEN Append(history, <<d, IdOf(c)>>) ELSE history
    /\ pc' = [pc EXCEPT ![c] = IF acquired[c] THEN "stage" ELSE "list"]
    /\ UNCHANGED <<storeVars, letters, eventVars, audited, localVars, calls>>

(* The key was used for another record, or last_reprocess_at < created_at. *)
MarkFails(c) ==
    /\ pc[c] = "mark"
    /\ \/ reprocessKeys[call[c].key] \notin {None, call[c].print.letter}
       \/ "clock_steps_back" \in Faults /\ reprocessKeys[call[c].key] = None
    /\ pc' = [pc EXCEPT ![c] = "fail"]
    /\ UNCHANGED <<storeVars, dlqVars, eventVars, audited, localVars, calls>>
-----------------------------------------------------------------------------
(* Publication of the events of an execution. *)

(* stage_execution_events: the first staging of a key is the one that counts *)
Stage(c) ==
    LET k == call[c].key IN
    /\ pc[c] = "stage"
    /\ staged' = IF staged[k] = <<>>
                   THEN [staged EXCEPT ![k] = EventsOf(call[c].print, result[c])]
                   ELSE staged
    /\ pc' = [pc EXCEPT ![c] = "list"]
    /\ UNCHANGED <<storeVars, dlqVars, published, delivered, audited, localVars, calls>>

(* list_unpublished_execution_events *)
ListUnpublished(c) ==
    LET k == call[c].key IN
    /\ pc[c] = "list"
    /\ pending' = [pending EXCEPT
                    ![c] = {staged[k][i] : i \in DOMAIN staged[k]} \ published[k]]
    /\ pc' = [pc EXCEPT ![c] = "publish"]
    /\ UNCHANGED <<storeVars, dlqVars, eventVars, audited, call, acquired, seen, result, calls>>

(* The loop takes the listed events in the order in which they were staged. *)
IsNext(c, e) ==
    LET s == staged[call[c].key] IN
    \E i \in DOMAIN s : s[i] = e /\ \A j \in 1..(i - 1) : s[j] \notin pending[c]

(* publisher.publish of the next event *)
Publish(c) ==
    /\ pc[c] = "publish"
    /\ \E e \in pending[c] :
        /\ IsNext(c, e)
        /\ delivered' = [delivered EXCEPT ![call[c].key][e] = @ + 1]
    /\ pc' = [pc EXCEPT ![c] = "confirm"]
    /\ UNCHANGED <<storeVars, dlqVars, staged, published, audited, localVars, calls>>

(* Mutation: the error is swallowed and the loop goes on. *)
PublishErrorSwallowed(c) ==
    /\ pc[c] = "publish"
    /\ "publisher_raises" \in Faults
    /\ \E e \in pending[c] :
        /\ IsNext(c, e)
        /\ pending' = [pending EXCEPT ![c] = @ \ {e}]
    /\ UNCHANGED <<storeVars, dlqVars, eventVars, audited, pc,
                   call, acquired, seen, result, calls>>

PublishFails(c) ==
    /\ pc[c] = "publish"
    /\ pending[c] # {}
    /\ "publisher_raises" \in Faults
    /\ pc' = [pc EXCEPT ![c] = "fail"]
    /\ UNCHANGED <<storeVars, dlqVars, eventVars, audited, localVars, calls>>

(* mark_execution_event_published *)
ConfirmPublished(c) ==
    /\ pc[c] = "confirm"
    /\ \E e \in pending[c] :
        /\ IsNext(c, e)
        /\ published' = [published EXCEPT ![call[c].key] = @ \cup {e}]
        /\ pending' = [pending EXCEPT ![c] = @ \ {e}]
    /\ pc' = [pc EXCEPT ![c] = "publish"]
    /\ UNCHANGED <<storeVars, dlqVars, staged, delivered, audited,
                   call, acquired, seen, result, calls>>

(* The loop is over: a start returns, a reprocess is audited first. *)
EndPublication(c) ==
    /\ pc[c] = "publish"
    /\ pending[c] = {}
    /\ pc' = [pc EXCEPT ![c] = IF IsReprocess(c) THEN "audit" ELSE "accepted"]
    /\ UNCHANGED <<storeVars, dlqVars, eventVars, audited, localVars, calls>>

AuditAccepted(c) ==
    /\ pc[c] = "audit"
    /\ audited' = audited \cup {IdOf(c)}
    /\ pc' = [pc EXCEPT ![c] = "accepted"]
    /\ UNCHANGED <<storeVars, dlqVars, eventVars, localVars, calls>>

AuditFails(c) ==
    /\ pc[c] = "audit"
    /\ "audit_raises" \in Faults
    /\ pc' = [pc EXCEPT ![c] = "fail"]
    /\ UNCHANGED <<storeVars, dlqVars, eventVars, audited, localVars, calls>>

(* Mutation: the except block does not release. *)
NeverReleases(c) == FALSE

Releases(c) == acquired[c] /\ reservations[call[c].key] = call[c].print

(***************************************************************************)
(* The except block of both calls: release_reservation if this call made   *)
(* the reservation, then the error goes to the caller.  A release that     *)
(* finds another fingerprint, or none, changes nothing and wakes nobody.   *)
(***************************************************************************)
Fail(c) ==
    /\ pc[c] = "fail"
    /\ reservations' = IF Releases(c) THEN [reservations EXCEPT ![call[c].key] = None]
                       ELSE reservations
    /\ pc' = [(IF Releases(c) THEN Woken(pc) ELSE pc) EXCEPT ![c] = "rejected"]
    /\ UNCHANGED <<executions, dlqVars, eventVars, audited, localVars, calls>>
-----------------------------------------------------------------------------
Reserve(c) == ReserveNew(c) \/ ReserveHit(c) \/ ReserveConflict(c) \/ ReserveWait(c)

Proceed(c) ==
    \/ Reserve(c)
    \/ CheckPasses(c) \/ CheckFails(c)
    \/ Dispatch(c) \/ DispatchRaises(c)
    \/ Save(c) \/ SaveFails(c)
    \/ MarkReprocessed(c) \/ MarkFails(c)
    \/ Stage(c) \/ ListUnpublished(c)
    \/ Publish(c) \/ PublishFails(c) \/ ConfirmPublished(c) \/ EndPublication(c)
    \/ AuditAccepted(c) \/ AuditFails(c)
    \/ Fail(c)

(* The bound on calls is used up and every call has returned. *)
Finished ==
    /\ calls = MaxCalls
    /\ \A c \in Callers : pc[c] \in Resting
    /\ UNCHANGED vars

Next ==
    \/ \E c \in Callers : CallStart(c) \/ CallReprocess(c) \/ Proceed(c)
    \/ Finished

Spec == Init /\ [][Next]_vars

(* A thread that is inside a call keeps running. *)
FairSpec == Spec /\ \A c \in Callers : WF_vars(Proceed(c))
-----------------------------------------------------------------------------
(* Properties. *)

(* The calls that hold a reservation: reserve_or_get gave it to them, and    *)
(* neither save nor release_reservation has ended it.                        *)
Holding(c) ==
    /\ acquired[c]
    /\ \/ pc[c] \in {"check", "dispatch", "save"}
       \/ pc[c] = "fail" /\ executions[call[c].key] = None

(* Every reservation belongs to exactly one running call for the same key    *)
(* and fingerprint, and every such call still has its reservation: none is   *)
(* leaked on an error path, and none is taken away from a running dispatch.  *)
ReservationsOwned ==
    /\ \A c \in Callers : Holding(c) => /\ reservations[call[c].key] = call[c].print
                                        /\ executions[call[c].key] = None
    /\ \A c, d \in Callers : Holding(c) /\ Holding(d) /\ call[c].key = call[d].key => c = d
    /\ \A k \in Keys : reservations[k] # None =>
            \E c \in Callers : Holding(c) /\ call[c].key = k

(* What the place of a caller in its call says about its locals and about    *)
(* the store: with TypeOK, what makes ReservationsOwned inductive.           *)
PhaseConsistent(c) ==
    /\ pc[c] # "idle" => call[c] # NoCall
    /\ pc[c] \in {"reserve", "waiting"} => ~acquired[c]
    /\ pc[c] \in {"check", "dispatch", "save"} => acquired[c]
    /\ pc[c] \in {"mark", "stage", "list", "publish", "confirm", "audit", "accepted"} =>
            StoredFor(call[c].key, call[c].print)
    /\ pc[c] = "mark" => IsReprocess(c)

PhasesConsistent == \A c \in Callers : PhaseConsistent(c)

IInv == TypeOK /\ PhasesConsistent /\ ReservationsOwned

(* An execution that was saved under a key is never replaced, although save  *)
(* overwrites: two calls with one key never both get to save.                *)
ExecutionsFinal ==
    [][\A k \in Keys : executions[k] # None => executions'[k] = executions[k]]_vars

(* A call that returns without error has its execution in the store, under   *)
(* its own fingerprint; an accepted reprocess is in the record's history and *)
(* in the audit trail.                                                       *)
AcceptedIsStored ==
    \A c \in Callers : pc[c] = "accepted" =>
        /\ Found(IdOf(c))
        /\ IsReprocess(c) => /\ IdOf(c) \in ReprocessesOf(call[c].print.letter)
                             /\ IdOf(c) \in audited

(* The reprocess history counts every reprocess execution once, lists only   *)
(* stored executions that reprocessed that very record, and agrees with the  *)
(* map of used reprocess keys.                                               *)
HistoryConsistent ==
    /\ \A i, j \in DOMAIN history : history[i][2] = history[j][2] => i = j
    /\ \A i \in DOMAIN history :
        /\ Found(history[i][2])
        /\ history[i][2].print.letter = history[i][1]
        /\ reprocessKeys[history[i][2].key] = history[i][1]
    /\ \A k \in Keys : reprocessKeys[k] # None =>
        \E i \in DOMAIN history : history[i][2].key = k

(* The three stores that one call writes one after the other never disagree. *)
StoresAgree == AcceptedIsStored /\ HistoryConsistent

(* Consumers see the events of an execution in the order in which they were  *)
(* staged, also when several callers run the publication loop for one key:   *)
(* an event is handed over only when all before it are marked, and a marked  *)
(* event was handed over.                                                    *)
EventOrder ==
    \A k \in Keys : \A j \in DOMAIN staged[k] :
        /\ delivered[k][staged[k][j]] > 0 =>
                \A i \in 1..(j - 1) : staged[k][i] \in published[k]
        /\ staged[k][j] \in published[k] => delivered[k][staged[k][j]] > 0

(* The call that executed returns without error only when every event of the *)
(* execution was handed to the publisher.                                    *)
OwnerDelivers ==
    \A c \in Callers : pc[c] = "accepted" /\ acquired[c] =>
        LET k == call[c].key IN
        /\ staged[k] # <<>>
        /\ \A i \in DOMAIN staged[k] : delivered[k][staged[k][i]] > 0

(* Consumers get every event of an execution, and in order.                  *)
EventsDelivered == EventOrder /\ OwnerDelivers

(* Every call returns: a caller that waits for another call with its key is  *)
(* woken whether that call saves or fails.                                   *)
CallsReturn == \A c \in Callers : pc[c] \notin Resting ~> pc[c] \in Resting

TerminalReprocesses(d) == {id \in ReprocessesOf(d) : AcceptedTerminal(id)}

(* Documented: a dead letter that was reprocessed with a terminal result is  *)
(* not reprocessed again.                                                    *)
OneTerminalReprocess == \A d \in StartLetters : Cardinality(TerminalReprocesses(d)) <= 1

(* Documented: a replay returns the stored execution without publishing its  *)
(* events again.                                                             *)
PublishedOnce == \A k \in Keys, e \in EventKinds : delivered[k][e] <= 1

Claims == INSTANCE IdempotentClaim WITH claimed <- reservations, settled <- executions,
                                        Results <- JobOutcomes

(* The calls implement the abstract idempotent claim.                        *)
ImplementsClaim == Claims!Spec

-----------------------------------------------------------------------------
(* What makes StoresAgree and EventsDelivered inductive, beside IInv. *)

AfterMark == {"stage", "list", "publish", "confirm", "audit", "accepted"}

(* A reprocess that has marked its record stays in the record's history. *)
MarkStands(c) ==
    /\ pc[c] \in AfterMark /\ IsReprocess(c) =>
            IdOf(c) \in ReprocessesOf(call[c].print.letter)
    /\ pc[c] = "accepted" /\ IsReprocess(c) => IdOf(c) \in audited

StoresInv == HistoryConsistent /\ \A c \in Callers : MarkStands(c)

StagedOf(k) == {staged[k][i] : i \in DOMAIN staged[k]}

Publishing == {"publish", "confirm", "audit", "accepted"}

(* What a publication loop has left out of its events is marked, unless it   *)
(* listed them before there were any; and what it is about to mark was       *)
(* handed over.                                                              *)
LoopConsistent(c) ==
    LET k == call[c].key IN
    /\ acquired[c] /\ pc[c] \in {"list"} \cup Publishing => staged[k] # <<>>
    /\ pc[c] \in Publishing =>
        /\ pending[c] \subseteq StagedOf(k)
        /\ acquired[c] \/ pending[c] # {} => StagedOf(k) \subseteq published[k] \cup pending[c]
    /\ pc[c] = "confirm" => \A e \in pending[c] : IsNext(c, e) => delivered[k][e] > 0
    /\ pc[c] \in {"audit", "accepted"} => pending[c] = {}

(* No event is staged twice, and only staged events are handed over.         *)
StagingConsistent(k) ==
    /\ \A i, j \in DOMAIN staged[k] : staged[k][i] = staged[k][j] => i = j
    /\ published[k] \subseteq StagedOf(k)
    /\ \A e \in EventKinds : delivered[k][e] > 0 => e \in StagedOf(k)

EventsInv ==
    /\ EventOrder
    /\ \A k \in Keys : StagingConsistent(k)
    /\ \A c \in Callers : LoopConsistent(c)
=============================================================================
