--------------------------- MODULE WebhookDelivery ---------------------------
(***************************************************************************)
(* Delivery of webhooks in services/integration: the calls                 *)
(* dispatch_webhook_notification, process_due_webhook_retries and          *)
(* reprocess_webhook_dlq of application/service.py, running concurrently   *)
(* over the delivery store and the dead-letter store of                    *)
(* adapters/persistence, with the dispatcher of adapters/events.           *)
(*                                                                         *)
(* A step is one critical section of a store, or one dispatch.  One tenant *)
(* is modelled: every key starts with tenant_id.  Of the clock only one    *)
(* thing is left: any of the schedules may be due when a call lists them.  *)
(***************************************************************************)
EXTENDS Naturals, Sequences

CONSTANTS
    Callers,        \* threads that call the service
    Events,         \* notification events
    Configurations, \* webhook configurations that subscribe to them
    MaxAttempts,    \* max_attempts of every configuration, 1 for no_retry
    ReprocessKeys,  \* idempotency keys of reprocess commands
    AttemptLimit,   \* the largest attempt count that is valid: 10 in the code
    Faults,         \* what may raise
    MaxCalls,       \* bound on the number of calls in a behaviour
    MaxLost,        \* bound on the answers of a job that are lost
    None            \* absence of a stored value

(* answer_lost: the receiver accepts, and the dispatcher does not hear of it. *)
AllFaults == {"dispatch_raises", "answer_lost"}

(* validate_webhook_attempt_count *)
Attempts == 1..AttemptLimit

(* Job ids and dead-letter ids hash these parts; an attempt to deliver a job *)
(* that is scheduled, or that failed for good, is known by its number.       *)
Notifications == [event : Events, configuration : Configurations]

NotificationLetters == [job : Notifications, attempt : Attempts]

Reprocesses == [letter : NotificationLetters, key : ReprocessKeys]

Jobs == Notifications \cup Reprocesses

Deliveries == [job : Jobs, attempt : Attempts]

Outcomes == {"accepted", "temporary", "final"}

JobStates == [status : {"sent", "retry_scheduled", "dlq_recorded"}, attempt : Attempts]

ASSUME ConstantsAssumption ==
    /\ AttemptLimit \in Nat
    /\ MaxAttempts \in [Configurations -> Attempts]
    /\ Faults \subseteq AllFaults
    /\ MaxCalls \in Nat
    /\ MaxLost \in Nat

ASSUME NoneAssumption ==
    /\ None # "job"
    /\ None \notin JobStates
    /\ None \notin Deliveries
    /\ None \notin Seq(Reprocesses)

VARIABLES
    active,         \* the configurations whose status is active
    jobs,           \* status and attempt of every stored job
    reservations,   \* jobs whose idempotency key is reserved
    events,         \* jobs whose event is stored
    schedules,      \* the next attempts that are scheduled
    letters,        \* the reprocess history of every recorded dead letter
    accepted,       \* how often the receiver accepted a job
    unanswered,     \* and how often its answer was lost
    raced,          \* jobs with a schedule that two calls had at the same time
    pc,             \* where every caller is in its call
    todo,           \* what its loop still has to deliver
    current,        \* the delivery it is at
    outcome,        \* what its dispatch reported
    calls           \* number of calls made so far

storeVars == <<jobs, reservations, events, schedules>>
acceptances == <<accepted, unanswered>>
observations == <<accepted, unanswered, raced>>
localVars == <<todo, current, outcome>>
vars == <<active, storeVars, letters, observations, pc, localVars, calls>>

Phases == {"idle", "take", "deliver", "consume", "save", "schedule", "letter", "mark"}

TypeOK ==
    /\ active \subseteq Configurations
    /\ jobs \in [Jobs -> JobStates \cup {None}]
    /\ reservations \subseteq Jobs
    /\ events \subseteq Jobs
    /\ schedules \subseteq Deliveries
    /\ letters \in [Deliveries -> Seq(Reprocesses) \cup {None}]
    /\ accepted \in [Jobs -> Nat]
    /\ unanswered \in [Jobs -> Nat]
    /\ raced \subseteq Jobs
    /\ pc \in [Callers -> Phases]
    /\ todo \in [Callers -> SUBSET Deliveries]
    /\ current \in [Callers -> Deliveries \cup {None}]
    /\ outcome \in [Callers -> Outcomes \cup {None}]
    /\ calls \in Nat

Init ==
    /\ active = Configurations
    /\ jobs = [j \in Jobs |-> None]
    /\ reservations = {}
    /\ events = {}
    /\ schedules = {}
    /\ letters = [d \in Deliveries |-> None]
    /\ accepted = [j \in Jobs |-> 0]
    /\ unanswered = [j \in Jobs |-> 0]
    /\ raced = {}
    /\ pc = [c \in Callers |-> "idle"]
    /\ todo = [c \in Callers |-> {}]
    /\ current = [c \in Callers |-> None]
    /\ outcome = [c \in Callers |-> None]
    /\ calls = 0
-----------------------------------------------------------------------------
ConfigurationOf(j) ==
    IF j \in Notifications THEN j.configuration ELSE j.letter.job.configuration

Stored(j) == jobs[j] # None

HasStatus(j, status) == Stored(j) /\ jobs[j].status = status

(* A first attempt creates its job, later ones come from a schedule. *)
First(w) == w.attempt = 1

JobOf(c) == current[c].job

Goto(c, phase) == pc' = [pc EXCEPT ![c] = phase]

(* The schedule is in the list that d works through. *)
Holds(d, w) ==
    \/ w \in todo[d]
    \/ pc[d] \in {"deliver", "consume"} /\ current[d] = w

-----------------------------------------------------------------------------
(* The beginning of the calls. *)

Call(c, work) ==
    /\ pc[c] = "idle"
    /\ calls < MaxCalls
    /\ calls' = calls + 1
    /\ todo' = [todo EXCEPT ![c] = work]
    /\ Goto(c, "take")

(* dispatch_webhook_notification lists the active configurations. *)
Notify(c) ==
    /\ \E e \in Events :
        Call(c, {[job |-> [event |-> e, configuration |-> k], attempt |-> 1] : k \in active})
    /\ UNCHANGED <<active, storeVars, letters, observations, current, outcome>>

(* process_due_webhook_retries lists the schedules that are due. *)
ProcessRetries(c) ==
    /\ \E due \in SUBSET schedules :
        /\ due # {}
        /\ Call(c, due)
        /\ raced' = raced \cup {w.job : w \in {v \in due : \E d \in Callers : Holds(d, v)}}
    /\ UNCHANGED <<active, storeVars, letters, acceptances, current, outcome>>

(* reprocess_webhook_dlq reads the record and its configuration. *)
Reprocess(c) ==
    /\ \E d \in NotificationLetters, k \in ReprocessKeys :
        /\ letters[d] # None
        /\ ConfigurationOf(d.job) \in active
        /\ Call(c, {[job |-> [letter |-> d, key |-> k], attempt |-> 1]})
    /\ UNCHANGED <<active, storeVars, letters, observations, current, outcome>>
-----------------------------------------------------------------------------
(* One delivery of a call's loop. *)

Begin(c, w) ==
    /\ pc[c] = "take"
    /\ w \in todo[c]
    /\ todo' = [todo EXCEPT ![c] = @ \ {w}]

(* reserve_or_get: a new job is reserved and its event stored, ... *)
Reserve(c) ==
    /\ \E w \in todo[c] :
        /\ Begin(c, w)
        /\ First(w)
        /\ ~Stored(w.job)
        /\ w.job \notin reservations
        /\ reservations' = reservations \cup {w.job}
        /\ events' = events \cup {w.job}
        /\ current' = [current EXCEPT ![c] = w]
    /\ Goto(c, "deliver")
    /\ UNCHANGED <<active, jobs, schedules, letters, observations, outcome, calls>>

(* ... a stored one is returned; for a reserved one the call waits, until    *)
(* save or release, which both notify the waiters.                           *)
Replay(c) ==
    /\ \E w \in todo[c] :
        /\ Begin(c, w)
        /\ First(w)
        /\ Stored(w.job)
    /\ UNCHANGED <<active, storeVars, letters, observations, pc, current, outcome, calls>>

Known(j) == Stored(j) /\ j \in events

(* A schedule is taken: its job and event are never removed, so reading them *)
(* with the configuration loses nothing.                                     *)
TakeSchedule(c) ==
    /\ \E w \in todo[c] :
        /\ Begin(c, w)
        /\ ~First(w)
        /\ Known(w.job)
        /\ ConfigurationOf(w.job) \in active
        /\ current' = [current EXCEPT ![c] = w]
    /\ Goto(c, "deliver")
    /\ UNCHANGED <<active, storeVars, letters, observations, outcome, calls>>

(* A schedule without its job is consumed; while the configuration is not    *)
(* active the schedule stays.                                                *)
SkipSchedule(c) ==
    /\ \E w \in todo[c] :
        /\ Begin(c, w)
        /\ ~First(w)
        /\ Known(w.job) => ConfigurationOf(w.job) \notin active
        /\ schedules' = IF Known(w.job) THEN schedules ELSE schedules \ {w}
    /\ UNCHANGED <<active, jobs, reservations, events, letters, observations, pc,
                   current, outcome, calls>>

Answered(j) ==
    /\ accepted' = [accepted EXCEPT ![j] = @ + 1]
    /\ UNCHANGED unanswered

(* No acceptance is reported: there was none, or the adapter timed out, raised *)
(* or reports a failure although the receiver has the delivery.                *)
Unheard(j) ==
    \/ UNCHANGED acceptances
    \/ /\ "answer_lost" \in Faults
       /\ unanswered[j] < MaxLost
       /\ accepted' = [accepted EXCEPT ![j] = @ + 1]
       /\ unanswered' = [unanswered EXCEPT ![j] = @ + 1]

(* dispatch: the adapter reports that the receiver accepted, or a failure, or *)
(* raises; a TimeoutError and any exception but a PermissionError are         *)
(* temporary, like a temporary failure.                                       *)
Deliver(c) ==
    /\ pc[c] = "deliver"
    /\ \E o \in Outcomes :
        /\ outcome' = [outcome EXCEPT ![c] = o]
        /\ IF o = "accepted" THEN Answered(JobOf(c)) ELSE Unheard(JobOf(c))
    /\ Goto(c, IF First(current[c]) THEN "save" ELSE "consume")
    /\ UNCHANGED <<active, storeVars, letters, raced, todo, current, calls>>

(* Mutation: a call that fails keeps its reservation. *)
NeverReleases(w) == FALSE

(* Only the calls that reserve release. *)
Releases(w) == First(w)

(* The signing key is refused, or the failure code after the adapter was     *)
(* called: dispatch raises and the call ends; release forgets the job, a     *)
(* schedule stays.                                                           *)
DispatchRaises(c) ==
    LET j == JobOf(c)
        released == IF Releases(current[c]) THEN {j} ELSE {} IN
    /\ pc[c] = "deliver"
    /\ "dispatch_raises" \in Faults
    /\ jobs' = [k \in Jobs |-> IF k \in released THEN None ELSE jobs[k]]
    /\ reservations' = reservations \ released
    /\ events' = events \ released
    /\ todo' = [todo EXCEPT ![c] = {}]
    /\ Unheard(j)
    /\ Goto(c, "idle")
    /\ UNCHANGED <<active, schedules, letters, raced, current, outcome, calls>>

(* Mutation: the schedule is not removed. *)
NotConsumed(w) == schedules

Consumed(w) == schedules \ {w}

(* consume_retry_schedule *)
Consume(c) ==
    /\ pc[c] = "consume"
    /\ schedules' = Consumed(current[c])
    /\ Goto(c, "save")
    /\ UNCHANGED <<active, jobs, reservations, events, letters, observations, localVars, calls>>

RetryAllowed(w) == w.attempt < MaxAttempts[ConfigurationOf(w.job)]

StatusOf(c) ==
    CASE outcome[c] = "accepted" -> "sent"
      [] outcome[c] = "temporary" /\ RetryAllowed(current[c]) -> "retry_scheduled"
      [] OTHER -> "dlq_recorded"

(* Mutation: a dead letter is marked whatever its reprocess came to. *)
AlwaysMarks(c) == JobOf(c) \in Reprocesses /\ First(current[c])

(* Only the reprocess call itself marks, and only what was sent. *)
Marks(c) == JobOf(c) \in Reprocesses /\ First(current[c]) /\ outcome[c] = "accepted"

AfterSave(c) ==
    CASE Marks(c) -> "mark"
      [] StatusOf(c) = "retry_scheduled" -> "schedule"
      [] StatusOf(c) = "dlq_recorded" -> "letter"
      [] OTHER -> "take"

(* Mutation: save keeps the reservation. *)
ReservationKept(j) == reservations

ReservationPopped(j) == reservations \ {j}

(* save of the dispatched job *)
Save(c) ==
    LET j == JobOf(c) IN
    /\ pc[c] = "save"
    /\ jobs' = [jobs EXCEPT ![j] = [status |-> StatusOf(c), attempt |-> current[c].attempt]]
    /\ reservations' = ReservationPopped(j)
    /\ Goto(c, AfterSave(c))
    /\ UNCHANGED <<active, events, schedules, letters, observations, localVars, calls>>

(* Mutation: the same attempt again. *)
SameAttempt(w) == w

(* next_attempt_count *)
NextAttempt(w) == [w EXCEPT !.attempt = @ + 1]

(* save_retry_schedule *)
SaveSchedule(c) ==
    /\ pc[c] = "schedule"
    /\ schedules' = schedules \cup {NextAttempt(current[c])}
    /\ Goto(c, "take")
    /\ UNCHANGED <<active, jobs, reservations, events, letters, observations, localVars, calls>>

(* save of the dead letter; one with the same id is overwritten *)
SaveLetter(c) ==
    /\ pc[c] = "letter"
    /\ letters' = [letters EXCEPT ![current[c]] = <<>>]
    /\ Goto(c, "take")
    /\ UNCHANGED <<active, storeVars, observations, localVars, calls>>

(* mark_reprocessed *)
MarkReprocessed(c) ==
    LET j == JobOf(c) IN
    /\ pc[c] = "mark"
    /\ letters' = [letters EXCEPT ![j.letter] = Append(@, j)]
    /\ Goto(c, "take")
    /\ UNCHANGED <<active, storeVars, observations, localVars, calls>>

(* The loop ends. *)
Return(c) ==
    /\ pc[c] = "take"
    /\ todo[c] = {}
    /\ Goto(c, "idle")
    /\ UNCHANGED <<active, storeVars, letters, observations, localVars, calls>>
-----------------------------------------------------------------------------
(* A configuration is saved, active or not: whatever configure_webhook,      *)
(* disable_webhook_configuration and their compensations do to it.           *)
SaveConfiguration(k) ==
    /\ active' \in {active \cup {k}, active \ {k}}
    /\ UNCHANGED <<storeVars, letters, observations, pc, localVars, calls>>

Proceed(c) ==
    \/ Reserve(c) \/ Replay(c) \/ TakeSchedule(c) \/ SkipSchedule(c)
    \/ Deliver(c) \/ DispatchRaises(c) \/ Consume(c)
    \/ Save(c) \/ SaveSchedule(c) \/ SaveLetter(c) \/ MarkReprocessed(c)
    \/ Return(c)

Next ==
    \/ \E c \in Callers : Notify(c) \/ ProcessRetries(c) \/ Reprocess(c) \/ Proceed(c)
    \/ \E k \in Configurations : SaveConfiguration(k)

Spec == Init /\ [][Next]_vars

(* A thread that is inside a call keeps running. *)
FairSpec == Spec /\ \A c \in Callers : WF_vars(Proceed(c))
-----------------------------------------------------------------------------
(* Properties. *)

(* Attempt n of a job failed: its next attempt is scheduled, or a call still *)
(* has to schedule it, or is about to save the job again.                    *)
Retried(j, n) ==
    \/ [job |-> j, attempt |-> n + 1] \in schedules
    \/ \E c \in Callers : pc[c] = "save" /\ JobOf(c) = j
    \/ \E c \in Callers : pc[c] = "schedule" /\ current[c] = [job |-> j, attempt |-> n]

(* Attempt n was the last: its dead letter is recorded, or about to be.      *)
Buried(j, n) ==
    \/ letters[[job |-> j, attempt |-> n]] # None
    \/ \E c \in Callers : pc[c] = "letter" /\ current[c] = [job |-> j, attempt |-> n]

(* No failed delivery is ever lost: what a job says is still to come, the    *)
(* store of the schedules or that of the dead letters has, or a running call *)
(* brings, whatever other calls, retries and failing dispatches do between.  *)
NothingLost ==
    \A j \in Jobs :
        /\ HasStatus(j, "retry_scheduled") => Retried(j, jobs[j].attempt)
        /\ HasStatus(j, "dlq_recorded") => Buried(j, jobs[j].attempt)

(* Every schedule, also one that a call has taken, still has its job and its *)
(* event: none is dropped as an orphan.                                      *)
SchedulesKnown ==
    /\ \A w \in schedules : Known(w.job)
    /\ \A c \in Callers : \A w \in todo[c] : ~First(w) => Known(w.job)

(* A failed delivery is kept until it is delivered or dead: nothing that is  *)
(* to come of it is lost, and no schedule of it is left without its job.     *)
DeliveriesKept == NothingLost /\ SchedulesKnown

(* The receiver accepts a job again only after an acceptance whose answer    *)
(* was lost, and the dispatcher retried what it took for a failure, or when  *)
(* two calls had one schedule of it at the same time; nothing else makes it  *)
(* be accepted twice, however notifications, replays, reprocesses, retries   *)
(* and dispatches that raise overlap.                                        *)
AcceptedOnce == \A j \in Jobs \ raced : accepted[j] <= 1 + unanswered[j]

Heard(j) == accepted[j] > unanswered[j]

(* An acceptance that the dispatcher heard of is the last, and a job that    *)
(* was sent stays sent.                                                      *)
HeardIsLast ==
    \A j \in Jobs \ raced : Heard(j) => accepted'[j] = accepted[j]

SentStays ==
    \A j \in Jobs \ raced : HasStatus(j, "sent") => jobs'[j] = jobs[j]

(* The history of a dead letter lists each reprocess once and only if it was *)
(* accepted, and nothing that is in it disappears, with the same exception:  *)
(* a second call that fails the same attempt overwrites the record.          *)
MarkedWasAccepted ==
    \A d \in NotificationLetters : letters[d] # None =>
        \A i \in DOMAIN letters[d] :
            /\ letters[d][i].letter = d
            /\ accepted[letters[d][i]] > 0
            /\ \A k \in DOMAIN letters[d] : letters[d][i] = letters[d][k] => i = k

HistoryStays ==
    \A d \in NotificationLetters :
        letters[d] # None /\ d.job \notin raced =>
            letters'[d] = letters[d] \/ \E r \in Reprocesses : letters'[d] = Append(letters[d], r)

(* But for a schedule that two calls had, what is sent or reprocessed stays  *)
(* so, and what the receiver was heard to accept it is not sent again.       *)
DeliveriesFinal == [][HeardIsLast /\ SentStays /\ HistoryStays]_vars

(* Every call returns: who waits for a reserved job is released by save or   *)
(* by release.                                                               *)
CallsReturn == \A c \in Callers : pc[c] # "idle" ~> pc[c] = "idle"

(* The idempotency key of a job is claimed by one call at a time and settled *)
(* once: no job is created twice.                                            *)
Claims == INSTANCE IdempotentClaim WITH
    Keys <- Jobs, Prints <- {"job"}, Results <- {"created"},
    claimed <- [j \in Jobs |-> IF j \in reservations THEN "job" ELSE None],
    settled <- [j \in Jobs |-> IF Stored(j) THEN [print |-> "job", outcome |-> "created"] ELSE None]

ImplementsClaim == Claims!Spec

-----------------------------------------------------------------------------
(* What makes SchedulesKnown, NothingLost and the refinement inductive. *)

(* The calls that reserved the job of their delivery. *)
Owns(c) == pc[c] \in {"deliver", "save"} /\ First(current[c])

(* Their job is new, and nobody else has it. *)
ReservationsOwned ==
    /\ \A c \in Callers : Owns(c) => /\ JobOf(c) \in reservations \cap events
                                      /\ ~Stored(JobOf(c))
    /\ \A c, d \in Callers : Owns(c) /\ Owns(d) /\ JobOf(c) = JobOf(d) => c = d
    /\ \A j \in reservations : \E c \in Callers : Owns(c) /\ JobOf(c) = j

(* A reprocess reads its dead letter first. *)
LetterRead(w) == First(w) /\ w.job \in Reprocesses => letters[w.job.letter] # None

(* What a place in a call says about the delivery it is at. *)
PlaceConsistent(c) ==
    /\ pc[c] \notin {"idle", "take"} => current[c] \in Deliveries
    /\ pc[c] \in {"consume", "save", "schedule", "letter", "mark"} => outcome[c] \in Outcomes
    /\ pc[c] = "consume" => ~First(current[c])
    /\ pc[c] \in {"deliver", "consume", "save"} => First(current[c]) \/ Known(JobOf(c))
    /\ pc[c] = "schedule" => Known(JobOf(c)) /\ RetryAllowed(current[c])
    /\ pc[c] \in {"deliver", "save", "mark"} => LetterRead(current[c])
    /\ pc[c] = "mark" => First(current[c]) /\ JobOf(c) \in Reprocesses
    /\ \A w \in todo[c] : LetterRead(w)

PlacesConsistent == \A c \in Callers : PlaceConsistent(c)

(* Only later attempts are scheduled. *)
SchedulesRetry == \A w \in schedules : ~First(w)

IInv ==
    /\ TypeOK
    /\ PlacesConsistent
    /\ ReservationsOwned
    /\ SchedulesRetry
    /\ SchedulesKnown
    /\ NothingLost
-----------------------------------------------------------------------------
(* What makes AcceptedOnce, MarkedWasAccepted and DeliveriesFinal inductive:  *)
(* unless two calls had one schedule of it, a job is in one place at a time.  *)

(* The calls that can still change the job of their delivery ... *)
Working(c) == pc[c] \in {"deliver", "consume", "save", "schedule"}

(* ... and those whose delivery has no schedule, not yet or no more. *)
Settling(c) == pc[c] \in {"save", "schedule"} \/ (pc[c] = "deliver" /\ First(current[c]))

(* A job has one schedule, which one call has, or one call that settles it. *)
OneTrack(j) ==
    /\ \A w, v \in schedules : w.job = j /\ v.job = j => w = v
    /\ \A c \in Callers : \A w \in Deliveries : w.job = j /\ ~First(w) /\ Holds(c, w) =>
          w \in schedules /\ \A d \in Callers : Holds(d, w) => c = d
    /\ \A c \in Callers : Settling(c) /\ JobOf(c) = j =>
          /\ \A w \in schedules : w.job # j
          /\ \A d \in Callers : Settling(d) /\ JobOf(d) = j => c = d

Over(j) == HasStatus(j, "sent") \/ HasStatus(j, "dlq_recorded")

(* Of a job that is over nothing is to come. *)
OverRests(j) == Over(j) =>
    /\ \A w \in schedules : w.job # j
    /\ \A c \in Callers : Working(c) => JobOf(c) # j

(* A job that was heard to be accepted is sent, or about to be. *)
AcceptedIsSent(j) == Heard(j) =>
    \/ HasStatus(j, "sent")
    \/ \E c \in Callers : pc[c] \in {"consume", "save"} /\ JobOf(c) = j /\ outcome[c] = "accepted"

(* A dead letter is of a job that is over, and is recorded once. *)
LettersRest(j) ==
    /\ \A w \in Deliveries : w.job = j /\ letters[w] # None => HasStatus(j, "dlq_recorded")
    /\ \A c \in Callers : pc[c] = "letter" /\ JobOf(c) = j =>
          /\ HasStatus(j, "dlq_recorded")
          /\ letters[current[c]] = None
          /\ \A d \in Callers : pc[d] = "letter" /\ JobOf(d) = j => c = d

Settled(j) ==
    /\ OneTrack(j)
    /\ OverRests(j)
    /\ accepted[j] <= 1 + unanswered[j]
    /\ AcceptedIsSent(j)
    /\ LettersRest(j)

(* What a call is at is no longer in its list. *)
HeldOnce == \A c \in Callers : pc[c] \in {"deliver", "consume"} => current[c] \notin todo[c]

Marked(r) ==
    letters[r.letter] # None /\ \E i \in DOMAIN letters[r.letter] : letters[r.letter][i] = r

(* A reprocess is marked by the one call that reserved it, once it was accepted. *)
MarksOwned ==
    /\ \A c \in Callers : pc[c] \in {"consume", "save"} /\ outcome[c] = "accepted" =>
          accepted[JobOf(c)] > 0
    /\ \A c \in Callers : pc[c] = "mark" =>
          /\ accepted[JobOf(c)] > 0
          /\ Known(JobOf(c))
          /\ ~Marked(JobOf(c))
          /\ \A d \in Callers : pc[d] = "mark" /\ JobOf(d) = JobOf(c) => c = d
    /\ \A r \in Reprocesses : Marked(r) => Known(r)

FinalInv ==
    /\ \A j \in Jobs \ raced : Settled(j)
    /\ HeldOnce
    /\ MarksOwned
    /\ MarkedWasAccepted
=============================================================================
