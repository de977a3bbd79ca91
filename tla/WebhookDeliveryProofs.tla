------------------------ MODULE WebhookDeliveryProofs ------------------------
(* Proofs about WebhookDelivery, for every value of its constants. *)
EXTENDS WebhookDelivery, TLAPS

(* A delivery is an attempt of a job. *)
LEMMA DeliveryType ==
    /\ \A w \in Deliveries : /\ w.job \in Jobs
                             /\ w.attempt \in Attempts
                             /\ w = [job |-> w.job, attempt |-> w.attempt]
    /\ \A j \in Jobs, n \in Attempts : [job |-> j, attempt |-> n] \in Deliveries
BY DEF Deliveries

(* A job belongs to a configuration. *)
LEMMA ConfigurationType ==
    ASSUME NEW j \in Jobs
    PROVE  ConfigurationOf(j) \in Configurations
<1>1. CASE j \in Notifications
  BY <1>1 DEF ConfigurationOf, Notifications
<1>2. CASE j \notin Notifications
  <2>1. j \in Reprocesses
    BY <1>2 DEF Jobs
  <2>2. j.letter \in NotificationLetters
    BY <2>1 DEF Reprocesses
  <2>3. j.letter.job \in Notifications
    BY <2>2 DEF NotificationLetters
  <2> QED
    BY <1>2, <2>3 DEF ConfigurationOf, Notifications
<1> QED
  BY <1>1, <1>2

(* An attempt that may be retried has a valid next attempt, a later one. *)
LEMMA NextAttemptType ==
    ASSUME NEW w \in Deliveries, RetryAllowed(w)
    PROVE  /\ NextAttempt(w) \in Deliveries
           /\ NextAttempt(w) = [job |-> w.job, attempt |-> w.attempt + 1]
           /\ ~First(NextAttempt(w))
<1>1. w = [job |-> w.job, attempt |-> w.attempt] /\ w.job \in Jobs /\ w.attempt \in Attempts
  BY DeliveryType
<1>2. ConfigurationOf(w.job) \in Configurations
  BY <1>1, ConfigurationType
<1>3. MaxAttempts[ConfigurationOf(w.job)] \in Attempts
  BY <1>2, ConstantsAssumption
<1>4. w.attempt + 1 \in Attempts
  BY <1>1, <1>3, ConstantsAssumption DEF Attempts, RetryAllowed
<1>5. NextAttempt(w) = [job |-> w.job, attempt |-> w.attempt + 1]
  BY <1>1 DEF NextAttempt
<1> QED
  BY <1>1, <1>4, <1>5, DeliveryType DEF First, Attempts

(* A letter a reprocess names is the id of a dead letter. *)
LEMMA LetterType ==
    ASSUME NEW j \in Reprocesses
    PROVE  j.letter \in NotificationLetters /\ j.letter \in Deliveries
BY DEF Reprocesses, NotificationLetters, Deliveries, Jobs

LEMMA InitInductive == Init => IInv
<1> SUFFICES ASSUME Init PROVE IInv
  OBVIOUS
<1>1. TypeOK
  BY DEF Init, TypeOK, Phases
<1>2. PlacesConsistent
  BY DEF Init, PlacesConsistent, PlaceConsistent
<1>3. ReservationsOwned /\ SchedulesRetry /\ SchedulesKnown /\ NothingLost
  BY DEF Init, ReservationsOwned, Owns, SchedulesRetry, SchedulesKnown, NothingLost, HasStatus,
         Stored
<1> QED
  BY <1>1, <1>2, <1>3 DEF IInv
-----------------------------------------------------------------------------
(* A call that is under way is at a delivery, and its job has a status.      *)
LEMMA CurrentType ==
    ASSUME TypeOK, PlacesConsistent, NEW c \in Callers, pc[c] \notin {"idle", "take"}
    PROVE  /\ current[c] \in Deliveries
           /\ JobOf(c) \in Jobs
           /\ current[c].attempt \in Attempts
           /\ current[c] = [job |-> JobOf(c), attempt |-> current[c].attempt]
BY DeliveryType DEF PlacesConsistent, PlaceConsistent, JobOf

(* What save writes is the state of a job.                                   *)
LEMMA StatusType ==
    ASSUME NEW c \in Callers
    PROVE  /\ StatusOf(c) \in {"sent", "retry_scheduled", "dlq_recorded"}
           /\ AfterSave(c) \in {"mark", "schedule", "letter", "take"}
           /\ StatusOf(c) = "retry_scheduled" => RetryAllowed(current[c])
           /\ AfterSave(c) = "mark" => Marks(c)
           /\ AfterSave(c) = "schedule" => StatusOf(c) = "retry_scheduled"
           /\ StatusOf(c) = "retry_scheduled" => AfterSave(c) = "schedule"
           /\ StatusOf(c) = "dlq_recorded" => AfterSave(c) = "letter"
BY DEF StatusOf, AfterSave, Marks

(* A call begins with deliveries to work through. *)
LEMMA CallType ==
    ASSUME TypeOK, NEW c \in Callers, NEW work \in SUBSET Deliveries, Call(c, work)
    PROVE  /\ todo' \in [Callers -> SUBSET Deliveries]
           /\ pc' \in [Callers -> Phases]
           /\ calls' \in Nat
BY DEF TypeOK, Call, Goto, Phases

(* What a delivery adds to the counts of the receiver.                       *)
LEMMA AcceptancesType ==
    ASSUME TypeOK, NEW j \in Jobs, Answered(j) \/ Unheard(j)
    PROVE  accepted' \in [Jobs -> Nat] /\ unanswered' \in [Jobs -> Nat]
<1>1. accepted \in [Jobs -> Nat] /\ unanswered \in [Jobs -> Nat]
  BY DEF TypeOK
<1>2. CASE UNCHANGED acceptances
  BY <1>1, <1>2 DEF acceptances
<1>3. CASE accepted' = [accepted EXCEPT ![j] = @ + 1]
  <2>1. accepted' \in [Jobs -> Nat]
    BY <1>1, <1>3
  <2>2. unanswered' = unanswered \/ unanswered' = [unanswered EXCEPT ![j] = @ + 1]
    BY <1>1, <1>3 DEF Answered, Unheard, acceptances
  <2> QED BY <1>1, <2>1, <2>2
<1> QED BY <1>2, <1>3 DEF Answered, Unheard

(* Every step preserves the types.                                           *)
LEMMA TypePreserved ==
    ASSUME TypeOK, PlacesConsistent, [Next]_vars
    PROVE  TypeOK'
<1> USE DEF TypeOK, Phases, Goto
<1>1. CASE UNCHANGED vars
  BY <1>1 DEF vars, storeVars, observations, localVars
<1>2. ASSUME NEW c \in Callers, Notify(c) PROVE TypeOK'
  <2>1. PICK e \in Events :
            Call(c, {[job |-> [event |-> e, configuration |-> k], attempt |-> 1] : k \in active})
    BY <1>2 DEF Notify
  <2>2. \A k \in active : 1 \in Attempts
    BY ConstantsAssumption DEF Attempts
  <2>3. {[job |-> [event |-> e, configuration |-> k], attempt |-> 1] : k \in active}
            \in SUBSET Deliveries
    <3> SUFFICES ASSUME NEW k \in active
                 PROVE  [job |-> [event |-> e, configuration |-> k], attempt |-> 1] \in Deliveries
      OBVIOUS
    <3>1. [event |-> e, configuration |-> k] \in Jobs
      BY DEF Notifications, Jobs
    <3> QED BY <2>2, <3>1, DeliveryType
  <2>4. /\ todo' \in [Callers -> SUBSET Deliveries]
        /\ pc' \in [Callers -> Phases]
        /\ calls' \in Nat
    BY <2>1, <2>3, CallType
  <2> QED
    BY <1>2, <2>4 DEF Notify, storeVars, observations
<1>3. ASSUME NEW c \in Callers, ProcessRetries(c) PROVE TypeOK'
  <2>1. PICK due \in SUBSET schedules :
            /\ Call(c, due)
            /\ raced' = raced \cup {w.job : w \in {v \in due : \E d \in Callers : Holds(d, v)}}
    BY <1>3 DEF ProcessRetries
  <2>2. raced' \subseteq Jobs
    <3>1. \A w \in due : w.job \in Jobs
      BY DeliveryType
    <3> QED BY <2>1, <3>1
  <2>3. /\ todo' \in [Callers -> SUBSET Deliveries]
        /\ pc' \in [Callers -> Phases]
        /\ calls' \in Nat
    BY <2>1, CallType
  <2> QED
    BY <1>3, <2>2, <2>3 DEF ProcessRetries, storeVars, acceptances
<1>4. ASSUME NEW c \in Callers, Reprocess(c) PROVE TypeOK'
  <2>1. PICK d \in NotificationLetters, k \in ReprocessKeys :
            Call(c, {[job |-> [letter |-> d, key |-> k], attempt |-> 1]})
    BY <1>4 DEF Reprocess
  <2>2. 1 \in Attempts
    BY ConstantsAssumption, <2>1 DEF Attempts, NotificationLetters
  <2>3. {[job |-> [letter |-> d, key |-> k], attempt |-> 1]} \in SUBSET Deliveries
    <3>1. [letter |-> d, key |-> k] \in Jobs
      BY DEF Reprocesses, Jobs
    <3> QED BY <2>2, <3>1, DeliveryType
  <2>4. /\ todo' \in [Callers -> SUBSET Deliveries]
        /\ pc' \in [Callers -> Phases]
        /\ calls' \in Nat
    BY <2>1, <2>3, CallType
  <2> QED
    BY <1>4, <2>4 DEF Reprocess, storeVars, observations
<1>5. ASSUME NEW c \in Callers, Proceed(c) PROVE TypeOK'
  <2> USE <1>5
  <2>1. CASE Reserve(c)
    <3>1. PICK w \in todo[c] :
              /\ Begin(c, w)
              /\ reservations' = reservations \cup {w.job}
              /\ events' = events \cup {w.job}
              /\ current' = [current EXCEPT ![c] = w]
      BY <2>1 DEF Reserve
    <3>2. w \in Deliveries /\ w.job \in Jobs
      BY <3>1, DeliveryType
    <3> QED BY <2>1, <3>1, <3>2 DEF Reserve, Begin, observations
  <2>2. CASE Replay(c)
    BY <2>2 DEF Replay, Begin, storeVars, observations
  <2>3. CASE TakeSchedule(c)
    BY <2>3 DEF TakeSchedule, Begin, storeVars, observations
  <2>4. CASE SkipSchedule(c)
    BY <2>4 DEF SkipSchedule, Begin, observations
  <2>5. CASE Deliver(c)
    <3>1. JobOf(c) \in Jobs
      BY <2>5, CurrentType DEF Deliver
    <3>2. accepted' \in [Jobs -> Nat] /\ unanswered' \in [Jobs -> Nat]
      BY <2>5, <3>1, AcceptancesType DEF Deliver
    <3> QED BY <2>5, <3>2 DEF Deliver, storeVars
  <2>6. CASE DispatchRaises(c)
    <3>1. JobOf(c) \in Jobs
      BY <2>6, CurrentType DEF DispatchRaises
    <3>2. accepted' \in [Jobs -> Nat] /\ unanswered' \in [Jobs -> Nat]
      BY <2>6, <3>1, AcceptancesType DEF DispatchRaises
    <3> QED BY <2>6, <3>2 DEF DispatchRaises
  <2>7. CASE Consume(c)
    BY <2>7 DEF Consume, Consumed, observations, localVars
  <2>8. CASE Save(c)
    <3>1. JobOf(c) \in Jobs /\ current[c].attempt \in Attempts
      BY <2>8, CurrentType DEF Save
    <3>2. [status |-> StatusOf(c), attempt |-> current[c].attempt] \in JobStates
      BY <3>1, StatusType DEF JobStates
    <3> QED BY <2>8, <3>1, <3>2, StatusType DEF Save, ReservationPopped, observations, localVars
  <2>9. CASE SaveSchedule(c)
    <3>1. NextAttempt(current[c]) \in Deliveries
      BY <2>9, CurrentType, NextAttemptType DEF SaveSchedule, PlacesConsistent, PlaceConsistent
    <3> QED BY <2>9, <3>1 DEF SaveSchedule, observations, localVars
  <2>10. CASE SaveLetter(c)
    <3>1. <<>> \in Seq(Reprocesses)
      OBVIOUS
    <3> QED BY <2>10, <3>1 DEF SaveLetter, storeVars, observations, localVars
  <2>11. CASE MarkReprocessed(c)
    <3>1. JobOf(c) \in Reprocesses /\ letters[JobOf(c).letter] # None
      BY <2>11 DEF MarkReprocessed, PlacesConsistent, PlaceConsistent, LetterRead, JobOf
    <3>2. JobOf(c).letter \in Deliveries
      BY <3>1, LetterType
    <3>3. Append(letters[JobOf(c).letter], JobOf(c)) \in Seq(Reprocesses)
      BY <3>1, <3>2
    <3> QED BY <2>11, <3>3 DEF MarkReprocessed, storeVars, observations, localVars
  <2>12. CASE Return(c)
    BY <2>12 DEF Return, storeVars, observations, localVars
  <2> QED
    BY <2>1, <2>2, <2>3, <2>4, <2>5, <2>6, <2>7, <2>8, <2>9, <2>10, <2>11, <2>12 DEF Proceed
<1>6. ASSUME NEW k \in Configurations, SaveConfiguration(k) PROVE TypeOK'
  BY <1>6 DEF SaveConfiguration, storeVars, observations, localVars
<1> QED
  BY <1>1, <1>2, <1>3, <1>4, <1>5, <1>6 DEF Next
-----------------------------------------------------------------------------
(* What every step leaves alone. *)

CallerStep(c) == Notify(c) \/ ProcessRetries(c) \/ Reprocess(c) \/ Proceed(c)

(* A caller moves nobody but itself.                                         *)
LEMMA OthersUntouched ==
    ASSUME TypeOK, NEW c \in Callers, CallerStep(c), NEW d \in Callers, d # c
    PROVE  /\ pc'[d] = pc[d]
           /\ todo'[d] = todo[d]
           /\ current'[d] = current[d]
           /\ outcome'[d] = outcome[d]
<1> USE DEF TypeOK, Goto, localVars
<1>1. CASE Notify(c) \/ ProcessRetries(c) \/ Reprocess(c)
  BY <1>1 DEF Notify, ProcessRetries, Reprocess, Call
<1>2. CASE Reserve(c) \/ Replay(c) \/ TakeSchedule(c) \/ SkipSchedule(c)
  BY <1>2 DEF Reserve, Replay, TakeSchedule, SkipSchedule, Begin
<1>3. CASE Deliver(c) \/ DispatchRaises(c) \/ Consume(c) \/ Save(c)
  BY <1>3 DEF Deliver, DispatchRaises, Consume, Save
<1>4. CASE SaveSchedule(c) \/ SaveLetter(c) \/ MarkReprocessed(c) \/ Return(c)
  BY <1>4 DEF SaveSchedule, SaveLetter, MarkReprocessed, Return
<1> QED
  BY <1>1, <1>2, <1>3, <1>4 DEF CallerStep, Proceed

(* A state of a job is not the absence of a job. *)
LEMMA StatesAreStored ==
    ASSUME TypeOK, PlacesConsistent, NEW c \in Callers, Save(c)
    PROVE  /\ jobs'[JobOf(c)] = [status |-> StatusOf(c), attempt |-> current[c].attempt]
           /\ jobs'[JobOf(c)] # None
           /\ \A j \in Jobs \ {JobOf(c)} : jobs'[j] = jobs[j]
<1>1. JobOf(c) \in Jobs /\ current[c].attempt \in Attempts
  BY CurrentType DEF Save
<1>2. [status |-> StatusOf(c), attempt |-> current[c].attempt] \in JobStates
  BY <1>1, StatusType DEF JobStates
<1> QED
  BY <1>1, <1>2, NoneAssumption DEF Save, TypeOK

(* A job and its event, once stored, stay: release only takes what its call  *)
(* has reserved and not yet saved.                                           *)
LEMMA KnownStable ==
    ASSUME IInv, [Next]_vars, NEW j \in Jobs, Known(j)
    PROVE  Known(j)'
<1> USE DEF Known, Stored
<1>0. TypeOK /\ PlacesConsistent /\ ReservationsOwned
  BY DEF IInv
<1>1. ASSUME NEW c \in Callers, Reserve(c) PROVE Known(j)'
  BY <1>1 DEF Reserve
<1>2. ASSUME NEW c \in Callers, DispatchRaises(c) PROVE Known(j)'
  <2>1. Releases(current[c]) => Owns(c)
    BY <1>2 DEF Releases, Owns, DispatchRaises
  <2>2. Owns(c) => JobOf(c) # j
    BY <1>0 DEF ReservationsOwned
  <2> QED BY <1>2, <2>1, <2>2 DEF DispatchRaises
<1>3. ASSUME NEW c \in Callers, Save(c) PROVE Known(j)'
  BY <1>0, <1>3, StatesAreStored DEF Save
<1>4. CASE UNCHANGED <<jobs, events>>
  BY <1>4
<1>5. ASSUME NEW c \in Callers, Notify(c) \/ ProcessRetries(c) \/ Reprocess(c)
      PROVE  UNCHANGED <<jobs, events>>
  BY <1>5 DEF Notify, ProcessRetries, Reprocess, storeVars
<1>6. ASSUME NEW c \in Callers,
             \/ Replay(c) \/ TakeSchedule(c) \/ SkipSchedule(c) \/ Deliver(c) \/ Consume(c)
             \/ SaveSchedule(c) \/ SaveLetter(c) \/ MarkReprocessed(c) \/ Return(c)
      PROVE  UNCHANGED <<jobs, events>>
  BY <1>6 DEF Replay, TakeSchedule, SkipSchedule, Deliver, Consume, SaveSchedule, SaveLetter,
              MarkReprocessed, Return, storeVars
<1>7. ASSUME NEW k \in Configurations, SaveConfiguration(k) PROVE UNCHANGED <<jobs, events>>
  BY <1>7 DEF SaveConfiguration, storeVars
<1>8. UNCHANGED vars => UNCHANGED <<jobs, events>>
  BY DEF vars, storeVars
<1> QED
  BY <1>1, <1>2, <1>3, <1>4, <1>5, <1>6, <1>7, <1>8 DEF Next, Proceed

(* No dead letter is ever removed.                                           *)
LEMMA LettersStay ==
    ASSUME IInv, [Next]_vars, NEW d \in Deliveries, letters[d] # None
    PROVE  letters'[d] # None
<1>0. TypeOK /\ PlacesConsistent
  BY DEF IInv
<1>1. ASSUME NEW c \in Callers, SaveLetter(c) PROVE letters'[d] # None
  <2>1. <<>> \in Seq(Reprocesses)
    OBVIOUS
  <2> QED BY <1>0, <1>1, <2>1, NoneAssumption DEF SaveLetter, TypeOK
<1>2. ASSUME NEW c \in Callers, MarkReprocessed(c) PROVE letters'[d] # None
  <2>1. JobOf(c) \in Reprocesses
    BY <1>0, <1>2 DEF MarkReprocessed, PlacesConsistent, PlaceConsistent
  <2>2. letters[d] \in Seq(Reprocesses)
    BY <1>0 DEF TypeOK
  <2>3. Append(letters[d], JobOf(c)) \in Seq(Reprocesses)
    BY <2>1, <2>2
  <2> QED BY <1>0, <1>2, <2>3, NoneAssumption DEF MarkReprocessed, TypeOK
<1>3. ASSUME NEW c \in Callers, Notify(c) \/ ProcessRetries(c) \/ Reprocess(c)
      PROVE  UNCHANGED letters
  BY <1>3 DEF Notify, ProcessRetries, Reprocess
<1>4. ASSUME NEW c \in Callers,
             \/ Reserve(c) \/ Replay(c) \/ TakeSchedule(c) \/ SkipSchedule(c) \/ Deliver(c)
             \/ DispatchRaises(c) \/ Consume(c) \/ Save(c) \/ SaveSchedule(c) \/ Return(c)
      PROVE  UNCHANGED letters
  BY <1>4 DEF Reserve, Replay, TakeSchedule, SkipSchedule, Deliver, DispatchRaises, Consume,
              Save, SaveSchedule, Return
<1>5. ASSUME NEW k \in Configurations, SaveConfiguration(k) PROVE UNCHANGED letters
  BY <1>5 DEF SaveConfiguration
<1>6. UNCHANGED vars => UNCHANGED letters
  BY DEF vars
<1> QED
  BY <1>1, <1>2, <1>3, <1>4, <1>5, <1>6 DEF Next, Proceed

LEMMA LetterReadStable ==
    ASSUME IInv, [Next]_vars, NEW w \in Deliveries, LetterRead(w)
    PROVE  LetterRead(w)'
<1> SUFFICES ASSUME First(w), w.job \in Reprocesses
             PROVE  letters'[w.job.letter] # None
  BY DEF LetterRead, First
<1>1. letters[w.job.letter] # None
  BY DEF LetterRead
<1> QED
  BY <1>1, LetterType, LettersStay
-----------------------------------------------------------------------------
(* Places. *)

(* A caller that does not move stays consistent.                             *)
LEMMA PlaceStable ==
    ASSUME IInv, [Next]_vars, NEW d \in Callers,
           pc'[d] = pc[d], todo'[d] = todo[d], current'[d] = current[d], outcome'[d] = outcome[d]
    PROVE  PlaceConsistent(d)'
<1>0. TypeOK /\ PlacesConsistent
  BY DEF IInv
<1>1. PlaceConsistent(d) /\ todo[d] \in SUBSET Deliveries
  BY <1>0 DEF PlacesConsistent, TypeOK
<1>2. pc[d] \notin {"idle", "take"} => current[d] \in Deliveries /\ JobOf(d) \in Jobs
  BY <1>0, CurrentType
<1>3. /\ JobOf(d)' = JobOf(d)
      /\ First(current[d])' = First(current[d])
      /\ RetryAllowed(current[d])' = RetryAllowed(current[d])
  BY DEF JobOf, First, RetryAllowed, ConfigurationOf
<1>4. JobOf(d) \in Jobs /\ Known(JobOf(d)) => Known(JobOf(d))'
  BY <1>3, KnownStable
<1>5. current[d] \in Deliveries /\ LetterRead(current[d]) => LetterRead(current[d])'
  <2>1. ASSUME NEW w, w = current[d], w \in Deliveries, LetterRead(w) PROVE LetterRead(w)'
    BY <2>1, LetterReadStable
  <2> QED BY <2>1 DEF LetterRead, First
<1>6. \A w \in todo[d] : LetterRead(w)'
  BY <1>1, LetterReadStable DEF PlaceConsistent
<1>7. /\ pc'[d] \notin {"idle", "take"} => current'[d] \in Deliveries
      /\ pc'[d] \in {"consume", "save", "schedule", "letter", "mark"} => outcome'[d] \in Outcomes
      /\ pc'[d] = "consume" => ~First(current[d])
      /\ pc'[d] = "mark" => First(current[d]) /\ JobOf(d) \in Reprocesses
  BY <1>1 DEF PlaceConsistent
<1>8. /\ pc'[d] \in {"deliver", "consume", "save"} => First(current[d]) \/ Known(JobOf(d))'
      /\ pc'[d] = "schedule" => Known(JobOf(d))' /\ RetryAllowed(current[d])
  BY <1>1, <1>2, <1>4 DEF PlaceConsistent
<1>9. pc'[d] \in {"deliver", "save", "mark"} => LetterRead(current[d])'
  BY <1>1, <1>2, <1>5 DEF PlaceConsistent
<1> QED
  BY <1>3, <1>6, <1>7, <1>8, <1>9 DEF PlaceConsistent

(* A list that only gets shorter stays consistent.                           *)
LEMMA ListStable ==
    ASSUME IInv, [Next]_vars, NEW c \in Callers, todo'[c] \subseteq todo[c]
    PROVE  \A w \in todo'[c] : LetterRead(w)'
<1>1. \A w \in todo[c] : w \in Deliveries /\ LetterRead(w)
  BY DEF IInv, TypeOK, PlacesConsistent, PlaceConsistent
<1> QED
  BY <1>1, LetterReadStable

(* A call begins with what its place allows.                                 *)
LEMMA CallsBeginConsistent ==
    ASSUME IInv, [Next]_vars, NEW c \in Callers, Notify(c) \/ ProcessRetries(c) \/ Reprocess(c)
    PROVE  PlaceConsistent(c)'
<1>0. TypeOK /\ SchedulesRetry
  BY DEF IInv
<1>1. pc'[c] = "take"
  BY <1>0 DEF TypeOK, Notify, ProcessRetries, Reprocess, Call, Goto
<1>2. CASE Notify(c)
  <2>1. PICK e \in Events :
            Call(c, {[job |-> [event |-> e, configuration |-> k], attempt |-> 1] : k \in active})
    BY <1>2 DEF Notify
  <2>2. \A k \in active : [event |-> e, configuration |-> k] \notin Reprocesses
    BY DEF Reprocesses
  <2>3. \A w \in todo'[c] : w.job \notin Reprocesses
    BY <1>0, <2>1, <2>2 DEF TypeOK, Call
  <2> QED BY <1>1, <2>3 DEF PlaceConsistent, LetterRead, First
<1>3. CASE ProcessRetries(c)
  <2>1. \A w \in todo'[c] : ~First(w)
    BY <1>0, <1>3 DEF TypeOK, ProcessRetries, Call, SchedulesRetry
  <2> QED BY <1>1, <2>1 DEF PlaceConsistent, LetterRead, First
<1>4. CASE Reprocess(c)
  <2>1. PICK d \in NotificationLetters, k \in ReprocessKeys :
            /\ letters[d] # None
            /\ Call(c, {[job |-> [letter |-> d, key |-> k], attempt |-> 1]})
    BY <1>4 DEF Reprocess
  <2>2. todo'[c] = {[job |-> [letter |-> d, key |-> k], attempt |-> 1]}
    BY <1>0, <2>1 DEF TypeOK, Call
  <2>3. letters'[d] # None
    BY <1>4, <2>1 DEF Reprocess
  <2> QED BY <1>1, <2>2, <2>3 DEF PlaceConsistent, LetterRead
<1> QED
  BY <1>2, <1>3, <1>4

(* A call goes on to a place that is consistent.                             *)
LEMMA CallsProceedConsistent ==
    ASSUME IInv, [Next]_vars, NEW c \in Callers, Proceed(c)
    PROVE  PlaceConsistent(c)'
<1>0. TypeOK /\ PlacesConsistent /\ PlaceConsistent(c) /\ ReservationsOwned
  BY DEF IInv, PlacesConsistent
<1> USE <1>0 DEF Goto, TypeOK
<1>1. CASE Reserve(c)
  <2>1. PICK w \in todo[c] : Begin(c, w) /\ First(w) /\ current' = [current EXCEPT ![c] = w]
    BY <1>1 DEF Reserve
  <2>2. w \in Deliveries /\ LetterRead(w)
    BY DEF PlaceConsistent
  <2>3. pc'[c] = "deliver" /\ current'[c] = w /\ todo'[c] \subseteq todo[c]
    BY <1>1, <2>1 DEF Reserve, Begin
  <2>4. LetterRead(w)'
    BY <2>2, LetterReadStable
  <2> QED BY <2>1, <2>2, <2>3, <2>4, ListStable DEF PlaceConsistent, LetterRead, First
<1>2. CASE Replay(c) \/ SkipSchedule(c)
  <2>1. pc'[c] = "take" /\ todo'[c] \subseteq todo[c]
    BY <1>2 DEF Replay, SkipSchedule, Begin
  <2> QED BY <2>1, ListStable DEF PlaceConsistent
<1>3. CASE TakeSchedule(c)
  <2>1. PICK w \in todo[c] :
            Begin(c, w) /\ ~First(w) /\ Known(w.job) /\ current' = [current EXCEPT ![c] = w]
    BY <1>3 DEF TakeSchedule
  <2>2. w \in Deliveries
    OBVIOUS
  <2>3. pc'[c] = "deliver" /\ current'[c] = w /\ todo'[c] \subseteq todo[c]
    BY <1>3, <2>1 DEF TakeSchedule, Begin
  <2>4. Known(w.job)'
    BY <2>1, <2>2, DeliveryType, KnownStable
  <2> QED BY <2>1, <2>2, <2>3, <2>4, ListStable DEF PlaceConsistent, LetterRead, First, JobOf
<1>4. CASE Deliver(c)
  <2>1. /\ current[c] \in Deliveries
        /\ JobOf(c) \in Jobs
        /\ First(current[c]) \/ Known(JobOf(c))
        /\ LetterRead(current[c])
    BY <1>4, CurrentType DEF Deliver, PlaceConsistent
  <2>2. /\ pc'[c] = IF First(current[c]) THEN "save" ELSE "consume"
        /\ outcome'[c] \in Outcomes
        /\ UNCHANGED <<current, todo, letters, jobs, events>>
    BY <1>4 DEF Deliver, storeVars
  <2> QED BY <2>1, <2>2, ListStable DEF PlaceConsistent, LetterRead, First, JobOf, Known, Stored
<1>5. CASE DispatchRaises(c)
  <2>1. pc'[c] = "idle" /\ todo'[c] = {}
    BY <1>5 DEF DispatchRaises
  <2> QED BY <2>1 DEF PlaceConsistent
<1>6. CASE Consume(c)
  <2>1. /\ pc'[c] = "save"
        /\ UNCHANGED <<current, todo, outcome, letters, jobs, events>>
    BY <1>6 DEF Consume, localVars
  <2>2. /\ current[c] \in Deliveries
        /\ ~First(current[c])
        /\ Known(JobOf(c))
        /\ outcome[c] \in Outcomes
    BY <1>6 DEF Consume, PlaceConsistent
  <2> QED BY <2>1, <2>2, ListStable DEF PlaceConsistent, LetterRead, First, JobOf, Known, Stored
<1>7. CASE Save(c)
  <2>1. /\ current[c] \in Deliveries
        /\ JobOf(c) \in Jobs
        /\ outcome[c] \in Outcomes
        /\ LetterRead(current[c])
        /\ JobOf(c) \in events
    BY <1>7, CurrentType DEF Save, PlaceConsistent, ReservationsOwned, Owns, Known
  <2>2. /\ pc'[c] = AfterSave(c)
        /\ UNCHANGED <<current, todo, outcome, letters, events>>
    BY <1>7 DEF Save, localVars
  <2>3. jobs'[JobOf(c)] # None
    BY <1>7, StatesAreStored
  <2>4. /\ pc'[c] \in {"mark", "schedule", "letter", "take"}
        /\ pc'[c] = "mark" => First(current[c]) /\ JobOf(c) \in Reprocesses
        /\ pc'[c] = "schedule" => RetryAllowed(current[c])
    BY <2>2, StatusType DEF Marks
  <2> QED BY <2>1, <2>2, <2>3, <2>4, ListStable
          DEF PlaceConsistent, LetterRead, First, JobOf, Known, Stored, RetryAllowed, ConfigurationOf
<1>8. CASE SaveSchedule(c) \/ SaveLetter(c) \/ MarkReprocessed(c)
  <2>1. pc'[c] = "take" /\ UNCHANGED todo
    BY <1>8 DEF SaveSchedule, SaveLetter, MarkReprocessed, localVars
  <2> QED BY <2>1, ListStable DEF PlaceConsistent
<1>9. CASE Return(c)
  <2>1. pc'[c] = "idle" /\ UNCHANGED todo
    BY <1>9 DEF Return, localVars
  <2> QED BY <2>1, ListStable DEF PlaceConsistent
<1> QED
  BY <1>1, <1>2, <1>3, <1>4, <1>5, <1>6, <1>7, <1>8, <1>9 DEF Proceed

LEMMA PlacesPreserved ==
    ASSUME IInv, [Next]_vars
    PROVE  PlacesConsistent'
<1>1. ASSUME NEW c \in Callers, CallerStep(c), NEW d \in Callers PROVE PlaceConsistent(d)'
  <2>1. CASE d = c
    BY <1>1, <2>1, CallsBeginConsistent, CallsProceedConsistent DEF CallerStep
  <2>2. CASE d # c
    BY <1>1, <2>2, OthersUntouched, PlaceStable DEF IInv
  <2> QED BY <2>1, <2>2
<1>2. ASSUME UNCHANGED vars \/ \E k \in Configurations : SaveConfiguration(k), NEW d \in Callers
      PROVE  PlaceConsistent(d)'
  <2>1. UNCHANGED <<pc, todo, current, outcome>>
    BY <1>2 DEF vars, localVars, SaveConfiguration
  <2> QED BY <2>1, PlaceStable
<1> QED
  BY <1>1, <1>2 DEF PlacesConsistent, Next, CallerStep
-----------------------------------------------------------------------------
(* Schedules. *)

LEMMA SchedulesPreserved ==
    ASSUME IInv, [Next]_vars
    PROVE  SchedulesRetry' /\ SchedulesKnown'
<1>0. TypeOK /\ PlacesConsistent /\ SchedulesRetry /\ SchedulesKnown
  BY DEF IInv
<1>1. \A w \in Deliveries : Known(w.job) => Known(w.job)'
  BY DeliveryType, KnownStable
<1>2. ASSUME schedules' \subseteq schedules, NEW c \in Callers,
             \A d \in Callers \ {c} : todo'[d] = todo[d],
             \A w \in todo'[c] : w \in todo[c] \/ w \in schedules \/ First(w)
      PROVE  SchedulesRetry' /\ SchedulesKnown'
  <2>1. \A w \in schedules : w \in Deliveries /\ ~First(w) /\ Known(w.job)
    BY <1>0 DEF TypeOK, SchedulesRetry, SchedulesKnown
  <2>2. \A d \in Callers : \A w \in todo[d] : w \in Deliveries /\ (~First(w) => Known(w.job))
    BY <1>0 DEF TypeOK, SchedulesKnown
  <2>3. \A d \in Callers : \A w \in todo'[d] : ~First(w) => Known(w.job)'
    BY <1>1, <1>2, <2>1, <2>2
  <2> QED BY <1>1, <1>2, <2>1, <2>3 DEF SchedulesRetry, SchedulesKnown, First
<1>3. ASSUME NEW c \in Callers, SaveSchedule(c) PROVE SchedulesRetry' /\ SchedulesKnown'
  <2> DEFINE next == NextAttempt(current[c])
  <2>1. /\ current[c] \in Deliveries
        /\ Known(JobOf(c))
        /\ RetryAllowed(current[c])
    BY <1>0, <1>3 DEF SaveSchedule, PlacesConsistent, PlaceConsistent
  <2>2. next \in Deliveries /\ ~First(next) /\ next.job = JobOf(c)
    BY <2>1, NextAttemptType DEF JobOf
  <2>3. schedules' = schedules \cup {next} /\ todo' = todo
    BY <1>3 DEF SaveSchedule, localVars
  <2>4. \A w \in schedules' : w \in Deliveries /\ ~First(w) /\ Known(w.job)
    BY <1>0, <2>1, <2>2, <2>3 DEF TypeOK, SchedulesRetry, SchedulesKnown
  <2>5. \A d \in Callers : \A w \in todo[d] : w \in Deliveries /\ (~First(w) => Known(w.job))
    BY <1>0 DEF TypeOK, SchedulesKnown
  <2> QED BY <1>1, <2>3, <2>4, <2>5 DEF SchedulesRetry, SchedulesKnown, First
<1>4. ASSUME NEW c \in Callers, CallerStep(c), ~SaveSchedule(c)
      PROVE  SchedulesRetry' /\ SchedulesKnown'
  <2>1. \A d \in Callers \ {c} : todo'[d] = todo[d]
    BY <1>0, <1>4, OthersUntouched
  <2>2. CASE Notify(c) \/ Reprocess(c)
    <3>1. CASE Notify(c)
      BY <1>0, <1>2, <2>1, <3>1 DEF TypeOK, Notify, Call, First, storeVars
    <3>2. CASE Reprocess(c)
      BY <1>0, <1>2, <2>1, <3>2 DEF TypeOK, Reprocess, Call, First, storeVars
    <3> QED BY <2>2, <3>1, <3>2
  <2>3. CASE ProcessRetries(c)
    BY <1>0, <1>2, <2>1, <2>3 DEF TypeOK, ProcessRetries, Call, storeVars
  <2>4. CASE Reserve(c) \/ Replay(c) \/ TakeSchedule(c) \/ SkipSchedule(c)
    <3>1. schedules' \subseteq schedules
      BY <2>4 DEF Reserve, Replay, TakeSchedule, SkipSchedule, storeVars
    <3>2. todo'[c] \subseteq todo[c]
      BY <1>0, <2>4 DEF TypeOK, Reserve, Replay, TakeSchedule, SkipSchedule, Begin
    <3> QED BY <1>2, <2>1, <3>1, <3>2
  <2>5. CASE Deliver(c) \/ DispatchRaises(c) \/ Consume(c) \/ Save(c)
    BY <1>0, <1>2, <2>1, <2>5
       DEF TypeOK, Deliver, DispatchRaises, Consume, Consumed, Save, storeVars, localVars
  <2>6. CASE SaveLetter(c) \/ MarkReprocessed(c) \/ Return(c)
    BY <1>2, <2>1, <2>6 DEF SaveLetter, MarkReprocessed, Return, storeVars, localVars
  <2> QED BY <1>4, <2>2, <2>3, <2>4, <2>5, <2>6 DEF CallerStep, Proceed
<1>5. ASSUME UNCHANGED <<schedules, todo>> PROVE SchedulesRetry' /\ SchedulesKnown'
  <2>1. \A w \in schedules : w \in Deliveries
    BY <1>0 DEF TypeOK
  <2>2. \A d \in Callers : \A w \in todo[d] : w \in Deliveries
    BY <1>0 DEF TypeOK
  <2> QED BY <1>0, <1>1, <1>5, <2>1, <2>2 DEF SchedulesRetry, SchedulesKnown, First
<1>6. UNCHANGED vars \/ (\E k \in Configurations : SaveConfiguration(k))
        => UNCHANGED <<schedules, todo>>
  BY DEF vars, storeVars, localVars, SaveConfiguration
<1> QED
  BY <1>3, <1>4, <1>5, <1>6 DEF Next, CallerStep
-----------------------------------------------------------------------------
(* Reservations. *)

(* Steps that change nobody's ownership.                                     *)
LEMMA OwnersStable ==
    ASSUME ReservationsOwned, UNCHANGED <<reservations, events, jobs>>,
           \A d \in Callers : Owns(d)' <=> Owns(d),
           \A d \in Callers : Owns(d) => JobOf(d)' = JobOf(d)
    PROVE  ReservationsOwned'
BY DEF ReservationsOwned, Stored

(* A reservation is given up: its caller, if it was one that owned, owns     *)
(* nothing, and no other owner has the job.                                  *)
LEMMA ReservationGivenUp ==
    ASSUME IInv, NEW c \in Callers, pc[c] \in {"deliver", "save"}
    PROVE  /\ \A d \in Callers \ {c} : Owns(d) => JobOf(d) # JobOf(c)
           /\ ~First(current[c]) => JobOf(c) \notin reservations
<1>1. First(current[c]) => Owns(c)
  BY DEF Owns
<1>2. ~First(current[c]) => Known(JobOf(c))
  BY DEF IInv, PlacesConsistent, PlaceConsistent
<1> QED
  BY <1>1, <1>2 DEF IInv, ReservationsOwned, Known

LEMMA OwnersLeave ==
    ASSUME IInv, NEW c \in Callers, pc[c] \in {"deliver", "save"}, ~Owns(c)',
           reservations' = reservations \ {JobOf(c)},
           \A j \in Jobs \ {JobOf(c)} : jobs'[j] = jobs[j] /\ (j \in events => j \in events'),
           \A d \in Callers \ {c} : pc'[d] = pc[d] /\ current'[d] = current[d]
    PROVE  ReservationsOwned'
<1>0. TypeOK /\ PlacesConsistent /\ ReservationsOwned
  BY DEF IInv
<1>1. \A d \in Callers \ {c} : /\ Owns(d)' <=> Owns(d)
                              /\ JobOf(d)' = JobOf(d)
  BY DEF Owns, JobOf, First
<1>2. \A d \in Callers \ {c} : Owns(d) => JobOf(d) \in Jobs \ {JobOf(c)}
  BY <1>0, CurrentType, ReservationGivenUp DEF Owns
<1>3. \A d \in Callers : Owns(d)' => /\ JobOf(d)' \in reservations' \cap events'
                                     /\ ~Stored(JobOf(d))'
  BY <1>0, <1>1, <1>2 DEF ReservationsOwned, Stored
<1>4. \A d, e \in Callers : Owns(d)' /\ Owns(e)' /\ JobOf(d)' = JobOf(e)' => d = e
  BY <1>0, <1>1 DEF ReservationsOwned
<1>5. \A j \in reservations' : \E d \in Callers : Owns(d)' /\ JobOf(d)' = j
  <2> SUFFICES ASSUME NEW j \in reservations, j # JobOf(c)
               PROVE  \E d \in Callers : Owns(d)' /\ JobOf(d)' = j
    OBVIOUS
  <2>1. PICK d \in Callers : Owns(d) /\ JobOf(d) = j
    BY <1>0 DEF ReservationsOwned
  <2> QED BY <1>1, <2>1
<1> QED
  BY <1>3, <1>4, <1>5 DEF ReservationsOwned

LEMMA OwnedPreserved ==
    ASSUME IInv, [Next]_vars
    PROVE  ReservationsOwned'
<1>0. TypeOK /\ PlacesConsistent /\ ReservationsOwned
  BY DEF IInv
<1>1. ASSUME NEW c \in Callers, Reserve(c) PROVE ReservationsOwned'
  <2>1. PICK w \in todo[c] :
            /\ First(w) /\ ~Stored(w.job) /\ w.job \notin reservations
            /\ reservations' = reservations \cup {w.job}
            /\ events' = events \cup {w.job}
            /\ current' = [current EXCEPT ![c] = w]
    BY <1>1 DEF Reserve
  <2>2. pc'[c] = "deliver" /\ current'[c] = w /\ jobs' = jobs
    BY <1>0, <1>1, <2>1 DEF TypeOK, Reserve, Goto
  <2>3. Owns(c)' /\ JobOf(c)' = w.job
    BY <2>1, <2>2 DEF Owns, JobOf, First
  <2>4. \A d \in Callers \ {c} : (Owns(d)' <=> Owns(d)) /\ JobOf(d)' = JobOf(d)
    BY <1>0, <1>1, OthersUntouched DEF Owns, JobOf, First, CallerStep, Proceed
  <2>5. ~Owns(c)
    BY <1>1 DEF Reserve, Begin, Owns
  <2>6. \A d \in Callers : Owns(d)' => JobOf(d)' \in reservations' \cap events' /\ ~Stored(JobOf(d))'
    BY <1>0, <2>1, <2>2, <2>3, <2>4 DEF ReservationsOwned, Stored
  <2>7. \A d, e \in Callers : Owns(d)' /\ Owns(e)' /\ JobOf(d)' = JobOf(e)' => d = e
    <3>1. \A d \in Callers \ {c} : Owns(d) => JobOf(d) # w.job
      BY <1>0, <2>1 DEF ReservationsOwned
    <3> QED BY <1>0, <2>3, <2>4, <3>1 DEF ReservationsOwned
  <2>8. \A j \in reservations' : \E d \in Callers : Owns(d)' /\ JobOf(d)' = j
    <3> SUFFICES ASSUME NEW j \in reservations
                 PROVE  \E d \in Callers : Owns(d)' /\ JobOf(d)' = j
      BY <2>1, <2>3
    <3>1. PICK d \in Callers : Owns(d) /\ JobOf(d) = j
      BY <1>0 DEF ReservationsOwned
    <3> QED BY <2>4, <2>5, <3>1
  <2> QED BY <2>6, <2>7, <2>8 DEF ReservationsOwned
<1>2. ASSUME NEW c \in Callers, Save(c) PROVE ReservationsOwned'
  <2>1. /\ reservations' = reservations \ {JobOf(c)} /\ events' = events
        /\ \A j \in Jobs \ {JobOf(c)} : jobs'[j] = jobs[j]
    BY <1>0, <1>2, StatesAreStored DEF Save, ReservationPopped
  <2>2. pc[c] = "save" /\ ~Owns(c)'
    BY <1>0, <1>2, StatusType DEF TypeOK, Save, Goto, Owns
  <2>3. \A d \in Callers \ {c} : pc'[d] = pc[d] /\ current'[d] = current[d]
    BY <1>0, <1>2, OthersUntouched DEF CallerStep, Proceed
  <2> QED BY <2>1, <2>2, <2>3, OwnersLeave
<1>3. ASSUME NEW c \in Callers, DispatchRaises(c) PROVE ReservationsOwned'
  <2>1. pc[c] = "deliver" /\ ~Owns(c)'
    BY <1>0, <1>3 DEF TypeOK, DispatchRaises, Goto, Owns
  <2>2. reservations' = reservations \ {JobOf(c)}
    BY <1>3, <2>1, ReservationGivenUp DEF DispatchRaises, Releases
  <2>3. \A j \in Jobs \ {JobOf(c)} : jobs'[j] = jobs[j] /\ (j \in events => j \in events')
    BY <1>0, <1>3 DEF DispatchRaises, TypeOK
  <2>4. \A d \in Callers \ {c} : pc'[d] = pc[d] /\ current'[d] = current[d]
    BY <1>0, <1>3, OthersUntouched DEF CallerStep, Proceed
  <2> QED BY <2>1, <2>2, <2>3, <2>4, OwnersLeave
<1>4. ASSUME NEW c \in Callers, CallerStep(c), ~Reserve(c), ~Save(c), ~DispatchRaises(c)
      PROVE  ReservationsOwned'
  <2>1. UNCHANGED <<reservations, events, jobs>>
    BY <1>4 DEF CallerStep, Proceed, Notify, ProcessRetries, Reprocess, Replay, TakeSchedule,
                SkipSchedule, Deliver, Consume, SaveSchedule, SaveLetter, MarkReprocessed, Return,
                storeVars
  <2>2. \A d \in Callers \ {c} : (Owns(d)' <=> Owns(d)) /\ JobOf(d)' = JobOf(d)
    BY <1>0, <1>4, OthersUntouched DEF Owns, JobOf, First
  <2>3. (Owns(c)' <=> Owns(c)) /\ (Owns(c) => JobOf(c)' = JobOf(c))
    <3> USE DEF TypeOK, Goto, Owns, JobOf, First
    <3>1. CASE Notify(c) \/ ProcessRetries(c) \/ Reprocess(c)
      BY <1>0, <3>1 DEF Notify, ProcessRetries, Reprocess, Call
    <3>2. CASE Replay(c) \/ SkipSchedule(c)
      BY <1>0, <3>2 DEF Replay, SkipSchedule, Begin
    <3>3. CASE TakeSchedule(c)
      BY <1>0, <3>3 DEF TakeSchedule, Begin
    <3>4. CASE Deliver(c)
      BY <1>0, <3>4 DEF Deliver
    <3>5. CASE Consume(c)
      BY <1>0, <3>5 DEF Consume, PlacesConsistent, PlaceConsistent, localVars
    <3>6. CASE SaveSchedule(c) \/ SaveLetter(c) \/ MarkReprocessed(c) \/ Return(c)
      BY <1>0, <3>6 DEF SaveSchedule, SaveLetter, MarkReprocessed, Return, localVars
    <3> QED BY <1>4, <3>1, <3>2, <3>3, <3>4, <3>5, <3>6 DEF CallerStep, Proceed
  <2> QED BY <1>0, <2>1, <2>2, <2>3, OwnersStable
<1>5. ASSUME UNCHANGED vars \/ \E k \in Configurations : SaveConfiguration(k)
      PROVE  ReservationsOwned'
  <2>1. UNCHANGED <<reservations, events, jobs, pc, current>>
    BY <1>5 DEF vars, storeVars, localVars, SaveConfiguration
  <2> QED BY <1>0, <2>1, OwnersStable DEF Owns, JobOf, First
<1> QED
  BY <1>1, <1>2, <1>3, <1>4, <1>5 DEF Next, CallerStep
-----------------------------------------------------------------------------
(* Failed deliveries. *)

(* A schedule disappears only when its call goes on to save its job.         *)
LEMMA SchedulesStay ==
    ASSUME IInv, [Next]_vars, NEW w \in schedules
    PROVE  w \in schedules' \/ \E c \in Callers : pc'[c] = "save" /\ current'[c] = w
<1>0. TypeOK /\ SchedulesKnown
  BY DEF IInv
<1>1. ASSUME NEW c \in Callers, Consume(c)
      PROVE  w \in schedules' \/ \E d \in Callers : pc'[d] = "save" /\ current'[d] = w
  <2>1. pc'[c] = "save" /\ current'[c] = current[c] /\ schedules' = schedules \ {current[c]}
    BY <1>0, <1>1 DEF TypeOK, Consume, Consumed, Goto, localVars
  <2> QED BY <2>1
<1>2. ASSUME NEW c \in Callers, SkipSchedule(c) PROVE w \in schedules'
  BY <1>0, <1>2 DEF SkipSchedule, SchedulesKnown
<1>3. ASSUME NEW c \in Callers, CallerStep(c), ~Consume(c), ~SkipSchedule(c)
      PROVE  w \in schedules'
  BY <1>3 DEF CallerStep, Proceed, Notify, ProcessRetries, Reprocess, Reserve, Replay,
              TakeSchedule, Deliver, DispatchRaises, Save, SaveSchedule, SaveLetter,
              MarkReprocessed, Return, storeVars
<1>4. ASSUME UNCHANGED vars \/ \E k \in Configurations : SaveConfiguration(k)
      PROVE  w \in schedules'
  BY <1>4 DEF vars, storeVars, SaveConfiguration
<1> QED
  BY <1>1, <1>2, <1>3, <1>4 DEF Next, CallerStep

(* What is still to come for a job that is not saved again stays to come.    *)
LEMMA RetriedStable ==
    ASSUME IInv, [Next]_vars, NEW j \in Jobs, NEW n \in Attempts, Retried(j, n),
           \A c \in Callers : Save(c) => JobOf(c) # j
    PROVE  Retried(j, n)'
<1>0. TypeOK /\ PlacesConsistent
  BY DEF IInv
<1>1. CASE [job |-> j, attempt |-> n + 1] \in schedules
  BY <1>1, SchedulesStay DEF Retried, JobOf
<1>2. ASSUME NEW d \in Callers,
             \/ pc[d] = "save" /\ JobOf(d) = j
             \/ pc[d] = "schedule" /\ current[d] = [job |-> j, attempt |-> n]
      PROVE  Retried(j, n)'
  <2>1. CASE pc'[d] = pc[d] /\ current'[d] = current[d]
    BY <1>2, <2>1 DEF Retried, JobOf
  <2>2. ASSUME NEW c \in Callers, CallerStep(c), d # c PROVE pc'[d] = pc[d] /\ current'[d] = current[d]
    BY <1>0, <2>2, OthersUntouched
  <2>3. CASE SaveSchedule(d)
    <3>1. current[d] = [job |-> j, attempt |-> n] /\ RetryAllowed(current[d])
      BY <1>0, <1>2, <2>3 DEF SaveSchedule, PlacesConsistent, PlaceConsistent
    <3>2. current[d] \in Deliveries
      BY <3>1, DeliveryType
    <3>3. NextAttempt(current[d]) = [job |-> j, attempt |-> n + 1]
      BY <3>1, <3>2, NextAttemptType
    <3> QED BY <2>3, <3>3 DEF SaveSchedule, Retried
  <2>4. CallerStep(d) => SaveSchedule(d) \/ Save(d)
    BY <1>2 DEF CallerStep, Proceed, Notify, ProcessRetries, Reprocess, Call, Reserve, Replay,
                TakeSchedule, SkipSchedule, Begin, Deliver, DispatchRaises, Consume, SaveLetter,
                MarkReprocessed, Return
  <2>5. ~Save(d)
    BY <1>2 DEF Save
  <2>6. ASSUME UNCHANGED vars \/ \E k \in Configurations : SaveConfiguration(k)
        PROVE  pc'[d] = pc[d] /\ current'[d] = current[d]
    BY <2>6 DEF vars, localVars, SaveConfiguration
  <2> QED BY <2>1, <2>2, <2>3, <2>4, <2>5, <2>6 DEF Next, CallerStep
<1> QED
  BY <1>1, <1>2 DEF Retried

(* A dead letter that is recorded or about to be stays so.                   *)
LEMMA BuriedStable ==
    ASSUME IInv, [Next]_vars, NEW j \in Jobs, NEW n \in Attempts, Buried(j, n)
    PROVE  Buried(j, n)'
<1>0. TypeOK
  BY DEF IInv
<1>1. CASE letters[[job |-> j, attempt |-> n]] # None
  BY <1>1, DeliveryType, LettersStay DEF Buried
<1>2. ASSUME NEW d \in Callers, pc[d] = "letter", current[d] = [job |-> j, attempt |-> n]
      PROVE  Buried(j, n)'
  <2>1. CASE pc'[d] = pc[d] /\ current'[d] = current[d]
    BY <1>2, <2>1 DEF Buried
  <2>2. ASSUME NEW c \in Callers, CallerStep(c), d # c PROVE pc'[d] = pc[d] /\ current'[d] = current[d]
    BY <1>0, <2>2, OthersUntouched
  <2>3. CASE SaveLetter(d)
    <3>1. [job |-> j, attempt |-> n] \in Deliveries
      BY DeliveryType
    <3>2. letters'[[job |-> j, attempt |-> n]] = <<>>
      BY <1>0, <1>2, <2>3, <3>1 DEF TypeOK, SaveLetter
    <3>3. <<>> \in Seq(Reprocesses)
      OBVIOUS
    <3> QED BY <3>2, <3>3, NoneAssumption DEF Buried
  <2>4. CallerStep(d) => SaveLetter(d)
    BY <1>2 DEF CallerStep, Proceed, Notify, ProcessRetries, Reprocess, Call, Reserve, Replay,
                TakeSchedule, SkipSchedule, Begin, Deliver, DispatchRaises, Consume, Save,
                SaveSchedule, MarkReprocessed, Return
  <2>5. ASSUME UNCHANGED vars \/ \E k \in Configurations : SaveConfiguration(k)
        PROVE  pc'[d] = pc[d] /\ current'[d] = current[d]
    BY <2>5 DEF vars, localVars, SaveConfiguration
  <2> QED BY <2>1, <2>2, <2>3, <2>4, <2>5 DEF Next, CallerStep
<1> QED
  BY <1>1, <1>2 DEF Buried

(* A job is changed only by the call that saves it, or forgotten.            *)
LEMMA JobsChange ==
    ASSUME IInv, [Next]_vars, NEW j \in Jobs, \A c \in Callers : Save(c) => JobOf(c) # j
    PROVE  jobs'[j] = jobs[j] \/ jobs'[j] = None
<1>0. TypeOK /\ PlacesConsistent
  BY DEF IInv
<1>1. ASSUME NEW c \in Callers, Save(c) PROVE jobs'[j] = jobs[j]
  BY <1>0, <1>1, StatesAreStored
<1>2. ASSUME NEW c \in Callers, DispatchRaises(c) PROVE jobs'[j] = jobs[j] \/ jobs'[j] = None
  BY <1>2 DEF DispatchRaises
<1>3. ASSUME NEW c \in Callers, CallerStep(c), ~Save(c), ~DispatchRaises(c) PROVE jobs' = jobs
  BY <1>3 DEF CallerStep, Proceed, Notify, ProcessRetries, Reprocess, Reserve, Replay,
              TakeSchedule, SkipSchedule, Deliver, Consume, SaveSchedule, SaveLetter,
              MarkReprocessed, Return, storeVars
<1>4. ASSUME UNCHANGED vars \/ \E k \in Configurations : SaveConfiguration(k) PROVE jobs' = jobs
  BY <1>4 DEF vars, storeVars, SaveConfiguration
<1> QED
  BY <1>1, <1>2, <1>3, <1>4 DEF Next, CallerStep

LEMMA LostPreserved ==
    ASSUME IInv, [Next]_vars
    PROVE  NothingLost'
<1>0. TypeOK /\ PlacesConsistent /\ NothingLost
  BY DEF IInv
<1> SUFFICES ASSUME NEW j \in Jobs, NEW n, jobs'[j] # None, n = jobs'[j].attempt
             PROVE  /\ jobs'[j].status = "retry_scheduled" => Retried(j, n)'
                    /\ jobs'[j].status = "dlq_recorded" => Buried(j, n)'
  BY DEF NothingLost, HasStatus, Stored, Retried, Buried, JobOf
<1>1. ASSUME NEW c \in Callers, Save(c), JobOf(c) = j
      PROVE  /\ jobs'[j].status = "retry_scheduled" => Retried(j, n)'
             /\ jobs'[j].status = "dlq_recorded" => Buried(j, n)'
  <2>0. jobs'[j] = [status |-> StatusOf(c), attempt |-> current[c].attempt]
    BY <1>0, <1>1, StatesAreStored
  <2>1. jobs'[j].status = StatusOf(c) /\ n = current[c].attempt
    BY <2>0
  <2>2. pc'[c] = AfterSave(c) /\ current'[c] = current[c]
    BY <1>0, <1>1 DEF TypeOK, Save, Goto, localVars
  <2>3. current'[c] = [job |-> j, attempt |-> n]
    BY <1>0, <1>1, <2>1, <2>2, CurrentType DEF Save
  <2>4. jobs'[j].status = "retry_scheduled" => pc'[c] = "schedule"
    BY <2>1, <2>2, StatusType
  <2>5. jobs'[j].status = "dlq_recorded" => pc'[c] = "letter"
    BY <2>1, <2>2, StatusType
  <2> QED BY <2>3, <2>4, <2>5 DEF Retried, Buried
<1>2. ASSUME \A c \in Callers : Save(c) => JobOf(c) # j
      PROVE  /\ jobs'[j].status = "retry_scheduled" => Retried(j, n)'
             /\ jobs'[j].status = "dlq_recorded" => Buried(j, n)'
  <2>1. jobs'[j] = jobs[j] /\ jobs[j] # None
    BY <1>2, JobsChange
  <2>2. n \in Attempts
    BY <1>0, <2>1 DEF TypeOK, JobStates
  <2>3. /\ jobs'[j].status = "retry_scheduled" => Retried(j, n)
        /\ jobs'[j].status = "dlq_recorded" => Buried(j, n)
    BY <1>0, <2>1 DEF NothingLost, HasStatus, Stored
  <2> QED BY <1>2, <2>2, <2>3, RetriedStable, BuriedStable
<1> QED
  BY <1>1, <1>2
-----------------------------------------------------------------------------
(* One place at a time. *)

LEMMA InitFinal == Init => FinalInv
<1> SUFFICES ASSUME Init PROVE FinalInv
  OBVIOUS
<1>1. ASSUME NEW j \in Jobs PROVE Settled(j)
  <2>1. OneTrack(j)
    BY DEF Init, OneTrack, Holds, Settling
  <2>2. OverRests(j) /\ accepted[j] <= 1 + unanswered[j] /\ AcceptedIsSent(j) /\ LettersRest(j)
    BY DEF Init, OverRests, Over, AcceptedIsSent, Heard, LettersRest, HasStatus, Stored
  <2> QED BY <2>1, <2>2 DEF Settled
<1>2. HeldOnce /\ MarksOwned /\ MarkedWasAccepted
  BY LetterType DEF Init, HeldOnce, MarksOwned, Marked, MarkedWasAccepted, NotificationLetters, Deliveries,
                    Jobs
<1> QED BY <1>1, <1>2 DEF FinalInv

At(c, j) == pc[c] \notin {"idle", "take"} /\ JobOf(c) = j

(* Nothing of job j changes, but that a list may lose deliveries of it, and  *)
(* a call may be over with it.                                               *)
LEMMA SettledStable ==
    ASSUME TypeOK, TypeOK', NEW j \in Jobs, Settled(j),
           \A w \in Deliveries : w.job = j => /\ w \in schedules' <=> w \in schedules
                                              /\ letters'[w] = None <=> letters[w] = None,
           jobs'[j] = jobs[j],
           accepted'[j] = accepted[j], unanswered'[j] = unanswered[j],
           \A d \in Callers : \A w \in todo'[d] : w.job = j /\ ~First(w) => w \in todo[d],
           \A d \in Callers : At(d, j)' => /\ At(d, j)
                                           /\ pc'[d] = pc[d]
                                           /\ current'[d] = current[d]
                                           /\ current'[d] \in Deliveries,
           \A d \in Callers : At(d, j) /\ pc[d] \in {"consume", "save"} =>
              /\ pc'[d] = pc[d]
              /\ current'[d] = current[d]
              /\ outcome'[d] = outcome[d]
    PROVE  Settled(j)'
<1>0. OneTrack(j) /\ OverRests(j) /\ accepted[j] <= 1 + unanswered[j] /\ AcceptedIsSent(j) /\ LettersRest(j)
  BY DEF Settled
<1>1. schedules \subseteq Deliveries /\ schedules' \subseteq Deliveries
  BY DEF TypeOK
<1>2. ASSUME NEW d \in Callers, NEW w \in Deliveries, w.job = j, ~First(w), Holds(d, w)'
      PROVE  Holds(d, w)
  <2>1. CASE w \in todo'[d]
    BY <1>2, <2>1 DEF Holds
  <2>2. CASE pc'[d] \in {"deliver", "consume"} /\ current'[d] = w
    <3>1. At(d, j)'
      BY <1>2, <2>2 DEF At, JobOf
    <3> QED BY <2>2, <3>1 DEF Holds
  <2> QED BY <1>2, <2>1, <2>2 DEF Holds
<1>3. ASSUME NEW d \in Callers, Settling(d)', JobOf(d)' = j PROVE Settling(d) /\ JobOf(d) = j
  <2>1. At(d, j)'
    BY <1>3 DEF At, Settling
  <2> QED BY <1>3, <2>1 DEF At, Settling, JobOf, First
<1>4. OneTrack(j)'
  <2>1. \A w, v \in schedules' : w.job = j /\ v.job = j => w = v
    BY <1>0, <1>1 DEF OneTrack
  <2>2. ASSUME NEW d \in Callers, NEW w \in Deliveries, w.job = j, ~First(w), Holds(d, w)'
        PROVE  w \in schedules' /\ \A e \in Callers : Holds(e, w)' => d = e
    BY <1>0, <1>2, <2>2 DEF OneTrack
  <2>3. ASSUME NEW d \in Callers, Settling(d)', JobOf(d)' = j
        PROVE  /\ \A w \in schedules' : w.job # j
               /\ \A e \in Callers : Settling(e)' /\ JobOf(e)' = j => d = e
    BY <1>0, <1>1, <1>3, <2>3 DEF OneTrack
  <2> QED BY <2>1, <2>2, <2>3 DEF OneTrack, First
<1>5. OverRests(j)'
  <2>1. ASSUME NEW d \in Callers, Working(d)', JobOf(d)' = j PROVE Working(d) /\ JobOf(d) = j
    <3>1. At(d, j)'
      BY <2>1 DEF At, Working
    <3> QED BY <2>1, <3>1 DEF At, Working
  <2>2. Over(j)' => Over(j)
    BY DEF Over, HasStatus, Stored
  <2> QED BY <1>0, <1>1, <2>1, <2>2 DEF OverRests
<1>6. AcceptedIsSent(j)'
  <2> SUFFICES ASSUME Heard(j)', ~(HasStatus(j, "sent")')
               PROVE  \E d \in Callers : pc'[d] \in {"consume", "save"} /\ JobOf(d)' = j
                                         /\ outcome'[d] = "accepted"
    BY DEF AcceptedIsSent
  <2>1. PICK d \in Callers : pc[d] \in {"consume", "save"} /\ JobOf(d) = j /\ outcome[d] = "accepted"
    BY <1>0 DEF AcceptedIsSent, Heard, HasStatus, Stored
  <2>2. At(d, j)
    BY <2>1 DEF At
  <2> QED BY <2>1, <2>2 DEF JobOf
<1>7. LettersRest(j)'
  <2>1. HasStatus(j, "dlq_recorded")' <=> HasStatus(j, "dlq_recorded")
    BY DEF HasStatus, Stored
  <2>2. \A w \in Deliveries : w.job = j /\ letters'[w] # None => HasStatus(j, "dlq_recorded")'
    BY <1>0, <2>1 DEF LettersRest
  <2>3. ASSUME NEW d \in Callers, pc'[d] = "letter", JobOf(d)' = j
        PROVE  pc[d] = "letter" /\ JobOf(d) = j /\ current'[d] = current[d] /\ current[d] \in Deliveries
    <3>1. At(d, j)'
      BY <2>3 DEF At
    <3> QED BY <2>3, <3>1 DEF At
  <2>4. ASSUME NEW d \in Callers, pc'[d] = "letter", JobOf(d)' = j
        PROVE  letters'[current'[d]] = None
    <3>1. letters[current[d]] = None /\ current[d].job = j
      BY <1>0, <2>3, <2>4 DEF LettersRest, JobOf
    <3> QED BY <2>3, <2>4, <3>1
  <2> QED BY <1>0, <2>1, <2>2, <2>3, <2>4 DEF LettersRest
<1> QED BY <1>0, <1>4, <1>5, <1>6, <1>7 DEF Settled
-----------------------------------------------------------------------------
(* The call that works at a job is the only one, and has its only schedule.  *)
LEMMA WorkingAlone ==
    ASSUME IInv, NEW j \in Jobs, Settled(j), NEW c \in Callers, Working(c), JobOf(c) = j
    PROVE  /\ ~Over(j)
           /\ \A w \in Deliveries : w.job = j => letters[w] = None
           /\ \A d \in Callers : pc[d] = "letter" => JobOf(d) # j
           /\ \A d \in Callers \ {c} : Working(d) => JobOf(d) # j
           /\ Settling(c) => \A w \in schedules : w.job # j
           /\ ~Settling(c) => /\ Holds(c, current[c]) /\ ~First(current[c])
                              /\ current[c] \in schedules
                              /\ \A w \in schedules : w.job = j => w = current[c]
           /\ Heard(j) => pc[c] \in {"consume", "save"} /\ outcome[c] = "accepted"
<1>0. TypeOK /\ PlacesConsistent
  BY DEF IInv
<1>1. OneTrack(j) /\ OverRests(j) /\ AcceptedIsSent(j) /\ LettersRest(j)
  BY DEF Settled
<1>2. ~Over(j)
  BY <1>1 DEF OverRests
<1>3. \A w \in Deliveries : w.job = j => letters[w] = None
  BY <1>1, <1>2 DEF LettersRest, Over
<1>4. \A d \in Callers : pc[d] = "letter" => JobOf(d) # j
  BY <1>1, <1>2 DEF LettersRest, Over
<1>5. ASSUME NEW d \in Callers, Working(d), JobOf(d) = j, ~Settling(d)
      PROVE  /\ Holds(d, current[d]) /\ ~First(current[d])
             /\ current[d] \in schedules
             /\ \A w \in schedules : w.job = j => w = current[d]
             /\ \A e \in Callers : Holds(e, current[d]) => d = e
  <2>1. pc[d] \in {"deliver", "consume"}
    BY <1>5 DEF Working, Settling
  <2>2. current[d] \in Deliveries /\ current[d].job = j
    BY <1>0, <1>5, <2>1, CurrentType DEF JobOf
  <2>3. ~First(current[d])
    BY <1>0, <1>5, <2>1 DEF Settling, PlacesConsistent, PlaceConsistent
  <2>4. Holds(d, current[d])
    BY <2>1 DEF Holds
  <2> QED BY <1>1, <2>2, <2>3, <2>4 DEF OneTrack
<1>6. Settling(c) => \A w \in schedules : w.job # j
  BY <1>1 DEF OneTrack
<1>7. ASSUME NEW d \in Callers \ {c}, Working(d) PROVE JobOf(d) # j
  <2> SUFFICES ASSUME JobOf(d) = j PROVE FALSE
    OBVIOUS
  <2>1. CASE Settling(c) /\ Settling(d)
    BY <1>1, <2>1 DEF OneTrack
  <2>2. CASE ~Settling(c) /\ ~Settling(d)
    <3>1. current[c] = current[d]
      BY <1>5, <1>7, <2>2 DEF JobOf
    <3> QED BY <1>5, <1>7, <2>2, <3>1
  <2>3. CASE Settling(c) /\ ~Settling(d)
    BY <1>5, <1>6, <1>7, <2>3 DEF JobOf
  <2>4. CASE ~Settling(c) /\ Settling(d)
    <3>1. \A w \in schedules : w.job # j
      BY <1>1, <2>4 DEF OneTrack
    <3>2. current[c] \in schedules /\ current[c].job = j
      BY <1>5, <2>4 DEF JobOf
    <3> QED BY <3>1, <3>2
  <2> QED BY <2>1, <2>2, <2>3, <2>4
<1>8. ASSUME Heard(j) PROVE pc[c] \in {"consume", "save"} /\ outcome[c] = "accepted"
  <2>1. PICK d \in Callers : pc[d] \in {"consume", "save"} /\ JobOf(d) = j /\ outcome[d] = "accepted"
    BY <1>1, <1>2, <1>8 DEF AcceptedIsSent, Over
  <2>2. d = c
    BY <1>7, <2>1 DEF Working
  <2> QED BY <2>1, <2>2
<1> QED BY <1>2, <1>3, <1>4, <1>5, <1>6, <1>7, <1>8

(* It stays alone when it moves: what it can still hold is its delivery.     *)
LEMMA MovesAlone ==
    ASSUME IInv, NEW j \in Jobs, Settled(j), HeldOnce, NEW c \in Callers, CallerStep(c),
           Working(c), JobOf(c) = j, todo'[c] \subseteq todo[c]
    PROVE  /\ \A d \in Callers, w \in Deliveries : w.job = j /\ ~First(w) /\ Holds(d, w)' =>
                 /\ d = c /\ w = current[c] /\ ~Settling(c)
                 /\ pc'[c] \in {"deliver", "consume"}
           /\ \A d \in Callers \ {c} : Working(d)' => JobOf(d)' # j
           /\ \A d \in Callers \ {c} : Settling(d)' => JobOf(d)' # j
           /\ \A d \in Callers \ {c} : pc'[d] = "letter" => JobOf(d)' # j
<1>0. TypeOK /\ PlacesConsistent
  BY DEF IInv
<1>1. OneTrack(j)
  BY DEF Settled
<1>2. \A d \in Callers \ {c} : /\ pc'[d] = pc[d] /\ todo'[d] = todo[d]
                               /\ current'[d] = current[d]
  BY <1>0, OthersUntouched
<1>3. ASSUME NEW d \in Callers, NEW w \in Deliveries, w.job = j, ~First(w), Holds(d, w)'
      PROVE  d = c /\ w = current[c] /\ ~Settling(c) /\ pc'[c] \in {"deliver", "consume"}
  <2>1. CASE d # c
    <3>1. Holds(d, w)
      BY <1>2, <1>3, <2>1 DEF Holds
    <3>2. w \in schedules /\ \A e \in Callers : Holds(e, w) => d = e
      BY <1>1, <1>3, <3>1 DEF OneTrack
    <3>3. ~Settling(c) /\ w = current[c] /\ Holds(c, w)
      BY <1>3, <3>2, WorkingAlone
    <3> QED BY <2>1, <3>2, <3>3
  <2>2. CASE d = c /\ w \in todo'[c]
    <3>1. Holds(c, w) /\ w \in todo[c]
      BY <2>2 DEF Holds
    <3>2. w \in schedules
      BY <1>1, <1>3, <3>1 DEF OneTrack
    <3>3. ~Settling(c) /\ w = current[c]
      BY <1>3, <3>2, WorkingAlone
    <3>4. pc[c] \in {"deliver", "consume"}
      BY <3>3 DEF Working, Settling
    <3> QED BY <3>1, <3>3, <3>4 DEF HeldOnce
  <2>3. CASE d = c /\ w \notin todo'[c]
    <3>1. pc'[c] \in {"deliver", "consume"} /\ current'[c] = w
      BY <1>3, <2>3 DEF Holds
    <3>2. current'[c] = current[c] /\ pc[c] = "deliver"
      BY <1>0, <3>1 DEF TypeOK, CallerStep, Proceed, Notify, ProcessRetries, Reprocess, Call, Goto,
           Reserve, Replay, TakeSchedule, SkipSchedule, Begin, Deliver, DispatchRaises, Consume, Save,
           AfterSave, SaveSchedule, SaveLetter, MarkReprocessed, Return, localVars, Working
    <3>3. ~Settling(c)
      BY <1>3, <3>1, <3>2 DEF Settling
    <3> QED BY <2>3, <3>1, <3>2, <3>3
  <2> QED BY <2>1, <2>2, <2>3
<1>4. \A d \in Callers \ {c} : Working(d)' => JobOf(d)' # j
  BY <1>2, WorkingAlone DEF Working, JobOf
<1>5. \A d \in Callers : Settling(d)' => Working(d)'
  BY DEF Settling, Working
<1>6. \A d \in Callers \ {c} : pc'[d] = "letter" => JobOf(d)' # j
  BY <1>2, WorkingAlone DEF JobOf
<1> QED BY <1>3, <1>4, <1>5, <1>6

(* What is not heard of adds as much to what was accepted as to what was lost. *)
LEMMA UnheardStays ==
    ASSUME TypeOK, NEW j \in Jobs, NEW k \in Jobs, Unheard(k)
    PROVE  /\ accepted[j] \in Nat /\ unanswered[j] \in Nat
           /\ \E n \in {0, 1} : /\ accepted'[j] = accepted[j] + n
                               /\ unanswered'[j] = unanswered[j] + n
           /\ accepted[j] <= unanswered[j] => accepted'[j] <= unanswered'[j]
           /\ accepted[j] <= unanswered[j] => accepted'[j] <= 1 + unanswered'[j]
           /\ accepted[j] <= unanswered[j] => ~(Heard(j)')
           /\ j # k => accepted'[j] = accepted[j] /\ unanswered'[j] = unanswered[j]
<1>1. accepted[j] \in Nat /\ unanswered[j] \in Nat
  BY DEF TypeOK
<1>2. \/ accepted'[j] = accepted[j] /\ unanswered'[j] = unanswered[j]
      \/ j = k /\ accepted'[j] = accepted[j] + 1 /\ unanswered'[j] = unanswered[j] + 1
  BY DEF TypeOK, Unheard, acceptances
<1> QED BY <1>1, <1>2 DEF Heard

(* The job that a call works at, after Deliver, DispatchRaises, Consume,     *)
(* Save and SaveSchedule.                                                    *)
LEMMA DeliverSettled ==
    ASSUME IInv, TypeOK', NEW j \in Jobs, Settled(j), HeldOnce,
           NEW c \in Callers, Deliver(c), JobOf(c) = j
    PROVE  Settled(j)'
<1>0. TypeOK /\ PlacesConsistent /\ schedules \subseteq Deliveries /\ accepted[j] \in Nat
        /\ unanswered[j] \in Nat
  BY DEF IInv, TypeOK
<1>1. /\ pc[c] = "deliver" /\ current' = current /\ todo' = todo /\ jobs' = jobs
      /\ schedules' = schedules /\ letters' = letters
      /\ pc'[c] = IF First(current[c]) THEN "save" ELSE "consume"
  BY <1>0 DEF Deliver, Goto, TypeOK, storeVars
<1>2. Working(c) /\ CallerStep(c)
  BY <1>1 DEF Working, CallerStep, Proceed
<1>3. accepted[j] <= unanswered[j]
  <2>1. ~Heard(j)
    BY <1>1, <1>2, WorkingAlone
  <2> QED BY <1>0, <2>1 DEF Heard
<1>4. accepted'[j] <= 1 + unanswered'[j] /\ (Heard(j)' => outcome'[c] = "accepted")
  <2>1. PICK o \in Outcomes : /\ outcome' = [outcome EXCEPT ![c] = o]
                              /\ IF o = "accepted" THEN Answered(j) ELSE Unheard(j)
    BY DEF Deliver
  <2>2. outcome'[c] = o
    BY <1>0, <2>1 DEF TypeOK
  <2>3. CASE o = "accepted"
    <3>1. accepted'[j] = accepted[j] + 1 /\ unanswered'[j] = unanswered[j]
      BY <1>0, <2>1, <2>3 DEF Answered, TypeOK
    <3> QED BY <1>0, <1>3, <2>2, <2>3, <3>1
  <2>4. CASE o # "accepted"
    <3>1. Unheard(j)
      BY <2>1, <2>4
    <3>2. accepted'[j] <= unanswered'[j] /\ accepted'[j] <= 1 + unanswered'[j]
      BY <1>0, <1>3, <3>1, UnheardStays
    <3> QED BY <1>0, <1>3, <3>1, <3>2, UnheardStays
  <2> QED BY <2>3, <2>4
<1>5. OneTrack(j)'
  <2>1. Settling(c)' <=> Settling(c)
    BY <1>1 DEF Settling, First
  <2>2. \A w, v \in schedules' : w.job = j /\ v.job = j => w = v
    BY <1>1 DEF Settled, OneTrack
  <2>3. ASSUME NEW d \in Callers, NEW w \in Deliveries, w.job = j, ~First(w), Holds(d, w)'
        PROVE  w \in schedules' /\ \A e \in Callers : Holds(e, w)' => d = e
    BY <1>1, <1>2, <2>3, MovesAlone, WorkingAlone
  <2>4. ASSUME NEW d \in Callers, Settling(d)', JobOf(d)' = j
        PROVE  /\ \A w \in schedules' : w.job # j
               /\ \A e \in Callers : Settling(e)' /\ JobOf(e)' = j => d = e
    BY <1>1, <1>2, <2>1, <2>4, MovesAlone, WorkingAlone
  <2> QED BY <2>2, <2>3, <2>4 DEF OneTrack, First
<1>6. ~Over(j)' /\ LettersRest(j)'
  <2>1. ~Over(j)'
    BY <1>1, <1>2, WorkingAlone DEF Over, HasStatus, Stored
  <2>2. \A w \in Deliveries : w.job = j => letters'[w] = None
    BY <1>1, <1>2, WorkingAlone
  <2>3. \A d \in Callers : pc'[d] = "letter" => JobOf(d)' # j
    BY <1>1, <1>2, MovesAlone
  <2> QED BY <2>1, <2>2, <2>3 DEF LettersRest
<1>7. AcceptedIsSent(j)'
  BY <1>1, <1>4 DEF AcceptedIsSent, JobOf
<1> QED BY <1>4, <1>5, <1>6, <1>7 DEF Settled, OverRests
-----------------------------------------------------------------------------
LEMMA RaiseSettled ==
    ASSUME IInv, TypeOK', NEW j \in Jobs, Settled(j), HeldOnce,
           NEW c \in Callers, DispatchRaises(c), JobOf(c) = j
    PROVE  Settled(j)'
<1>0. TypeOK /\ PlacesConsistent /\ accepted[j] \in Nat /\ unanswered[j] \in Nat
  BY DEF IInv, TypeOK
<1>1. /\ pc[c] = "deliver" /\ current' = current /\ todo'[c] = {} /\ pc'[c] = "idle"
      /\ schedules' = schedules /\ letters' = letters /\ Unheard(j)
      /\ jobs'[j] = jobs[j] \/ jobs'[j] = None
  BY <1>0 DEF DispatchRaises, Goto, TypeOK
<1>2. Working(c) /\ CallerStep(c)
  BY <1>1 DEF Working, CallerStep, Proceed
<1>3. accepted'[j] <= 1 + unanswered'[j] /\ ~(Heard(j)')
  <2>1. accepted[j] <= unanswered[j]
    BY <1>0, <1>1, <1>2, WorkingAlone DEF Heard
  <2> QED BY <1>0, <1>1, <2>1, UnheardStays
<1>4. ~Over(j)'
  BY <1>1, <1>2, WorkingAlone DEF Over, HasStatus, Stored
<1>5. OneTrack(j)'
  <2>1. \A w, v \in schedules' : w.job = j /\ v.job = j => w = v
    BY <1>1 DEF Settled, OneTrack
  <2>2. ASSUME NEW d \in Callers, NEW w \in Deliveries, w.job = j, ~First(w), Holds(d, w)'
        PROVE  FALSE
    BY <1>1, <1>2, <2>2, MovesAlone
  <2>3. ASSUME NEW d \in Callers, Settling(d)', JobOf(d)' = j PROVE FALSE
    <3>1. ~Settling(c)'
      BY <1>1 DEF Settling
    <3> QED BY <1>1, <1>2, <2>3, <3>1, MovesAlone
  <2> QED BY <2>1, <2>2, <2>3 DEF OneTrack, First
<1>6. LettersRest(j)'
  <2>1. \A w \in Deliveries : w.job = j => letters'[w] = None
    BY <1>1, <1>2, WorkingAlone
  <2>2. \A d \in Callers : pc'[d] = "letter" => JobOf(d)' # j
    BY <1>1, <1>2, MovesAlone
  <2> QED BY <2>1, <2>2 DEF LettersRest
<1> QED BY <1>3, <1>4, <1>5, <1>6 DEF Settled, OverRests, AcceptedIsSent

LEMMA ConsumeSettled ==
    ASSUME IInv, TypeOK', NEW j \in Jobs, Settled(j), HeldOnce,
           NEW c \in Callers, Consume(c), JobOf(c) = j
    PROVE  Settled(j)'
<1>0. TypeOK /\ PlacesConsistent /\ schedules \subseteq Deliveries
  BY DEF IInv, TypeOK
<1>1. /\ pc[c] = "consume" /\ current' = current /\ todo' = todo /\ pc'[c] = "save"
      /\ schedules' = schedules \ {current[c]} /\ letters' = letters
      /\ accepted' = accepted /\ unanswered' = unanswered
      /\ jobs' = jobs /\ outcome' = outcome
  BY <1>0 DEF Consume, Consumed, Goto, TypeOK, observations, localVars
<1>2. Working(c) /\ CallerStep(c) /\ ~Settling(c)
  BY <1>1 DEF Working, Settling, CallerStep, Proceed
<1>3. ~Over(j)'
  BY <1>1, <1>2, WorkingAlone DEF Over, HasStatus, Stored
<1>4. \A w \in schedules' : w.job # j
  BY <1>1, <1>2, WorkingAlone
<1>5. OneTrack(j)'
  <2>1. ASSUME NEW d \in Callers, NEW w \in Deliveries, w.job = j, ~First(w), Holds(d, w)'
        PROVE  FALSE
    BY <1>1, <1>2, <2>1, MovesAlone
  <2>2. \A d \in Callers : Settling(d)' /\ JobOf(d)' = j => d = c
    BY <1>1, <1>2, MovesAlone
  <2> QED BY <1>4, <2>1, <2>2 DEF OneTrack, First
<1>6. LettersRest(j)'
  <2>1. \A w \in Deliveries : w.job = j => letters'[w] = None
    BY <1>1, <1>2, WorkingAlone
  <2>2. \A d \in Callers : pc'[d] = "letter" => JobOf(d)' # j
    BY <1>1, <1>2, MovesAlone
  <2> QED BY <2>1, <2>2 DEF LettersRest
<1>7. AcceptedIsSent(j)'
  <2>1. Heard(j)' => pc'[c] = "save" /\ JobOf(c)' = j /\ outcome'[c] = "accepted"
    BY <1>1, <1>2, WorkingAlone DEF Heard, JobOf
  <2> QED BY <2>1 DEF AcceptedIsSent
<1>8. accepted'[j] <= 1 + unanswered'[j]
  BY <1>1 DEF Settled
<1> QED BY <1>3, <1>5, <1>6, <1>7, <1>8 DEF Settled, OverRests

LEMMA SaveSettled ==
    ASSUME IInv, TypeOK', NEW j \in Jobs, Settled(j), HeldOnce,
           NEW c \in Callers, Save(c), JobOf(c) = j
    PROVE  Settled(j)'
<1>0. TypeOK /\ PlacesConsistent /\ schedules \subseteq Deliveries
  BY DEF IInv, TypeOK
<1>1. /\ pc[c] = "save" /\ current' = current /\ todo' = todo /\ pc'[c] = AfterSave(c)
      /\ schedules' = schedules /\ letters' = letters
      /\ accepted' = accepted /\ unanswered' = unanswered
      /\ outcome' = outcome
  BY <1>0 DEF Save, Goto, TypeOK, observations, localVars
<1>2. jobs'[j] # None /\ jobs'[j].status = StatusOf(c)
  <2>1. jobs'[j] # None /\ jobs'[j] = [status |-> StatusOf(c), attempt |-> current[c].attempt]
    BY <1>0, StatesAreStored
  <2> QED BY <2>1
<1>3. Working(c) /\ CallerStep(c) /\ Settling(c)
  BY <1>1 DEF Working, Settling, CallerStep, Proceed
<1>4. \A w \in schedules' : w.job # j
  BY <1>1, <1>3, WorkingAlone
<1>5. OneTrack(j)'
  <2>1. ASSUME NEW d \in Callers, NEW w \in Deliveries, w.job = j, ~First(w), Holds(d, w)'
        PROVE  FALSE
    BY <1>1, <1>3, <2>1, MovesAlone
  <2>2. \A d \in Callers : Settling(d)' /\ JobOf(d)' = j => d = c
    BY <1>1, <1>3, MovesAlone
  <2> QED BY <1>4, <2>1, <2>2 DEF OneTrack, First
<1>6. OverRests(j)'
  <2> SUFFICES ASSUME Over(j)' PROVE \A d \in Callers : Working(d)' => JobOf(d)' # j
    BY <1>4 DEF OverRests
  <2>1. StatusOf(c) # "retry_scheduled"
    BY <1>2 DEF Over, HasStatus
  <2>2. AfterSave(c) \in {"mark", "letter", "take"}
    BY <2>1, StatusType
  <2>3. ~Working(c)'
    BY <1>1, <2>2 DEF Working
  <2> QED BY <1>1, <1>3, <2>3, MovesAlone
<1>7. AcceptedIsSent(j)'
  <2>1. Heard(j)' => outcome[c] = "accepted"
    BY <1>1, <1>3, WorkingAlone DEF Heard
  <2>2. Heard(j)' => HasStatus(j, "sent")'
    BY <1>2, <2>1 DEF HasStatus, Stored, StatusOf
  <2> QED BY <2>2 DEF AcceptedIsSent
<1>8. LettersRest(j)'
  <2>1. \A w \in Deliveries : w.job = j => letters'[w] = None
    BY <1>1, <1>3, WorkingAlone
  <2>2. \A d \in Callers : pc'[d] = "letter" /\ JobOf(d)' = j => d = c
    BY <1>1, <1>3, MovesAlone
  <2>3. pc'[c] = "letter" => StatusOf(c) = "dlq_recorded"
    BY <1>1 DEF AfterSave, StatusOf
  <2>4. pc'[c] = "letter" => HasStatus(j, "dlq_recorded")'
    BY <1>2, <2>3 DEF HasStatus, Stored
  <2>5. letters'[current'[c]] = None
    <3>1. current[c] \in Deliveries /\ current[c].job = j
      BY <1>0, <1>1, CurrentType DEF JobOf
    <3> QED BY <1>1, <2>1, <3>1
  <2> QED BY <2>1, <2>2, <2>4, <2>5 DEF LettersRest
<1>9. accepted'[j] <= 1 + unanswered'[j]
  BY <1>1 DEF Settled
<1> QED BY <1>5, <1>6, <1>7, <1>8, <1>9 DEF Settled

LEMMA SaveScheduleSettled ==
    ASSUME IInv, TypeOK', NEW j \in Jobs, Settled(j), HeldOnce,
           NEW c \in Callers, SaveSchedule(c), JobOf(c) = j
    PROVE  Settled(j)'
<1>0. TypeOK /\ PlacesConsistent /\ schedules \subseteq Deliveries /\ accepted[j] \in Nat
        /\ unanswered[j] \in Nat
  BY DEF IInv, TypeOK
<1>1. /\ pc[c] = "schedule" /\ current' = current /\ todo' = todo /\ pc'[c] = "take"
      /\ schedules' = schedules \cup {NextAttempt(current[c])}
      /\ letters' = letters /\ jobs' = jobs
      /\ accepted' = accepted /\ unanswered' = unanswered
  BY <1>0 DEF SaveSchedule, Goto, TypeOK, observations, localVars
<1>2. Working(c) /\ CallerStep(c) /\ Settling(c)
  BY <1>1 DEF Working, Settling, CallerStep, Proceed
<1>3. ~Over(j)'
  BY <1>1, <1>2, WorkingAlone DEF Over, HasStatus, Stored
<1>4. \A w \in schedules : w.job # j
  BY <1>2, WorkingAlone
<1>5. OneTrack(j)'
  <2>1. ASSUME NEW d \in Callers, NEW w \in Deliveries, w.job = j, ~First(w), Holds(d, w)'
        PROVE  FALSE
    BY <1>1, <1>2, <2>1, MovesAlone
  <2>2. ASSUME NEW d \in Callers, Settling(d)', JobOf(d)' = j PROVE FALSE
    <3>1. ~Settling(c)'
      BY <1>1 DEF Settling
    <3> QED BY <1>1, <1>2, <2>2, <3>1, MovesAlone
  <2>3. \A w, v \in schedules' : w.job = j /\ v.job = j => w = v
    BY <1>1, <1>4
  <2> QED BY <2>1, <2>2, <2>3 DEF OneTrack, First
<1>6. LettersRest(j)'
  <2>1. \A w \in Deliveries : w.job = j => letters'[w] = None
    BY <1>1, <1>2, WorkingAlone
  <2>2. \A d \in Callers : pc'[d] = "letter" => JobOf(d)' # j
    BY <1>1, <1>2, MovesAlone
  <2> QED BY <2>1, <2>2 DEF LettersRest
<1>7. accepted'[j] <= 1 + unanswered'[j] /\ ~(Heard(j)')
  <2>1. ~Heard(j)
    BY <1>1, <1>2, WorkingAlone
  <2> QED BY <1>0, <1>1, <2>1 DEF Heard
<1> QED BY <1>3, <1>5, <1>6, <1>7 DEF Settled, OverRests, AcceptedIsSent
-----------------------------------------------------------------------------
(* A new job: before it is reserved nothing of it is anywhere.               *)
LEMMA ReserveSettled ==
    ASSUME IInv, TypeOK', FinalInv, NEW j \in Jobs, Settled(j),
           NEW c \in Callers, Reserve(c), current'[c].job = j
    PROVE  Settled(j)'
<1>0. TypeOK /\ PlacesConsistent /\ ReservationsOwned /\ SchedulesKnown /\ MarksOwned
  BY DEF IInv, FinalInv
<1>1. OneTrack(j) /\ AcceptedIsSent(j) /\ LettersRest(j) /\ accepted[j] \in Nat
        /\ unanswered[j] \in Nat
        /\ schedules \subseteq Deliveries
  BY <1>0 DEF Settled, TypeOK
<1>2. PICK w \in todo[c] : /\ First(w) /\ ~Stored(w.job) /\ w.job \notin reservations
                           /\ todo' = [todo EXCEPT ![c] = @ \ {w}]
                           /\ current' = [current EXCEPT ![c] = w]
  BY DEF Reserve, Begin
<1>3. /\ pc'[c] = "deliver" /\ current'[c] = w /\ w.job = j /\ todo'[c] \subseteq todo[c]
      /\ schedules' = schedules /\ letters' = letters /\ jobs' = jobs
      /\ accepted' = accepted /\ unanswered' = unanswered
  BY <1>0, <1>2 DEF Reserve, Goto, TypeOK, observations
<1>4. \A d \in Callers \ {c} : /\ pc'[d] = pc[d] /\ todo'[d] = todo[d]
                               /\ current'[d] = current[d]
  BY <1>0, OthersUntouched DEF CallerStep, Proceed
<1>5. \A u \in schedules : u.job # j
  BY <1>0, <1>2, <1>3 DEF SchedulesKnown, Known
<1>6. ASSUME NEW d \in Callers, At(d, j) PROVE FALSE
  <2>1. CASE pc[d] \in {"deliver", "consume", "save", "schedule", "mark"}
    <3>1. Owns(d) \/ Known(j)
      BY <1>0, <1>6, <2>1 DEF PlacesConsistent, PlaceConsistent, Owns, MarksOwned, At
    <3>2. Owns(d) => j \in reservations
      BY <1>0, <1>6 DEF ReservationsOwned, At
    <3> QED BY <1>2, <1>3, <3>1, <3>2 DEF Known
  <2>2. CASE pc[d] = "letter"
    BY <1>1, <1>2, <1>3, <1>6, <2>2 DEF LettersRest, HasStatus, At
  <2> QED BY <1>0, <1>6, <2>1, <2>2 DEF TypeOK, Phases, At
<1>7. accepted'[j] <= 1 + unanswered'[j] /\ ~(Heard(j)')
  <2>1. ~Heard(j)
    BY <1>1, <1>2, <1>3, <1>6 DEF AcceptedIsSent, HasStatus, At
  <2> QED BY <1>1, <1>3, <2>1 DEF Heard
<1>8. ~Over(j)'
  BY <1>2, <1>3 DEF Over, HasStatus, Stored
<1>9. OneTrack(j)'
  <2>1. ASSUME NEW d \in Callers, NEW u \in Deliveries, u.job = j, ~First(u), Holds(d, u)'
        PROVE  FALSE
    <3>1. Holds(d, u)
      BY <1>2, <1>3, <1>4, <2>1 DEF Holds
    <3> QED BY <1>1, <1>5, <2>1, <3>1 DEF OneTrack
  <2>2. ASSUME NEW d \in Callers, Settling(d)', JobOf(d)' = j PROVE d = c
    <3> SUFFICES ASSUME d # c PROVE FALSE
      OBVIOUS
    <3>1. At(d, j)
      BY <1>4, <2>2 DEF At, Settling, JobOf
    <3> QED BY <1>6, <3>1
  <2> QED BY <1>3, <1>5, <2>1, <2>2 DEF OneTrack, First
<1>10. LettersRest(j)'
  <2>1. \A u \in Deliveries : u.job = j => letters'[u] = None
    BY <1>1, <1>2, <1>3 DEF LettersRest, HasStatus
  <2>2. ASSUME NEW d \in Callers, pc'[d] = "letter", JobOf(d)' = j PROVE FALSE
    <3>1. d # c /\ At(d, j)
      BY <1>3, <1>4, <2>2 DEF At, JobOf
    <3> QED BY <1>6, <3>1
  <2> QED BY <2>1, <2>2 DEF LettersRest
<1> QED BY <1>7, <1>8, <1>9, <1>10 DEF Settled, OverRests, AcceptedIsSent

(* A schedule is taken by the one call that has it.                          *)
LEMMA TakeSettled ==
    ASSUME IInv, TypeOK', NEW j \in Jobs, Settled(j), HeldOnce,
           NEW c \in Callers, TakeSchedule(c), current'[c].job = j
    PROVE  Settled(j)'
<1>0. TypeOK /\ PlacesConsistent
  BY DEF IInv
<1>1. /\ OneTrack(j) /\ OverRests(j) /\ AcceptedIsSent(j) /\ LettersRest(j)
      /\ schedules \subseteq Deliveries /\ todo[c] \subseteq Deliveries
  BY <1>0 DEF Settled, TypeOK
<1>2. PICK w \in todo[c] : /\ ~First(w)
                           /\ todo' = [todo EXCEPT ![c] = @ \ {w}]
                           /\ current' = [current EXCEPT ![c] = w]
  BY DEF TakeSchedule, Begin
<1>3. /\ pc[c] = "take" /\ pc'[c] = "deliver" /\ current'[c] = w /\ w.job = j
      /\ todo'[c] \subseteq todo[c] /\ w \in Deliveries
      /\ schedules' = schedules /\ letters' = letters /\ jobs' = jobs
      /\ accepted' = accepted /\ unanswered' = unanswered
      /\ outcome' = outcome
  BY <1>0, <1>1, <1>2 DEF TakeSchedule, Begin, Goto, TypeOK, observations, storeVars
<1>4. \A d \in Callers \ {c} : /\ pc'[d] = pc[d] /\ todo'[d] = todo[d]
                               /\ current'[d] = current[d]
  BY <1>0, OthersUntouched DEF CallerStep, Proceed
<1>5. w \in schedules
  BY <1>1, <1>2, <1>3 DEF OneTrack, Holds
<1>6. ~Over(j) /\ ~Over(j)'
  BY <1>1, <1>3, <1>5 DEF OverRests, Over, HasStatus, Stored
<1>7. OneTrack(j)'
  <2>1. \A u, v \in schedules' : u.job = j /\ v.job = j => u = v
    BY <1>1, <1>3 DEF OneTrack
  <2>2. \A d \in Callers, u \in Deliveries : Holds(d, u)' => Holds(d, u)
    BY <1>2, <1>3, <1>4 DEF Holds
  <2>3. ASSUME NEW d \in Callers, NEW u \in Deliveries, u.job = j, ~First(u), Holds(d, u)'
        PROVE  u \in schedules' /\ \A e \in Callers : Holds(e, u)' => d = e
    BY <1>1, <1>3, <2>2, <2>3 DEF OneTrack
  <2>4. ASSUME NEW d \in Callers, Settling(d)', JobOf(d)' = j PROVE FALSE
    <3>1. d # c
      BY <1>2, <1>3, <2>4 DEF Settling, First
    <3>2. Settling(d) /\ JobOf(d) = j
      BY <1>4, <2>4, <3>1 DEF Settling, JobOf, First
    <3> QED BY <1>1, <1>3, <1>5, <3>2 DEF OneTrack
  <2> QED BY <2>1, <2>3, <2>4 DEF OneTrack, First
<1>8. AcceptedIsSent(j)'
  <2> SUFFICES ASSUME Heard(j)'
               PROVE  \E d \in Callers : pc'[d] \in {"consume", "save"} /\ JobOf(d)' = j
                                         /\ outcome'[d] = "accepted"
    BY DEF AcceptedIsSent
  <2>1. PICK d \in Callers : pc[d] \in {"consume", "save"} /\ JobOf(d) = j /\ outcome[d] = "accepted"
    BY <1>1, <1>3, <1>6 DEF AcceptedIsSent, Heard, Over
  <2> QED BY <1>3, <1>4, <2>1 DEF JobOf
<1>9. LettersRest(j)'
  <2>1. \A u \in Deliveries : u.job = j => letters'[u] = None
    BY <1>1, <1>3, <1>6 DEF LettersRest, Over
  <2>2. \A d \in Callers : ~(pc'[d] = "letter" /\ JobOf(d)' = j)
    BY <1>1, <1>3, <1>4, <1>6 DEF LettersRest, Over, JobOf
  <2> QED BY <2>1, <2>2 DEF LettersRest
<1> QED BY <1>1, <1>3, <1>6, <1>7, <1>8, <1>9 DEF Settled, OverRests

(* A dead letter is recorded once.                                           *)
LEMMA SaveLetterSettled ==
    ASSUME IInv, TypeOK', NEW j \in Jobs, Settled(j),
           NEW c \in Callers, SaveLetter(c), JobOf(c) = j
    PROVE  Settled(j)'
<1>0. TypeOK /\ PlacesConsistent /\ schedules \subseteq Deliveries
  BY DEF IInv, TypeOK
<1>1. OneTrack(j) /\ OverRests(j) /\ AcceptedIsSent(j) /\ LettersRest(j)
  BY DEF Settled
<1>2. /\ pc[c] = "letter" /\ current' = current /\ todo' = todo /\ pc'[c] = "take"
      /\ schedules' = schedules /\ jobs' = jobs /\ outcome' = outcome
      /\ accepted' = accepted /\ unanswered' = unanswered
      /\ \A d \in Callers \ {c} : pc'[d] = pc[d]
  BY <1>0 DEF SaveLetter, Goto, TypeOK, observations, localVars, storeVars
<1>3. HasStatus(j, "dlq_recorded") /\ HasStatus(j, "dlq_recorded")'
  BY <1>1, <1>2 DEF LettersRest, HasStatus, Stored
<1>4. OneTrack(j)'
  <2>1. \A d \in Callers, u \in Deliveries : Holds(d, u)' => Holds(d, u)
    BY <1>2 DEF Holds
  <2>2. \A d \in Callers : Settling(d)' /\ JobOf(d)' = j => Settling(d) /\ JobOf(d) = j
    BY <1>2 DEF Settling, First, JobOf
  <2> QED BY <1>1, <1>2, <2>1, <2>2 DEF OneTrack, First
<1>5. OverRests(j)'
  BY <1>1, <1>2, <1>3 DEF OverRests, Over, Working, JobOf
<1>6. AcceptedIsSent(j)'
  <2>1. Heard(j) => HasStatus(j, "sent") \/ \E d \in Callers :
            pc[d] \in {"consume", "save"} /\ JobOf(d) = j /\ outcome[d] = "accepted"
    BY <1>1 DEF AcceptedIsSent
  <2>2. \A d \in Callers : pc[d] \in {"consume", "save"} => d # c
    BY <1>2
  <2> QED BY <1>2, <2>1, <2>2 DEF AcceptedIsSent, Heard, HasStatus, Stored, JobOf
<1>7. LettersRest(j)'
  <2>1. \A d \in Callers : ~(pc'[d] = "letter" /\ JobOf(d)' = j)
    BY <1>1, <1>2 DEF LettersRest, JobOf
  <2> QED BY <1>3, <2>1 DEF LettersRest
<1>8. accepted'[j] <= 1 + unanswered'[j]
  BY <1>2 DEF Settled
<1> QED BY <1>4, <1>5, <1>6, <1>7, <1>8 DEF Settled

(* The job of a schedule that is listed while another call has it is raced.  *)
LEMMA RetriesSettled ==
    ASSUME IInv, IInv', NEW j \in Jobs, j \notin raced', Settled(j),
           NEW c \in Callers, ProcessRetries(c)
    PROVE  Settled(j)'
<1>0. TypeOK /\ PlacesConsistent /\ schedules \subseteq Deliveries
  BY DEF IInv, TypeOK
<1>1. OneTrack(j) /\ OverRests(j) /\ AcceptedIsSent(j) /\ LettersRest(j) /\ accepted[j] <= 1 + unanswered[j]
  BY DEF Settled
<1>2. PICK due \in SUBSET schedules :
          /\ Call(c, due)
          /\ raced' = raced \cup {w.job : w \in {v \in due : \E d \in Callers : Holds(d, v)}}
  BY DEF ProcessRetries
<1>3. /\ pc[c] = "idle" /\ current' = current /\ todo'[c] = due /\ pc'[c] = "take"
      /\ schedules' = schedules /\ jobs' = jobs /\ outcome' = outcome
      /\ accepted' = accepted /\ unanswered' = unanswered
      /\ letters' = letters
      /\ \A d \in Callers \ {c} : pc'[d] = pc[d] /\ todo'[d] = todo[d]
  BY <1>0, <1>2 DEF ProcessRetries, Call, Goto, TypeOK, storeVars, acceptances
<1>4. \A w \in due, d \in Callers : w.job = j => ~Holds(d, w)
  BY <1>2
<1>5. OneTrack(j)'
  <2>1. ASSUME NEW d \in Callers, NEW u \in Deliveries, u.job = j, ~First(u), Holds(d, u)'
        PROVE  u \in schedules' /\ \A e \in Callers : Holds(e, u)' => d = e
    <3>1. \A e \in Callers : Holds(e, u)' => (e = c /\ u \in due) \/ (e # c /\ Holds(e, u))
      BY <1>3 DEF Holds
    <3> QED BY <1>1, <1>2, <1>3, <1>4, <2>1, <3>1 DEF OneTrack
  <2>2. \A d \in Callers : Settling(d)' /\ JobOf(d)' = j => Settling(d) /\ JobOf(d) = j
    BY <1>3 DEF Settling, First, JobOf
  <2> QED BY <1>1, <1>3, <2>1, <2>2 DEF OneTrack, First
<1>6. OverRests(j)'
  BY <1>1, <1>3 DEF OverRests, Over, Working, JobOf, HasStatus, Stored
<1>7. AcceptedIsSent(j)'
  BY <1>1, <1>3 DEF AcceptedIsSent, Heard, HasStatus, Stored, JobOf
<1>8. LettersRest(j)'
  BY <1>1, <1>3 DEF LettersRest, HasStatus, Stored, JobOf
<1> QED BY <1>1, <1>3, <1>5, <1>6, <1>7, <1>8 DEF Settled

(* A step of a caller that is not, or no more, at job j.                     *)
LEMMA OtherJobSettled ==
    ASSUME IInv, IInv', NEW j \in Jobs, Settled(j), NEW c \in Callers, CallerStep(c),
           \A w \in Deliveries : w.job = j => /\ w \in schedules' <=> w \in schedules
                                              /\ letters'[w] = None <=> letters[w] = None,
           jobs'[j] = jobs[j],
           accepted'[j] = accepted[j], unanswered'[j] = unanswered[j],
           \A w \in todo'[c] : w.job = j /\ ~First(w) => w \in todo[c],
           ~At(c, j)',
           ~(At(c, j) /\ pc[c] \in {"consume", "save"})
    PROVE  Settled(j)'
<1>0. TypeOK /\ TypeOK' /\ PlacesConsistent'
  BY DEF IInv
<1>1. \A d \in Callers \ {c} : /\ pc'[d] = pc[d] /\ todo'[d] = todo[d]
                               /\ current'[d] = current[d] /\ outcome'[d] = outcome[d]
  BY <1>0, OthersUntouched
<1>2. \A d \in Callers : At(d, j)' => /\ At(d, j)
                                      /\ pc'[d] = pc[d]
                                      /\ current'[d] = current[d]
                                      /\ current'[d] \in Deliveries
  BY <1>0, <1>1 DEF At, JobOf, PlacesConsistent, PlaceConsistent
<1>3. \A d \in Callers : \A w \in todo'[d] : w.job = j /\ ~First(w) => w \in todo[d]
  BY <1>1
<1>4. \A d \in Callers : At(d, j) /\ pc[d] \in {"consume", "save"} =>
              /\ pc'[d] = pc[d]
              /\ current'[d] = current[d]
              /\ outcome'[d] = outcome[d]
  BY <1>1
<1> QED BY <1>0, <1>2, <1>3, <1>4, SettledStable
-----------------------------------------------------------------------------
(* Every step keeps every job in one place.                                  *)
LEMMA SettledPreserved ==
    ASSUME IInv, IInv', FinalInv, [Next]_vars, NEW j \in Jobs, j \notin raced'
    PROVE  Settled(j)'
<1>0. TypeOK /\ TypeOK' /\ PlacesConsistent /\ PlacesConsistent' /\ SchedulesKnown
        /\ schedules \subseteq Deliveries
  BY DEF IInv, TypeOK
<1>1. raced \subseteq raced'
  <2>1. ASSUME NEW c \in Callers, ProcessRetries(c) PROVE raced \subseteq raced'
    BY <2>1 DEF ProcessRetries
  <2>2. ASSUME NEW c \in Callers, CallerStep(c), ~ProcessRetries(c) PROVE raced' = raced
    BY <2>2 DEF CallerStep, Proceed, Notify, Reprocess, Reserve, Replay, TakeSchedule, SkipSchedule,
         Deliver, DispatchRaises, Consume, Save, SaveSchedule, SaveLetter, MarkReprocessed, Return,
         observations
  <2>3. ASSUME NEW k \in Configurations, SaveConfiguration(k) PROVE raced' = raced
    BY <2>3 DEF SaveConfiguration, observations
  <2> QED BY <2>1, <2>2, <2>3 DEF Next, CallerStep, vars, observations
<1>2. Settled(j) /\ HeldOnce
  BY <1>1 DEF FinalInv
<1>3. ASSUME UNCHANGED vars \/ \E k \in Configurations : SaveConfiguration(k) PROVE Settled(j)'
  <2>1. UNCHANGED <<jobs, schedules, letters, accepted, unanswered, pc, todo, current, outcome>>
    BY <1>3 DEF vars, storeVars, observations, localVars, SaveConfiguration
  <2>2. \A d \in Callers : At(d, j)' => At(d, j) /\ current'[d] \in Deliveries
    BY <1>0, <2>1 DEF At, JobOf, PlacesConsistent, PlaceConsistent
  <2> QED BY <1>0, <1>2, <2>1, <2>2, SettledStable
<1>4. ASSUME NEW c \in Callers, Notify(c) \/ Reprocess(c) PROVE Settled(j)'
  <2>1. /\ UNCHANGED <<jobs, schedules, letters, accepted, unanswered>>
        /\ pc[c] = "idle" /\ pc'[c] = "take" /\ \A w \in todo'[c] : First(w)
    <3>1. CASE Notify(c)
      <4>1. PICK e \in Events :
              Call(c, {[job |-> [event |-> e, configuration |-> k], attempt |-> 1] : k \in active})
        BY <3>1 DEF Notify
      <4> QED BY <1>0, <3>1, <4>1 DEF Notify, Call, Goto, TypeOK, First, storeVars, observations
    <3>2. CASE Reprocess(c)
      <4>1. PICK d \in NotificationLetters, k \in ReprocessKeys :
              Call(c, {[job |-> [letter |-> d, key |-> k], attempt |-> 1]})
        BY <3>2 DEF Reprocess
      <4> QED BY <1>0, <3>2, <4>1 DEF Reprocess, Call, Goto, TypeOK, First, storeVars, observations
    <3> QED BY <1>4, <3>1, <3>2
  <2>2. ~At(c, j)' /\ ~At(c, j) /\ CallerStep(c)
    BY <1>4, <2>1 DEF At, CallerStep
  <2> QED BY <1>2, <2>1, <2>2, OtherJobSettled
<1>5. ASSUME NEW c \in Callers, ProcessRetries(c) PROVE Settled(j)'
  BY <1>2, <1>5, RetriesSettled
<1>6. ASSUME NEW c \in Callers, Reserve(c) \/ TakeSchedule(c) PROVE Settled(j)'
  <2>1. CASE current'[c].job = j
    BY <1>0, <1>2, <1>6, <2>1, ReserveSettled, TakeSettled
  <2>2. CASE current'[c].job # j
    <3>1. /\ UNCHANGED <<jobs, schedules, letters, accepted, unanswered>>
          /\ pc[c] = "take" /\ todo'[c] \subseteq todo[c]
      BY <1>0, <1>6 DEF Reserve, TakeSchedule, Begin, TypeOK, storeVars, observations
    <3>2. ~At(c, j)' /\ ~At(c, j) /\ CallerStep(c)
      BY <1>6, <2>2, <3>1 DEF At, JobOf, CallerStep, Proceed
    <3> QED BY <1>2, <3>1, <3>2, OtherJobSettled
  <2> QED BY <2>1, <2>2
<1>7. ASSUME NEW c \in Callers, Replay(c) \/ SkipSchedule(c) \/ Return(c) PROVE Settled(j)'
  <2>1. /\ UNCHANGED <<jobs, schedules, letters, accepted, unanswered>>
        /\ pc[c] = "take" /\ pc'[c] \in {"take", "idle"} /\ todo'[c] \subseteq todo[c]
    <3>1. CASE Replay(c)
      BY <1>0, <3>1 DEF Replay, Begin, TypeOK, storeVars, observations
    <3>2. CASE SkipSchedule(c)
      BY <1>0, <3>2 DEF SkipSchedule, SchedulesKnown, Begin, TypeOK, observations
    <3>3. CASE Return(c)
      BY <1>0, <3>3 DEF Return, Goto, TypeOK, storeVars, observations, localVars
    <3> QED BY <1>7, <3>1, <3>2, <3>3
  <2>2. ~At(c, j)' /\ ~At(c, j) /\ CallerStep(c)
    BY <1>7, <2>1 DEF At, CallerStep, Proceed
  <2> QED BY <1>2, <2>1, <2>2, OtherJobSettled
<1>8. ASSUME NEW c \in Callers, Deliver(c) \/ DispatchRaises(c) \/ Consume(c) \/ Save(c)
                                  \/ SaveSchedule(c) \/ SaveLetter(c)
      PROVE  Settled(j)'
  <2>0. /\ pc[c] \notin {"idle", "take"} /\ current' = current /\ todo'[c] \subseteq todo[c]
        /\ CallerStep(c)
    BY <1>0, <1>8 DEF Deliver, DispatchRaises, Consume, Save, SaveSchedule, SaveLetter, TypeOK,
         localVars, CallerStep, Proceed
  <2>1. CASE JobOf(c) = j
    BY <1>0, <1>2, <1>8, <2>1, DeliverSettled, RaiseSettled, ConsumeSettled, SaveSettled,
       SaveScheduleSettled, SaveLetterSettled
  <2>2. CASE JobOf(c) # j
    <3>0. /\ current[c] \in Deliveries
          /\ JobOf(c) \in Jobs
          /\ current[c].job = JobOf(c)
      BY <1>0, <2>0, CurrentType DEF JobOf
    <3>1. ~At(c, j) /\ ~At(c, j)'
      BY <2>0, <2>2 DEF At, JobOf
    <3>2. jobs'[j] = jobs[j] /\ accepted'[j] = accepted[j] /\ unanswered'[j] = unanswered[j]
      <4>1. CASE Save(c)
        BY <1>0, <2>2, <4>1, StatesAreStored DEF Save, observations
      <4>2. CASE Deliver(c)
        BY <1>0, <2>2, <3>0, <4>2, UnheardStays DEF Deliver, Answered, storeVars, TypeOK
      <4>3. CASE DispatchRaises(c)
        BY <1>0, <2>2, <3>0, <4>3, UnheardStays DEF DispatchRaises
      <4>4. CASE Consume(c) \/ SaveSchedule(c) \/ SaveLetter(c)
        BY <4>4 DEF Consume, SaveSchedule, SaveLetter, storeVars, observations
      <4> QED BY <1>8, <4>1, <4>2, <4>3, <4>4
    <3>3. \A w \in Deliveries : w.job = j => w \in schedules' <=> w \in schedules
      <4>1. CASE SaveSchedule(c)
        <5>1. NextAttempt(current[c]).job = JobOf(c)
          BY <1>0, <3>0, <4>1, NextAttemptType DEF SaveSchedule, PlacesConsistent, PlaceConsistent
        <5> QED BY <2>2, <4>1, <5>1 DEF SaveSchedule
      <4>2. CASE Consume(c)
        BY <2>2, <3>0, <4>2 DEF Consume, Consumed
      <4>3. CASE Deliver(c) \/ DispatchRaises(c) \/ Save(c) \/ SaveLetter(c)
        BY <4>3 DEF Deliver, DispatchRaises, Save, SaveLetter, storeVars
      <4> QED BY <1>8, <4>1, <4>2, <4>3
    <3>4. \A w \in Deliveries : w.job = j => letters'[w] = letters[w]
      <4>1. CASE SaveLetter(c)
        BY <1>0, <2>2, <3>0, <4>1 DEF SaveLetter, TypeOK
      <4>2. CASE Deliver(c) \/ DispatchRaises(c) \/ Save(c) \/ SaveSchedule(c) \/ Consume(c)
        BY <4>2 DEF Deliver, DispatchRaises, Save, SaveSchedule, Consume
      <4> QED BY <1>8, <4>1, <4>2
    <3> QED BY <1>2, <2>0, <3>1, <3>2, <3>3, <3>4, OtherJobSettled
  <2> QED BY <2>1, <2>2
<1>9. ASSUME NEW c \in Callers, MarkReprocessed(c) PROVE Settled(j)'
  <2>1. /\ UNCHANGED <<jobs, schedules, accepted, unanswered, todo>>
        /\ pc[c] = "mark" /\ pc'[c] = "take" /\ CallerStep(c)
    BY <1>0, <1>9 DEF MarkReprocessed, Goto, TypeOK, storeVars, observations, localVars,
         CallerStep, Proceed
  <2>2. ASSUME NEW w \in Deliveries PROVE letters'[w] = None <=> letters[w] = None
    <3>1. letters[w] # None => letters'[w] # None
      BY LettersStay
    <3>2. JobOf(c) \in Reprocesses /\ letters[JobOf(c).letter] # None
      BY <1>0, <2>1 DEF PlacesConsistent, PlaceConsistent, LetterRead, JobOf
    <3>3. letters'[w] = letters[w] \/ w = JobOf(c).letter
      BY <1>0, <1>9 DEF MarkReprocessed, TypeOK
    <3> QED BY <3>1, <3>2, <3>3
  <2>3. ~At(c, j)' /\ pc[c] \notin {"consume", "save"}
    BY <2>1 DEF At
  <2> QED BY <1>2, <2>1, <2>2, <2>3, OtherJobSettled
<1> QED
  BY <1>3, <1>4, <1>5, <1>6, <1>7, <1>8, <1>9 DEF Next, Proceed
-----------------------------------------------------------------------------
(* What a call is at left its list when the call took it.                    *)
LEMMA HeldPreserved ==
    ASSUME IInv, HeldOnce, [Next]_vars
    PROVE  HeldOnce'
<1>0. TypeOK
  BY DEF IInv
<1>1. ASSUME NEW c \in Callers, CallerStep(c), pc'[c] \in {"deliver", "consume"}
      PROVE  current'[c] \notin todo'[c]
  <2>1. CASE Reserve(c) \/ TakeSchedule(c)
    BY <1>0, <2>1 DEF Reserve, TakeSchedule, Begin, TypeOK
  <2>2. CASE Deliver(c)
    BY <1>0, <2>2 DEF Deliver, HeldOnce
  <2>3. CASE Notify(c) \/ ProcessRetries(c) \/ Reprocess(c)
    BY <1>0, <1>1, <2>3 DEF Notify, ProcessRetries, Reprocess, Call, Goto, TypeOK
  <2>4. CASE Replay(c) \/ SkipSchedule(c)
    BY <1>0, <1>1, <2>4 DEF Replay, SkipSchedule, Begin
  <2>5. CASE DispatchRaises(c) \/ Consume(c) \/ Save(c) \/ SaveSchedule(c) \/ SaveLetter(c)
               \/ MarkReprocessed(c) \/ Return(c)
    BY <1>0, <1>1, <2>5, StatusType DEF DispatchRaises, Consume, Save, SaveSchedule, SaveLetter,
       MarkReprocessed, Return, Goto, TypeOK
  <2> QED BY <1>1, <2>1, <2>2, <2>3, <2>4, <2>5 DEF CallerStep, Proceed
<1>2. ASSUME NEW c \in Callers, CallerStep(c) PROVE HeldOnce'
  BY <1>0, <1>1, <1>2, OthersUntouched DEF HeldOnce
<1>3. ASSUME UNCHANGED vars \/ \E k \in Configurations : SaveConfiguration(k) PROVE HeldOnce'
  BY <1>3 DEF vars, localVars, SaveConfiguration, HeldOnce
<1> QED BY <1>2, <1>3 DEF Next, CallerStep

(* The receiver is only called by Deliver and DispatchRaises.                *)
LEMMA AcceptancesRest ==
    ASSUME NEW c \in Callers, CallerStep(c), ~Deliver(c), ~DispatchRaises(c)
    PROVE  UNCHANGED acceptances
  BY DEF CallerStep, Proceed, Notify, ProcessRetries, Reprocess, Reserve, Replay, TakeSchedule,
     SkipSchedule, Consume, Save, SaveSchedule, SaveLetter, MarkReprocessed, Return,
     observations, acceptances

(* No acceptance is forgotten.                                               *)
LEMMA AcceptedGrows ==
    ASSUME IInv, [Next]_vars, NEW j \in Jobs, accepted[j] > 0
    PROVE  accepted'[j] > 0
<1>0. TypeOK /\ PlacesConsistent /\ accepted[j] \in Nat
  BY DEF IInv, TypeOK
<1>1. ASSUME NEW c \in Callers, Deliver(c) \/ DispatchRaises(c) PROVE accepted'[j] > 0
  <2>1. JobOf(c) \in Jobs
    BY <1>0, <1>1, CurrentType DEF Deliver, DispatchRaises
  <2>2. CASE Answered(JobOf(c))
    BY <1>0, <2>1, <2>2 DEF Answered, TypeOK
  <2>3. CASE Unheard(JobOf(c))
    <3>1. \E n \in {0, 1} : accepted'[j] = accepted[j] + n
      BY <1>0, <2>1, <2>3, UnheardStays
    <3> QED BY <1>0, <3>1
  <2> QED BY <1>1, <2>2, <2>3 DEF Deliver, DispatchRaises
<1>2. ASSUME NEW c \in Callers, CallerStep(c), ~Deliver(c), ~DispatchRaises(c)
      PROVE  UNCHANGED acceptances
  BY <1>2, AcceptancesRest
<1>3. ASSUME UNCHANGED vars \/ \E k \in Configurations : SaveConfiguration(k)
      PROVE  UNCHANGED acceptances
  BY <1>3 DEF vars, observations, acceptances, SaveConfiguration
<1> QED BY <1>1, <1>2, <1>3 DEF Next, CallerStep, acceptances

(* What the histories become: a record is new and empty, or one entry longer.*)
LEMMA HistoriesGrow ==
    ASSUME IInv, [Next]_vars, NEW d \in Deliveries
    PROVE  \/ letters'[d] = letters[d]
           \/ \E c \in Callers : SaveLetter(c) /\ current[c] = d /\ letters'[d] = <<>>
           \/ \E c \in Callers : /\ MarkReprocessed(c) /\ JobOf(c) \in Reprocesses
                                 /\ JobOf(c).letter = d /\ letters[d] # None
                                 /\ letters[d] \in Seq(Reprocesses)
                                 /\ letters'[d] = Append(letters[d], JobOf(c))
<1>0. TypeOK /\ PlacesConsistent
  BY DEF IInv
<1>1. ASSUME NEW c \in Callers, SaveLetter(c)
      PROVE  letters'[d] = letters[d] \/ (current[c] = d /\ letters'[d] = <<>>)
  BY <1>0, <1>1 DEF SaveLetter, TypeOK
<1>2. ASSUME NEW c \in Callers, MarkReprocessed(c)
      PROVE  \/ letters'[d] = letters[d]
             \/ /\ JobOf(c) \in Reprocesses
                /\ JobOf(c).letter = d /\ letters[d] # None
                /\ letters[d] \in Seq(Reprocesses)
                /\ letters'[d] = Append(letters[d], JobOf(c))
  <2>1. JobOf(c) \in Reprocesses /\ letters[JobOf(c).letter] # None
    BY <1>0, <1>2 DEF MarkReprocessed, PlacesConsistent, PlaceConsistent, LetterRead, JobOf
  <2> QED BY <1>0, <1>2, <2>1 DEF MarkReprocessed, TypeOK
<1>3. ASSUME NEW c \in Callers, CallerStep(c), ~SaveLetter(c), ~MarkReprocessed(c)
      PROVE  letters' = letters
  BY <1>3 DEF CallerStep, Proceed, Notify, ProcessRetries, Reprocess, Reserve, Replay, TakeSchedule,
     SkipSchedule, Deliver, DispatchRaises, Consume, Save, SaveSchedule, Return
<1>4. ASSUME UNCHANGED vars \/ \E k \in Configurations : SaveConfiguration(k)
      PROVE  letters' = letters
  BY <1>4 DEF vars, SaveConfiguration
<1> QED BY <1>1, <1>2, <1>3, <1>4 DEF Next, CallerStep

(* A reprocess is marked by the call that is at mark with it.                *)
LEMMA MarkedGrows ==
    ASSUME IInv, [Next]_vars, NEW r \in Reprocesses, Marked(r)'
    PROVE  Marked(r) \/ \E c \in Callers : MarkReprocessed(c) /\ JobOf(c) = r
<1>1. r.letter \in Deliveries
  BY LetterType
<1>2. PICK i \in DOMAIN letters'[r.letter] : letters'[r.letter][i] = r
  BY DEF Marked
<1>3. letters'[r.letter] # None
  BY DEF Marked
<1>4. CASE letters'[r.letter] = letters[r.letter]
  BY <1>2, <1>3, <1>4 DEF Marked
<1>5. CASE letters'[r.letter] = <<>>
  BY <1>2, <1>5
<1>6. ASSUME NEW c \in Callers, MarkReprocessed(c), JobOf(c) \in Reprocesses,
             letters[r.letter] # None, letters[r.letter] \in Seq(Reprocesses),
             letters'[r.letter] = Append(letters[r.letter], JobOf(c))
      PROVE  Marked(r) \/ JobOf(c) = r
  <2>1. CASE i = Len(letters[r.letter]) + 1
    BY <1>2, <1>6, <2>1
  <2>2. CASE i # Len(letters[r.letter]) + 1
    <3>1. i \in DOMAIN letters[r.letter] /\ letters[r.letter][i] = r
      BY <1>2, <1>6, <2>2
    <3> QED BY <1>6, <3>1 DEF Marked
  <2> QED BY <2>1, <2>2
<1> QED BY <1>1, <1>4, <1>5, <1>6, HistoriesGrow

(* Marks are of accepted reprocesses, one call for each.                     *)
LEMMA MarksPreserved ==
    ASSUME IInv, IInv', MarksOwned, [Next]_vars
    PROVE  MarksOwned'
<1>0. TypeOK /\ TypeOK' /\ PlacesConsistent /\ PlacesConsistent' /\ ReservationsOwned
  BY DEF IInv
<1>1. ASSUME NEW r \in Reprocesses, Marked(r)' PROVE Known(r)'
  <2>1. r \in Jobs
    BY DEF Jobs
  <2>2. Marked(r) => Known(r)
    BY DEF MarksOwned
  <2>3. \A c \in Callers : MarkReprocessed(c) => Known(JobOf(c))
    BY DEF MarksOwned, MarkReprocessed
  <2>4. Known(r)
    BY <1>1, <2>2, <2>3, MarkedGrows
  <2> QED BY <2>1, <2>4, KnownStable
<1>2. ASSUME NEW c \in Callers, pc'[c] \in {"consume", "save"}, outcome'[c] = "accepted"
      PROVE  accepted'[JobOf(c)'] > 0
  <2>1. CASE Deliver(c)
    <3>1. JobOf(c) \in Jobs /\ JobOf(c)' = JobOf(c)
      BY <1>0, <2>1, CurrentType DEF Deliver, JobOf
    <3>2. accepted[JobOf(c)] \in Nat /\ accepted'[JobOf(c)] = accepted[JobOf(c)] + 1
      <4>1. PICK o \in Outcomes : /\ outcome' = [outcome EXCEPT ![c] = o]
                                  /\ IF o = "accepted" THEN Answered(JobOf(c)) ELSE Unheard(JobOf(c))
        BY <2>1 DEF Deliver
      <4>2. o = "accepted"
        BY <1>0, <1>2, <4>1 DEF TypeOK
      <4> QED BY <1>0, <3>1, <4>1, <4>2 DEF Answered, TypeOK
    <3> QED BY <3>1, <3>2
  <2>2. CASE pc[c] \in {"consume", "save"} /\ outcome[c] = "accepted" /\ current'[c] = current[c]
    <3>1. JobOf(c) \in Jobs /\ JobOf(c)' = JobOf(c)
      BY <1>0, <2>2, CurrentType DEF JobOf
    <3>2. accepted[JobOf(c)] > 0
      BY <2>2 DEF MarksOwned
    <3> QED BY <3>1, <3>2, AcceptedGrows
  <2>3. ASSUME CallerStep(c), ~Deliver(c)
        PROVE  pc[c] \in {"consume", "save"} /\ outcome[c] = "accepted" /\ current'[c] = current[c]
    <3>1. CASE Consume(c)
      BY <1>0, <1>2, <3>1 DEF Consume, localVars
    <3>2. CASE Notify(c) \/ ProcessRetries(c) \/ Reprocess(c)
      BY <1>0, <1>2, <3>2 DEF Notify, ProcessRetries, Reprocess, Call, Goto, TypeOK
    <3>3. CASE Reserve(c) \/ Replay(c) \/ TakeSchedule(c) \/ SkipSchedule(c)
      BY <1>0, <1>2, <3>3 DEF Reserve, Replay, TakeSchedule, SkipSchedule, Begin, Goto, TypeOK
    <3>4. CASE DispatchRaises(c) \/ Save(c) \/ SaveSchedule(c) \/ SaveLetter(c)
                 \/ MarkReprocessed(c) \/ Return(c)
      BY <1>0, <1>2, <3>4, StatusType DEF DispatchRaises, Save, SaveSchedule, SaveLetter,
         MarkReprocessed, Return, Goto, TypeOK
    <3> QED BY <2>3, <3>1, <3>2, <3>3, <3>4 DEF CallerStep, Proceed
  <2>4. ASSUME NEW d \in Callers, CallerStep(d), d # c
        PROVE  pc[c] \in {"consume", "save"} /\ outcome[c] = "accepted" /\ current'[c] = current[c]
    BY <1>0, <1>2, <2>4, OthersUntouched
  <2>5. ASSUME UNCHANGED vars \/ \E k \in Configurations : SaveConfiguration(k)
        PROVE  pc[c] \in {"consume", "save"} /\ outcome[c] = "accepted" /\ current'[c] = current[c]
    BY <1>2, <2>5 DEF vars, localVars, SaveConfiguration
  <2> QED BY <2>1, <2>2, <2>3, <2>4, <2>5 DEF Next, CallerStep
<1>3. ASSUME NEW c \in Callers, pc[c] = "mark", pc'[c] = "mark", current'[c] = current[c]
      PROVE  /\ accepted'[JobOf(c)'] > 0
             /\ Known(JobOf(c))'
             /\ ~Marked(JobOf(c))'
  <2>1. JobOf(c) \in Reprocesses /\ JobOf(c) \in Jobs
    BY <1>0, <1>3, CurrentType DEF PlacesConsistent, PlaceConsistent
  <2>2. PICK r \in Reprocesses : r = JobOf(c)
    BY <2>1
  <2>3. JobOf(c)' = r /\ r \in Jobs
    BY <1>3, <2>1, <2>2 DEF JobOf
  <2>4. accepted[r] > 0 /\ Known(r) /\ ~Marked(r)
    BY <1>3, <2>2 DEF MarksOwned
  <2>5. ~Marked(r)'
    <3>1. ASSUME NEW d \in Callers, MarkReprocessed(d), JobOf(d) = r PROVE FALSE
      <4>1. d = c
        BY <1>3, <2>2, <3>1 DEF MarksOwned, MarkReprocessed
      <4>2. pc'[d] = "take"
        BY <1>0, <3>1 DEF MarkReprocessed, Goto, TypeOK
      <4> QED BY <1>3, <4>1, <4>2
    <3> QED BY <2>4, <3>1, MarkedGrows
  <2>6. accepted'[r] > 0 /\ Known(r)'
    BY <2>3, <2>4, AcceptedGrows, KnownStable
  <2> QED BY <2>3, <2>5, <2>6 DEF Known, Stored, Marked
<1>4. ASSUME NEW c \in Callers, pc'[c] = "mark", pc[c] # "mark"
      PROVE  /\ Save(c) /\ current' = current /\ JobOf(c) \in Jobs
             /\ accepted'[JobOf(c)'] > 0
             /\ ~Known(JobOf(c))
             /\ Known(JobOf(c))'
             /\ ~Marked(JobOf(c))'
  <2>1. ASSUME CallerStep(c), ~Save(c) PROVE FALSE
    <3>1. CASE Notify(c) \/ ProcessRetries(c) \/ Reprocess(c)
      BY <1>0, <1>4, <3>1 DEF Notify, ProcessRetries, Reprocess, Call, Goto, TypeOK
    <3>2. CASE Reserve(c) \/ Replay(c) \/ TakeSchedule(c) \/ SkipSchedule(c)
      BY <1>0, <1>4, <3>2 DEF Reserve, Replay, TakeSchedule, SkipSchedule, Begin, Goto, TypeOK
    <3>3. CASE DispatchRaises(c) \/ Deliver(c) \/ Consume(c) \/ SaveSchedule(c) \/ SaveLetter(c)
                 \/ MarkReprocessed(c) \/ Return(c)
      BY <1>0, <1>4, <3>3 DEF DispatchRaises, Deliver, Consume, SaveSchedule, SaveLetter,
         MarkReprocessed, Return, Goto, TypeOK
    <3> QED BY <2>1, <3>1, <3>2, <3>3 DEF CallerStep, Proceed
  <2>2. \A d \in Callers : CallerStep(d) => d = c
    BY <1>0, <1>4, OthersUntouched
  <2>3. ~(UNCHANGED vars \/ \E k \in Configurations : SaveConfiguration(k))
    BY <1>4 DEF vars, SaveConfiguration
  <2>4. Save(c) /\ pc[c] = "save" /\ current' = current /\ pc'[c] = AfterSave(c) /\ events' = events
    BY <1>0, <2>1, <2>2, <2>3 DEF Next, CallerStep, Save, Goto, TypeOK, localVars
  <2>5. First(current[c]) /\ JobOf(c) \in Reprocesses /\ outcome[c] = "accepted"
    BY <1>4, <2>4, StatusType DEF Marks
  <2>6. PICK r \in Reprocesses : r = JobOf(c)
    BY <2>5
  <2>7. JobOf(c)' = r /\ r \in Jobs
    BY <2>4, <2>6 DEF JobOf, Jobs
  <2>8. r \in events /\ ~Stored(r)
    BY <1>0, <2>4, <2>5, <2>6 DEF ReservationsOwned, Owns
  <2>9. ~Marked(r)
    BY <2>8 DEF MarksOwned, Known
  <2>10. ~Marked(r)'
    BY <2>4, <2>9 DEF Save, Marked
  <2>11. Known(r)'
    BY <1>0, <2>4, <2>6, <2>8, StatesAreStored DEF Known, Stored
  <2>12. accepted'[r] > 0
    <3>1. accepted[r] > 0
      BY <2>4, <2>5, <2>6 DEF MarksOwned
    <3> QED BY <2>7, <3>1, AcceptedGrows
  <2> QED BY <2>4, <2>6, <2>7, <2>8, <2>10, <2>11, <2>12 DEF Known, Stored, Marked
<1>5. ASSUME NEW c \in Callers, pc[c] = "mark", pc'[c] = "mark" PROVE current'[c] = current[c]
  <2>1. ~CallerStep(c)
    <3>1. ~(Notify(c) \/ ProcessRetries(c) \/ Reprocess(c))
      BY <1>5 DEF Notify, ProcessRetries, Reprocess, Call
    <3>2. ~Proceed(c)
      BY <1>0, <1>5 DEF Proceed, Reserve, Replay, TakeSchedule, SkipSchedule, Begin, DispatchRaises,
         Deliver, Consume, Save, SaveSchedule, SaveLetter, MarkReprocessed, Return, Goto, TypeOK
    <3> QED BY <3>1, <3>2 DEF CallerStep
  <2>2. ASSUME NEW d \in Callers, CallerStep(d) PROVE current'[c] = current[c]
    BY <1>0, <2>1, <2>2, OthersUntouched
  <2>3. ASSUME UNCHANGED vars \/ \E k \in Configurations : SaveConfiguration(k)
        PROVE  current' = current
    BY <2>3 DEF vars, localVars, SaveConfiguration
  <2> QED BY <2>2, <2>3 DEF Next, CallerStep
<1>6. ASSUME NEW c \in Callers, NEW d \in Callers, pc'[c] = "mark", pc'[d] = "mark",
             JobOf(d)' = JobOf(c)'
      PROVE  c = d
  <2>1. CASE pc[c] = "mark" /\ pc[d] = "mark"
    <3>1. JobOf(c) = JobOf(d)
      BY <1>5, <1>6, <2>1 DEF JobOf
    <3> QED BY <2>1, <3>1 DEF MarksOwned
  <2>2. CASE pc[c] # "mark" /\ pc[d] # "mark"
    <3>1. Save(c) /\ Save(d)
      BY <1>4, <1>6, <2>2
    <3>2. CallerStep(c) /\ pc[d] = "save"
      BY <3>1 DEF CallerStep, Proceed, Save
    <3> QED BY <1>0, <1>6, <3>2, OthersUntouched
  <2>3. ASSUME NEW a \in Callers, NEW b \in Callers, pc[a] = "mark", pc[b] # "mark",
               pc'[a] = "mark", pc'[b] = "mark", JobOf(a)' = JobOf(b)'
        PROVE  FALSE
    <3>1. JobOf(a) = JobOf(b)
      BY <1>4, <1>5, <2>3 DEF JobOf
    <3>2. Known(JobOf(a))
      BY <2>3 DEF MarksOwned
    <3>3. ~Known(JobOf(b))
      BY <1>4, <2>3
    <3> QED BY <3>1, <3>2, <3>3
  <2> QED BY <1>6, <2>1, <2>2, <2>3
<1>7. ASSUME NEW c \in Callers, pc'[c] = "mark"
      PROVE  /\ accepted'[JobOf(c)'] > 0
             /\ Known(JobOf(c))'
             /\ ~Marked(JobOf(c))'
  BY <1>3, <1>4, <1>5, <1>7
<1>8. \A c \in Callers : pc'[c] \in {"consume", "save"} /\ outcome'[c] = "accepted" =>
            accepted'[JobOf(c)'] > 0
  BY <1>2
<1> QED BY <1>1, <1>6, <1>7, <1>8 DEF MarksOwned

(* The histories list each reprocess once, and only what was accepted.       *)
LEMMA HistoriesPreserved ==
    ASSUME IInv, IInv', MarksOwned, MarkedWasAccepted, [Next]_vars
    PROVE  MarkedWasAccepted'
<1> SUFFICES ASSUME NEW d \in NotificationLetters, letters'[d] # None
             PROVE  \A i \in DOMAIN letters'[d] :
                       /\ letters'[d][i].letter = d
                       /\ accepted'[letters'[d][i]] > 0
                       /\ \A k \in DOMAIN letters'[d] : letters'[d][i] = letters'[d][k] => i = k
  BY DEF MarkedWasAccepted
<1>0. TypeOK /\ d \in Deliveries
  BY DEF IInv, NotificationLetters, Deliveries, Jobs
<1>1. ASSUME letters[d] # None, NEW i \in DOMAIN letters[d]
      PROVE  /\ letters[d][i].letter = d
             /\ accepted'[letters[d][i]] > 0
             /\ \A k \in DOMAIN letters[d] : letters[d][i] = letters[d][k] => i = k
  <2>1. letters[d] \in Seq(Reprocesses)
    BY <1>0, <1>1 DEF TypeOK
  <2>2. letters[d][i] \in Jobs
    BY <1>1, <2>1 DEF Jobs
  <2>3. /\ letters[d][i].letter = d
        /\ accepted[letters[d][i]] > 0
        /\ \A k \in DOMAIN letters[d] : letters[d][i] = letters[d][k] => i = k
    BY <1>1 DEF MarkedWasAccepted
  <2> QED BY <2>2, <2>3, AcceptedGrows
<1>2. CASE letters'[d] = letters[d]
  BY <1>1, <1>2
<1>3. CASE letters'[d] = <<>>
  BY <1>3
<1>4. ASSUME NEW c \in Callers, MarkReprocessed(c), JobOf(c) \in Reprocesses,
             JobOf(c).letter = d, letters[d] # None, letters[d] \in Seq(Reprocesses),
             letters'[d] = Append(letters[d], JobOf(c))
      PROVE  \A i \in DOMAIN letters'[d] :
                /\ letters'[d][i].letter = d
                /\ accepted'[letters'[d][i]] > 0
                /\ \A k \in DOMAIN letters'[d] : letters'[d][i] = letters'[d][k] => i = k
  <2>1. PICK n \in Nat : n = Len(letters[d])
    BY <1>4
  <2>2. DOMAIN letters[d] = 1..n /\ DOMAIN letters'[d] = 1..(n + 1)
    BY <1>4, <2>1
  <2>3. letters'[d][n + 1] = JobOf(c) /\ \A i \in 1..n : letters'[d][i] = letters[d][i]
    BY <1>4, <2>1
  <2>4. accepted[JobOf(c)] > 0 /\ ~Marked(JobOf(c))
    BY <1>4 DEF MarksOwned, MarkReprocessed
  <2>5. accepted'[JobOf(c)] > 0
    BY <1>4, <2>4, AcceptedGrows DEF Jobs
  <2>6. \A i \in 1..n : letters[d][i] # JobOf(c)
    BY <1>4, <2>2, <2>4 DEF Marked
  <2>7. \A i \in 1..(n + 1) : i \in 1..n \/ i = n + 1
    BY <2>1
  <2>8. \A i \in 1..n : /\ letters[d][i].letter = d
                        /\ accepted'[letters[d][i]] > 0
                        /\ \A k \in 1..n : letters[d][i] = letters[d][k] => i = k
    BY <1>1, <1>4, <2>2
  <2>9. ASSUME NEW i \in 1..(n + 1)
        PROVE  letters'[d][i].letter = d /\ accepted'[letters'[d][i]] > 0
    BY <1>4, <2>3, <2>5, <2>7, <2>8
  <2>10. ASSUME NEW i \in 1..(n + 1), NEW k \in 1..(n + 1), letters'[d][i] = letters'[d][k]
         PROVE  i = k
    BY <2>3, <2>6, <2>7, <2>8, <2>10
  <2> QED BY <2>2, <2>9, <2>10
<1> QED BY <1>0, <1>2, <1>3, <1>4, HistoriesGrow

LEMMA FinalPreserved ==
    ASSUME IInv, IInv', FinalInv, [Next]_vars
    PROVE  FinalInv'
<1>1. HeldOnce /\ MarksOwned /\ MarkedWasAccepted
  BY DEF FinalInv
<1>2. HeldOnce' /\ MarksOwned' /\ MarkedWasAccepted'
  BY <1>1, HeldPreserved, MarksPreserved, HistoriesPreserved
<1>3. \A j \in Jobs \ raced' : Settled(j)'
  BY SettledPreserved
<1> QED BY <1>2, <1>3 DEF FinalInv

(* What was heard to be accepted is not sent again, what is sent stays sent, *)
(* and no history is replaced.                                               *)
LEMMA FinalSteps ==
    ASSUME IInv, FinalInv, [Next]_vars
    PROVE  HeardIsLast /\ SentStays /\ HistoryStays
<1>0. TypeOK /\ PlacesConsistent
  BY DEF IInv
<1>1. ASSUME NEW j \in Jobs \ raced, HasStatus(j, "sent") PROVE jobs'[j] = jobs[j]
  <2>1. \A c \in Callers : Working(c) => JobOf(c) # j
    BY <1>1 DEF FinalInv, Settled, OverRests, Over
  <2>2. ASSUME NEW c \in Callers, Save(c) PROVE jobs'[j] = jobs[j]
    BY <1>0, <2>1, <2>2, StatesAreStored DEF Save, Working
  <2>3. ASSUME NEW c \in Callers, DispatchRaises(c) PROVE jobs'[j] = jobs[j]
    BY <2>1, <2>3 DEF DispatchRaises, Working
  <2>4. ASSUME NEW c \in Callers, CallerStep(c), ~Save(c), ~DispatchRaises(c) PROVE jobs' = jobs
    BY <2>4 DEF CallerStep, Proceed, Notify, ProcessRetries, Reprocess, Reserve, Replay,
                TakeSchedule, SkipSchedule, Deliver, Consume, SaveSchedule, SaveLetter,
                MarkReprocessed, Return, storeVars
  <2>5. ASSUME UNCHANGED vars \/ \E k \in Configurations : SaveConfiguration(k) PROVE jobs' = jobs
    BY <2>5 DEF vars, storeVars, SaveConfiguration
  <2> QED BY <2>2, <2>3, <2>4, <2>5 DEF Next, CallerStep
<1>2. ASSUME NEW d \in NotificationLetters, letters[d] # None, d.job \notin raced
      PROVE  letters'[d] = letters[d] \/ \E r \in Reprocesses : letters'[d] = Append(letters[d], r)
  <2>1. d \in Deliveries /\ d.job \in Jobs
    BY DEF NotificationLetters, Deliveries, Jobs
  <2>2. ASSUME NEW c \in Callers, SaveLetter(c), current[c] = d PROVE FALSE
    <3>1. LettersRest(d.job)
      BY <1>2, <2>1 DEF FinalInv, Settled
    <3> QED BY <1>2, <2>2, <3>1 DEF LettersRest, SaveLetter, JobOf
  <2> QED BY <2>1, <2>2, HistoriesGrow
<1>3. ASSUME NEW j \in Jobs \ raced, Heard(j) PROVE accepted'[j] = accepted[j]
  <2>1. \A c \in Callers : pc[c] = "deliver" => JobOf(c) # j
    BY <1>3, WorkingAlone DEF FinalInv, Working
  <2>2. ASSUME NEW c \in Callers, Deliver(c) \/ DispatchRaises(c)
        PROVE  accepted'[j] = accepted[j]
    <3>1. pc[c] = "deliver" /\ JobOf(c) \in Jobs /\ JobOf(c) # j
      BY <1>0, <2>1, <2>2, CurrentType DEF Deliver, DispatchRaises
    <3>2. CASE Answered(JobOf(c))
      BY <1>0, <3>1, <3>2 DEF Answered, TypeOK
    <3>3. CASE Unheard(JobOf(c))
      BY <1>0, <3>1, <3>3, UnheardStays
    <3> QED BY <2>2, <3>2, <3>3 DEF Deliver, DispatchRaises
  <2>3. ASSUME NEW c \in Callers, CallerStep(c), ~Deliver(c), ~DispatchRaises(c)
        PROVE  UNCHANGED acceptances
    BY <2>3, AcceptancesRest
  <2>4. ASSUME UNCHANGED vars \/ \E k \in Configurations : SaveConfiguration(k)
        PROVE  UNCHANGED acceptances
    BY <2>4 DEF vars, observations, acceptances, SaveConfiguration
  <2> QED BY <2>2, <2>3, <2>4 DEF Next, CallerStep, acceptances
<1> QED BY <1>1, <1>2, <1>3 DEF HeardIsLast, SentStays, HistoryStays
-----------------------------------------------------------------------------
(* Theorems. *)

THEOREM Invariance == Spec => []IInv
<1>1. ASSUME IInv, [Next]_vars PROVE IInv'
  <2>1. TypeOK'
    BY <1>1, TypePreserved DEF IInv
  <2> QED
    BY <1>1, <2>1, PlacesPreserved, OwnedPreserved, SchedulesPreserved, LostPreserved DEF IInv
<1> QED
  BY <1>1, InitInductive, PTL DEF Spec

(* The stores and the local state of the calls have their types: no attempt  *)
(* beyond AttemptLimit is ever made, scheduled or recorded.                  *)
THEOREM TypeCorrect == Spec => []TypeOK
  BY Invariance, PTL DEF IInv

(* No schedule loses its job, however calls, failures and releases overlap.  *)
THEOREM SchedulesAreKnown == Spec => []SchedulesKnown
  BY Invariance, PTL DEF IInv

(* Whatever failed is scheduled again or recorded as a dead letter, or a     *)
(* running call still brings it there.                                       *)
THEOREM NothingIsLost == Spec => []NothingLost
  BY Invariance, PTL DEF IInv

(* Together: a failed delivery is kept until it is delivered or dead.        *)
THEOREM DeliveriesAreKept == Spec => []DeliveriesKept
<1>1. IInv => DeliveriesKept
  BY DEF IInv, DeliveriesKept
<1> QED BY <1>1, Invariance, PTL

(* The keys of the jobs are claimed by one call at a time and settled once.  *)
THEOREM Refinement == Spec => ImplementsClaim
<1> DEFINE claimed == [j \in Jobs |-> IF j \in reservations THEN "job" ELSE None]
           settled == [j \in Jobs |-> IF Stored(j) THEN [print |-> "job", outcome |-> "created"]
                                                   ELSE None]
<1>1. Init => Claims!Init
  BY DEF Init, Claims!Init, Stored
<1>2. ASSUME IInv, [Next]_vars
      PROVE  [Claims!Next]_<<claimed, settled>>
  <2>0. TypeOK /\ PlacesConsistent /\ ReservationsOwned
    BY <1>2 DEF IInv
  <2>1. CASE UNCHANGED <<jobs, reservations>>
    BY <2>1 DEF Stored
  <2>2. ASSUME NEW c \in Callers, Reserve(c) PROVE Claims!Next
    <3>1. PICK w \in todo[c] : /\ ~Stored(w.job) /\ w.job \notin reservations
                               /\ reservations' = reservations \cup {w.job}
      BY <2>2 DEF Reserve
    <3>2. w.job \in Jobs
      BY <2>0, DeliveryType DEF TypeOK
    <3>3. claimed' = [claimed EXCEPT ![w.job] = "job"]
      BY <3>1, <3>2
    <3>4. settled' = settled
      BY <2>2 DEF Reserve, Stored
    <3>5. claimed[w.job] = None /\ settled[w.job] = None
      BY <3>1, <3>2
    <3>6. Claims!Claim(w.job)
      BY <3>3, <3>4, <3>5 DEF Claims!Claim
    <3> QED
      BY <3>2, <3>6 DEF Claims!Next
  <2>3. ASSUME NEW c \in Callers, Save(c) PROVE Claims!Next \/ UNCHANGED <<claimed, settled>>
    <3>0. PICK j \in Jobs : j = JobOf(c)
      BY <2>0, <2>3, CurrentType DEF Save
    <3>1. reservations' = reservations \ {j}
      BY <2>3, <3>0 DEF Save, ReservationPopped
    <3>2. jobs'[j] # None /\ \A k \in Jobs \ {j} : jobs'[k] = jobs[k]
      BY <2>0, <2>3, <3>0, StatesAreStored
    <3>3. settled' = [settled EXCEPT ![j] = [print |-> "job", outcome |-> "created"]]
      BY <3>1, <3>2 DEF Stored
    <3>4. claimed' = [claimed EXCEPT ![j] = None]
      BY <3>1
    <3>5. CASE First(current[c])
      <4>1. claimed[j] = "job"
        BY <2>0, <2>3, <3>0, <3>5 DEF ReservationsOwned, Owns, Save
      <4>2. Claims!Settle(j)
        BY <3>3, <3>4, <4>1, NoneAssumption DEF Claims!Settle
      <4> QED
        BY <4>2 DEF Claims!Next
    <3>6. CASE ~First(current[c])
      <4>1. Stored(j) /\ j \notin reservations
        BY <1>2, <2>0, <2>3, <3>0, <3>6, ReservationGivenUp
           DEF Save, PlacesConsistent, PlaceConsistent, Known
      <4>2. \A k \in Jobs : Stored(k)' <=> Stored(k)
        BY <3>2, <4>1 DEF Stored
      <4>3. claimed' = claimed
        BY <3>1, <4>1
      <4> QED BY <4>2, <4>3 DEF Stored
    <3> QED BY <3>5, <3>6
  <2>4. ASSUME NEW c \in Callers, DispatchRaises(c)
        PROVE  Claims!Next \/ UNCHANGED <<claimed, settled>>
    <3>1. PICK j \in Jobs : j = JobOf(c)
      BY <2>0, <2>4, CurrentType DEF DispatchRaises
    <3>2. CASE First(current[c])
      <4>1. j \in reservations /\ ~Stored(j)
        BY <2>0, <2>4, <3>1, <3>2 DEF ReservationsOwned, Owns, DispatchRaises
      <4>2. reservations' = reservations \ {j} /\ jobs' = [k \in Jobs |-> IF k = j THEN None ELSE jobs[k]]
        BY <2>4, <3>1, <3>2 DEF DispatchRaises, Releases
      <4>3. claimed[j] # None /\ claimed' = [claimed EXCEPT ![j] = None]
        BY <4>1, <4>2, NoneAssumption
      <4>4. \A k \in Jobs : Stored(k)' <=> Stored(k)
        BY <4>1, <4>2 DEF Stored
      <4>5. Claims!Abandon(j)
        BY <4>3, <4>4 DEF Claims!Abandon, Stored
      <4> QED
        BY <4>5 DEF Claims!Next
    <3>3. CASE ~First(current[c])
      <4>1. reservations' = reservations /\ \A k \in Jobs : jobs'[k] = jobs[k]
        BY <2>4, <3>3 DEF DispatchRaises, Releases
      <4> QED BY <4>1 DEF Stored
    <3> QED BY <3>2, <3>3
  <2>5. ASSUME NEW c \in Callers, CallerStep(c), ~Reserve(c), ~Save(c), ~DispatchRaises(c)
        PROVE  UNCHANGED <<jobs, reservations>>
    BY <2>5 DEF CallerStep, Proceed, Notify, ProcessRetries, Reprocess, Replay, TakeSchedule,
                SkipSchedule, Deliver, Consume, SaveSchedule, SaveLetter, MarkReprocessed, Return,
                storeVars
  <2>6. ASSUME UNCHANGED vars \/ \E k \in Configurations : SaveConfiguration(k)
        PROVE  UNCHANGED <<jobs, reservations>>
    BY <2>6 DEF vars, storeVars, SaveConfiguration
  <2> QED
    BY <1>2, <2>1, <2>2, <2>3, <2>4, <2>5, <2>6 DEF Next, CallerStep
<1> QED
  BY <1>1, <1>2, Invariance, PTL DEF Spec, ImplementsClaim, Claims!Spec

THEOREM FinalInvariance == Spec => []FinalInv
<1>1. IInv /\ IInv' /\ FinalInv /\ [Next]_vars => FinalInv'
  BY FinalPreserved
<1> QED
  BY <1>1, InitFinal, Invariance, PTL DEF Spec

(* The receiver accepts a job again only after an acceptance whose answer    *)
(* was lost, whatever calls, retries and failing dispatches overlap, unless  *)
(* two calls had one schedule of it.                                         *)
THEOREM AcceptedAgainOnlyIfLost == Spec => []AcceptedOnce
<1>1. FinalInv => AcceptedOnce
  BY DEF FinalInv, Settled, AcceptedOnce
<1> QED BY <1>1, FinalInvariance, PTL

(* The history of a dead letter lists a reprocess once, and only if it was   *)
(* accepted, also of a job that two calls retried.                           *)
THEOREM MarksWereAccepted == Spec => []MarkedWasAccepted
<1>1. FinalInv => MarkedWasAccepted
  BY DEF FinalInv
<1> QED BY <1>1, FinalInvariance, PTL

(* No step takes back that a job was sent or that a letter was reprocessed,  *)
(* or sends again what the receiver was heard to accept.                     *)
THEOREM DeliveriesAreFinal == Spec => DeliveriesFinal
<1>1. IInv /\ FinalInv /\ [Next]_vars => [HeardIsLast /\ SentStays /\ HistoryStays]_vars
  BY FinalSteps
<1> QED
  BY <1>1, Invariance, FinalInvariance, PTL DEF Spec, DeliveriesFinal
=============================================================================
