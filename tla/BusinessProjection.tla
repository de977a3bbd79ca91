--------------------------- MODULE BusinessProjection ---------------------------
(***************************************************************************)
(* The read model of services/reporting-insights: record_event and         *)
(* list_tenant_snapshots of application/service.py over the in-memory      *)
(* repository.  apply_once works under the repository's lock, but hands    *)
(* out the live projection, which is copied field by field after the lock  *)
(* is released; list_by_tenant does the same with all of a tenant's.       *)
(*                                                                         *)
(* A counter is kept as how often it has counted each event.  The fields   *)
(* of a projection are written, and copied, in the order of Stages.        *)
(***************************************************************************)
EXTENDS Naturals, Sequences

CONSTANTS
    Callers,      \* threads that call the service
    Events,       \* business events
    Projections,  \* keys of projections: tenant, product, period, channel
    Keys,         \* deduplication keys
    Tenants,
    TenantOf,     \* the tenant of an event
    SlotOf,       \* the projection an event belongs to
    KeysOf,       \* deduplication_keys of an event, in their order
    OccurredAt,   \* when an event occurred
    Clock,        \* what the clock may say when an event is processed
    MaxCalls,     \* bound on the calls made
    None          \* absence of a value

(* What the constants are in every instance *)
ConstantsAssumption ==
    /\ TenantOf \in [Events -> Tenants]
    /\ SlotOf \in [Events -> Projections]
    /\ \A e, f \in Events : SlotOf[e] = SlotOf[f] => TenantOf[e] = TenantOf[f]
    /\ KeysOf \in [Events -> Seq(Keys)]
    /\ \A e \in Events : KeysOf[e] # <<>>
    /\ OccurredAt \in [Events -> Nat]
    /\ Clock \subseteq Nat
    /\ MaxCalls \in Nat
    /\ None \notin Callers \cup Events \cup Nat

(* Counters by status; sums of costs, errors and latencies; the number of    *)
(* latencies; the last event time; the last processing time.                 *)
Stages == <<"statuses", "sums", "latencies", "eventTime", "processedAt">>

Counters == {"statuses", "sums", "latencies"}

StageNames == Counters \cup {"eventTime", "processedAt"}

NoEvents == [e \in Events |-> 0]

Empty == [s \in StageNames |-> IF s \in Counters THEN NoEvents ELSE None]

VARIABLES
    fields,      \* _projections
    records,     \* _processed_event_records: the event a key was recorded for
    lock,        \* _lock of the repository
    pc,          \* where every caller is in its call
    event,       \* the event it records
    at,          \* its processed_at
    todo,        \* the projections it has still to copy
    stage,       \* the next field it writes or copies
    seen,        \* the copies it has made
    created,     \* the projections, in the order of their creation
    overlapped,  \* callers that copied a projection while it was written
    calls        \* how many calls were made

store == <<fields, records, created>>
locals == <<event, at, todo, stage, seen, overlapped>>
vars == <<store, lock, pc, locals, calls>>

TypeOK ==
    /\ \A p \in Projections, s \in StageNames :
        fields[p][s] \in IF s \in Counters THEN [Events -> Nat] ELSE Nat \cup {None}
    /\ records \in [Keys -> Events \cup {None}]
    /\ lock \in Callers \cup {None}
    /\ pc \in [Callers -> {"idle", "enter", "apply", "list", "copy", "answered"}]
    /\ event \in [Callers -> Events \cup {None}]
    /\ at \in [Callers -> Nat]
    /\ todo \in [Callers -> SUBSET Projections]
    /\ stage \in [Callers -> 1..Len(Stages)]
    /\ \A c \in Callers : \A p \in DOMAIN seen[c] :
        /\ DOMAIN seen[c][p] \subseteq StageNames
        /\ pc[c] = "answered" => DOMAIN seen[c][p] = StageNames
    /\ created \in Seq(Projections)
    /\ overlapped \subseteq Callers
    /\ calls \in 0..MaxCalls

Init ==
    /\ fields = [p \in Projections |-> Empty]
    /\ records = [k \in Keys |-> None]
    /\ lock = None
    /\ pc = [c \in Callers |-> "idle"]
    /\ event = [c \in Callers |-> None]
    /\ at = [c \in Callers |-> 0]
    /\ todo = [c \in Callers |-> {}]
    /\ stage = [c \in Callers |-> 1]
    /\ seen = [c \in Callers |-> <<>>]
    /\ created = <<>>
    /\ overlapped = {}
    /\ calls = 0

-----------------------------------------------------------------------------
Goto(c, step) == pc' = [pc EXCEPT ![c] = step]

(* _safe_processed_at: never before the event *)
ProcessedAt(e, now) == IF now < OccurredAt[e] THEN OccurredAt[e] ELSE now

Begins ==
    /\ calls < MaxCalls
    /\ calls' = calls + 1

Record(c) ==
    /\ pc[c] = "idle" /\ Begins
    /\ \E e \in Events, now \in Clock :
        /\ event' = [event EXCEPT ![c] = e]
        /\ at' = [at EXCEPT ![c] = ProcessedAt(e, now)]
    /\ Goto(c, "enter")
    /\ UNCHANGED <<store, lock, todo, stage, seen, overlapped>>

KeySet(e) == {KeysOf[e][i] : i \in DOMAIN KeysOf[e]}

Recorded(e) == {i \in DOMAIN KeysOf[e] : records[KeysOf[e][i]] # None}

(* _duplicate_projection asks for the first key that has a record. *)
FirstRecorded(e) ==
    records[KeysOf[e][CHOOSE i \in Recorded(e) : \A j \in Recorded(e) : i <= j]]

(* business_event_deduplication_tenant_conflict *)
Conflicts(e) == Recorded(e) # {} /\ TenantOf[FirstRecorded(e)] # TenantOf[e]

(* The answer to a duplicate is the projection that counted the first one. *)
DuplicateSlot(e) == SlotOf[FirstRecorded(e)]

(* snapshot of the projections, from the first field of the first *)
Copy(c, slots) ==
    /\ todo' = [todo EXCEPT ![c] = slots]
    /\ stage' = [stage EXCEPT ![c] = 1]
    /\ Goto(c, "copy")

Back(c) ==
    /\ Goto(c, "idle")
    /\ event' = [event EXCEPT ![c] = None]
    /\ at' = [at EXCEPT ![c] = 0]
    /\ todo' = [todo EXCEPT ![c] = {}]
    /\ stage' = [stage EXCEPT ![c] = 1]
    /\ seen' = [seen EXCEPT ![c] = <<>>]
    /\ overlapped' = overlapped \ {c}

AddIfNew(list, p) == IF \E i \in DOMAIN list : list[i] = p THEN list ELSE Append(list, p)

(* apply_once: refuse, answer with the duplicate, or start to apply. *)
Enter(c) ==
    /\ pc[c] = "enter" /\ lock = None
    /\ LET e == event[c] IN
       IF Conflicts(e) THEN Back(c) /\ UNCHANGED <<store, lock>>
       ELSE IF Recorded(e) # {}
       THEN Copy(c, {DuplicateSlot(e)})
            /\ UNCHANGED <<store, lock, event, at, seen, overlapped>>
       ELSE /\ lock' = c
            /\ created' = AddIfNew(created, SlotOf[e])
            /\ Goto(c, "apply")
            /\ UNCHANGED <<fields, records, locals>>
    /\ UNCHANGED calls

LaterOf(time, candidate) == IF time = None \/ time < candidate THEN candidate ELSE time

Count(c, s, old) == [old EXCEPT ![event[c]] = @ + 1]

(* apply, one field after the other *)
Applied(c, s, old) ==
    CASE s \in Counters -> Count(c, s, old)
      [] s = "eventTime" -> LaterOf(old, OccurredAt[event[c]])
      [] s = "processedAt" -> LaterOf(old, at[c])

IsLast(c) == stage[c] = Len(Stages)

(* The copies are made in the order in which the projections were created.   *)
FirstCreated(slots, p) ==
    \E i \in DOMAIN created :
        created[i] = p /\ p \in slots /\ \A j \in 1..(i - 1) : created[j] \notin slots

Copying(c, p) == pc[c] = "copy" /\ FirstCreated(todo[c], p)

Applying(c, p) == pc[c] = "apply" /\ SlotOf[event[c]] = p

OnlyEventKey(e) == {KeysOf[e][1]}

RecordedKeys(e) == KeySet(e)

Apply(c) ==
    /\ pc[c] = "apply"
    /\ LET e == event[c]
           p == SlotOf[e]
           s == Stages[stage[c]]
       IN /\ fields' = [fields EXCEPT ![p][s] = Applied(c, s, @)]
          /\ overlapped' = overlapped \cup {d \in Callers : Copying(d, p)}
          /\ IF IsLast(c)
             THEN /\ records' = [k \in Keys |-> IF k \in RecordedKeys(e) THEN e ELSE records[k]]
                  /\ lock' = None
                  /\ Copy(c, {p})
             ELSE /\ stage' = [stage EXCEPT ![c] = @ + 1]
                  /\ UNCHANGED <<records, lock, todo, pc>>
    /\ UNCHANGED <<created, event, at, seen, calls>>

(* list_tenant_snapshots: the projections of a tenant are listed under the *)
(* lock.  An empty list raises.                                            *)
TenantSlots(t) ==
    {p \in Projections :
        /\ \E i \in DOMAIN created : created[i] = p
        /\ \E e \in Events : SlotOf[e] = p /\ TenantOf[e] = t}

List(c) ==
    /\ pc[c] = "idle" /\ Begins
    /\ lock = None
    /\ \E t \in Tenants :
        IF TenantSlots(t) = {}
        THEN UNCHANGED <<pc, todo, stage>>
        ELSE Copy(c, TenantSlots(t))
    /\ UNCHANGED <<store, lock, event, at, seen, overlapped>>

Kept(map, key, value) == [k \in DOMAIN map \cup {key} |-> IF k = key THEN value ELSE map[k]]

Fields(c, p) == IF p \in DOMAIN seen[c] THEN seen[c][p] ELSE <<>>

(* snapshot, one field after the other, without the lock *)
See(c) ==
    /\ \E p \in todo[c] :
        /\ Copying(c, p)
        /\ LET s == Stages[stage[c]] IN
           seen' = [seen EXCEPT ![c] = Kept(@, p, Kept(Fields(c, p), s, fields[p][s]))]
        /\ overlapped' = overlapped \cup {d \in {c} : \E a \in Callers : Applying(a, p)}
        /\ IF ~IsLast(c)
           THEN stage' = [stage EXCEPT ![c] = @ + 1] /\ UNCHANGED <<todo, pc>>
           ELSE /\ stage' = [stage EXCEPT ![c] = 1]
                /\ todo' = [todo EXCEPT ![c] = @ \ {p}]
                /\ IF todo[c] = {p} THEN Goto(c, "answered") ELSE UNCHANGED pc
    /\ UNCHANGED <<store, lock, event, at, calls>>

Return(c) ==
    /\ pc[c] = "answered"
    /\ Back(c)
    /\ UNCHANGED <<store, lock, calls>>

Next ==
    \E c \in Callers :
        Record(c) \/ Enter(c) \/ Apply(c) \/ List(c) \/ See(c) \/ Return(c)

Spec == Init /\ [][Next]_vars

-----------------------------------------------------------------------------
Counted(p) == {e \in Events : fields[p]["statuses"][e] > 0}

Consistent(projection) ==
    /\ \A s \in Counters : projection[s] = projection["statuses"]
    /\ \A e \in Events : projection["statuses"][e] <= 1

(* Whenever no event is being applied, every counter of a projection counts   *)
(* the same events, each once, of this projection alone, and no two events    *)
(* with a deduplication key in common are counted anywhere.                   *)
CountedOnce ==
    lock = None =>
        /\ \A p \in Projections : Consistent(fields[p]) /\ \A e \in Counted(p) : SlotOf[e] = p
        /\ \A p, q \in Projections : \A e \in Counted(p), f \in Counted(q) :
            e # f => KeySet(e) \cap KeySet(f) = {}

(* A projection that counted events was last processed no earlier than the    *)
(* latest of them occurred, so that its lag is that of some of its events.    *)
ProcessedAfterEvents ==
    lock = None =>
        \A p \in Projections : \A e \in Counted(p) :
            /\ fields[p]["eventTime"] >= OccurredAt[e]
            /\ fields[p]["processedAt"] >= fields[p]["eventTime"]

Answered(c) == pc[c] = "answered"

(* The answer to an event, new or a duplicate, already counts it or an event  *)
(* it repeats, in every counter.                                              *)
AnswersCountEvent ==
    \A c \in Callers : Answered(c) /\ event[c] # None =>
        \A p \in DOMAIN seen[c] : \A s \in Counters :
            \E e \in Events : KeySet(e) \cap KeySet(event[c]) # {} /\ seen[c][p][s][e] > 0

(* No tenant is answered with a projection of another one.                    *)
AnswersOwnTenant ==
    \A c \in Callers : Answered(c) /\ event[c] # None =>
        \A p \in DOMAIN seen[c] : \E e \in Events :
            SlotOf[e] = p /\ TenantOf[e] = TenantOf[event[c]]

(* A snapshot that was copied while nothing was applied to its projection     *)
(* agrees with itself: its counters count the same events, and it was         *)
(* processed after they occurred.                                             *)
QuietSnapshotsAgree ==
    \A c \in Callers \ overlapped : Answered(c) =>
        \A p \in DOMAIN seen[c] : LET copy == seen[c][p] IN
            Consistent(copy) /\
            (copy["eventTime"] # None => copy["processedAt"] >= copy["eventTime"])

-----------------------------------------------------------------------------
(* An invariant that every step preserves, and that the properties follow     *)
(* from.                                                                      *)

(* The fields of its projection that a caller has written, or copied          *)
Passed(c) == {Stages[i] : i \in 1..(stage[c] - 1)}

IsRecorded(e) == \A k \in KeySet(e) : records[k] = e

(* An event is counted when it is recorded, and while it is applied in the    *)
(* fields that are already written.                                           *)
Counts(e, s) ==
    \/ IsRecorded(e)
    \/ \E c \in Callers : pc[c] = "apply" /\ event[c] = e /\ s \in Passed(c)

CountersFollow ==
    \A p \in Projections, s \in Counters, e \in Events :
        fields[p][s][e] = IF SlotOf[e] = p /\ Counts(e, s) THEN 1 ELSE 0

IsCreated(p) == \E i \in DOMAIN created : created[i] = p

RecordsFollow ==
    \A k \in Keys : records[k] # None =>
        /\ k \in KeySet(records[k]) /\ IsRecorded(records[k])
        /\ IsCreated(SlotOf[records[k]])

InTime(projection) ==
    projection["eventTime"] # None =>
        projection["processedAt"] # None /\ projection["processedAt"] >= projection["eventTime"]

(* Between its two times a projection may be behind, by what is applied.      *)
TimesFollow ==
    \A p \in Projections :
        /\ \A e \in Events : SlotOf[e] = p /\ Counts(e, "eventTime") =>
               fields[p]["eventTime"] # None /\ fields[p]["eventTime"] >= OccurredAt[e]
        /\ \/ InTime(fields[p])
           \/ \E c \in Callers : /\ Applying(c, p) /\ "eventTime" \in Passed(c)
                                 /\ fields[p]["eventTime"] <= at[c]

(* The lock is of the caller that applies an event, which nothing has counted. *)
CallSound(c) ==
    /\ pc[c] = "apply" <=> lock = c
    /\ pc[c] = "idle" => event[c] = None
    /\ pc[c] \in {"enter", "apply"} => event[c] \in Events /\ at[c] >= OccurredAt[event[c]]
    /\ pc[c] = "apply" =>
           IsCreated(SlotOf[event[c]]) /\ \A k \in KeySet(event[c]) : records[k] = None
    /\ pc[c] \notin {"apply", "copy"} => stage[c] = 1
    /\ pc[c] = "copy" <=> todo[c] # {}
    /\ \A p \in todo[c] : IsCreated(p)

(* A copy is complete, or it is the one that is made.                         *)
CopiesSound(c) ==
    /\ pc[c] \notin {"copy", "answered"} => DOMAIN seen[c] = {}
    /\ \A p \in DOMAIN seen[c] :
        /\ p \in Projections
        /\ p \in todo[c] => Copying(c, p) /\ stage[c] > 1 /\ DOMAIN seen[c][p] = Passed(c)
        /\ p \notin todo[c] => DOMAIN seen[c][p] = StageNames
    /\ \A p \in todo[c] : Copying(c, p) /\ stage[c] > 1 => p \in DOMAIN seen[c]

(* What answers an event: one that is recorded and shares a key with it       *)
Answers(c, e) ==
    /\ KeySet(e) \cap KeySet(event[c]) # {}
    /\ TenantOf[e] = TenantOf[event[c]]
    /\ IsRecorded(e)
    /\ todo[c] \cup DOMAIN seen[c] \subseteq {SlotOf[e]}
    /\ \A p \in DOMAIN seen[c] : \A s \in Counters \cap DOMAIN seen[c][p] : seen[c][p][s][e] > 0

EventAnswered(c) ==
    pc[c] \in {"copy", "answered"} /\ event[c] # None => \E e \in Events : Answers(c, e)

(* What is copied undisturbed is as it was at the instant the copy is complete. *)
QuietlyCopied(c) ==
    c \notin overlapped =>
        \A p \in DOMAIN seen[c] :
            IF p \in todo[c]
            THEN \A s \in DOMAIN seen[c][p] : seen[c][p][s] = fields[p][s]
            ELSE Consistent(seen[c][p]) /\ InTime(seen[c][p])

(* Functions with their domains, which the parts above take for granted       *)
Shapes ==
    /\ DOMAIN fields = Projections
    /\ \A p \in Projections : DOMAIN fields[p] = StageNames
    /\ DOMAIN seen = Callers

IInv ==
    /\ TypeOK /\ Shapes
    /\ CountersFollow /\ RecordsFollow /\ TimesFollow
    /\ \A c \in Callers :
        CallSound(c) /\ CopiesSound(c) /\ EventAnswered(c) /\ QuietlyCopied(c)
=============================================================================
