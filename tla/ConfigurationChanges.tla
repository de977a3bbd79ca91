-------------------------- MODULE ConfigurationChanges --------------------------
(***************************************************************************)
(* Changes of the configurations of services/integration, of integration   *)
(* classes and of webhooks: configure_integration_class, configure_webhook *)
(* and disable_webhook_configuration of application/service.py.  All three *)
(* read the configuration, save another, publish its audit, and put back   *)
(* what they read if that raises; the ones of webhooks also remember their *)
(* idempotency key.                                                        *)
(*                                                                         *)
(* A step is one access to a repository, to the idempotency records or to  *)
(* the audit publisher: no lock is held between them.                      *)
(***************************************************************************)
EXTENDS Naturals, FiniteSets

CONSTANTS
    Callers,   \* threads that call the service
    Ids,       \* configuration ids, of tenant and product or endpoint
    Webhooks,  \* those that are configurations of webhooks
    Settings,  \* what a configuration says besides its status
    Keys,      \* idempotency keys
    MaxCalls,  \* bound on the calls made
    None       \* absence of a value

Configurations == [active : BOOLEAN, settings : Settings]

Kinds == {"configure", "disable"}

(* The fingerprint of a request is what it asks for. *)
Requests == [kind : Kinds, id : Ids, wanted : Configurations \cup {None}]

(* What the constants are in every instance *)
ConstantsAssumption ==
    /\ Webhooks \subseteq Ids
    /\ MaxCalls \in Nat
    /\ None \notin Ids \cup Keys
    /\ None \notin Configurations \cup Requests

(* A key is used per operation. *)
Records == [Kinds \X Keys -> Requests \cup {None}]

VARIABLES
    configs,   \* the repositories of configurations
    records,   \* the idempotency records of webhooks
    pc,        \* where every caller is in its call
    request,   \* what its call asks for
    key,       \* under which key
    previous,  \* the configuration it has read
    accepted,  \* the configuration of the last call that was accepted
    mixed,     \* the ids that two calls were changing at the same time
    shared,    \* the keys that two calls were using at the same time
    calls      \* how many calls were made

stores == <<configs, records>>
localVars == <<request, key, previous>>
ghosts == <<accepted, mixed, shared>>
vars == <<stores, pc, localVars, ghosts, calls>>

Steps == {"idle", "read", "save", "audit", "undo", "record"}

TypeOK ==
    /\ configs \in [Ids -> Configurations \cup {None}]
    /\ records \in Records
    /\ pc \in [Callers -> Steps]
    /\ request \in [Callers -> Requests \cup {None}]
    /\ key \in [Callers -> Keys \cup {None}]
    /\ previous \in [Callers -> Configurations \cup {None}]
    /\ accepted \in [Ids -> Configurations \cup {None}]
    /\ mixed \subseteq Ids
    /\ shared \subseteq Kinds \X Keys
    /\ calls \in 0..MaxCalls
    /\ \A c \in Callers : pc[c] # "idle" => request[c] # None /\
            (key[c] # None <=> request[c].id \in Webhooks)

Init ==
    /\ configs = [i \in Ids |-> None]
    /\ records = [k \in Kinds \X Keys |-> None]
    /\ pc = [c \in Callers |-> "idle"]
    /\ request = [c \in Callers |-> None]
    /\ key = [c \in Callers |-> None]
    /\ previous = [c \in Callers |-> None]
    /\ accepted = [i \in Ids |-> None]
    /\ mixed = {}
    /\ shared = {}
    /\ calls = 0

-----------------------------------------------------------------------------
Goto(c, step) == pc' = [pc EXCEPT ![c] = step]

(* The call ends with its answer. *)
Done(c) ==
    /\ Goto(c, "idle")
    /\ request' = [request EXCEPT ![c] = None]
    /\ key' = [key EXCEPT ![c] = None]
    /\ previous' = [previous EXCEPT ![c] = None]

Active == {c \in Callers : pc[c] # "idle"}

Slot(c) == <<request[c].kind, key[c]>>

(* The call goes on with its request; it may meet others. *)
Enter(c, r, k) ==
    /\ request' = [request EXCEPT ![c] = r]
    /\ key' = [key EXCEPT ![c] = k]
    /\ mixed' = IF \E d \in Active : request[d].id = r.id THEN mixed \cup {r.id} ELSE mixed
    /\ shared' = IF k # None /\ \E d \in Active : Slot(d) = <<r.kind, k>>
                 THEN shared \cup {<<r.kind, k>>} ELSE shared
    /\ Goto(c, "read")

(* _webhook_idempotent_replay: the key was used, for this request or another. *)
Replays(r, k) == k # None /\ records[<<r.kind, k>>] # None

Calls(c, r, k) ==
    /\ pc[c] = "idle"
    /\ calls < MaxCalls
    /\ calls' = calls + 1
    /\ IF Replays(r, k)
       THEN UNCHANGED <<request, key, mixed, shared, pc>>
       ELSE Enter(c, r, k)
    /\ UNCHANGED <<stores, previous, accepted>>

(* configure_integration_class and configure_webhook, up to their lookup of *)
(* the idempotency record, which a webhook has.                             *)
Configure(c) ==
    \E i \in Ids, wanted \in Configurations, k \in Keys \cup {None} :
        /\ k # None <=> i \in Webhooks
        /\ Calls(c, [kind |-> "configure", id |-> i, wanted |-> wanted], k)

(* disable_webhook_configuration, likewise *)
Disable(c) ==
    \E i \in Webhooks, k \in Keys :
        Calls(c, [kind |-> "disable", id |-> i, wanted |-> None], k)

(* get of the repository; there has to be something to disable. *)
Read(c) ==
    /\ pc[c] = "read"
    /\ LET found == configs[request[c].id] IN
       IF request[c].kind = "disable" /\ found = None
       THEN Done(c)
       ELSE /\ previous' = [previous EXCEPT ![c] = found]
            /\ Goto(c, "save")
            /\ UNCHANGED <<request, key>>
    /\ UNCHANGED <<stores, ghosts, calls>>

(* create of the configuration, or disable of the one that was read *)
Wanted(c) ==
    IF request[c].kind = "configure"
    THEN request[c].wanted
    ELSE [previous[c] EXCEPT !.active = FALSE]

(* save of the repository: visible before it is audited *)
Save(c) ==
    /\ pc[c] = "save"
    /\ configs' = [configs EXCEPT ![request[c].id] = Wanted(c)]
    /\ Goto(c, "audit")
    /\ UNCHANGED <<records, localVars, ghosts, calls>>

Accept(c) == accepted' = [accepted EXCEPT ![request[c].id] = Wanted(c)]

(* Without a key the call is over when its audit is published. *)
Audit(c) ==
    /\ pc[c] = "audit"
    /\ \/ /\ Accept(c)
          /\ IF key[c] = None
             THEN Done(c)
             ELSE Goto(c, "record") /\ UNCHANGED localVars
       \/ Goto(c, "undo") /\ UNCHANGED <<accepted, localVars>>
    /\ UNCHANGED <<stores, mixed, shared, calls>>

UndoByDelete(c) == configs' = [configs EXCEPT ![request[c].id] = None]

(* delete if nothing was read, otherwise save of what was read *)
Compensate(c) == configs' = [configs EXCEPT ![request[c].id] = previous[c]]

Undo(c) ==
    /\ pc[c] = "undo"
    /\ Compensate(c)
    /\ Done(c)
    /\ UNCHANGED <<records, ghosts, calls>>

RecordUnder(c, slot) == records' = [records EXCEPT ![slot] = request[c]]

(* _webhook_idempotency_record_key *)
RecordSlot(c) == <<request[c].kind, key[c]>>

Record(c) ==
    /\ pc[c] = "record"
    /\ RecordUnder(c, RecordSlot(c))
    /\ Done(c)
    /\ UNCHANGED <<configs, ghosts, calls>>

-----------------------------------------------------------------------------
Proceed(c) == Read(c) \/ Save(c) \/ Audit(c) \/ Undo(c) \/ Record(c)

Next == \E c \in Callers : Configure(c) \/ Disable(c) \/ Proceed(c)

Spec == Init /\ [][Next]_vars

-----------------------------------------------------------------------------
Quiet(i) == \A c \in Callers : pc[c] # "idle" => request[c].id # i

(* Where calls for a configuration follow each other, what is visible between *)
(* them is what the last accepted call asked for: a failing audit takes back  *)
(* its own change and nothing else, and no accepted disable is undone.        *)
AcceptedIsVisible ==
    \A i \in Ids \ mixed : Quiet(i) => configs[i] = accepted[i]

(* Where calls for it follow each other, a configuration that a key answers   *)
(* with is there: its replay is never unavailable.                            *)
ReplaysAvailable ==
    \A k \in Kinds \X Keys :
        records[k] # None /\ records[k].id \notin mixed => configs[records[k].id] # None

(* A key that no two calls use at the same time answers for one request.      *)
KeysStayBound ==
    \A k \in (Kinds \X Keys) \ shared' : records[k] # None => records'[k] = records[k]

-----------------------------------------------------------------------------
(* What makes these properties inductive. *)

(* Two calls for one configuration, or under one key, have met. *)
CallsMeet ==
    \A c, d \in Active : c # d =>
        /\ request[c].id = request[d].id => request[c].id \in mixed
        /\ key[c] # None /\ Slot(c) = Slot(d) => Slot(c) \in shared

(* There is something to save. *)
WantedIsKnown ==
    \A c \in Active :
        /\ request[c].kind = "configure" => request[c].wanted # None
        /\ request[c].kind = "disable" /\ pc[c] # "read" => previous[c] # None

(* What a call that meets no other knows of its configuration: it is as last *)
(* accepted until it is saved, and what was read is what was accepted.       *)
Alone(c) ==
    LET i == request[c].id IN
    /\ pc[c] \in {"read", "save", "record"} => configs[i] = accepted[i]
    /\ pc[c] \in {"save", "audit", "undo"} => accepted[i] = previous[c]
    /\ pc[c] = "audit" => configs[i] = Wanted(c)
    /\ pc[c] = "record" => configs[i] # None

LonersKnow == \A c \in Active : request[c].id \notin mixed => Alone(c)

(* Its key has no record yet. *)
KeysAreFree == \A c \in Active : key[c] # None /\ Slot(c) \notin shared => records[Slot(c)] = None

(* What a record answers with was accepted. *)
RecordsAccepted ==
    \A k \in Kinds \X Keys :
        records[k] # None /\ records[k].id \notin mixed => accepted[records[k].id] # None

IInv ==
    /\ TypeOK
    /\ CallsMeet
    /\ WantedIsKnown
    /\ LonersKnow
    /\ KeysAreFree
    /\ RecordsAccepted
    /\ AcceptedIsVisible
    /\ ReplaysAvailable
=============================================================================
