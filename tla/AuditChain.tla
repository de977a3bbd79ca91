------------------------------ MODULE AuditChain ------------------------------
(***************************************************************************)
(* The evidence of services/audit-evidence: the chain of audit events, the *)
(* integrity checkpoints over windows of it and their exports to WORM      *)
(* storage, under concurrent calls of application/service.py.              *)
(*                                                                         *)
(* A step is one critical section of a store of adapters/persistence.  One *)
(* tenant is modelled: every key starts with tenant_id.  A digest stands   *)
(* for what is hashed, so equal digests mean equal contents.               *)
(***************************************************************************)
EXTENDS Naturals, Sequences, FiniteSets

CONSTANTS
    Callers,    \* threads that call the service
    EventIds,   \* event ids of the producers
    Instants,   \* what occurred_at may be
    Windows,    \* [from, to] windows that are checkpointed and verified
    Requests,   \* exports asked for: [window, key, retain, terms]
    Faults,     \* what may raise
    MaxEvents,  \* bound on the length of the chain
    MaxTime,    \* bound on the clock
    None        \* absence of a value

AllFaults == {"storage_raises", "answer_lost", "records_raise"}

ASSUME ConstantsAssumption ==
    /\ Instants \subseteq Nat
    /\ Windows \subseteq [from : Nat, to : Nat]
    /\ \A r \in Requests : r.window \in Windows /\ r.retain \in Nat
    /\ \A r, q \in Requests : r.key = q.key => r.window = q.window
    /\ Faults \subseteq AllFaults
    /\ MaxEvents \in Nat
    /\ MaxTime \in Nat
    /\ EventIds \cap Nat = {}

VARIABLES
    now,         \* the clock
    chain,       \* the tenant's events in the order they were appended
    checkpoints, \* the stored checkpoints
    objects,     \* the objects of the WORM storage
    exports,     \* the records of exports
    pc,          \* where every caller is in its call
    held,        \* the checkpoint its call works on
    request,     \* the export its call was asked for
    verdict      \* outcome its call still has to put on the chain

stores == <<checkpoints, objects, exports>>
localVars == <<held, request, verdict>>
vars == <<now, chain, stores, pc, localVars>>

Steps == {"idle", "checkpoint", "find", "put", "record", "audit"}

Outcomes == {"read", "not_found", "valid", "invalid", "accepted", "idempotent",
             "rejected", "technical_failure"}

(* The part of an event that its hash covers. *)
Contents == [id : EventIds \cup Nat, at : Nat, outcome : Outcomes \cup {"event"},
             about : Windows \cup {None}]

(* A hash covers the contents and the hash before it: all contents so far. *)
Hashes == Seq(Contents)

Genesis == <<>>

EventHash(content, previous) == Append(previous, content)

Links == [content : Contents, previous : Hashes, hash : Hashes]

Verdicts == [outcome : Outcomes, about : Windows \cup {None}]

Batches == Seq([id : EventIds \cup Nat, previous : Hashes, hash : Hashes])

Manifests == [window : Windows, batch : Batches, retain : Nat, terms : {r.terms : r \in Requests}]

Checkpoints == [window : Windows, batch : Batches]

Objects == [key : {r.key : r \in Requests}, body : Manifests]

Exports == [window : Windows, key : {r.key : r \in Requests}, manifest : Manifests]

TypeOK ==
    /\ now \in 0..MaxTime
    /\ chain \in Seq(Links)
    /\ checkpoints \subseteq Checkpoints
    /\ objects \subseteq Objects
    /\ exports \subseteq Exports
    /\ pc \in [Callers -> Steps]
    /\ held \in [Callers -> Checkpoints \cup {None}]
    /\ request \in [Callers -> Requests \cup {None}]
    /\ verdict \in [Callers -> Verdicts \cup {None}]

Init ==
    /\ now = 0
    /\ chain = <<>>
    /\ checkpoints = {}
    /\ objects = {}
    /\ exports = {}
    /\ pc = [c \in Callers |-> "idle"]
    /\ held = [c \in Callers |-> None]
    /\ request = [c \in Callers |-> None]
    /\ verdict = [c \in Callers |-> None]
-----------------------------------------------------------------------------
(* The chain and its verification. *)

(* append of the event repository, with apply_audit_event_integrity *)
Sealed(content, log) ==
    LET previous == IF log = <<>> THEN Genesis ELSE log[Len(log)].hash IN
    [content |-> content, previous |-> previous, hash |-> EventHash(content, previous)]

Within(link, w) == w.from <= link.content.at /\ link.content.at <= w.to

(* _select_integrity_window: from the first event of the window to its last *)
(* one, with everything that was appended between them.                     *)
Positions(log, w) == {i \in DOMAIN log : Within(log[i], w)}

First(log, w) == CHOOSE i \in Positions(log, w) : \A j \in Positions(log, w) : i <= j

Last(log, w) == CHOOSE i \in Positions(log, w) : \A j \in Positions(log, w) : j <= i

(* A checkpoint covers only the first event of its window. *)
SegmentOfFirst(log, w) ==
    IF Positions(log, w) = {} THEN <<>> ELSE SubSeq(log, First(log, w), First(log, w))

Segment(log, w) ==
    IF Positions(log, w) = {} THEN <<>> ELSE SubSeq(log, First(log, w), Last(log, w))

(* The hash that the first event of the segment has to point to. *)
Before(log, w) ==
    IF Positions(log, w) = {} \/ First(log, w) = 1
    THEN Genesis ELSE log[First(log, w) - 1].hash

(* Only the links of the chain are compared, not the hashes of the contents. *)
ChainValidByLinks(segment, before) ==
    /\ segment # <<>>
    /\ \A i \in DOMAIN segment :
        segment[i].previous = IF i = 1 THEN before ELSE segment[i - 1].hash

(* _verify_event_chain: hashes and order are those of the events. *)
ChainValid(segment, before) ==
    /\ segment # <<>>
    /\ \A i \in DOMAIN segment :
        /\ segment[i].previous = IF i = 1 THEN before ELSE segment[i - 1].hash
        /\ segment[i].hash = EventHash(segment[i].content, segment[i].previous)

WindowValid(log, w) == ChainValid(Segment(log, w), Before(log, w))

(* calculate_checkpoint_digest: of an event its id and its two hashes *)
Batch(segment) ==
    [i \in DOMAIN segment |-> [id |-> segment[i].content.id, previous |-> segment[i].previous,
                               hash |-> segment[i].hash]]

(* _verify_checkpoint: count, ends, digest and id of the checkpoint are *)
(* those of the events; the signature is of its own digest.             *)
CheckpointValid(log, w, k) == k.window = w /\ k.batch = Batch(Segment(log, w))

-----------------------------------------------------------------------------
(* Steps all calls are made of. *)

Goto(c, step) == pc' = [pc EXCEPT ![c] = step]

Pending == {c \in Callers : pc[c] # "idle"}

(* Room for what this call and the others in progress still have to append. *)
Begin(c) ==
    /\ pc[c] = "idle"
    /\ Len(chain) + Cardinality(Pending) < MaxEvents

Conclude(c, outcome, about) ==
    /\ verdict' = [verdict EXCEPT ![c] = [outcome |-> outcome, about |-> about]]
    /\ Goto(c, "audit")

Done(c) ==
    /\ held' = [held EXCEPT ![c] = None]
    /\ request' = [request EXCEPT ![c] = None]
    /\ verdict' = [verdict EXCEPT ![c] = None]
    /\ Goto(c, "idle")

(* _append_read_audit_event, _append_integrity_verification_audit_event and *)
(* _append_worm_export_audit_event: the event happens now, under a new id.  *)
AppendVerdict(c) ==
    /\ pc[c] = "audit"
    /\ chain' = Append(chain, Sealed([id |-> Len(chain) + 1, at |-> now,
                    outcome |-> verdict[c].outcome, about |-> verdict[c].about], chain))
    /\ Done(c)
    /\ UNCHANGED <<now, stores>>

-----------------------------------------------------------------------------
(* Events. *)

(* register_event: the producer says when it happened.  An id that is on *)
(* the chain is a conflict.                                              *)
Register(c) ==
    /\ Begin(c)
    /\ \E id \in EventIds, at \in Instants :
        /\ \A i \in DOMAIN chain : chain[i].content.id # id
        /\ chain' = Append(chain, Sealed([id |-> id, at |-> at, outcome |-> "event",
                                          about |-> None], chain))
    /\ UNCHANGED <<now, stores, pc, localVars>>

(* get_event *)
Read(c) ==
    /\ Begin(c)
    /\ \E id \in EventIds :
        Conclude(c, IF \E i \in DOMAIN chain : chain[i].content.id = id
                    THEN "read" ELSE "not_found", None)
    /\ UNCHANGED <<now, chain, stores, held, request>>

-----------------------------------------------------------------------------
(* Checkpoints. *)

(* generate_integrity_checkpoint, up to the append: a closed window, from a *)
(* valid chain that has events in it.                                       *)
Generate(c) ==
    /\ Begin(c)
    /\ \E w \in Windows :
        /\ w.to < now
        /\ WindowValid(chain, w)
        /\ held' = [held EXCEPT ![c] = [window |-> w, batch |-> Batch(Segment(chain, w))]]
    /\ Goto(c, "checkpoint")
    /\ UNCHANGED <<now, chain, stores, request, verdict>>

(* append of the checkpoint repository: one checkpoint of a window *)
SaveCheckpoint(c) ==
    /\ pc[c] = "checkpoint"
    /\ checkpoints' = IF \E k \in checkpoints : k.window = held[c].window
                      THEN checkpoints ELSE checkpoints \cup {held[c]}
    /\ Done(c)
    /\ UNCHANGED <<now, chain, objects, exports>>

(* verify_integrity, of a window alone or against a checkpoint *)
Verify(c) ==
    /\ Begin(c)
    /\ \E w \in Windows, k \in checkpoints \cup {None} :
        Conclude(c, IF WindowValid(chain, w) /\ (k # None => CheckpointValid(chain, w, k))
                    THEN "valid" ELSE "invalid", w)
    /\ UNCHANGED <<now, chain, stores, held, request>>

-----------------------------------------------------------------------------
(* Exports. *)

ManifestOf(k, r) ==
    [window |-> k.window, batch |-> k.batch, retain |-> r.retain, terms |-> r.terms]

(* export_checkpoint_to_worm, up to its look at the records: retention in the *)
(* future and, by _get_checkpoint_for_export, a checkpoint that still holds.  *)
Export(c) ==
    /\ Begin(c)
    /\ \E r \in Requests :
        IF r.retain > now /\ \E k \in checkpoints :
                /\ WindowValid(chain, r.window)
                /\ CheckpointValid(chain, r.window, k)
        THEN /\ held' = [held EXCEPT ![c] =
                            CHOOSE k \in checkpoints : CheckpointValid(chain, r.window, k)]
             /\ request' = [request EXCEPT ![c] = r]
             /\ Goto(c, "find")
             /\ UNCHANGED verdict
        ELSE Conclude(c, "rejected", r.window) /\ UNCHANGED <<held, request>>
    /\ UNCHANGED <<now, chain, stores>>

(* _reconcile_worm_export: the object is there and says what the record and *)
(* its checkpoint say.                                                      *)
Reconciles(x) ==
    /\ \E o \in objects : o.key = x.key /\ o.body = x.manifest
    /\ x.manifest.window = x.window
    /\ \E k \in checkpoints : k.window = x.window /\ k.batch = x.manifest.batch

(* The record of the checkpoint, if there is one, has to be the same export: *)
(* _ensure_existing_export_matches_request and the reconciliation.           *)
Find(c) ==
    /\ pc[c] = "find"
    /\ LET r == request[c]
           recorded == {x \in exports : x.window = r.window}
           same(x) == x.key = r.key /\ x.manifest = ManifestOf(held[c], r) /\ Reconciles(x)
       IN IF recorded = {}
          THEN Goto(c, "put") /\ UNCHANGED verdict
          ELSE Conclude(c, IF \A x \in recorded : same(x) THEN "idempotent" ELSE "rejected",
                        r.window)
    /\ UNCHANGED <<now, chain, stores, held, request>>

(* The storage overwrites an object with other content. *)
PutOverwrites(c) ==
    /\ pc[c] = "put"
    /\ LET o == [key |-> request[c].key, body |-> ManifestOf(held[c], request[c])] IN
        objects' = {p \in objects : p.key # o.key} \cup {o}
    /\ Goto(c, "record")
    /\ UNCHANGED <<now, chain, checkpoints, exports, held, request, verdict>>

(* put_object of the WORM storage: a key keeps its first content, the same *)
(* content is the same version.  The storage looks at the clock again.     *)
Put(c) ==
    /\ pc[c] = "put"
    /\ LET o == [key |-> request[c].key, body |-> ManifestOf(held[c], request[c])]
           taken == \E p \in objects : p.key = o.key /\ p # o
       IN IF request[c].retain <= now \/ taken
          THEN Conclude(c, "rejected", request[c].window) /\ UNCHANGED objects
          ELSE \/ objects' = objects \cup {o} /\ Goto(c, "record") /\ UNCHANGED verdict
               \/ /\ "storage_raises" \in Faults
                  /\ Conclude(c, "technical_failure", request[c].window)
                  /\ UNCHANGED objects
               \/ /\ "answer_lost" \in Faults
                  /\ Conclude(c, "technical_failure", request[c].window)
                  /\ objects' = objects \cup {o}
    /\ UNCHANGED <<now, chain, checkpoints, exports, held, request>>

(* The records are not looked at under the lock that adds to them. *)
RecordUnchecked(c) ==
    /\ pc[c] = "record"
    /\ exports' = exports \cup {[window |-> held[c].window, key |-> request[c].key,
                                 manifest |-> ManifestOf(held[c], request[c])]}
    /\ Conclude(c, "accepted", held[c].window)
    /\ UNCHANGED <<now, chain, checkpoints, objects, held, request>>

(* append of the export repository: another call may have recorded one since *)
Record(c) ==
    /\ pc[c] = "record"
    /\ LET x == [window |-> held[c].window, key |-> request[c].key,
                 manifest |-> ManifestOf(held[c], request[c])]
           other == \E y \in exports : y.window = x.window /\ y # x
       IN \/ /\ ~other
             /\ exports' = exports \cup {x}
             /\ Conclude(c, "accepted", x.window)
          \/ other /\ Conclude(c, "rejected", x.window) /\ UNCHANGED exports
          \/ /\ "records_raise" \in Faults
             /\ Conclude(c, "technical_failure", x.window)
             /\ UNCHANGED exports
    /\ UNCHANGED <<now, chain, checkpoints, objects, held, request>>

(* reconcile_worm_export; the storage may raise when it is read *)
Reconcile(c) ==
    /\ Begin(c)
    /\ \E w \in Windows :
        LET recorded == {x \in exports : x.window = w} IN
        \/ recorded = {} /\ Conclude(c, "rejected", w)
        \/ \E x \in recorded : Conclude(c, IF Reconciles(x) THEN "valid" ELSE "invalid", w)
        \/ /\ recorded # {} /\ "storage_raises" \in Faults
           /\ Conclude(c, "technical_failure", w)
    /\ UNCHANGED <<now, chain, stores, held, request>>

-----------------------------------------------------------------------------
Tick ==
    /\ now < MaxTime
    /\ now' = now + 1
    /\ UNCHANGED <<chain, stores, pc, localVars>>

Next ==
    \/ Tick
    \/ \E c \in Callers :
        \/ Register(c) \/ Read(c) \/ Generate(c) \/ Verify(c) \/ Export(c) \/ Reconcile(c)
        \/ SaveCheckpoint(c) \/ Find(c) \/ Put(c) \/ Record(c) \/ AppendVerdict(c)

Spec == Init /\ [][Next]_vars

-----------------------------------------------------------------------------
(* A checkpoint verifies exactly as long as no event of its window has been   *)
(* appended after the last one it covers: late events, between the look at    *)
(* the chain and the append of the checkpoint or at any later time, are what  *)
(* makes it fail, and nothing else does.                                      *)
CheckpointsVerify ==
    \A k \in checkpoints :
        LET covered == Len(k.batch[Len(k.batch)].hash) IN
        WindowValid(chain, k.window) /\ CheckpointValid(chain, k.window, k)
            <=> \A i \in Positions(chain, k.window) : i <= covered

Without(i) ==
    [j \in 1..(Len(chain) - 1) |-> IF j < i THEN chain[j] ELSE chain[j + 1]]

Swapped(i) ==
    [chain EXCEPT ![i] = chain[i + 1], ![i + 1] = chain[i]]

Altered(i) ==
    {[chain EXCEPT ![i].content = content] :
        content \in {[chain[i].content EXCEPT !.at = t] : t \in Instants \ {chain[i].content.at}}
             \cup {[chain[i].content EXCEPT !.outcome = o] :
                        o \in {"event", "accepted"} \ {chain[i].content.outcome}}}

(* An event that a checkpoint covers cannot be removed, swapped with its      *)
(* neighbour or changed without verify_integrity noticing, although the       *)
(* checkpoint's digest holds none of the contents.                            *)
TamperEvident ==
    \A k \in checkpoints :
        LET noticed(log) == ~(WindowValid(log, k.window) /\ CheckpointValid(log, k.window, k))
            from == Len(k.batch[1].hash)
            to == Len(k.batch[Len(k.batch)].hash)
        IN \A i \in from..to :
            /\ noticed(Without(i))
            /\ i < to => noticed(Swapped(i))
            /\ \A log \in Altered(i) : noticed(log)

(* Every record of an export has its object in the storage, with the manifest *)
(* of its checkpoint, whatever exports and failures went before: reconcile    *)
(* finds nothing to report, and no record waits for an object.                *)
ExportsReconcile == \A x \in exports : Reconciles(x)

(* What the chain says was exported was exported, and the chain never says    *)
(* that a stored export does not reconcile.                                   *)
ChainTruthful ==
    \A i \in DOMAIN chain :
        chain[i].content.outcome \in {"accepted", "idempotent"}
            => \E x \in exports : x.window = chain[i].content.about

(* Storage, records and chain agree on every export, whichever of the three   *)
(* writes of a call raised or lost its answer.                                *)
ExportsTruthful == ExportsReconcile /\ ChainTruthful

Stored ==
    {<<<<"event", i>>, chain[i]>> : i \in DOMAIN chain}
        \cup {<<<<"checkpoint", k.window>>, k>> : k \in checkpoints}
        \cup {<<<<"object", o.key>>, o>> : o \in objects}
        \cup {<<<<"export", x.window>>, x>> : x \in exports}

Evidence == INSTANCE WriteOnce WITH bound <- Stored

(* The stores of evidence are write-once together: a position of the chain, a *)
(* window's checkpoint, a key of the storage and a window's export get one    *)
(* value, and concurrent or repeated calls never change or remove it.         *)
ImplementsWriteOnce == Evidence!Spec

=============================================================================
