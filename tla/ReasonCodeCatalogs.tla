--------------------------- MODULE ReasonCodeCatalogs ---------------------------
(***************************************************************************)
(* The catalogs of reason codes of services/decision, as versions of one   *)
(* catalog_id of a tenant: create_reason_code_catalog_draft,               *)
(* update_reason_code_catalog_draft and create_reason_code_catalog_version *)
(* of application/service.py over the in-memory repository, and the        *)
(* validation of the references of a policy to a catalog.                  *)
(*                                                                         *)
(* A step is one access to the repository, which is atomic, or the         *)
(* publication of an audit intent, whose failure is compensated.           *)
(***************************************************************************)
EXTENDS ReasonCodes, Naturals

CONSTANTS
    Callers,       \* threads that call the service
    Versions,      \* catalog_version_ids
    Drafts,        \* the contents that commands may carry
    MaxRevision,   \* bound on revisions
    MaxVersion,    \* bound on version numbers
    MaxCalls,      \* bound on the calls made
    None           \* absence of a value

Statuses == {"draft", "published"}

Catalogs ==
    [content : Drafts, status : Statuses, version : 1..MaxVersion, revision : 1..MaxRevision]

(* What the constants are in every instance *)
ConstantsAssumption ==
    /\ Drafts \subseteq Contents
    /\ MaxRevision \in Nat \ {0}
    /\ MaxVersion \in Nat \ {0}
    /\ MaxCalls \in Nat
    /\ None \notin Versions \cup Catalogs \cup References

Steps == {"idle", "update", "save", "audit", "undo"}

VARIABLES
    catalogs,   \* _catalogs of the repository
    pc,         \* where every caller is in its call
    target,     \* the version it changes
    base,       \* the catalog it has read
    written,    \* the catalog it writes or has written
    accepted,   \* the contents of calls that were accepted, per catalog
    referred,   \* a reference a policy was validated with, per catalog
    undone,     \* catalogs a change of which was taken back
    calls       \* how many calls were made

locals == <<target, base, written>>
ghosts == <<accepted, referred, undone>>
vars == <<catalogs, pc, locals, ghosts, calls>>

TypeOK ==
    /\ catalogs \in [Versions -> Catalogs \cup {None}]
    /\ pc \in [Callers -> Steps]
    /\ target \in [Callers -> Versions \cup {None}]
    /\ base \in [Callers -> Catalogs \cup {None}]
    /\ written \in [Callers -> Catalogs \cup {None}]
    /\ accepted \in [Versions -> SUBSET Drafts]
    /\ referred \in [Versions -> References \cup {None}]
    /\ undone \subseteq Versions
    /\ calls \in 0..MaxCalls

Init ==
    /\ catalogs = [v \in Versions |-> None]
    /\ pc = [c \in Callers |-> "idle"]
    /\ target = [c \in Callers |-> None]
    /\ base = [c \in Callers |-> None]
    /\ written = [c \in Callers |-> None]
    /\ accepted = [v \in Versions |-> {}]
    /\ referred = [v \in Versions |-> None]
    /\ undone = {}
    /\ calls = 0

-----------------------------------------------------------------------------
Stored == {v \in Versions : catalogs[v] # None}

(* next_version: one more than the greatest *)
NextVersion ==
    IF Stored = {} THEN 1
    ELSE 1 + (CHOOSE n \in {catalogs[v].version : v \in Stored} :
                \A v \in Stored : catalogs[v].version <= n)

(* and save_with_next_version replaces that number. *)
NumberFor(c) == NextVersion

Goto(c, step) == pc' = [pc EXCEPT ![c] = step]

Done(c) ==
    /\ Goto(c, "idle")
    /\ target' = [target EXCEPT ![c] = None]
    /\ base' = [base EXCEPT ![c] = None]
    /\ written' = [written EXCEPT ![c] = None]

Begins(c) ==
    /\ pc[c] = "idle"
    /\ calls < MaxCalls
    /\ calls' = calls + 1

(* create_draft: revision 1, which is that of its entry of the changelog *)
Drafted(content, version) ==
    [content |-> content, status |-> "draft", version |-> version, revision |-> 1]

(* save_with_next_version: an id that is there is refused. *)
Save(c, v, catalog) ==
    IF v \in Stored
    THEN Done(c) /\ UNCHANGED catalogs
    ELSE LET numbered == [catalog EXCEPT !.version = NumberFor(c)] IN
         /\ numbered.version <= MaxVersion
         /\ catalogs' = [catalogs EXCEPT ![v] = numbered]
         /\ target' = [target EXCEPT ![c] = v]
         /\ written' = [written EXCEPT ![c] = numbered]
         /\ Goto(c, "audit")
         /\ UNCHANGED base

(* create_reason_code_catalog_draft, up to its save *)
CreateDraft(c) ==
    /\ Begins(c)
    /\ \E v \in Versions, content \in Drafts : Save(c, v, Drafted(content, 1))
    /\ UNCHANGED ghosts

IsDraft(catalog) == catalog # None /\ catalog.status = "draft"

(* The call has read found and goes on with the catalog it makes of it. *)
Plan(c, v, found, catalog, step) ==
    /\ target' = [target EXCEPT ![c] = v]
    /\ base' = [base EXCEPT ![c] = found]
    /\ written' = [written EXCEPT ![c] = catalog]
    /\ Goto(c, step)

(* update_reason_code_catalog_draft, up to update_draft of the entity: a  *)
(* compatible change of a draft, anything else is refused and changes nothing *)
UpdateDraft(c) ==
    /\ Begins(c)
    /\ \E v \in Stored, content \in Drafts :
        /\ IsDraft(catalogs[v])
        /\ Compatible(catalogs[v].content, content)
        /\ catalogs[v].revision < MaxRevision
        /\ Plan(c, v, catalogs[v],
                [catalogs[v] EXCEPT !.content = content, !.revision = @ + 1], "update")
    /\ UNCHANGED <<catalogs, ghosts>>

(* create_reason_code_catalog_version, up to create_new_version of the entity: *)
(* an incompatible change of any catalog                                       *)
CreateVersion(c) ==
    /\ Begins(c)
    /\ \E from \in Stored, v \in Versions, content \in Drafts :
        /\ ~Compatible(catalogs[from].content, content)
        /\ Plan(c, v, catalogs[from], Drafted(content, 1), "save")
    /\ UNCHANGED <<catalogs, ghosts>>

SaveVersion(c) ==
    /\ pc[c] = "save"
    /\ Save(c, target[c], written[c])
    /\ UNCHANGED <<ghosts, calls>>

AnyRevision(c) == target[c] \in Stored

(* expected_revision of update *)
BaseIsCurrent(c) ==
    target[c] \in Stored /\ catalogs[target[c]].revision = base[c].revision

Update(c) ==
    /\ pc[c] = "update"
    /\ IF BaseIsCurrent(c)
       THEN /\ catalogs' = [catalogs EXCEPT ![target[c]] = written[c]]
            /\ Goto(c, "audit")
            /\ UNCHANGED locals
       ELSE Done(c) /\ UNCHANGED catalogs
    /\ UNCHANGED <<ghosts, calls>>

(* The audit intent of the change is published, or raises. *)
Audit(c) ==
    /\ pc[c] = "audit"
    /\ \/ /\ accepted' = [accepted EXCEPT ![target[c]] = @ \cup {written[c].content}]
          /\ Done(c)
       \/ Goto(c, "undo") /\ UNCHANGED <<locals, accepted>>
    /\ UNCHANGED <<catalogs, referred, undone, calls>>

(* expected_revision of delete_if_current and restore_if_current; where it is *)
(* another the call raises and its change stays.                              *)
WrittenIsCurrent(c) ==
    target[c] \in Stored /\ catalogs[target[c]].revision = written[c].revision

Undo(c) ==
    /\ pc[c] = "undo"
    /\ IF WrittenIsCurrent(c)
       THEN /\ catalogs' = [catalogs EXCEPT ![target[c]] =
                              IF written[c].revision > 1 THEN base[c] ELSE None]
            /\ undone' = undone \cup {target[c]}
       ELSE UNCHANGED <<catalogs, undone>>
    /\ Done(c)
    /\ UNCHANGED <<accepted, referred, calls>>

(* publish of the entity: no operation of the service calls it *)
Publish(v) ==
    /\ IsDraft(catalogs[v])
    /\ catalogs[v].revision < MaxRevision
    /\ catalogs' = [catalogs EXCEPT ![v].status = "published", ![v].revision = @ + 1]
    /\ UNCHANGED <<pc, locals, ghosts, calls>>

(* _validate_policy_reason_code_refs for a draft of a policy, and the same *)
(* for its publication                                                     *)
Refer(v) ==
    \E reference \in References :
        /\ v \in Stored
        /\ referred[v] = None
        /\ Answers(catalogs[v].content, reference)
        /\ referred' = [referred EXCEPT ![v] = reference]
        /\ UNCHANGED <<catalogs, pc, locals, accepted, undone, calls>>

-----------------------------------------------------------------------------
Call(c) ==
    \/ CreateDraft(c) \/ UpdateDraft(c) \/ CreateVersion(c)
    \/ Update(c) \/ SaveVersion(c) \/ Audit(c) \/ Undo(c)

Next ==
    \/ \E c \in Callers : Call(c)
    \/ \E v \in Versions : Publish(v) \/ Refer(v)

Spec == Init /\ [][Next]_vars

-----------------------------------------------------------------------------
(* Two versions of a catalog that stand, with no change of them taken back,   *)
(* have two numbers, whatever was created and versioned at the same time.     *)
VersionsDistinct ==
    \A v, w \in Stored \ undone : catalogs[v].version = catalogs[w].version => v = w

(* Where no change was taken back, a catalog holds everything that any        *)
(* accepted call put into it: of concurrent updates one is refused, and none  *)
(* removes a code or factor.                                                  *)
AcceptedKept ==
    \A v \in Versions \ undone : \A content \in accepted[v] :
        v \in Stored /\ Compatible(content, catalogs[v].content)

(* Where no change was taken back, what a policy was validated with stays     *)
(* valid: the code is there, active and for that outcome.                     *)
ReferencesStayValid ==
    \A v \in Versions \ undone :
        referred[v] # None => v \in Stored /\ Answers(catalogs[v].content, referred[v])

(* Where no change was taken back, a published catalog never changes: the     *)
(* failing audit of an earlier change finds another revision.                 *)
PublishedStays ==
    \A v \in Versions \ undone' :
        v \in Stored /\ catalogs[v].status = "published" => catalogs'[v] = catalogs[v]

-----------------------------------------------------------------------------
(* What makes these properties inductive, for the catalogs of which no change *)
(* was taken back.                                                           *)

(* catalog is that of v, or an older revision of it. *)
Seen(v, catalog) ==
    /\ v \in Stored
    /\ catalog.version = catalogs[v].version
    /\ catalog.revision <= catalogs[v].revision
    /\ catalog.revision = catalogs[v].revision => catalog = catalogs[v]
    /\ Compatible(catalog.content, catalogs[v].content)

(* What a call has read and written in each of its steps *)
Knows(c) ==
    /\ pc[c] # "idle" => target[c] \in Versions /\ written[c] \in Catalogs
    /\ pc[c] = "update" =>
        /\ base[c] \in Catalogs
        /\ base[c].status = "draft"
        /\ written[c] = [base[c] EXCEPT !.content = written[c].content, !.revision = @ + 1]
        /\ Compatible(base[c].content, written[c].content)
        /\ target[c] \notin undone => Seen(target[c], base[c])
    /\ pc[c] = "save" => written[c].revision = 1
    /\ pc[c] = "audit" /\ target[c] \notin undone => Seen(target[c], written[c])
    /\ pc[c] \in {"audit", "undo"} /\ written[c].revision > 1 => base[c] \in Catalogs

IInv ==
    /\ TypeOK
    /\ \A c \in Callers : Knows(c)
    /\ VersionsDistinct
    /\ AcceptedKept
    /\ ReferencesStayValid
=============================================================================
