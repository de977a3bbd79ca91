------------------------- MODULE ReviewExecutionProofs -------------------------
(***************************************************************************)
(* Proofs about ReviewExecution, for any sets of callers, versions,        *)
(* contents, reviews and outputs and for any faults.  IInv is the          *)
(* inductive invariant.  Versions only grow by changes at the end of their *)
(* changelog, so what a call has read of one is either still what is       *)
(* stored or shows by its length that it is not (StoreGrows); and only the *)
(* caller that reserved a review writes its evidence and its execution     *)
(* (HoldersApart).                                                         *)
(***************************************************************************)
EXTENDS ReviewExecution, FiniteSetTheorems, TLAPS

(* No result of the service is refused by the constructor of results. *)
LEMMA ReviewedIsWellFormed ==
    ASSUME NEW r \in Results
    PROVE  WellFormed(r)
<1>1. PICK o \in Outputs : r = Reviewed(o)
  BY DEF Results
<1>2. CASE Problem(o) = "none"
  BY <1>1, <1>2 DEF Reviewed, WellFormed
<1>3. CASE Problem(o) # "none"
  <2>1. /\ r.status = "fallback" /\ r.validation = "blocked" /\ r.findings = {}
        /\ r.blocked = {Problem(o)} /\ r.limitations = {Problem(o)}
        /\ r.accepted = NoCounts
    BY <1>1, <1>3 DEF Reviewed
  <2>2. DOMAIN NoCounts = {}
    BY DEF NoCounts
  <2> QED
    BY <2>1, <2>2 DEF WellFormed
<1> QED
  BY <1>2, <1>3

LEMMA InitInductive == Init => IInv
  BY ConstantsAssumption
  DEF Init, IInv, TypeOK, Steps, PlaceConsistent, Reviewing, LockConsistent, HoldersApart, Holders,
      ChangesKept, ReviewsPinned, EvidenceMatches

-----------------------------------------------------------------------------
(* Places of calls. *)

(* What a step of another caller may do without a call losing its place: the *)
(* versions that it refers to stand, those that it read are followed, and    *)
(* nobody else touches the evidence it is writing.                           *)
VersionsGrow ==
    /\ \A r \in References : Stands(r) => Stands(r)'
    /\ \A v \in Versions, k \in Configurations :
            Follows(configs[v], k) => Follows(configs'[v], k)

LEMMA OthersStay ==
    ASSUME NEW d \in Callers, PlaceConsistent(d), VersionsGrow,
           pc'[d] = pc[d], target'[d] = target[d], read'[d] = read[d], draft'[d] = draft[d],
           pc[d] = "audit" => evidence'[target[d]] = evidence[target[d]]
    PROVE  PlaceConsistent(d)'
<1>1. /\ pc[d] = "save" => Follows(configs'[target[d]], read[d])
      /\ pc[d] \in Reviewing => Stands(read[d])'
  BY DEF PlaceConsistent, VersionsGrow
<1>2. pc[d] = "save" => Follows(configs[target[d]], read[d])'
  BY <1>1 DEF Follows
<1> QED
  BY <1>1, <1>2 DEF PlaceConsistent, IsAccepted, Stands, IsPublished, Follows

(* Where the versions stay as they are, they grow. *)
LEMMA SameVersionsGrow ==
    ASSUME UNCHANGED configs
    PROVE  VersionsGrow
  BY DEF VersionsGrow, Stands, IsPublished, Follows

(* A caller that is idle again has nothing to remember. *)
LEMMA IdleIsConsistent ==
    ASSUME NEW c \in Callers, pc'[c] = "idle"
    PROVE  PlaceConsistent(c)'
  BY DEF PlaceConsistent, Reviewing

-----------------------------------------------------------------------------
(* The beginning of calls. *)

(* A call begins: nothing is stored, and its caller holds no review. *)
LEMMA PrepareKeeps ==
    ASSUME IInv, NEW c \in Callers, NEW step \in {"add", "save", "reserve"},
           NEW about \in Versions \cup Reviews,
           NEW seen \in Configurations \cup References \cup {None},
           NEW made \in Configurations \cup {None},
           Prepare(c, step, about, seen, made),
           PlaceConsistent(c)'
    PROVE  IInv'
<1>1. /\ pc[c] = "idle" /\ pc' = [pc EXCEPT ![c] = step]
      /\ target' = [target EXCEPT ![c] = about]
      /\ read' = [read EXCEPT ![c] = seen]
      /\ draft' = [draft EXCEPT ![c] = made]
      /\ UNCHANGED <<configs, reserved, executions, evidence, committing, accepted, raised>>
  BY DEF Prepare, Goto, stores
<1>2. TypeOK'
  BY <1>1 DEF IInv, TypeOK, Steps
<1>3. \A d \in Callers : PlaceConsistent(d)'
  <2>1. ASSUME NEW d \in Callers, d # c PROVE PlaceConsistent(d)'
    BY <1>1, <2>1, SameVersionsGrow, OthersStay DEF IInv, TypeOK
  <2> QED
    BY <2>1
<1>4. LockConsistent'
  BY <1>1 DEF IInv, TypeOK, LockConsistent
<1>5. HoldersApart'
  <2>1. Holders' = Holders /\ c \notin Holders
    BY <1>1 DEF IInv, TypeOK, Holders
  <2>2. \A d \in Holders : target'[d] = target[d]
    BY <1>1, <2>1 DEF IInv, TypeOK, Holders
  <2> QED
    BY <1>1, <2>1, <2>2 DEF IInv, HoldersApart
<1>6. ChangesKept' /\ ReviewsPinned'
  BY <1>1 DEF IInv, ChangesKept, ReviewsPinned, IsPublished
<1>7. EvidenceMatches'
  BY <1>1 DEF IInv, TypeOK, EvidenceMatches
<1> QED
  BY <1>2, <1>3, <1>4, <1>5, <1>6, <1>7 DEF IInv

LEMMA StartedType ==
    ASSUME NEW type \in {"created", "new_version_created"}, NEW content \in Contents
    PROVE  /\ Started(type, content) \in Configurations
           /\ Len(Started(type, content).changelog) = 1
  BY DEF Started, Configurations, Changes

LEMMA RevisedType ==
    ASSUME NEW k \in Configurations, NEW type \in {"updated", "published"},
           NEW status \in {"draft", "published"}, NEW content \in Contents
    PROVE  /\ Revised(k, type, status, content) \in Configurations
           /\ \E change \in Changes :
                Revised(k, type, status, content).changelog = Append(k.changelog, change)
<1>1. [type |-> type, content |-> content] \in Changes
  BY DEF Changes
<1> QED
  BY <1>1 DEF Revised, Configurations

LEMMA EveryVersionFollowsItself ==
    ASSUME NEW k \in Configurations
    PROVE  Follows(k, k)
  BY NoneAssumption DEF Follows, Configurations

LEMMA CreateConfigKeeps ==
    ASSUME IInv, NEW c \in Callers, CreateConfig(c)
    PROVE  IInv'
<1>1. PICK v \in Versions, content \in Contents :
        Prepare(c, "add", v, None, Started("created", content))
  BY DEF CreateConfig
<1>2. PlaceConsistent(c)'
  BY <1>1, StartedType DEF IInv, TypeOK, Prepare, Goto, PlaceConsistent, Reviewing
<1> QED
  BY <1>1, <1>2, StartedType, PrepareKeeps

LEMMA CreateConfigVersionKeeps ==
    ASSUME IInv, NEW c \in Callers, CreateConfigVersion(c)
    PROVE  IInv'
<1>1. PICK v \in Versions, w \in Versions :
        /\ IsPublished(v)
        /\ Prepare(c, "add", w, configs[v], Started("new_version_created", configs[v].content))
  BY DEF CreateConfigVersion
<1>2. configs[v] \in Configurations /\ configs[v].content \in Contents
  BY <1>1 DEF IInv, TypeOK, IsPublished, Configurations
<1>3. PlaceConsistent(c)'
  BY <1>1, <1>2, StartedType DEF IInv, TypeOK, Prepare, Goto, PlaceConsistent, Reviewing
<1> QED
  BY <1>1, <1>2, <1>3, StartedType, PrepareKeeps

(* The revision of a draft, by either of the calls that make one. *)
LEMMA ReviseKeeps ==
    ASSUME IInv, NEW c \in Callers, NEW v \in Versions, IsDraft(v),
           NEW type \in {"updated", "published"}, NEW status \in {"draft", "published"},
           NEW content \in Contents,
           Prepare(c, "save", v, configs[v], Revised(configs[v], type, status, content))
    PROVE  IInv'
<1> DEFINE made == Revised(configs[v], type, status, content)
<1>1. configs[v] \in Configurations /\ configs[v].status = "draft"
  BY DEF IInv, TypeOK, IsDraft, Exists
<1>2. made \in Configurations /\ \E change \in Changes : made.changelog = Append(configs[v].changelog, change)
  BY <1>1, RevisedType
<1> HIDE DEF made
<1>3. /\ pc'[c] = "save" /\ target'[c] = v /\ read'[c] = configs[v] /\ draft'[c] = made
      /\ configs' = configs
  BY DEF IInv, TypeOK, Prepare, Goto, stores, made
<1>4. PlaceConsistent(c)'
  <2>1. Follows(configs[v], configs[v])
    BY <1>1, EveryVersionFollowsItself
  <2>2. Follows(configs[target[c]], read[c])'
    BY <1>3, <2>1 DEF Follows
  <2> QED
    BY <1>1, <1>2, <1>3, <2>2 DEF PlaceConsistent, Reviewing
<1>5. Prepare(c, "save", v, configs[v], made)
  BY DEF made
<1>6. configs[v] \in Configurations \cup References \cup {None} /\ made \in Configurations \cup {None}
  BY <1>1, <1>2
<1> QED
  BY <1>4, <1>5, <1>6, PrepareKeeps

LEMMA UpdateConfigKeeps ==
    ASSUME IInv, NEW c \in Callers, UpdateConfig(c)
    PROVE  IInv'
<1>1. PICK v \in Versions, content \in Contents :
        /\ IsDraft(v)
        /\ Prepare(c, "save", v, configs[v], Revised(configs[v], "updated", "draft", content))
  BY DEF UpdateConfig
<1> QED
  BY <1>1, ReviseKeeps

LEMMA PublishConfigKeeps ==
    ASSUME IInv, NEW c \in Callers, PublishConfig(c)
    PROVE  IInv'
<1>1. PICK v \in Versions :
        /\ IsDraft(v)
        /\ Prepare(c, "save", v, configs[v],
                   Revised(configs[v], "published", "published", configs[v].content))
  BY DEF PublishConfig
<1>2. configs[v].content \in Contents
  BY <1>1 DEF IInv, TypeOK, IsDraft, Exists, Configurations
<1> QED
  BY <1>1, <1>2, ReviseKeeps

(* A review resolves a version that is published. *)
LEMMA ResolveKeeps ==
    ASSUME IInv, NEW c \in Callers, Resolve(c)
    PROVE  IInv'
<1>1. PICK x \in Reviews, s \in Scopes, pin \in Versions \cup {None} :
        /\ Cardinality(Matching(s, pin)) = 1
        /\ Prepare(c, "reserve", x,
                   [version |-> Found(Matching(s, pin), pin),
                    content |-> configs[CHOOSE v \in Matching(s, pin) : TRUE].content], None)
  BY DEF Resolve
<1>2. (CHOOSE v \in Matching(s, pin) : TRUE) \in Matching(s, pin)
  BY <1>1, FS_EmptySet
<1>3. PICK w \in Versions : IsPublished(w) /\ w = CHOOSE v \in Matching(s, pin) : TRUE
  BY <1>2 DEF Matching
<1>4. PICK seen : seen = [version |-> w, content |-> configs[w].content]
  OBVIOUS
<1>5. seen \in References /\ Stands(seen)
  <2>1. configs[w].content \in Contents
    BY <1>3 DEF IInv, TypeOK, IsPublished, Configurations
  <2> QED
    BY <1>3, <1>4, <2>1 DEF References, Stands
<1>6. Prepare(c, "reserve", x, seen, None)
  BY <1>1, <1>3, <1>4 DEF Found
<1>7. /\ pc'[c] = "reserve" /\ target'[c] = x /\ read'[c] = seen /\ configs' = configs
  BY <1>6 DEF IInv, TypeOK, Prepare, Goto, stores
<1>8. Stands(read[c])'
  BY <1>5, <1>7 DEF Stands, IsPublished
<1>9. PlaceConsistent(c)'
  BY <1>5, <1>7, <1>8 DEF PlaceConsistent, Reviewing
<1> QED
  BY <1>5, <1>6, <1>9, PrepareKeeps

-----------------------------------------------------------------------------
(* The critical sections of the configuration repository. *)

(* A call ends: no other caller is touched. *)
LEMMA DoneLocals ==
    ASSUME TypeOK, NEW c \in Callers, Done(c)
    PROVE  /\ pc' \in [Callers -> Steps]
           /\ target' \in [Callers -> Versions \cup Reviews \cup {None}]
           /\ read' \in [Callers -> Configurations \cup References \cup {None}]
           /\ draft' \in [Callers -> Configurations \cup Results \cup {None}]
           /\ pc'[c] = "idle"
           /\ \A d \in Callers \ {c} : /\ pc'[d] = pc[d] /\ target'[d] = target[d]
                                       /\ read'[d] = read[d] /\ draft'[d] = draft[d]
  BY DEF TypeOK, Done, Goto, Steps

(* The end of a call that leaves the versions growing and the reviews alone. *)
LEMMA EditEnds ==
    ASSUME IInv, NEW c \in Callers, pc[c] \in {"add", "save"}, Done(c),
           UNCHANGED <<reserved, executions, evidence, committing, raised>>,
           configs' \in [Versions -> Configurations \cup {None}],
           accepted' \in [Versions -> Seq(Changes)],
           VersionsGrow, ChangesKept'
    PROVE  IInv'
<1>1. TypeOK'
  BY DoneLocals DEF IInv, TypeOK
<1>2. \A d \in Callers : PlaceConsistent(d)'
  <2>1. ASSUME NEW d \in Callers, d # c PROVE PlaceConsistent(d)'
    BY <2>1, DoneLocals, OthersStay DEF IInv
  <2>2. PlaceConsistent(c)'
    BY DoneLocals, IdleIsConsistent DEF IInv
  <2> QED
    BY <2>1, <2>2
<1>3. LockConsistent'
  BY DoneLocals DEF IInv, LockConsistent
<1>4. HoldersApart'
  <2>1. Holders' = Holders /\ \A d \in Holders : d \in Callers /\ target'[d] = target[d]
    BY DoneLocals DEF IInv, Holders
  <2> QED
    BY <2>1 DEF IInv, HoldersApart
<1>5. ReviewsPinned'
  <2>1. ASSUME NEW x \in Reviews, executions[x] # None
        PROVE  IsPublished(executions[x].version)' /\ (configs[executions[x].version].content = executions[x].content)'
    <3>1. executions[x] \in Executions
      BY <2>1 DEF IInv, TypeOK
    <3>2. PICK r \in References : r = [version |-> executions[x].version, content |-> executions[x].content]
      BY <3>1 DEF Executions, References
    <3>3. Stands(r)
      BY <2>1, <3>2 DEF IInv, ReviewsPinned, Stands
    <3>4. Stands(r)'
      BY <3>3 DEF VersionsGrow
    <3> QED
      BY <3>2, <3>4 DEF Stands, IsPublished
  <2> QED
    BY <2>1 DEF ReviewsPinned
<1>6. EvidenceMatches'
  <2>1. committing = None \/ (committing \in Callers /\ committing # c /\ pc[committing] = "audit")
    BY DEF IInv, TypeOK, LockConsistent
  <2> QED
    BY <2>1, DoneLocals DEF IInv, EvidenceMatches
<1> QED
  BY <1>1, <1>2, <1>3, <1>4, <1>5, <1>6 DEF IInv

(* A refused call changes nothing. *)
LEMMA RefusedKeeps ==
    ASSUME IInv, NEW c \in Callers, pc[c] \in {"add", "save"}, Done(c), Refused(c),
           UNCHANGED <<reserved, executions, evidence, committing, raised>>
    PROVE  IInv'
<1>1. UNCHANGED configs /\ UNCHANGED accepted
  BY DEF Refused
<1>2. ChangesKept'
  BY <1>1 DEF IInv, ChangesKept
<1>3. /\ configs' \in [Versions -> Configurations \cup {None}]
      /\ accepted' \in [Versions -> Seq(Changes)]
  BY <1>1 DEF IInv, TypeOK
<1> QED
  BY <1>1, <1>2, <1>3, SameVersionsGrow, EditEnds

(* What is stored is a new version, or goes on from the draft that is stored. *)
LEMMA StoreKeeps ==
    ASSUME IInv, NEW c \in Callers, pc[c] \in {"add", "save"}, Done(c), Store(c),
           UNCHANGED <<reserved, executions, evidence, committing, raised>>,
           ~IsPublished(target[c]),
           \/ configs[target[c]] = None /\ Len(draft[c].changelog) = 1
           \/ /\ configs[target[c]] # None
              /\ \E change \in Changes :
                    draft[c].changelog = Append(configs[target[c]].changelog, change)
    PROVE  IInv'
<1>1. target[c] \in Versions /\ draft[c] \in Configurations /\ draft[c] # None
  BY NoneAssumption DEF IInv, PlaceConsistent
<1>2. /\ configs' = [configs EXCEPT ![target[c]] = draft[c]]
      /\ accepted' = [accepted EXCEPT ![target[c]] =
                        Append(@, draft[c].changelog[Len(draft[c].changelog)])]
  BY DEF Store
<1>3. draft[c].changelog \in Seq(Changes)
  BY <1>1 DEF Configurations
<1>4. /\ draft[c].changelog = Append(accepted[target[c]], draft[c].changelog[Len(draft[c].changelog)])
      /\ draft[c].changelog[Len(draft[c].changelog)] \in Changes
  <2>1. CASE configs[target[c]] = None
    <3>1. accepted[target[c]] = <<>> /\ Len(draft[c].changelog) = 1
      BY <1>1, <2>1 DEF IInv, ChangesKept
    <3> QED
      BY <1>3, <3>1
  <2>2. CASE configs[target[c]] # None
    <3>1. PICK change \in Changes : draft[c].changelog = Append(accepted[target[c]], change)
      BY <1>1, <2>2 DEF IInv, ChangesKept
    <3>2. accepted[target[c]] \in Seq(Changes)
      BY <1>1 DEF IInv, TypeOK
    <3> QED
      BY <3>1, <3>2
  <2> QED
    BY <2>1, <2>2
<1>5. /\ configs' \in [Versions -> Configurations \cup {None}]
      /\ accepted' \in [Versions -> Seq(Changes)]
  BY <1>1, <1>2, <1>4 DEF IInv, TypeOK
<1>6. ChangesKept'
  <2>1. ASSUME NEW v \in Versions, v # target[c]
        PROVE  configs'[v] = configs[v] /\ accepted'[v] = accepted[v]
    BY <1>2, <2>1 DEF IInv, TypeOK
  <2>2. configs'[target[c]] = draft[c] /\ accepted'[target[c]] = draft[c].changelog
    BY <1>1, <1>2, <1>4 DEF IInv, TypeOK
  <2> QED
    BY <1>1, <2>1, <2>2 DEF IInv, ChangesKept
<1>7. VersionsGrow
  <2>1. ASSUME NEW r \in References, Stands(r)
        PROVE  Stands(r)'
    <3>1. r.version \in Versions /\ r.version # target[c]
      BY <2>1 DEF References, Stands
    <3>2. configs'[r.version] = configs[r.version]
      BY <1>2, <3>1 DEF IInv, TypeOK
    <3> QED
      BY <2>1, <3>2 DEF Stands, IsPublished
  <2>2. ASSUME NEW v \in Versions, NEW k \in Configurations, Follows(configs[v], k)
        PROVE  Follows(configs'[v], k)
    <3>1. CASE v # target[c]
      BY <1>2, <2>2, <3>1 DEF IInv, TypeOK
    <3>2. CASE v = target[c]
      <4>1. configs[v] \in Configurations
        BY <2>2 DEF IInv, TypeOK, Follows
      <4>2. PICK change \in Changes : draft[c].changelog = Append(configs[v].changelog, change)
        BY <2>2, <3>2 DEF Follows
      <4>3. configs[v].changelog \in Seq(Changes) /\ k.changelog \in Seq(Changes)
        BY <4>1 DEF Configurations
      <4>4. configs'[v] = draft[c]
        BY <1>1, <1>2, <3>2 DEF IInv, TypeOK
      <4>5. Len(k.changelog) <= Len(draft[c].changelog)
        BY <2>2, <4>2, <4>3 DEF Follows
      <4>6. \A i \in DOMAIN k.changelog : draft[c].changelog[i] = k.changelog[i]
        BY <2>2, <4>2, <4>3 DEF Follows
      <4> QED
        BY <1>1, <4>4, <4>5, <4>6 DEF Follows
    <3> QED
      BY <3>1, <3>2
  <2> QED
    BY <2>1, <2>2 DEF VersionsGrow
<1> QED
  BY <1>5, <1>6, <1>7, EditEnds

LEMMA AddConfigKeeps ==
    ASSUME IInv, NEW c \in Callers, AddConfig(c)
    PROVE  IInv'
<1>1. /\ pc[c] = "add" /\ Done(c)
      /\ UNCHANGED <<reserved, executions, evidence, committing, raised>>
  BY DEF AddConfig
<1>2. CASE configs[target[c]] = None /\ Store(c)
  <2>1. Len(draft[c].changelog) = 1 /\ ~IsPublished(target[c])
    BY <1>1, <1>2 DEF IInv, PlaceConsistent, IsPublished
  <2> QED
    BY <1>1, <1>2, <2>1, StoreKeeps
<1>3. CASE Refused(c)
  BY <1>1, <1>3, RefusedKeeps
<1> QED
  BY <1>2, <1>3 DEF AddConfig

(* What was compared equal is still what was read: its changelog is as long, *)
(* and the one that was read is the beginning of it.                         *)
LEMMA SaveConfigKeeps ==
    ASSUME IInv, NEW c \in Callers, SaveConfig(c)
    PROVE  IInv'
<1>1. /\ pc[c] = "save" /\ Done(c)
      /\ UNCHANGED <<reserved, executions, evidence, committing, raised>>
  BY DEF SaveConfig
<1>2. CASE Unchanged(c) /\ Store(c)
  <2>1. /\ target[c] \in Versions /\ read[c] \in Configurations /\ read[c].status = "draft"
        /\ Follows(configs[target[c]], read[c])
    BY <1>1 DEF IInv, PlaceConsistent
  <2>2. configs[target[c]] \in Configurations
    BY <2>1 DEF IInv, TypeOK, Follows
  <2>3. configs[target[c]].changelog \in Seq(Changes) /\ read[c].changelog \in Seq(Changes)
    BY <2>1, <2>2 DEF Configurations
  <2>4. configs[target[c]].changelog = read[c].changelog
    BY <1>2, <2>1, <2>3 DEF Follows, Unchanged
  <2>5. \E change \in Changes : draft[c].changelog = Append(configs[target[c]].changelog, change)
    BY <1>1, <2>4 DEF IInv, PlaceConsistent
  <2>6. configs[target[c]] # None /\ ~IsPublished(target[c])
    BY <1>2, <2>1 DEF Follows, Unchanged, IsPublished
  <2> QED
    BY <1>1, <1>2, <2>5, <2>6, StoreKeeps
<1>3. CASE Refused(c)
  BY <1>1, <1>3, RefusedKeeps
<1> QED
  BY <1>2, <1>3 DEF SaveConfig

-----------------------------------------------------------------------------
(* The steps of a review. *)

(* What the other callers keep in a step that is c's own. *)
OthersKept(c) ==
    \A d \in Callers \ {c} : /\ pc'[d] = pc[d] /\ target'[d] = target[d]
                             /\ read'[d] = read[d] /\ draft'[d] = draft[d]

(* Where the versions stay as they are, the stored reviews stand. *)
LEMMA VersionsAlone ==
    ASSUME IInv, UNCHANGED <<configs, accepted>>
    PROVE  ChangesKept' /\ VersionsGrow
  BY SameVersionsGrow DEF IInv, ChangesKept

LEMMA ReserveKeeps ==
    ASSUME IInv, NEW c \in Callers, Reserve(c)
    PROVE  IInv'
<1>1. /\ pc[c] = "reserve" /\ committing = None /\ target[c] \in Reviews
      /\ read[c] \in References /\ Stands(read[c])
      /\ UNCHANGED <<configs, executions, evidence, committing, accepted, raised>>
  BY DEF Reserve, IInv, PlaceConsistent, Reviewing
<1>2. \A d \in Callers : pc[d] # "audit"
  BY <1>1, ConstantsAssumption DEF IInv, LockConsistent
<1>3. OthersKept(c)
  BY DoneLocals DEF IInv, TypeOK, Reserve, OthersKept, Goto
<1>4. ChangesKept' /\ VersionsGrow
  BY <1>1, VersionsAlone
<1>5. ReviewsPinned'
  BY <1>1 DEF IInv, ReviewsPinned, IsPublished
<1>6. EvidenceMatches'
  BY <1>1 DEF IInv, EvidenceMatches
<1>7. \A d \in Callers \ {c} : PlaceConsistent(d)'
  BY <1>1, <1>3, <1>4, OthersStay DEF IInv, OthersKept
<1>8. CASE IsTaken(target[c])
  <2>1. Done(c) /\ UNCHANGED reserved
    BY <1>8 DEF Reserve
  <2>2. TypeOK'
    BY <1>1, <2>1, DoneLocals DEF IInv, TypeOK
  <2>3. PlaceConsistent(c)'
    BY <2>1, DoneLocals, IdleIsConsistent DEF IInv
  <2>4. LockConsistent'
    BY <1>1, <1>2, <2>1, DoneLocals DEF IInv, LockConsistent
  <2>5. HoldersApart'
    <3>1. Holders' = Holders /\ \A d \in Holders : d \in Callers /\ target'[d] = target[d]
      BY <1>1, <2>1, DoneLocals DEF IInv, Holders
    <3> QED
      BY <1>1, <2>1, <3>1 DEF IInv, HoldersApart
  <2> QED
    BY <1>4, <1>5, <1>6, <1>7, <2>2, <2>3, <2>4, <2>5 DEF IInv
<1>9. CASE ~IsTaken(target[c])
  <2>1. /\ reserved' = reserved \cup {target[c]}
        /\ pc' = [pc EXCEPT ![c] = "execute"]
        /\ UNCHANGED <<target, read, draft>>
    BY <1>9 DEF Reserve, Goto
  <2>2. target[c] \notin reserved /\ executions[target[c]] = None
    BY <1>9 DEF IsTaken, IsStored
  <2>3. TypeOK'
    BY <1>1, <2>1 DEF IInv, TypeOK, Steps
  <2>4. PlaceConsistent(c)'
    BY <1>1, <2>1 DEF IInv, TypeOK, PlaceConsistent, Reviewing, Stands, IsPublished
  <2>5. LockConsistent'
    BY <1>1, <1>2, <2>1 DEF IInv, TypeOK, LockConsistent
  <2>6. HoldersApart'
    <3>1. Holders' = Holders \cup {c} /\ target' = target /\ c \notin Holders
      BY <1>1, <2>1 DEF IInv, TypeOK, Holders
    <3>2. \A d \in Holders : target[d] # target[c]
      BY <2>2 DEF IInv, HoldersApart
    <3>3. target[c] \notin raised
      BY <2>2 DEF IInv, HoldersApart
    <3> QED
      BY <1>1, <2>1, <2>2, <3>1, <3>2, <3>3 DEF IInv, HoldersApart
  <2> QED
    BY <1>4, <1>5, <1>6, <1>7, <2>3, <2>4, <2>5, <2>6 DEF IInv
<1> QED
  BY <1>8, <1>9

LEMMA ExecuteKeeps ==
    ASSUME IInv, NEW c \in Callers, Execute(c)
    PROVE  IInv'
<1>1. PICK output \in Outputs : draft' = [draft EXCEPT ![c] = Reviewed(output)]
  BY DEF Execute
<1>2. /\ pc[c] = "execute" /\ pc' = [pc EXCEPT ![c] = "commit"]
      /\ UNCHANGED <<configs, reserved, executions, evidence, committing, accepted, raised, target, read>>
  BY DEF Execute, Goto, stores
<1>3. Reviewed(output) \in Results
  BY DEF Results
<1>4. TypeOK'
  BY <1>1, <1>2, <1>3 DEF IInv, TypeOK, Steps
<1>5. OthersKept(c) /\ pc'[c] = "commit" /\ draft'[c] \in Results
  BY <1>1, <1>2, <1>3 DEF IInv, TypeOK, OthersKept
<1>6. ChangesKept' /\ VersionsGrow
  BY <1>2, VersionsAlone
<1>7. \A d \in Callers : PlaceConsistent(d)'
  <2>1. \A d \in Callers \ {c} : PlaceConsistent(d)'
    BY <1>2, <1>5, <1>6, OthersStay DEF IInv, OthersKept
  <2>2. PlaceConsistent(c)'
    BY <1>2, <1>5 DEF IInv, PlaceConsistent, Reviewing, Stands, IsPublished
  <2> QED
    BY <2>1, <2>2
<1>8. LockConsistent'
  BY <1>2, <1>5 DEF IInv, LockConsistent, OthersKept
<1>9. HoldersApart'
  <2>1. Holders' = Holders
    BY <1>2, <1>5 DEF Holders, OthersKept
  <2> QED
    BY <1>2, <2>1 DEF IInv, HoldersApart
<1>10. ReviewsPinned'
  BY <1>2 DEF IInv, ReviewsPinned, IsPublished
<1>11. EvidenceMatches'
  <2>1. committing = None \/ (committing \in Callers /\ committing # c)
    BY <1>2 DEF IInv, TypeOK, LockConsistent
  <2> QED
    BY <1>2, <1>5, <2>1 DEF IInv, EvidenceMatches, OthersKept
<1> QED
  BY <1>4, <1>6, <1>7, <1>8, <1>9, <1>10, <1>11 DEF IInv

(* A call that raises before it has the lock leaves its review reserved, and *)
(* nobody at work on it.                                                     *)
LEMMA RaisingKeeps ==
    ASSUME IInv, NEW c \in Callers, pc[c] \in {"execute", "commit"},
           Done(c), raised' = raised \cup {target[c]}, UNCHANGED <<stores, accepted>>
    PROVE  IInv'
<1>1. /\ UNCHANGED <<configs, reserved, executions, evidence, committing, accepted>>
      /\ pc[c] # "audit" /\ target[c] \in Reviews /\ c \in Holders
  BY DEF stores, IInv, PlaceConsistent, Reviewing, Holders
<1>2. OthersKept(c) /\ pc'[c] = "idle"
  BY DoneLocals DEF IInv, OthersKept
<1>3. target[c] \in reserved \ raised
  BY <1>1 DEF IInv, HoldersApart
<1>4. committing = None \/ (committing \in Callers /\ committing # c)
  BY <1>1 DEF IInv, TypeOK, LockConsistent
<1>5. TypeOK'
  BY <1>1, DoneLocals DEF IInv, TypeOK
<1>6. ChangesKept' /\ VersionsGrow
  BY <1>1, VersionsAlone
<1>7. \A d \in Callers : PlaceConsistent(d)'
  <2>1. \A d \in Callers \ {c} : PlaceConsistent(d)'
    BY <1>1, <1>2, <1>6, OthersStay DEF IInv, OthersKept
  <2>2. PlaceConsistent(c)'
    BY DoneLocals, IdleIsConsistent DEF IInv
  <2> QED
    BY <2>1, <2>2
<1>8. LockConsistent'
  BY <1>1, <1>2 DEF IInv, LockConsistent, OthersKept
<1>9. HoldersApart'
  <2>1. Holders' = Holders \ {c} /\ \A d \in Holders' : d \in Callers /\ target'[d] = target[d]
    BY DoneLocals DEF IInv, Holders
  <2>2. \A d \in Holders' : target[d] # target[c]
    BY <1>1, <2>1 DEF IInv, HoldersApart
  <2>3. \A d \in Holders' : target'[d] \in reserved' \ raised'
    BY <1>1, <2>1, <2>2 DEF IInv, HoldersApart
  <2>4. \A d, e \in Holders' : target'[d] = target'[e] => d = e
    BY <2>1 DEF IInv, HoldersApart
  <2>5. \A x \in reserved' : x \in raised' \/ \E d \in Holders' : target'[d] = x
    BY <1>1, <2>1 DEF IInv, HoldersApart
  <2> QED
    BY <1>1, <1>3, <2>3, <2>4, <2>5 DEF IInv, HoldersApart
<1>10. ReviewsPinned'
  BY <1>1 DEF IInv, ReviewsPinned, IsPublished
<1>11. EvidenceMatches'
  BY <1>1, <1>2, <1>4 DEF IInv, EvidenceMatches, OthersKept
<1> QED
  BY <1>5, <1>6, <1>7, <1>8, <1>9, <1>10, <1>11 DEF IInv

LEMMA ReviewRaisesKeeps ==
    ASSUME IInv, NEW c \in Callers, ReviewRaises(c)
    PROVE  IInv'
  BY RaisingKeeps DEF ReviewRaises

(* The evidence is written by the only caller at work on its review, and no  *)
(* evidence of it is there: nobody holds the lock.                           *)
LEMMA CommitEvidenceKeeps ==
    ASSUME IInv, NEW c \in Callers, CommitEvidence(c)
    PROVE  IInv'
<1>1. /\ pc[c] = "commit" /\ committing = None /\ target[c] \in Reviews
      /\ read[c] \in References /\ Stands(read[c]) /\ draft[c] \in Results
      /\ UNCHANGED <<configs, reserved, executions, accepted>>
  BY DEF CommitEvidence, IInv, PlaceConsistent, Reviewing
<1>2. c \in Holders /\ \A d \in Callers : pc[d] # "audit"
  BY <1>1, ConstantsAssumption DEF IInv, LockConsistent, Holders
<1>3. /\ target[c] \in reserved \ raised /\ executions[target[c]] = None
      /\ evidence[target[c]] = None
  BY <1>1, <1>2 DEF IInv, HoldersApart, EvidenceMatches
<1>4. OthersKept(c)
  <2>1. CASE Done(c)
    BY <2>1, DoneLocals DEF IInv, OthersKept
  <2>2. CASE Goto(c, "audit") /\ UNCHANGED <<target, read, draft>>
    BY <2>2 DEF IInv, TypeOK, Goto, OthersKept
  <2> QED
    BY <2>1, <2>2 DEF CommitEvidence
<1>5. ChangesKept' /\ VersionsGrow
  BY <1>1, VersionsAlone
<1>6. ReviewsPinned'
  BY <1>1 DEF IInv, ReviewsPinned, IsPublished
<1>7. \A d \in Callers \ {c} : PlaceConsistent(d)'
  BY <1>2, <1>4, <1>5, OthersStay DEF IInv, OthersKept
<1>8. CASE Goto(c, "audit")
  <2>1. /\ pc' = [pc EXCEPT ![c] = "audit"] /\ committing' = c
        /\ UNCHANGED <<raised, target, read, draft>>
        /\ evidence' = [evidence EXCEPT ![target[c]] =
                            IF IsAccepted(draft[c]) THEN EvidenceOf(draft[c]) ELSE None]
    <3>1. pc'[c] = "audit"
      BY <1>8 DEF IInv, TypeOK, Goto
    <3>2. ~Done(c)
      BY <3>1, DoneLocals DEF IInv
    <3>3. CASE IsAccepted(draft[c])
      BY <3>2, <3>3 DEF CommitEvidence, Goto
    <3>4. CASE ~IsAccepted(draft[c])
      <4>1. evidence' = evidence
        BY <3>2, <3>4 DEF CommitEvidence
      <4>2. evidence = [evidence EXCEPT ![target[c]] = None]
        BY <1>1, <1>3 DEF IInv, TypeOK
      <4> QED
        BY <3>2, <3>4, <4>1, <4>2 DEF CommitEvidence, Goto
    <3> QED
      BY <3>3, <3>4
  <2>2. TypeOK'
    BY <1>1, <2>1 DEF IInv, TypeOK, Steps
  <2>3. PlaceConsistent(c)'
    <3>1. evidence'[target[c]] = IF IsAccepted(draft[c]) THEN EvidenceOf(draft[c]) ELSE None
      BY <1>1, <2>1 DEF IInv, TypeOK
    <3> QED
      BY <1>1, <2>1, <3>1 DEF IInv, TypeOK, PlaceConsistent, Reviewing, Stands, IsPublished, IsAccepted
  <2>4. LockConsistent'
    BY <1>2, <2>1 DEF IInv, TypeOK, LockConsistent
  <2>5. HoldersApart'
    <3>1. Holders' = Holders /\ target' = target
      BY <1>1, <2>1 DEF IInv, TypeOK, Holders
    <3> QED
      BY <1>1, <2>1, <3>1 DEF IInv, HoldersApart
  <2>6. EvidenceMatches'
    <3>1. ASSUME NEW x \in Reviews, x # target[c]
          PROVE  evidence'[x] = evidence[x]
      BY <2>1, <3>1 DEF IInv, TypeOK
    <3>2. pc'[c] = "audit" /\ c # None
      BY <2>1, ConstantsAssumption DEF IInv, TypeOK
    <3> QED
      BY <1>1, <1>3, <2>1, <3>1, <3>2 DEF IInv, EvidenceMatches
  <2> QED
    BY <1>5, <1>6, <1>7, <2>2, <2>3, <2>4, <2>5, <2>6 DEF IInv
<1>9. CASE Done(c) /\ raised' = raised \cup {target[c]} /\ UNCHANGED <<evidence, committing>>
  BY <1>1, <1>9, RaisingKeeps DEF stores
<1> QED
  BY <1>8, <1>9 DEF CommitEvidence

(* The execution is stored with what its caller read and made, under the    *)
(* lock that the caller holds, beside the evidence that it wrote.           *)
LEMMA CommitExecutionKeeps ==
    ASSUME IInv, NEW c \in Callers, CommitExecution(c)
    PROVE  IInv'
<1>1. /\ pc[c] = "audit" /\ committing' = None /\ target[c] \in Reviews
      /\ read[c] \in References /\ Stands(read[c]) /\ draft[c] \in Results
      /\ Done(c) /\ UNCHANGED <<configs, evidence, accepted>>
  BY DEF CommitExecution, IInv, PlaceConsistent, Reviewing
<1>2. c \in Holders /\ committing = c /\ \A d \in Callers : pc[d] = "audit" => d = c
  BY <1>1 DEF IInv, LockConsistent, Holders
<1>3. /\ target[c] \in reserved \ raised /\ executions[target[c]] = None
      /\ evidence[target[c]] = IF IsAccepted(draft[c]) THEN EvidenceOf(draft[c]) ELSE None
  BY <1>1, <1>2 DEF IInv, HoldersApart, PlaceConsistent
<1>4. OthersKept(c)
  BY <1>1, DoneLocals DEF IInv, OthersKept
<1>5. ChangesKept' /\ VersionsGrow
  BY <1>1, VersionsAlone
<1>6. \A d \in Callers : PlaceConsistent(d)'
  <2>1. \A d \in Callers \ {c} : PlaceConsistent(d)'
    BY <1>1, <1>4, <1>5, OthersStay DEF IInv, OthersKept
  <2>2. PlaceConsistent(c)'
    BY <1>1, DoneLocals, IdleIsConsistent DEF IInv
  <2> QED
    BY <2>1, <2>2
<1>7. LockConsistent'
  BY <1>1, <1>2, DoneLocals, ConstantsAssumption DEF IInv, LockConsistent
<1>8. Holders' = Holders \ {c} /\ \A d \in Holders' : d \in Callers /\ target'[d] = target[d]
  BY <1>1, DoneLocals DEF IInv, Holders
<1>9. /\ \A d \in Holders' : target'[d] # target[c]
      /\ \A d, e \in Holders' : target'[d] = target'[e] => d = e
  BY <1>2, <1>8 DEF IInv, HoldersApart
<1>10. PICK stored :
        stored = [version |-> read[c].version, content |-> read[c].content, result |-> draft[c]]
  OBVIOUS
<1>11. /\ stored \in Executions /\ stored # None
       /\ stored.version = read[c].version /\ stored.content = read[c].content
       /\ stored.result = draft[c]
  BY <1>1, <1>10, NoneAssumption DEF Executions, References
<1>12. CASE /\ executions' = [executions EXCEPT ![target[c]] = stored]
            /\ reserved' = reserved \ {target[c]}
            /\ UNCHANGED raised
  <2>1. executions'[target[c]] = stored /\ \A x \in Reviews : x # target[c] => executions'[x] = executions[x]
    BY <1>1, <1>12 DEF IInv, TypeOK
  <2>2. TypeOK'
    BY <1>1, <1>11, <1>12, DoneLocals DEF IInv, TypeOK
  <2>3. HoldersApart'
    <3>1. \A d \in Holders' : target'[d] \in reserved' \ raised'
      BY <1>8, <1>9, <1>12 DEF IInv, HoldersApart
    <3>2. \A x \in reserved' : x \in raised' \/ \E d \in Holders' : target'[d] = x
      BY <1>8, <1>12 DEF IInv, HoldersApart
    <3>3. raised' \subseteq reserved'
      BY <1>3, <1>12 DEF IInv, HoldersApart
    <3>4. \A x \in reserved' : executions'[x] = None
      BY <1>12, <2>1 DEF IInv, TypeOK, HoldersApart
    <3> QED
      BY <1>9, <3>1, <3>2, <3>3, <3>4 DEF HoldersApart
  <2>4. ReviewsPinned'
    <3>1. IsPublished(stored.version)' /\ configs'[stored.version].content = stored.content
      BY <1>1, <1>11 DEF Stands, IsPublished
    <3>2. ASSUME NEW x \in Reviews, executions'[x] # None
          PROVE  IsPublished(executions[x].version)' /\ (configs[executions[x].version].content = executions[x].content)'
      <4>1. CASE x = target[c]
        BY <2>1, <3>1, <4>1 DEF IsPublished
      <4>2. CASE x # target[c]
        BY <1>1, <2>1, <3>2, <4>2 DEF IInv, ReviewsPinned, IsPublished
      <4> QED
        BY <4>1, <4>2
    <3> QED
      BY <3>2 DEF ReviewsPinned
  <2>5. EvidenceMatches'
    <3>1. ASSUME NEW x \in Reviews, x # target[c]
          PROVE  /\ executions'[x] # None =>
                    evidence'[x] = IF executions'[x].result.status = "completed"
                                   THEN EvidenceOf(executions'[x].result) ELSE None
                 /\ evidence'[x] # None /\ executions'[x] = None => x \in raised'
      BY <1>1, <1>2, <1>12, <2>1, <3>1 DEF IInv, EvidenceMatches
    <3>2. executions'[target[c]] # None /\ executions'[target[c]].result = draft[c]
      BY <1>11, <2>1
    <3>3. evidence'[target[c]] = IF draft[c].status = "completed" THEN EvidenceOf(draft[c]) ELSE None
      BY <1>1, <1>3 DEF IsAccepted
    <3> QED
      BY <3>1, <3>2, <3>3 DEF EvidenceMatches
  <2> QED
    BY <1>5, <1>6, <1>7, <2>2, <2>3, <2>4, <2>5 DEF IInv
<1>13. CASE raised' = raised \cup {target[c]} /\ UNCHANGED <<executions, reserved>>
  <2>1. TypeOK'
    BY <1>1, <1>13, DoneLocals DEF IInv, TypeOK
  <2>2. HoldersApart'
    <3>1. \A d \in Holders' : target'[d] \in reserved' \ raised'
      BY <1>8, <1>9, <1>13 DEF IInv, HoldersApart
    <3>2. \A x \in reserved' : x \in raised' \/ \E d \in Holders' : target'[d] = x
      BY <1>8, <1>13 DEF IInv, HoldersApart
    <3> QED
      BY <1>3, <1>9, <1>13, <3>1, <3>2 DEF IInv, HoldersApart
  <2>3. ReviewsPinned'
    BY <1>1, <1>13 DEF IInv, ReviewsPinned, IsPublished
  <2>4. EvidenceMatches'
    BY <1>1, <1>2, <1>13 DEF IInv, EvidenceMatches
  <2> QED
    BY <1>5, <1>6, <1>7, <2>1, <2>2, <2>3, <2>4 DEF IInv
<1> QED
  BY <1>12, <1>13, <1>10 DEF CommitExecution

-----------------------------------------------------------------------------
(* The invariant and what follows from it. *)

LEMMA StutteringKeeps ==
    ASSUME IInv, UNCHANGED vars
    PROVE  IInv'
<1>1. UNCHANGED <<configs, reserved, executions, evidence, committing, accepted, raised, pc, target, read, draft>>
  BY DEF vars, stores, localVars
<1>2. Holders' = Holders
  BY <1>1 DEF Holders
<1>3. \A d \in Callers : PlaceConsistent(d)'
  BY <1>1, SameVersionsGrow, OthersStay DEF IInv
<1> QED
  BY <1>1, <1>2, <1>3
  DEF IInv, TypeOK, LockConsistent, HoldersApart, ChangesKept, ReviewsPinned, IsPublished, EvidenceMatches

LEMMA NextKeeps ==
    ASSUME IInv, Next
    PROVE  IInv'
<1>1. PICK c \in Callers :
        \/ CreateConfig(c) \/ CreateConfigVersion(c) \/ UpdateConfig(c) \/ PublishConfig(c)
        \/ Resolve(c)
        \/ Continue(c)
  BY DEF Next
<1> QED
  BY <1>1, CreateConfigKeeps, CreateConfigVersionKeeps, UpdateConfigKeeps, PublishConfigKeeps,
     ResolveKeeps, AddConfigKeeps, SaveConfigKeeps, ReserveKeeps, ExecuteKeeps,
     ReviewRaisesKeeps, CommitEvidenceKeeps, CommitExecutionKeeps
  DEF Continue

(* IInv holds in every reachable state. *)
THEOREM Invariance == Spec => []IInv
<1>1. IInv /\ [Next]_vars => IInv'
  BY NextKeeps, StutteringKeeps
<1> QED
  BY <1>1, InitInductive, PTL DEF Spec

(* Every variable of the reviews keeps its type: what callers have read and  *)
(* made is a configuration, a reference or a result, as their place says.    *)
THEOREM TypeCorrect == Spec => []TypeOK
<1>1. IInv => TypeOK
  BY DEF IInv
<1> QED
  BY <1>1, Invariance, PTL

(* A stored review stays true of the version it was made with, which is      *)
(* published, whatever was edited while the executor worked.                 *)
THEOREM ReviewsArePinned == Spec => []ReviewsPinned
<1>1. IInv => ReviewsPinned
  BY DEF IInv
<1> QED
  BY <1>1, Invariance, PTL

(* Result, execution and evidence of a review agree: evidence is there       *)
(* exactly for the accepted output, and no result is refused when it is made *)
(* into an execution.                                                        *)
THEOREM ResultsDoAgree == Spec => []ResultsAgree
<1>1. IInv => ResultsAgree
  BY ReviewedIsWellFormed DEF IInv, ResultsAgree, ResultsWellFormed, PlaceConsistent
<1> QED
  BY <1>1, Invariance, PTL

(* An id that is reserved has one caller at work on it or its call raised,   *)
(* so the executor is never asked twice for one review.                      *)
THEOREM ReservationsAreOwned == Spec => []ReservationsOwned
<1>1. ASSUME IInv PROVE ReservationsOwned
  <2>1. ASSUME NEW x \in Reviews
        PROVE  /\ Cardinality(Working(x)) <= 1
               /\ x \in reserved <=> Working(x) # {} \/ x \in raised
               /\ x \in reserved => executions[x] = None
    <3>1. Working(x) = {c \in Holders : target[c] = x}
      BY DEF Working, Holders
    <3>2. Cardinality(Working(x)) <= 1
      <4>1. CASE Working(x) = {}
        BY <4>1, FS_EmptySet
      <4>2. CASE Working(x) # {}
        <5>1. PICK c : Working(x) = {c}
          BY <1>1, <3>1, <4>2 DEF IInv, HoldersApart
        <5> QED
          BY <5>1, FS_Singleton
      <4> QED
        BY <4>1, <4>2
    <3>3. x \in reserved <=> Working(x) # {} \/ x \in raised
      BY <1>1, <3>1 DEF IInv, HoldersApart
    <3> QED
      BY <1>1, <3>2, <3>3 DEF IInv, HoldersApart
  <2> QED
    BY <2>1 DEF ReservationsOwned
<1> QED
  BY <1>1, Invariance, PTL

(* Only a repository that creates or saves a configuration stores one, and   *)
(* never over one that is published.                                         *)
LEMMA PublishedIsKept ==
    ASSUME IInv, [Next]_vars
    PROVE  PublishedStays
<1>1. CASE UNCHANGED configs
  BY <1>1 DEF PublishedStays
<1>2. ASSUME NEW c \in Callers, AddConfig(c), Store(c), configs[target[c]] = None
      PROVE  PublishedStays
  BY <1>2 DEF IInv, TypeOK, Store, PublishedStays, IsPublished
<1>3. ASSUME NEW c \in Callers, SaveConfig(c), Store(c), Unchanged(c)
      PROVE  PublishedStays
  <2>1. read[c].status = "draft"
    BY <1>3 DEF SaveConfig, IInv, PlaceConsistent
  <2>2. configs[target[c]].status = "draft"
    BY <1>3, <2>1 DEF Unchanged
  <2> QED
    BY <1>3, <2>2 DEF IInv, TypeOK, Store, PublishedStays, IsPublished
<1>4. CASE Next
  <2>1. PICK c \in Callers :
          \/ CreateConfig(c) \/ CreateConfigVersion(c) \/ UpdateConfig(c) \/ PublishConfig(c)
          \/ Resolve(c)
          \/ Continue(c)
    BY <1>4 DEF Next
  <2>2. CASE \/ CreateConfig(c) \/ CreateConfigVersion(c) \/ UpdateConfig(c) \/ PublishConfig(c)
             \/ Resolve(c)
    BY <1>1, <2>2
    DEF CreateConfig, CreateConfigVersion, UpdateConfig, PublishConfig, Resolve, Prepare, stores
  <2>3. CASE Reserve(c) \/ Execute(c) \/ ReviewRaises(c) \/ CommitEvidence(c) \/ CommitExecution(c)
    BY <1>1, <2>3 DEF Reserve, Execute, ReviewRaises, CommitEvidence, CommitExecution, stores
  <2>4. CASE AddConfig(c)
    BY <1>1, <1>2, <2>4 DEF AddConfig, Refused
  <2>5. CASE SaveConfig(c)
    BY <1>1, <1>3, <2>5 DEF SaveConfig, Refused
  <2> QED
    BY <2>1, <2>2, <2>3, <2>4, <2>5 DEF Continue
<1>5. CASE UNCHANGED vars
  BY <1>1, <1>5 DEF vars, stores
<1> QED
  BY <1>4, <1>5

(* No step loses a change that an editor was told is made, and none changes  *)
(* a published version: two editors who read the same revision are told      *)
(* different things.                                                         *)
THEOREM ConfigurationsAreKept == Spec => ConfigurationsKept
<1>1. IInv /\ IInv' /\ [Next]_vars => [ChangesKept' /\ PublishedStays]_vars
  BY PublishedIsKept DEF IInv
<1> QED
  BY <1>1, Invariance, PTL DEF Spec, ConfigurationsKept
=============================================================================
