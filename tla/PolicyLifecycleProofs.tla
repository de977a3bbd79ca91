------------------------ MODULE PolicyLifecycleProofs ------------------------
(***************************************************************************)
(* Proofs about PolicyLifecycle, for every number of callers, policies and *)
(* windows: type correctness, SelectionUnambiguous and the rest that holds *)
(* under every fault, and, where the audits of drafts and updates do not   *)
(* fail, AcceptedKept, DecisionsExplained and PublishedWasSimulated, also  *)
(* for the run of MCPolicyChanges.  The first part is about the windows    *)
(* alone: their comparison is exact, so that policies conflict if and only *)
(* if some decision could be taken by both.                                *)
(***************************************************************************)
EXTENDS MCPolicyChanges, TLAPS

-----------------------------------------------------------------------------
(* Windows. *)

(* A window with a start is the interval from its start to EndOf.            *)
LEMMA WindowIsInterval ==
    ASSUME NEW w \in Windows, w.start # None
    PROVE  /\ w.start \in Instants /\ w.start \in Int
           /\ EndOf(w) \in Int
           /\ w.start < EndOf(w)
           /\ \A t \in Instants : IsEffective(w, t) <=> w.start <= t /\ t < EndOf(w)
<1>1. w.start \in Instants /\ w.end \in Instants \cup {None}
  BY DEF Windows
<1>2. w.start \in Int /\ w.start < MaxInstant
  BY <1>1, InstantsAssumption
<1>3. CASE w.end = None
  BY <1>1, <1>2, <1>3, InstantsAssumption DEF EndOf, IsEffective
<1>4. CASE w.end # None
  <2>1. w.start < w.end
    BY <1>4 DEF Windows
  <2> QED BY <1>1, <1>2, <1>4, <2>1, InstantsAssumption DEF EndOf, IsEffective
<1> QED BY <1>3, <1>4

(* A decision that two policies apply to makes them conflict.                *)
LEMMA SharedPointConflicts ==
    ASSUME NEW v \in Windows, NEW w \in Windows,
           NEW product \in Products, NEW channel \in Channels, NEW t \in Instants,
           AppliesTo(v, product, channel, t), AppliesTo(w, product, channel, t)
    PROVE  Conflict(v, w)
<1>1. ChannelsOverlap(v, w)
  BY DEF AppliesTo, AppliesToChannel, ChannelsOverlap
<1>2. /\ v.start # None /\ w.start # None
      /\ IsEffective(v, t) /\ IsEffective(w, t)
  BY DEF AppliesTo, IsEffective
<1>3. /\ v.start \in Int /\ w.start \in Int /\ EndOf(v) \in Int /\ EndOf(w) \in Int
      /\ v.start <= t /\ t < EndOf(v) /\ w.start <= t /\ t < EndOf(w)
  BY <1>2, WindowIsInterval
<1>4. t \in Int
  BY InstantsAssumption
<1>5. v.start < EndOf(w) /\ w.start < EndOf(v)
  BY <1>3, <1>4
<1> QED BY <1>1, <1>5 DEF Conflict, WindowsOverlap, AppliesTo

(* For policies with a start, as every published policy has: they conflict    *)
(* exactly if there are a product, a channel and an instant to which both    *)
(* apply.                                                                    *)
THEOREM ConflictIsSharedPoint ==
    ASSUME NEW v \in Windows, NEW w \in Windows, v.start # None, w.start # None,
           Channels # {}
    PROVE  Conflict(v, w) <=>
              \E product \in Products, channel \in Channels, t \in Instants :
                  AppliesTo(v, product, channel, t) /\ AppliesTo(w, product, channel, t)
<1>1. ASSUME Conflict(v, w)
      PROVE  \E product \in Products, channel \in Channels, t \in Instants :
                 AppliesTo(v, product, channel, t) /\ AppliesTo(w, product, channel, t)
  <2>1. v.product = w.product /\ v.product \in Products
    BY <1>1 DEF Conflict, Windows
  <2>2. PICK channel \in Channels : AppliesToChannel(v, channel) /\ AppliesToChannel(w, channel)
    <3>1. ChannelsOverlap(v, w) /\ v.channels \subseteq Channels /\ w.channels \subseteq Channels
      BY <1>1 DEF Conflict, WindowsOverlap, Windows
    <3> QED BY <3>1 DEF ChannelsOverlap, AppliesToChannel
  <2>3. PICK t \in Instants : IsEffective(v, t) /\ IsEffective(w, t)
    <3>1. /\ v.start \in Instants /\ w.start \in Instants
          /\ v.start \in Int /\ w.start \in Int /\ EndOf(v) \in Int /\ EndOf(w) \in Int
          /\ v.start < EndOf(v) /\ w.start < EndOf(w)
      BY WindowIsInterval
    <3>2. v.start < EndOf(w) /\ w.start < EndOf(v)
      BY <1>1 DEF Conflict, WindowsOverlap
    <3>3. CASE v.start <= w.start
      <4>1. v.start <= w.start /\ w.start < EndOf(v) /\ w.start <= w.start /\ w.start < EndOf(w)
        BY <3>1, <3>2, <3>3
      <4> QED BY <3>1, <4>1, WindowIsInterval
    <3>4. CASE w.start <= v.start
      <4>1. w.start <= v.start /\ v.start < EndOf(w) /\ v.start <= v.start /\ v.start < EndOf(v)
        BY <3>1, <3>2, <3>4
      <4> QED BY <3>1, <4>1, WindowIsInterval
    <3>5. v.start <= w.start \/ w.start <= v.start
      BY <3>1
    <3> QED BY <3>3, <3>4, <3>5
  <2> QED BY <2>1, <2>2, <2>3 DEF AppliesTo
<1> QED BY <1>1, SharedPointConflicts

-----------------------------------------------------------------------------
(* The life of policies. *)

(* The initial state satisfies the inductive invariant.                      *)
LEMMA InitInductive == Init => IInv
  BY ConstantsAssumption
  DEF Init, IInv, TypeOK, LocalsSet, HasLocals, PublishedApart, IsPublished, Stored, NoCall, Calls, Phases

(* The drafts, revisions and publications that calls derive are policies.    *)
LEMMA NewDraftTyped ==
    ASSUME NEW content \in Contents, NEW n \in Numbers
    PROVE  NewDraft(content, n) \in Policies /\ NewDraft(content, n).status = "draft"
  BY ConstantsAssumption DEF NewDraft, Policies, Positive, Numbers

LEMMA NextRevisionTyped ==
    ASSUME NEW p \in Policies, NEW content \in Contents
    PROVE  /\ UpdatedDraft(p, content) \in Policies
           /\ p.status = "draft" => UpdatedDraft(p, content).status = "draft"
           /\ Published(p) \in Policies
<1>1. p.revision + 1 \in Positive
  BY DEF Policies, Positive
<1> QED BY <1>1 DEF UpdatedDraft, Published, Policies

(* A stored policy is a policy.                                              *)
LEMMA StoredTyped ==
    ASSUME TypeOK, NEW k \in Keys
    PROVE  /\ Stored(k) <=> policies[k] \in Policies
           /\ IsDraft(k) => policies[k] \in Policies /\ policies[k].status = "draft"
  BY NoneAssumption DEF TypeOK, Stored, IsDraft

(* Telling a caller of a policy keeps the type of accepted.                  *)
LEMMA TellTyped ==
    ASSUME TypeOK, NEW k \in Keys, NEW p \in Policies, Tell(k, p)
    PROVE  accepted' \in [Keys -> Policies \cup {None}]
  BY DEF TypeOK, Tell

(* A caller that is not in a call has the locals of none.                    *)
LEMMA NoCallTyped == NoCall \in Calls
  BY DEF NoCall, Calls

-----------------------------------------------------------------------------
(* What a step does to the calls: it begins one, moves one on or ends one.    *)

CallsTyped == pc \in [Callers -> Phases] /\ call \in [Callers -> Calls]

LEMMA CallMoves ==
    ASSUME TypeOK, LocalsSet, NEW c \in Callers, NEW phase \in Phases, NEW l \in Calls,
           pc' = [pc EXCEPT ![c] = phase], call' = [call EXCEPT ![c] = l],
           HasLocals(phase, l)
    PROVE  CallsTyped' /\ LocalsSet'
<1>1. CallsTyped'
  BY DEF CallsTyped, TypeOK
<1>2. SUFFICES ASSUME NEW d \in Callers
               PROVE  HasLocals(pc'[d], call'[d])
  BY <1>1 DEF LocalsSet
<1>3. CASE d = c
  BY <1>3 DEF TypeOK
<1>4. CASE d # c
  <2>1. pc'[d] = pc[d] /\ call'[d] = call[d]
    BY <1>4 DEF TypeOK
  <2> QED BY <2>1 DEF LocalsSet
<1> QED BY <1>3, <1>4

(* A call returns.                                                           *)
LEMMA CallReturns ==
    ASSUME TypeOK, LocalsSet, NEW c \in Callers, Return(c)
    PROVE  CallsTyped' /\ LocalsSet'
<1>1. HasLocals("idle", NoCall)
  BY DEF HasLocals
<1>2. "idle" \in Phases
  BY DEF Phases
<1> QED BY <1>1, <1>2, NoCallTyped, CallMoves DEF Return

(* A call keeps its locals and goes on to a phase that needs no others.      *)
LEMMA CallGoes ==
    ASSUME TypeOK, LocalsSet, NEW c \in Callers, NEW phase \in Phases,
           Goto(c, phase), HasLocals(phase, call[c])
    PROVE  CallsTyped' /\ LocalsSet'
<1>1. call[c] \in Calls /\ call' = [call EXCEPT ![c] = call[c]]
  BY DEF Goto, TypeOK
<1> QED BY <1>1, CallMoves DEF Goto

(* A call begins with these locals.                                          *)
LEMMA CallBegins ==
    ASSUME TypeOK, LocalsSet, NEW c \in Callers, NEW phase \in Phases, NEW l \in Calls,
           NEW operation, Begin(c, operation, phase, l), HasLocals(phase, l)
    PROVE  CallsTyped' /\ LocalsSet' /\ calls' \in Nat
<1>1. calls' \in Nat
  BY DEF Begin, TypeOK
<1> QED BY <1>1, CallMoves DEF Begin
-----------------------------------------------------------------------------
(* A call that begins, with the policy it read, keeps the invariant.         *)
LEMMA CallStepTyped ==
    ASSUME TypeOK, LocalsSet, NEW c \in Callers, CallStep(c)
    PROVE  TypeOK' /\ LocalsSet'
<1> DEFINE Kept == UNCHANGED <<repositoryVars, audited, accepted>>
<1>1. ASSUME NEW operation, NEW phase \in Phases, NEW l \in Calls,
             Begin(c, operation, phase, l), HasLocals(phase, l), Kept
      PROVE  TypeOK' /\ LocalsSet'
  <2>1. CallsTyped' /\ LocalsSet' /\ calls' \in Nat
    BY <1>1, CallBegins
  <2> QED BY <1>1, <2>1 DEF TypeOK, CallsTyped, repositoryVars
<1> USE DEF Phases, HasLocals
<1>2. CASE CreateDraft(c)
  <2>1. PICK k \in Keys, content \in Contents, n \in Numbers :
            Begin(c, "draft", "save_draft",
                  [NoCall EXCEPT !.key = k, !.candidate = NewDraft(content, n)])
    BY <1>2 DEF CreateDraft
  <2> DEFINE l == [NoCall EXCEPT !.key = k, !.candidate = NewDraft(content, n)]
  <2>2. l \in Calls /\ l.key = k /\ l.candidate = NewDraft(content, n)
    BY NewDraftTyped DEF NoCall, Calls
  <2>3. HasLocals("save_draft", l)
    BY <2>2, NewDraftTyped
  <2> QED BY <1>1, <1>2, <2>1, <2>2, <2>3 DEF CreateDraft
<1>3. CASE UpdateDraft(c)
  <2>1. PICK k \in Keys, content \in Contents :
            /\ IsDraft(k)
            /\ Begin(c, "update", "save_update",
                     [NoCall EXCEPT !.key = k, !.base = policies[k],
                                    !.candidate = UpdatedDraft(policies[k], content)])
    BY <1>3 DEF UpdateDraft
  <2> DEFINE l == [NoCall EXCEPT !.key = k, !.base = policies[k],
                                 !.candidate = UpdatedDraft(policies[k], content)]
  <2>2. /\ policies[k] \in Policies /\ policies[k].status = "draft"
        /\ UpdatedDraft(policies[k], content) \in Policies
        /\ UpdatedDraft(policies[k], content).status = "draft"
    BY <2>1, StoredTyped, NextRevisionTyped
  <2>3. /\ l \in Calls
        /\ l.key = k /\ l.base = policies[k] /\ l.candidate = UpdatedDraft(policies[k], content)
    BY <2>2 DEF NoCall, Calls
  <2>4. HasLocals("save_update", l)
    BY <2>2, <2>3
  <2> QED BY <1>1, <1>3, <2>1, <2>3, <2>4 DEF UpdateDraft
<1>4. CASE CreateVersion(c)
  <2>1. PICK k \in Keys, v \in VersionIds :
            Begin(c, "version", "number", [NoCall EXCEPT !.key = [k EXCEPT !.version = v]])
    BY <1>4 DEF CreateVersion
  <2> DEFINE l == [NoCall EXCEPT !.key = [k EXCEPT !.version = v]]
  <2>2. [k EXCEPT !.version = v] \in Keys
    BY DEF Keys
  <2>3. l \in Calls /\ l.key \in Keys
    BY <2>2 DEF NoCall, Calls
  <2>4. HasLocals("number", l)
    BY <2>3
  <2> QED BY <1>1, <1>4, <2>1, <2>3, <2>4 DEF CreateVersion
<1>5. CASE Simulate(c)
  <2>1. PICK k \in Keys, i \in SimulationIds, clean \in BOOLEAN :
            /\ IsDraft(k)
            /\ Begin(c, "simulate", "save_simulation",
                     [NoCall EXCEPT !.id = i,
                                    !.result = [key |-> k, revision |-> policies[k].revision,
                                                content |-> policies[k].content,
                                                clean |-> clean]])
    BY <1>5 DEF Simulate
  <2> DEFINE r == [key |-> k, revision |-> policies[k].revision,
                   content |-> policies[k].content, clean |-> clean]
             l == [NoCall EXCEPT !.id = i, !.result = r]
  <2>2. r \in Simulations
    BY <2>1, StoredTyped DEF Simulations, Policies
  <2>3. l \in Calls /\ l.id = i /\ l.result = r
    BY <2>2 DEF NoCall, Calls
  <2>4. HasLocals("save_simulation", l)
    BY <2>2, <2>3
  <2> QED BY <1>1, <1>5, <2>1, <2>3, <2>4 DEF Simulate
<1>6. CASE Publish(c)
  <2>1. PICK k \in Keys, i \in SimulationIds :
            /\ IsDraft(k)
            /\ Begin(c, "publish", "evidence",
                     [NoCall EXCEPT !.key = k, !.base = policies[k], !.id = i])
    BY <1>6 DEF Publish
  <2> DEFINE l == [NoCall EXCEPT !.key = k, !.base = policies[k], !.id = i]
  <2>2. l \in Calls /\ l.key = k /\ l.base \in Policies /\ l.id = i
    BY <2>1, StoredTyped DEF NoCall, Calls
  <2>3. HasLocals("evidence", l)
    BY <2>2
  <2> QED BY <1>1, <1>6, <2>1, <2>2, <2>3 DEF Publish
<1>7. CASE Decide(c)
  <2>1. PICK p \in Proposals, product \in Products, channel \in Channels, t \in Instants,
             k \in Keys :
            /\ Matches(product, channel, t) = {k}
            /\ Begin(c, "decide", "commit_decision",
                     [NoCall EXCEPT !.key = k, !.candidate = policies[k], !.proposal = p])
    BY <1>7 DEF Decide
  <2> DEFINE l == [NoCall EXCEPT !.key = k, !.candidate = policies[k], !.proposal = p]
  <2>2. policies[k] \in Policies
    BY <2>1, StoredTyped DEF Matches, IsPublished
  <2>3. l \in Calls /\ l.key = k /\ l.candidate = policies[k] /\ l.proposal = p
    BY <2>2 DEF NoCall, Calls
  <2>4. HasLocals("commit_decision", l)
    BY <2>2, <2>3
  <2> QED BY <1>1, <1>7, <2>1, <2>3, <2>4 DEF Decide
<1> QED BY <1>2, <1>3, <1>4, <1>5, <1>6, <1>7 DEF CallStep

(* So does every later step of a call.                                       *)
LEMMA ProceedTyped ==
    ASSUME TypeOK, LocalsSet, NEW c \in Callers, Proceed(c)
    PROVE  TypeOK' /\ LocalsSet'
<1> DEFINE k == call[c].key
           p == call[c].candidate
<1>1. HasLocals(pc[c], call[c]) /\ call[c] \in Calls
  BY DEF LocalsSet, TypeOK
<1>2. ASSUME policies' \in [Keys -> Policies \cup {None}],
             simulations' \in [SimulationIds -> Simulations \cup {None}],
             decisions' \in [Proposals -> [key : Keys, policy : Policies] \cup {None}],
             audited' \subseteq [key : Keys, policy : Policies, simulation : Simulations],
             accepted' \in [Keys -> Policies \cup {None}],
             CallsTyped' /\ LocalsSet', UNCHANGED calls
      PROVE  TypeOK' /\ LocalsSet'
  BY <1>2 DEF TypeOK, CallsTyped
<1>3. ASSUME NEW q \in Policies \cup {None}, k \in Keys, Store(k, q)
      PROVE  policies' \in [Keys -> Policies \cup {None}]
  BY <1>3 DEF Store, TypeOK
<1> USE DEF repositoryVars
<1>4. CASE SaveDraft(c)
  <2>1. k \in Keys /\ p \in Policies /\ p.status = "draft"
    BY <1>1, <1>4 DEF SaveDraft, HasLocals
  <2>2. HasLocals("audit_draft", call[c])
    BY <2>1 DEF HasLocals
  <2>3. CallsTyped' /\ LocalsSet'
    BY <1>4, <2>2, CallGoes DEF SaveDraft, Phases
  <2> QED BY <1>2, <1>3, <1>4, <2>1, <2>3 DEF SaveDraft, TypeOK
<1>5. CASE DraftAuditFails(c)
  <2>1. k \in Keys
    BY <1>1, <1>5 DEF DraftAuditFails, HasLocals
  <2>2. CallsTyped' /\ LocalsSet'
    BY <1>5, CallReturns DEF DraftAuditFails
  <2> QED BY <1>2, <1>3, <1>5, <2>1, <2>2 DEF DraftAuditFails, TypeOK
<1>6. CASE SaveUpdate(c)
  <2>1. /\ k \in Keys /\ p \in Policies /\ call[c].base \in Policies
        /\ p.status = "draft" /\ call[c].base.status = "draft"
    BY <1>1, <1>6 DEF SaveUpdate, HasLocals
  <2>2. HasLocals("audit_update", call[c])
    BY <2>1 DEF HasLocals
  <2>3. CallsTyped' /\ LocalsSet'
    BY <1>6, <2>2, CallGoes DEF SaveUpdate, Phases
  <2> QED BY <1>2, <1>3, <1>6, <2>1, <2>3 DEF SaveUpdate, TypeOK
<1>7. CASE UpdateAuditFails(c)
  <2>1. k \in Keys /\ call[c].base \in Policies
    BY <1>1, <1>7 DEF UpdateAuditFails, HasLocals
  <2>2. CallsTyped' /\ LocalsSet'
    BY <1>7, CallReturns DEF UpdateAuditFails
  <2>3. policies' \in [Keys -> Policies \cup {None}]
    BY <1>3, <1>7, <2>1 DEF UpdateAuditFails, Restored, TypeOK
  <2> QED BY <1>2, <1>7, <2>2, <2>3 DEF UpdateAuditFails, TypeOK
<1>8. CASE ChangeAudited(c)
  <2>1. k \in Keys /\ p \in Policies
    BY <1>1, <1>8 DEF ChangeAudited, HasLocals
  <2>2. CallsTyped' /\ LocalsSet'
    BY <1>8, CallReturns DEF ChangeAudited
  <2> QED BY <1>2, <1>8, <2>1, <2>2, TellTyped DEF ChangeAudited, TypeOK
<1>9. CASE TakeNumber(c)
  <2>1. PICK content \in Contents, n \in Numbers : call' = [call EXCEPT ![c].candidate = NewDraft(content, n)]
    BY <1>9 DEF TakeNumber
  <2> DEFINE l == [call[c] EXCEPT !.candidate = NewDraft(content, n)]
  <2>2. k \in Keys
    BY <1>1, <1>9 DEF TakeNumber, HasLocals
  <2>3. l \in Calls /\ l.key = k /\ l.candidate = NewDraft(content, n)
    BY <1>1, NewDraftTyped DEF Calls
  <2>4. HasLocals("save_version", l)
    BY <2>2, <2>3, NewDraftTyped DEF HasLocals
  <2>5. call' = [call EXCEPT ![c] = l]
    BY <2>1
  <2>6. CallsTyped' /\ LocalsSet'
    BY <1>9, <2>3, <2>4, <2>5, CallMoves DEF TakeNumber, Phases
  <2> QED BY <1>2, <1>9, <2>6 DEF TakeNumber, TypeOK
<1>10. CASE SaveVersion(c)
  <2>1. k \in Keys /\ p \in Policies
    BY <1>1, <1>10 DEF SaveVersion, HasLocals
  <2>2. CallsTyped' /\ LocalsSet'
    BY <1>10, CallReturns DEF SaveVersion
  <2> QED BY <1>2, <1>3, <1>10, <2>1, <2>2, TellTyped DEF SaveVersion, TypeOK
<1>11. CASE SaveSimulation(c)
  <2>1. call[c].id \in SimulationIds /\ call[c].result \in Simulations
    BY <1>1, <1>11 DEF SaveSimulation, HasLocals
  <2>2. HasLocals("audit_simulation", call[c])
    BY <2>1 DEF HasLocals
  <2>3. CallsTyped' /\ LocalsSet'
    BY <1>11, <2>2, CallGoes DEF SaveSimulation, Phases
  <2> QED BY <1>2, <1>11, <2>1, <2>3 DEF SaveSimulation, TypeOK
<1>12. CASE SimulationAudited(c) \/ SimulationAuditFails(c)
  <2>1. CallsTyped' /\ LocalsSet'
    BY <1>12, CallReturns DEF SimulationAudited, SimulationAuditFails
  <2> QED BY <1>2, <1>12, <2>1 DEF SimulationAudited, SimulationAuditFails, TypeOK
<1>13. CASE CheckEvidence(c)
  <2> DEFINE s == simulations[call[c].id]
             l == [call[c] EXCEPT !.candidate = Published(call[c].base), !.result = s]
  <2>1. k \in Keys /\ call[c].base \in Policies /\ call[c].id \in SimulationIds
    BY <1>1, <1>13 DEF CheckEvidence, HasLocals
  <2>2. s \in Simulations
    BY <1>13, <2>1 DEF CheckEvidence, EvidenceFound, TypeOK
  <2>3. Published(call[c].base) \in Policies
    <3>1. call[c].base.content \in Contents
      BY <2>1 DEF Policies
    <3> QED BY <2>1, <3>1, NextRevisionTyped
  <2>4. /\ l \in Calls
        /\ l.key = k /\ l.base = call[c].base
        /\ l.candidate = Published(call[c].base) /\ l.result = s
    BY <1>1, <2>2, <2>3 DEF Calls
  <2>5. HasLocals("commit", l)
    BY <2>1, <2>2, <2>3, <2>4 DEF HasLocals
  <2>6. call' = [call EXCEPT ![c] = l]
    BY <1>13 DEF CheckEvidence
  <2>7. CallsTyped' /\ LocalsSet'
    BY <1>13, <2>4, <2>5, <2>6, CallMoves DEF CheckEvidence, Phases
  <2> QED BY <1>2, <1>13, <2>7 DEF CheckEvidence, TypeOK
<1>14. CASE CommitPublication(c)
  <2>1. k \in Keys /\ p \in Policies /\ call[c].result \in Simulations
    BY <1>1, <1>14 DEF CommitPublication, HasLocals
  <2>2. CallsTyped' /\ LocalsSet'
    BY <1>14, CallReturns DEF CommitPublication
  <2>3. audited' \subseteq [key : Keys, policy : Policies, simulation : Simulations]
    BY <1>14, <2>1 DEF CommitPublication, PublicationAudited, TypeOK
  <2> QED BY <1>2, <1>3, <1>14, <2>1, <2>2, <2>3, TellTyped DEF CommitPublication, TypeOK
<1>15. CASE CommitDecision(c)
  <2>1. k \in Keys /\ p \in Policies /\ call[c].proposal \in Proposals
    BY <1>1, <1>15 DEF CommitDecision, HasLocals
  <2>2. CallsTyped' /\ LocalsSet'
    BY <1>15, CallReturns DEF CommitDecision
  <2> QED BY <1>2, <1>15, <2>1, <2>2 DEF CommitDecision, TypeOK
<1>16. CASE Fail(c)
  <2>1. CallsTyped' /\ LocalsSet'
    BY <1>16, CallReturns DEF Fail
  <2> QED BY <1>2, <1>16, <2>1 DEF Fail, TypeOK
<1> QED BY <1>4, <1>5, <1>6, <1>7, <1>8, <1>9, <1>10, <1>11, <1>12, <1>13, <1>14, <1>15, <1>16
        DEF Proceed
-----------------------------------------------------------------------------
(* Published policies stay apart. *)

(* Conflicts are mutual.                                                     *)
LEMMA ConflictIsMutual ==
    ASSUME NEW v, NEW w
    PROVE  Conflict(v, w) <=> Conflict(w, v)
<1>1. v.channels \cap w.channels = w.channels \cap v.channels
  OBVIOUS
<1> QED BY <1>1 DEF Conflict, WindowsOverlap, ChannelsOverlap

(* No policy becomes published or is published with other contents.          *)
NothingPublished ==
    \A k \in Keys : IsPublished(k)' => IsPublished(k) /\ policies'[k] = policies[k]

(* A draft that is stored, or a policy that is removed, publishes nothing.   *)
LEMMA DraftStored ==
    ASSUME TypeOK, NEW k \in Keys, NEW q, Store(k, q), q = None \/ q.status = "draft"
    PROVE  NothingPublished
  BY DEF TypeOK, Store, IsPublished, Stored, NothingPublished

(* A publication whose window is free conflicts with no other policy.        *)
LEMMA FreeWindowPublished ==
    ASSUME TypeOK, LocalsSet, PublishedApart, NEW c \in Callers, CommitPublication(c)
    PROVE  PublishedApart'
<1> DEFINE key == call[c].key
           W(k) == WindowOf[policies'[k].content]
<1>1. key \in Keys
  BY DEF LocalsSet, HasLocals, CommitPublication
<1>2. policies'[key] = call[c].candidate
  BY <1>1 DEF CommitPublication, Store, TypeOK
<1>3. \A l \in Keys \ {key} : policies'[l] = policies[l] /\ (IsPublished(l)' <=> IsPublished(l))
  BY <1>1 DEF CommitPublication, Store, TypeOK, IsPublished, Stored
<1>4. \A l \in Keys \ {key} : IsPublished(l)' => ~Conflict(W(key), W(l))
  BY <1>2, <1>3 DEF CommitPublication, WindowIsFree
<1>5. SUFFICES ASSUME NEW k \in Keys, NEW l \in Keys, IsPublished(k)', IsPublished(l)',
                      Conflict(W(k), W(l))
               PROVE  k = l
  BY DEF PublishedApart
<1>6. CASE k = key
  BY <1>4, <1>5, <1>6
<1>7. CASE l = key
  <2>1. Conflict(W(l), W(k))
    BY <1>5, ConflictIsMutual
  <2> QED BY <1>4, <1>5, <1>7, <2>1
<1>8. CASE k # key /\ l # key
  BY <1>3, <1>5, <1>8 DEF PublishedApart
<1> QED BY <1>6, <1>7, <1>8

(* Only a publication publishes.                                             *)
LEMMA OnlyPublication ==
    ASSUME TypeOK, LocalsSet, NEW c \in Callers, CallStep(c) \/ Proceed(c),
           ~CommitPublication(c)
    PROVE  NothingPublished /\ UNCHANGED audited
<1> USE DEF repositoryVars
<1>1. HasLocals(pc[c], call[c])
  BY DEF LocalsSet
<1>2. UNCHANGED policies => NothingPublished
  BY DEF IsPublished, Stored, NothingPublished
<1>3. CASE SaveDraft(c) \/ SaveUpdate(c) \/ SaveVersion(c)
  <2>1. call[c].key \in Keys /\ call[c].candidate.status = "draft"
    BY <1>1, <1>3 DEF HasLocals, SaveDraft, SaveUpdate, SaveVersion
  <2> QED BY <1>3, <2>1, DraftStored DEF SaveDraft, SaveUpdate, SaveVersion
<1>4. CASE DraftAuditFails(c)
  <2>1. call[c].key \in Keys
    BY <1>1, <1>4 DEF HasLocals, DraftAuditFails
  <2> QED BY <1>4, <2>1, DraftStored DEF DraftAuditFails
<1>5. CASE UpdateAuditFails(c)
  <2>1. call[c].key \in Keys /\ call[c].base.status = "draft"
    BY <1>1, <1>5 DEF HasLocals, UpdateAuditFails
  <2> QED BY <1>2, <1>5, <2>1, DraftStored DEF UpdateAuditFails, Restored
<1>6. CASE CallStep(c)
  BY <1>2, <1>6 DEF CallStep, CreateDraft, UpdateDraft, CreateVersion, Simulate, Publish, Decide
<1>7. CASE Proceed(c)
  BY <1>2, <1>3, <1>4, <1>5, <1>7
  DEF Proceed, ChangeAudited, TakeNumber, SaveSimulation, SimulationAudited,
      SimulationAuditFails, CheckEvidence, CommitDecision, Fail
<1> QED BY <1>6, <1>7

(* Every step keeps the published policies apart.                            *)
LEMMA ApartPreserved ==
    ASSUME TypeOK, LocalsSet, PublishedApart, NEW c \in Callers, CallStep(c) \/ Proceed(c)
    PROVE  PublishedApart'
<1>1. NothingPublished => PublishedApart'
  BY DEF NothingPublished, PublishedApart
<1> QED BY <1>1, OnlyPublication, FreeWindowPublished

-----------------------------------------------------------------------------
(* Every reachable state satisfies the inductive invariant.                  *)
THEOREM Invariance == Spec => []IInv
<1>1. IInv /\ [Next]_vars => IInv'
  <2>1. SUFFICES ASSUME IInv, [Next]_vars
                 PROVE  IInv'
    OBVIOUS
  <2> USE DEF IInv
  <2>2. CASE UNCHANGED vars
    BY <2>1, <2>2 DEF vars, repositoryVars, TypeOK, LocalsSet, PublishedApart, IsPublished, Stored
  <2>3. ASSUME NEW c \in Callers, CallStep(c) \/ Proceed(c)
        PROVE  IInv'
    BY <2>1, <2>3, CallStepTyped, ProceedTyped, ApartPreserved
  <2> QED BY <2>1, <2>2, <2>3 DEF Next, Finished
<1> QED BY <1>1, InitInductive, PTL DEF Spec

(* The types of the repositories and of the locals of every call.            *)
THEOREM TypeCorrect == Spec => []TypeOK
<1>1. IInv => TypeOK
  BY DEF IInv
<1> QED BY <1>1, Invariance, PTL

(* No decision ever finds two policies that apply.                           *)
THEOREM DecisionsUnambiguous == Spec => []SelectionUnambiguous
<1>1. IInv => SelectionUnambiguous
  <2> SUFFICES ASSUME IInv, NEW product \in Products, NEW channel \in Channels,
                      NEW t \in Instants,
                      NEW k \in Matches(product, channel, t),
                      NEW l \in Matches(product, channel, t)
               PROVE  k = l
    BY DEF SelectionUnambiguous
  <2>1. /\ k \in Keys /\ IsPublished(k)
        /\ AppliesTo(WindowOf[policies[k].content], product, channel, t)
        /\ l \in Keys /\ IsPublished(l)
        /\ AppliesTo(WindowOf[policies[l].content], product, channel, t)
    BY DEF Matches
  <2>2. /\ WindowOf[policies[k].content] \in Windows
        /\ WindowOf[policies[l].content] \in Windows
    BY <2>1, StoredTyped, ConstantsAssumption DEF IInv, IsPublished, Policies
  <2>3. Conflict(WindowOf[policies[k].content], WindowOf[policies[l].content])
    BY <2>1, <2>2, SharedPointConflicts
  <2> QED BY <2>1, <2>3 DEF IInv, PublishedApart
<1> QED BY <1>1, Invariance, PTL

(* A published policy was audited as published.                              *)
THEOREM PublicationsAreAudited == Spec => []AuditedBeforeVisible
<1>1. Init => AuditedBeforeVisible
  BY DEF Init, AuditedBeforeVisible, IsPublished, Stored
<1>2. IInv /\ AuditedBeforeVisible /\ [Next]_vars => AuditedBeforeVisible'
  <2>1. SUFFICES ASSUME IInv, AuditedBeforeVisible, [Next]_vars
                 PROVE  AuditedBeforeVisible'
    OBVIOUS
  <2>2. ASSUME NothingPublished, UNCHANGED audited
        PROVE  AuditedBeforeVisible'
    BY <2>1, <2>2 DEF AuditedBeforeVisible, NothingPublished
  <2>3. CASE UNCHANGED vars
    BY <2>2, <2>3 DEF vars, repositoryVars, NothingPublished, IsPublished, Stored
  <2>4. ASSUME NEW c \in Callers, CallStep(c) \/ Proceed(c)
        PROVE  AuditedBeforeVisible'
    <3>1. CASE CommitPublication(c)
      <4> DEFINE a == [key |-> call[c].key, policy |-> call[c].candidate,
                       simulation |-> call[c].result]
      <4>1. /\ audited' = audited \cup {a}
            /\ policies' = [policies EXCEPT ![call[c].key] = call[c].candidate]
        BY <3>1 DEF CommitPublication, PublicationAudited, Store
      <4>2. \A k \in Keys : k = call[c].key =>
                a.key = k /\ a.policy = policies'[k]
        BY <2>1, <4>1 DEF IInv, TypeOK
      <4>3. \A k \in Keys : k # call[c].key =>
                policies'[k] = policies[k] /\ (IsPublished(k)' <=> IsPublished(k))
        BY <2>1, <4>1 DEF IInv, TypeOK, IsPublished, Stored
      <4>4. ASSUME NEW k \in Keys, IsPublished(k)'
            PROVE  \E b \in audited' : b.key = k /\ b.policy = policies'[k]
        <5>1. CASE k = call[c].key
          BY <4>1, <4>2, <5>1
        <5>2. CASE k # call[c].key
          BY <2>1, <4>1, <4>3, <4>4, <5>2 DEF AuditedBeforeVisible
        <5> QED BY <5>1, <5>2
      <4> QED BY <4>4 DEF AuditedBeforeVisible
    <3>2. CASE ~CommitPublication(c)
      BY <2>1, <2>2, <2>4, <3>2, OnlyPublication DEF IInv
    <3> QED BY <3>1, <3>2
  <2> QED BY <2>1, <2>3, <2>4 DEF Next, Finished
<1> QED BY <1>1, <1>2, Invariance, PTL DEF Spec

(* A proposal is decided once.                                               *)
THEOREM DecisionsAreFinal == Spec => DecisionsFinal
<1>1. IInv /\ [Next]_vars =>
          [\A p \in Proposals : decisions[p] # None => decisions'[p] = decisions[p]]_vars
  <2>1. SUFFICES ASSUME IInv, Next
                 PROVE  \A p \in Proposals : decisions[p] # None => decisions'[p] = decisions[p]
    OBVIOUS
  <2>2. CASE UNCHANGED decisions
    BY <2>2
  <2>3. ASSUME NEW c \in Callers, CommitDecision(c)
        PROVE  \A p \in Proposals : decisions[p] # None => decisions'[p] = decisions[p]
    BY <2>1, <2>3 DEF IInv, TypeOK, CommitDecision, Undecided
  <2>4. ASSUME NEW c \in Callers, CallStep(c)
        PROVE  UNCHANGED decisions
    BY <2>4 DEF CallStep, CreateDraft, UpdateDraft, CreateVersion, Simulate, Publish, Decide,
                repositoryVars
  <2>5. ASSUME NEW c \in Callers, Proceed(c), ~CommitDecision(c)
        PROVE  UNCHANGED decisions
    BY <2>5 DEF Proceed, SaveDraft, DraftAuditFails, SaveUpdate, UpdateAuditFails, ChangeAudited,
                TakeNumber, SaveVersion, SaveSimulation, SimulationAudited, SimulationAuditFails,
                CheckEvidence, CommitPublication, Fail, repositoryVars
  <2> QED BY <2>1, <2>2, <2>3, <2>4, <2>5 DEF Next, Finished, vars, repositoryVars
<1> QED BY <1>1, Invariance, PTL DEF Spec, DecisionsFinal

-----------------------------------------------------------------------------
(* Where no change is compensated.                                           *)

SimulationGone(c) ==
    /\ pc[c] = "audit_simulation"
    /\ simulations' = [simulations EXCEPT ![call[c].id] = None]
    /\ Return(c)
    /\ UNCHANGED <<policies, decisions, audited, accepted, calls>>

(* A call ends without an effect, with a result or an error.                 *)
GivesUp(c) == Return(c) /\ UNCHANGED <<repositoryVars, audited, accepted, calls>>

Saves(c) ==
    \/ SaveDraft(c) \/ SaveUpdate(c) \/ ChangeAudited(c) \/ TakeNumber(c) \/ SaveVersion(c)
    \/ SaveSimulation(c) \/ CheckEvidence(c) \/ CommitPublication(c) \/ CommitDecision(c)

SteadyStep(c) == CallStep(c) \/ Saves(c) \/ SimulationGone(c) \/ GivesUp(c)

(* A policy is replaced by a later revision while it is a draft, or stays.   *)
Advances ==
    \A k \in Keys : Stored(k) =>
        /\ policies'[k] \in Policies
        /\ \/ policies'[k] = policies[k]
           \/ IsDraft(k) /\ policies[k].revision < policies'[k].revision

LEMMA SteadyInit == Init => SteadyInv
<1> SUFFICES ASSUME Init PROVE SteadyInv
  OBVIOUS
<1>1. IInv
  BY InitInductive
<1>2. ReadsHold
  BY DEF Init, ReadsHold, ReadAt
<1>3. EvidenceHolds /\ DecidersPublished /\ AcceptedKept /\ DecisionsExplained
  BY DEF Init, EvidenceHolds, DecidersPublished, AcceptedKept, DecisionsExplained
<1>4. PublishedWasSimulated
  BY DEF Init, PublishedWasSimulated, IsPublished, Stored
<1> QED BY <1>1, <1>2, <1>3, <1>4 DEF SteadyInv

(* What was seen, evaluated or published stays so.                           *)
LEMMA SeenStays ==
    ASSUME TypeOK, Advances, NEW k \in Keys, NEW p \in Policies, Seen(k, p)
    PROVE  Seen(k, p)'
<1>1. policies[k] \in Policies /\ policies[k].revision \in Nat /\ p.revision \in Nat
  BY StoredTyped DEF Seen, Policies, Positive
<1>2. policies'[k] \in Policies /\ policies'[k].revision \in Nat
  BY DEF Advances, Seen, Policies, Positive
<1>3. policies'[k] = policies[k] \/ policies[k].revision < policies'[k].revision
  BY DEF Advances, Seen
<1>4. policies'[k] # None
  BY <1>2, NoneAssumption
<1> QED BY <1>1, <1>2, <1>3, <1>4 DEF Seen, Stored

LEMMA EvaluatedStays ==
    ASSUME TypeOK, Advances, NEW s \in Simulations, Evaluated(s)
    PROVE  Evaluated(s)'
<1>0. s.key \in Keys /\ s.revision \in Nat
  BY DEF Simulations, Positive
<1>1. policies[s.key] \in Policies /\ policies[s.key].revision \in Nat
  BY <1>0, StoredTyped DEF Evaluated, Policies, Positive
<1>2. policies'[s.key] \in Policies /\ policies'[s.key].revision \in Nat
  BY <1>0 DEF Advances, Evaluated, Policies, Positive
<1>3. policies'[s.key] = policies[s.key] \/ policies[s.key].revision < policies'[s.key].revision
  BY <1>0 DEF Advances, Evaluated
<1>4. policies'[s.key] # None
  BY <1>2, NoneAssumption
<1> QED BY <1>0, <1>1, <1>2, <1>3, <1>4 DEF Evaluated, Stored

LEMMA PublishedStays ==
    ASSUME Advances, NEW k \in Keys, IsPublished(k)
    PROVE  policies'[k] = policies[k] /\ IsPublished(k)'
BY DEF Advances, IsPublished, IsDraft, Stored

LEMMA ReadStays ==
    ASSUME TypeOK, Advances, NEW phase, NEW l \in Calls, HasLocals(phase, l), ReadAt(phase, l)
    PROVE  ReadAt(phase, l)'
<1>1. phase \in {"save_update", "evidence", "commit"} => Seen(l.key, l.base)'
  BY SeenStays DEF HasLocals, ReadAt
<1>2. phase \in {"audit_draft", "audit_update"} => Seen(l.key, l.candidate)'
  BY SeenStays DEF HasLocals, ReadAt
<1>3. phase = "commit_decision" => IsPublished(l.key)' /\ policies'[l.key] = l.candidate
  BY PublishedStays DEF HasLocals, ReadAt
<1>4. phase \in {"save_simulation", "commit"} => Evaluated(l.result)'
  BY EvaluatedStays DEF HasLocals, ReadAt
<1> QED BY <1>1, <1>2, <1>3, <1>4 DEF ReadAt

(* What the other parts of the invariant need of a step.                     *)
LEMMA CallsRead ==
    ASSUME SteadyInv, Advances, NEW c \in Callers, NEW phase, NEW l,
           pc' = [pc EXCEPT ![c] = phase], call' = [call EXCEPT ![c] = l],
           ReadAt(phase, l)'
    PROVE  ReadsHold'
<1>0. TypeOK /\ LocalsSet /\ ReadsHold
  BY DEF SteadyInv, IInv
<1> SUFFICES ASSUME NEW d \in Callers PROVE ReadAt(pc[d], call[d])'
  BY DEF ReadsHold
<1>1. CASE d = c
  <2>1. pc'[d] = phase /\ call'[d] = l
    BY <1>0, <1>1 DEF TypeOK
  <2> QED BY <2>1 DEF ReadAt, Seen, Evaluated, IsPublished, Stored, Simulates, Published
<1>2. CASE d # c
  <2>1. pc'[d] = pc[d] /\ call'[d] = call[d]
    BY <1>0, <1>2 DEF TypeOK
  <2>2. call[d] \in Calls /\ HasLocals(pc[d], call[d]) /\ ReadAt(pc[d], call[d])
    BY <1>0 DEF TypeOK, LocalsSet, ReadsHold
  <2>3. PICK ph, m : ph = pc[d] /\ m = call[d]
    OBVIOUS
  <2>4. ReadAt(ph, m)'
    BY <1>0, <2>2, <2>3, ReadStays
  <2> QED BY <2>1, <2>3, <2>4 DEF ReadAt, Seen, Evaluated, IsPublished, Stored
<1> QED BY <1>1, <1>2

LEMMA CallsReturned ==
    ASSUME SteadyInv, Advances, NEW c \in Callers, Return(c)
    PROVE  ReadsHold'
<1>1. ReadAt("idle", NoCall)'
  BY DEF ReadAt
<1> QED BY <1>1, CallsRead DEF Return

LEMMA EvidenceStays ==
    ASSUME SteadyInv, Advances,
           \A i \in SimulationIds : simulations'[i] # None =>
              \/ simulations'[i] = simulations[i]
              \/ simulations'[i] \in Simulations /\ Evaluated(simulations'[i])
    PROVE  EvidenceHolds'
<1>0. TypeOK /\ EvidenceHolds
  BY DEF SteadyInv, IInv
<1> SUFFICES ASSUME NEW i \in SimulationIds, simulations'[i] # None
             PROVE  Evaluated(simulations[i])'
  BY DEF EvidenceHolds
<1>1. PICK s : s = simulations'[i]
  OBVIOUS
<1>2. s \in Simulations /\ Evaluated(s)
  BY <1>0, <1>1 DEF TypeOK, EvidenceHolds
<1>3. Evaluated(s)'
  BY <1>0, <1>2, EvaluatedStays
<1> QED BY <1>1, <1>3 DEF Evaluated, Stored

LEMMA DecisionsStay ==
    ASSUME SteadyInv, Advances,
           \A p \in Proposals : decisions'[p] # None =>
              \/ decisions'[p] = decisions[p]
              \/ /\ decisions'[p].key \in Keys
                 /\ IsPublished(decisions'[p].key)
                 /\ policies[decisions'[p].key] = decisions'[p].policy
    PROVE  DecidersPublished' /\ DecisionsExplained'
<1>0. TypeOK /\ DecidersPublished /\ DecisionsExplained
  BY DEF SteadyInv, IInv
<1>1. ASSUME NEW p \in Proposals, decisions'[p] # None
      PROVE  IsPublished(decisions[p].key)' /\ policies'[decisions'[p].key] = decisions'[p].policy
  <2>1. PICK d : d = decisions'[p]
    OBVIOUS
  <2>2. d.key \in Keys /\ IsPublished(d.key) /\ policies[d.key] = d.policy
    BY <1>0, <1>1, <2>1 DEF TypeOK, DecidersPublished, DecisionsExplained
  <2>3. policies'[d.key] = policies[d.key] /\ IsPublished(d.key)'
    BY <2>2, PublishedStays
  <2> QED BY <2>1, <2>2, <2>3 DEF IsPublished, Stored
<1> QED BY <1>1 DEF DecidersPublished, DecisionsExplained

LEMMA AcceptedStays ==
    ASSUME SteadyInv, Advances,
           \A k \in Keys : accepted'[k] # None =>
              \/ accepted'[k] = accepted[k]
              \/ accepted'[k] \in Policies /\ Seen(k, accepted'[k])
              \/ accepted'[k] \in Policies /\ policies'[k] = accepted'[k]
    PROVE  AcceptedKept'
<1>0. TypeOK /\ AcceptedKept
  BY DEF SteadyInv, IInv
<1> SUFFICES ASSUME NEW k \in Keys, accepted'[k] # None
             PROVE  /\ Stored(k)'
                    /\ accepted'[k].revision <= policies'[k].revision
                    /\ accepted'[k].revision = policies'[k].revision => accepted'[k] = policies'[k]
  BY DEF AcceptedKept
<1>1. PICK p : p = accepted'[k]
  OBVIOUS
<1>2. p \in Policies
  BY <1>0, <1>1 DEF TypeOK
<1>3. CASE policies'[k] = p
  <2>1. p # None /\ p.revision \in Nat
    BY <1>2, NoneAssumption DEF Policies, Positive
  <2> QED BY <1>1, <1>3, <2>1 DEF Stored
<1>4. CASE Seen(k, p)
  <2>1. Seen(k, p)'
    BY <1>0, <1>2, <1>4, SeenStays
  <2> QED BY <1>1, <2>1 DEF Seen, Stored
<1>5. accepted'[k] = accepted[k] => Seen(k, p)
  BY <1>0, <1>1 DEF AcceptedKept, Seen
<1> QED BY <1>1, <1>3, <1>4, <1>5

(* Such a step keeps the invariant of all steps.                             *)
LEMMA SteadyTyped ==
    ASSUME IInv, NEW c \in Callers, SteadyStep(c)
    PROVE  IInv'
<1>0. TypeOK /\ LocalsSet /\ PublishedApart
  BY DEF IInv
<1>1. CASE CallStep(c)
  BY <1>0, <1>1, CallStepTyped, ApartPreserved DEF IInv
<1>2. CASE Saves(c)
  <2>1. Proceed(c)
    BY <1>2 DEF Saves, Proceed
  <2> QED BY <1>0, <2>1, ProceedTyped, ApartPreserved DEF IInv
<1>3. CASE SimulationGone(c) \/ GivesUp(c)
  <2>1. CallsTyped' /\ LocalsSet'
    BY <1>0, <1>3, CallReturns DEF SimulationGone, GivesUp
  <2>2. TypeOK'
    BY <1>0, <1>3, <2>1 DEF SimulationGone, GivesUp, TypeOK, CallsTyped, repositoryVars
  <2>3. PublishedApart'
    BY <1>0, <1>3
    DEF SimulationGone, GivesUp, PublishedApart, IsPublished, Stored, repositoryVars
  <2> QED BY <2>1, <2>2, <2>3 DEF IInv
<1> QED BY <1>1, <1>2, <1>3 DEF SteadyStep

(* What a call knows in its phase.                                           *)
LEMMA CallKnows ==
    ASSUME SteadyInv, NEW c \in Callers
    PROVE  TypeOK /\ call[c] \in Calls /\ HasLocals(pc[c], call[c]) /\ ReadAt(pc[c], call[c])
  BY DEF SteadyInv, IInv, TypeOK, LocalsSet, ReadsHold

(* A policy that still has the revision that was read is the draft that was. *)
LEMMA BaseIsDraft ==
    ASSUME SteadyInv, NEW c \in Callers, pc[c] \in {"save_update", "commit"}, BaseIsCurrent(c)
    PROVE  /\ call[c].key \in Keys /\ call[c].base \in Policies
           /\ policies[call[c].key] = call[c].base
           /\ IsDraft(call[c].key)
  BY CallKnows DEF HasLocals, ReadAt, BaseIsCurrent, HasRevision, Seen, IsDraft

(* Storing a new policy, or the next revision of a draft, is an advance.      *)
LEMMA StoringAdvances ==
    ASSUME TypeOK, NEW k \in Keys, NEW p \in Policies, Store(k, p),
           Stored(k) => IsDraft(k) /\ policies[k].revision < p.revision
    PROVE  Advances
<1> SUFFICES ASSUME NEW j \in Keys, Stored(j)
             PROVE  /\ policies'[j] \in Policies
                    /\ \/ policies'[j] = policies[j]
                       \/ IsDraft(j) /\ policies[j].revision < policies'[j].revision
  BY DEF Advances
<1>1. policies[j] \in Policies
  BY StoredTyped
<1>2. policies'[j] = IF j = k THEN p ELSE policies[j]
  BY DEF Store, TypeOK
<1> QED BY <1>1, <1>2

(* Every step advances the policies.                                         *)
LEMMA StepAdvances ==
    ASSUME SteadyInv, NEW c \in Callers, SteadyStep(c)
    PROVE  Advances
<1> DEFINE k == call[c].key
           p == call[c].candidate
<1>0. TypeOK /\ HasLocals(pc[c], call[c]) /\ ReadAt(pc[c], call[c])
  BY CallKnows
<1>1. CASE UNCHANGED policies
  BY <1>0, <1>1, StoredTyped DEF Advances
<1>2. CASE SaveDraft(c) \/ SaveVersion(c)
  <2>1. k \in Keys /\ p \in Policies /\ ~Stored(k) /\ Store(k, p)
    BY <1>0, <1>2 DEF HasLocals, SaveDraft, SaveVersion, VersionIsNew
  <2> QED BY <1>0, <2>1, StoringAdvances
<1>3. CASE SaveUpdate(c)
  <2>1. k \in Keys /\ policies[k] = call[c].base /\ call[c].base \in Policies /\ IsDraft(k)
    BY <1>3, BaseIsDraft DEF SaveUpdate
  <2>2. p \in Policies /\ p.revision = call[c].base.revision + 1 /\ Store(k, p)
    BY <1>0, <1>3 DEF HasLocals, ReadAt, SaveUpdate
  <2>3. policies[k].revision < p.revision
    BY <2>1, <2>2 DEF Policies, Positive
  <2> QED BY <1>0, <2>1, <2>2, <2>3, StoringAdvances
<1>4. CASE CommitPublication(c)
  <2>1. k \in Keys /\ policies[k] = call[c].base /\ call[c].base \in Policies /\ IsDraft(k)
    BY <1>4, BaseIsDraft DEF CommitPublication
  <2>2. p \in Policies /\ p = Published(call[c].base) /\ Store(k, p)
    BY <1>0, <1>4 DEF HasLocals, ReadAt, CommitPublication
  <2>3. policies[k].revision < p.revision
    BY <2>1, <2>2 DEF Policies, Positive, Published
  <2> QED BY <1>0, <2>1, <2>2, <2>3, StoringAdvances
<1>5. CASE CallStep(c)
  BY <1>1, <1>5 DEF CallStep, CreateDraft, UpdateDraft, CreateVersion, Simulate, Publish, Decide,
                    repositoryVars
<1>6. CASE ChangeAudited(c) \/ TakeNumber(c) \/ SaveSimulation(c) \/ CheckEvidence(c)
           \/ CommitDecision(c) \/ SimulationGone(c) \/ GivesUp(c)
  BY <1>1, <1>6 DEF ChangeAudited, TakeNumber, SaveSimulation, CheckEvidence, CommitDecision,
                    SimulationGone, GivesUp, repositoryVars
<1> QED BY <1>2, <1>3, <1>4, <1>5, <1>6 DEF SteadyStep, Saves

(* A call that begins has read what the policies are.                         *)
LEMMA BeginningsRead ==
    ASSUME SteadyInv, Advances, NEW c \in Callers, CallStep(c)
    PROVE  ReadsHold'
<1>0. TypeOK /\ UNCHANGED policies
  BY DEF SteadyInv, IInv, CallStep, CreateDraft, UpdateDraft, CreateVersion, Simulate, Publish,
         Decide, repositoryVars
<1>1. ASSUME NEW operation, NEW phase, NEW l, Begin(c, operation, phase, l), ReadAt(phase, l)
      PROVE  ReadsHold'
  <2>1. ReadAt(phase, l)'
    BY <1>0, <1>1 DEF ReadAt, Seen, Evaluated, IsPublished, Stored
  <2> QED BY <1>1, <2>1, CallsRead DEF Begin
<1>2. ASSUME NEW k \in Keys, IsDraft(k)
      PROVE  /\ policies[k].revision \in Nat /\ policies[k].status = "draft"
             /\ Seen(k, policies[k])
  BY <1>0, <1>2, StoredTyped DEF Policies, Positive, Seen, IsDraft
<1>3. CASE CreateDraft(c) \/ CreateVersion(c)
  <2>1. \A l : ReadAt("save_draft", l) /\ ReadAt("number", l)
    BY DEF ReadAt
  <2> QED BY <1>1, <1>3, <2>1 DEF CreateDraft, CreateVersion
<1>4. CASE UpdateDraft(c)
  <2>1. PICK k \in Keys, content \in Contents :
            /\ IsDraft(k)
            /\ Begin(c, "update", "save_update",
                     [NoCall EXCEPT !.key = k, !.base = policies[k],
                                    !.candidate = UpdatedDraft(policies[k], content)])
    BY <1>4 DEF UpdateDraft
  <2>2. PICK l : l = [NoCall EXCEPT !.key = k, !.base = policies[k],
                                    !.candidate = UpdatedDraft(policies[k], content)]
    OBVIOUS
  <2>3. l.key = k /\ l.base = policies[k] /\ l.candidate = UpdatedDraft(policies[k], content)
    BY <2>2 DEF NoCall
  <2>4. l.candidate.revision = l.base.revision + 1
    BY <2>1, <2>3, <1>0, StoredTyped DEF UpdatedDraft, Policies
  <2>5. ReadAt("save_update", l)
    BY <1>2, <2>1, <2>3, <2>4 DEF ReadAt
  <2> QED BY <1>1, <2>1, <2>2, <2>5
<1>5. CASE Simulate(c)
  <2>1. PICK k \in Keys, i \in SimulationIds, clean \in BOOLEAN :
            /\ IsDraft(k)
            /\ Begin(c, "simulate", "save_simulation",
                     [NoCall EXCEPT !.id = i,
                                    !.result = [key |-> k, revision |-> policies[k].revision,
                                                content |-> policies[k].content,
                                                clean |-> clean]])
    BY <1>5 DEF Simulate
  <2>2. PICK l : l = [NoCall EXCEPT !.id = i,
                                    !.result = [key |-> k, revision |-> policies[k].revision,
                                                content |-> policies[k].content,
                                                clean |-> clean]]
    OBVIOUS
  <2>3. /\ l.result.key = k /\ l.result.revision = policies[k].revision
        /\ l.result.content = policies[k].content
    BY <2>2 DEF NoCall
  <2>4. Evaluated(l.result)
    BY <1>2, <2>1, <2>3 DEF Evaluated, IsDraft
  <2>5. ReadAt("save_simulation", l)
    BY <2>4 DEF ReadAt
  <2> QED BY <1>1, <2>1, <2>2, <2>5
<1>6. CASE Publish(c)
  <2>1. PICK k \in Keys, i \in SimulationIds :
            /\ IsDraft(k)
            /\ Begin(c, "publish", "evidence",
                     [NoCall EXCEPT !.key = k, !.base = policies[k], !.id = i])
    BY <1>6 DEF Publish
  <2>2. PICK l : l = [NoCall EXCEPT !.key = k, !.base = policies[k], !.id = i]
    OBVIOUS
  <2>3. l.key = k /\ l.base = policies[k]
    BY <2>2 DEF NoCall
  <2>4. ReadAt("evidence", l)
    BY <1>2, <2>1, <2>3 DEF ReadAt
  <2> QED BY <1>1, <2>1, <2>2, <2>4
<1>7. CASE Decide(c)
  <2>1. PICK proposal \in Proposals, product \in Products, channel \in Channels, t \in Instants,
             k \in Keys :
            /\ Matches(product, channel, t) = {k}
            /\ Begin(c, "decide", "commit_decision",
                     [NoCall EXCEPT !.key = k, !.candidate = policies[k], !.proposal = proposal])
    BY <1>7 DEF Decide
  <2>2. PICK l : l = [NoCall EXCEPT !.key = k, !.candidate = policies[k], !.proposal = proposal]
    OBVIOUS
  <2>3. l.key = k /\ l.candidate = policies[k]
    BY <2>2 DEF NoCall
  <2>4. IsPublished(k)
    BY <2>1 DEF Matches
  <2>5. ReadAt("commit_decision", l)
    BY <2>3, <2>4 DEF ReadAt
  <2> QED BY <1>1, <2>1, <2>2, <2>5
<1> QED BY <1>3, <1>4, <1>5, <1>6, <1>7 DEF CallStep

(* So does a call that goes on, or it returns.                                *)
LEMMA StepsRead ==
    ASSUME SteadyInv, NEW c \in Callers, SteadyStep(c)
    PROVE  ReadsHold'
<1>0. Advances
  BY StepAdvances
<1>1. /\ TypeOK /\ EvidenceHolds
      /\ call[c] \in Calls /\ HasLocals(pc[c], call[c]) /\ ReadAt(pc[c], call[c])
  BY CallKnows DEF SteadyInv
<1>2. CASE CallStep(c)
  BY <1>0, <1>2, BeginningsRead
<1>3. PICK l : l = call[c]
  OBVIOUS
<1>4. call' = [call EXCEPT ![c] = l] <=> UNCHANGED call
  BY <1>1, <1>3 DEF TypeOK
<1>5. ASSUME SaveDraft(c) \/ SaveUpdate(c)
      PROVE  ReadsHold'
  <2>1. l.key \in Keys /\ l.candidate \in Policies /\ policies' = [policies EXCEPT ![l.key] = l.candidate]
    BY <1>1, <1>3, <1>5 DEF SaveDraft, SaveUpdate, HasLocals, Store
  <2>2. policies'[l.key] = l.candidate /\ l.candidate # None /\ l.candidate.revision \in Nat
    BY <1>1, <2>1, NoneAssumption DEF TypeOK, Policies, Positive
  <2>3. Seen(l.key, l.candidate)'
    BY <2>2 DEF Seen, Stored
  <2>4. ReadAt("audit_draft", l)' /\ ReadAt("audit_update", l)'
    BY <2>3 DEF ReadAt
  <2>5. \E phase \in {"audit_draft", "audit_update"} :
            pc' = [pc EXCEPT ![c] = phase] /\ UNCHANGED call
    BY <1>5 DEF SaveDraft, SaveUpdate, Goto
  <2> QED BY <1>0, <1>1, <1>3, <1>4, <2>4, <2>5, CallsRead
<1>6. CASE SaveSimulation(c)
  <2>1. ReadAt("audit_simulation", l)'
    BY DEF ReadAt
  <2> QED BY <1>0, <1>1, <1>3, <1>4, <1>6, <2>1, CallsRead DEF SaveSimulation, Goto
<1>7. CASE TakeNumber(c)
  <2>1. PICK m : call' = [call EXCEPT ![c] = m]
    <3>1. PICK content \in Contents, n \in Numbers :
              call' = [call EXCEPT ![c].candidate = NewDraft(content, n)]
      BY <1>7 DEF TakeNumber
    <3> QED BY <3>1
  <2>2. ReadAt("save_version", m)'
    BY DEF ReadAt
  <2> QED BY <1>0, <1>7, <2>1, <2>2, CallsRead DEF TakeNumber
<1>8. CASE CheckEvidence(c)
  <2>1. PICK m : m = [l EXCEPT !.candidate = Published(l.base), !.result = simulations[l.id]]
    OBVIOUS
  <2>2. /\ m.key = l.key /\ m.base = l.base /\ m.candidate = Published(l.base)
        /\ m.result = simulations[l.id]
    BY <1>1, <1>3, <2>1 DEF Calls
  <2>3. l.id \in SimulationIds /\ Seen(l.key, l.base) /\ l.base.status = "draft"
    BY <1>1, <1>3, <1>8 DEF CheckEvidence, HasLocals, ReadAt
  <2>4. Simulates(m.result, l.key, l.base) /\ Evaluated(m.result)
    BY <1>1, <1>3, <1>8, <2>2, <2>3 DEF CheckEvidence, EvidenceFound, EvidenceHolds
  <2>5. ReadAt("commit", m)
    BY <2>2, <2>3, <2>4 DEF ReadAt
  <2>6. UNCHANGED policies
    BY <1>8 DEF CheckEvidence, repositoryVars
  <2>7. ReadAt("commit", m)'
    BY <2>5, <2>6 DEF ReadAt, Seen, Evaluated, Stored
  <2>8. call' = [call EXCEPT ![c] = m]
    BY <1>3, <1>8, <2>1 DEF CheckEvidence
  <2> QED BY <1>0, <1>8, <2>7, <2>8, CallsRead DEF CheckEvidence
<1>9. CASE Return(c)
  BY <1>0, <1>9, CallsReturned
<1>10. CASE ChangeAudited(c) \/ SaveVersion(c) \/ CommitPublication(c) \/ CommitDecision(c)
            \/ SimulationGone(c) \/ GivesUp(c)
  BY <1>9, <1>10
  DEF ChangeAudited, SaveVersion, CommitPublication, CommitDecision, SimulationGone, GivesUp
<1> QED BY <1>2, <1>5, <1>6, <1>7, <1>8, <1>10 DEF SteadyStep, Saves

(* The rest of the invariant.                                                *)
LEMMA StepsEvidence ==
    ASSUME SteadyInv, NEW c \in Callers, SteadyStep(c)
    PROVE  EvidenceHolds'
<1>1. /\ TypeOK
      /\ call[c] \in Calls /\ HasLocals(pc[c], call[c]) /\ ReadAt(pc[c], call[c])
  BY CallKnows
<1>2. CASE SaveSimulation(c)
  <2>1. /\ call[c].id \in SimulationIds
        /\ call[c].result \in Simulations /\ Evaluated(call[c].result)
        /\ simulations' = [simulations EXCEPT ![call[c].id] = call[c].result]
    BY <1>1, <1>2 DEF SaveSimulation, HasLocals, ReadAt
  <2>2. \A i \in SimulationIds :
            simulations'[i] = IF i = call[c].id THEN call[c].result ELSE simulations[i]
    BY <1>1, <2>1 DEF TypeOK
  <2> QED BY <2>1, <2>2, StepAdvances, EvidenceStays
<1>3. CASE SimulationGone(c)
  <2>1. \A i \in SimulationIds : simulations'[i] # None => simulations'[i] = simulations[i]
    BY <1>1, <1>3 DEF SimulationGone, TypeOK
  <2> QED BY <2>1, StepAdvances, EvidenceStays
<1>4. CASE UNCHANGED simulations
  BY <1>4, StepAdvances, EvidenceStays
<1>5. CASE CallStep(c)
  BY <1>4, <1>5 DEF CallStep, CreateDraft, UpdateDraft, CreateVersion, Simulate, Publish, Decide,
                    repositoryVars
<1>6. CASE (Saves(c) \/ GivesUp(c)) /\ ~SaveSimulation(c)
  BY <1>4, <1>6 DEF Saves, SaveDraft, SaveUpdate, ChangeAudited, TakeNumber, SaveVersion,
                    CheckEvidence, CommitPublication, CommitDecision, GivesUp, repositoryVars
<1> QED BY <1>2, <1>3, <1>5, <1>6 DEF SteadyStep

LEMMA StepsDecide ==
    ASSUME SteadyInv, NEW c \in Callers, SteadyStep(c)
    PROVE  DecidersPublished' /\ DecisionsExplained'
<1>1. /\ TypeOK
      /\ call[c] \in Calls /\ HasLocals(pc[c], call[c]) /\ ReadAt(pc[c], call[c])
  BY CallKnows
<1>2. CASE CommitDecision(c)
  <2> DEFINE d == [key |-> call[c].key, policy |-> call[c].candidate]
  <2>1. /\ call[c].proposal \in Proposals
        /\ d.key \in Keys /\ IsPublished(d.key) /\ policies[d.key] = d.policy
        /\ decisions' = [decisions EXCEPT ![call[c].proposal] = d]
    BY <1>1, <1>2 DEF CommitDecision, HasLocals, ReadAt
  <2>2. \A p \in Proposals : decisions'[p] = IF p = call[c].proposal THEN d ELSE decisions[p]
    BY <1>1, <2>1 DEF TypeOK
  <2>3. \A p \in Proposals : decisions'[p] # None =>
            \/ decisions'[p] = decisions[p]
            \/ /\ decisions'[p].key \in Keys
               /\ IsPublished(decisions'[p].key)
               /\ policies[decisions'[p].key] = decisions'[p].policy
    BY <2>1, <2>2
  <2> QED BY <2>3, StepAdvances, DecisionsStay
<1>3. CASE UNCHANGED decisions
  BY <1>3, StepAdvances, DecisionsStay
<1>4. CASE CallStep(c)
  BY <1>3, <1>4 DEF CallStep, CreateDraft, UpdateDraft, CreateVersion, Simulate, Publish, Decide,
                    repositoryVars
<1>5. CASE (Saves(c) \/ SimulationGone(c) \/ GivesUp(c)) /\ ~CommitDecision(c)
  BY <1>3, <1>5 DEF Saves, SaveDraft, SaveUpdate, ChangeAudited, TakeNumber, SaveVersion,
                    SaveSimulation, CheckEvidence, CommitPublication, SimulationGone, GivesUp,
                    repositoryVars
<1> QED BY <1>2, <1>4, <1>5 DEF SteadyStep

LEMMA StepsTell ==
    ASSUME SteadyInv, NEW c \in Callers, SteadyStep(c)
    PROVE  AcceptedKept'
<1> DEFINE k == call[c].key
           p == call[c].candidate
<1>1. /\ TypeOK
      /\ call[c] \in Calls /\ HasLocals(pc[c], call[c]) /\ ReadAt(pc[c], call[c])
  BY CallKnows
<1>2. ASSUME k \in Keys, p \in Policies, Tell(k, p), Seen(k, p) \/ policies'[k] = p
      PROVE  AcceptedKept'
  <2>0. UNCHANGED accepted \/ accepted' = [accepted EXCEPT ![k] = p]
    BY <1>2 DEF Tell
  <2>1. \A j \in Keys : accepted'[j] = accepted[j] \/ (j = k /\ accepted'[j] = p)
    BY <1>1, <2>0 DEF TypeOK
  <2>2. \A j \in Keys : accepted'[j] # None =>
            \/ accepted'[j] = accepted[j]
            \/ accepted'[j] \in Policies /\ Seen(j, accepted'[j])
            \/ accepted'[j] \in Policies /\ policies'[j] = accepted'[j]
    BY <1>2, <2>1
  <2> QED BY <2>2, StepAdvances, AcceptedStays
<1>3. CASE ChangeAudited(c)
  BY <1>1, <1>2, <1>3 DEF ChangeAudited, HasLocals, ReadAt
<1>4. CASE SaveVersion(c) \/ CommitPublication(c)
  <2>1. k \in Keys /\ p \in Policies /\ Store(k, p) /\ Tell(k, p)
    BY <1>1, <1>4 DEF SaveVersion, CommitPublication, HasLocals
  <2>2. policies'[k] = p
    BY <1>1, <2>1 DEF Store, TypeOK
  <2> QED BY <1>2, <2>1, <2>2
<1>5. CASE UNCHANGED accepted
  BY <1>5, StepAdvances, AcceptedStays
<1>6. CASE CallStep(c)
  BY <1>5, <1>6 DEF CallStep, CreateDraft, UpdateDraft, CreateVersion, Simulate, Publish, Decide
<1>7. CASE SaveDraft(c) \/ SaveUpdate(c) \/ TakeNumber(c) \/ SaveSimulation(c) \/ CheckEvidence(c)
           \/ CommitDecision(c) \/ SimulationGone(c) \/ GivesUp(c)
  BY <1>5, <1>7 DEF SaveDraft, SaveUpdate, TakeNumber, SaveSimulation, CheckEvidence,
                    CommitDecision, SimulationGone, GivesUp
<1> QED BY <1>3, <1>4, <1>6, <1>7 DEF SteadyStep, Saves

(* A publication is of the content that was simulated.                       *)
LEMMA StepsPublish ==
    ASSUME SteadyInv, NEW c \in Callers, SteadyStep(c)
    PROVE  PublishedWasSimulated'
<1>1. /\ TypeOK /\ LocalsSet /\ PublishedWasSimulated
      /\ call[c] \in Calls /\ HasLocals(pc[c], call[c]) /\ ReadAt(pc[c], call[c])
  BY CallKnows DEF SteadyInv, IInv
<1>2. CASE CommitPublication(c)
  <2> DEFINE k == call[c].key
             b == call[c].base
             a == [key |-> k, policy |-> call[c].candidate, simulation |-> call[c].result]
  <2>1. k \in Keys /\ policies[k] = b /\ b \in Policies
    BY <1>2, BaseIsDraft DEF CommitPublication
  <2>2. /\ call[c].candidate = Published(b)
        /\ Simulates(call[c].result, k, b)
        /\ Evaluated(call[c].result)
    BY <1>1, <1>2 DEF CommitPublication, ReadAt
  <2>3. call[c].result.content = b.content
    BY <2>1, <2>2 DEF Simulates, Evaluated
  <2>4. Published(b).content = b.content
    BY <2>1 DEF Published, Policies
  <2>5. /\ audited' = audited \cup {a}
        /\ policies' = [policies EXCEPT ![k] = call[c].candidate]
    BY <1>2 DEF CommitPublication, PublicationAudited, Store
  <2>6. SUFFICES ASSUME NEW j \in Keys, IsPublished(j)'
                 PROVE  \E e \in audited' : /\ e.key = j
                                            /\ e.policy = policies'[j]
                                            /\ e.simulation.content = policies'[j].content
    BY DEF PublishedWasSimulated
  <2>7. CASE j = k
    <3>1. policies'[j] = call[c].candidate
      BY <1>1, <2>1, <2>5, <2>7 DEF TypeOK
    <3>2. a.key = j /\ a.policy = policies'[j] /\ a.simulation = call[c].result
      BY <2>7, <3>1
    <3>3. policies'[j].content = b.content
      BY <2>2, <2>4, <3>1
    <3> QED BY <2>3, <2>5, <3>2, <3>3
  <2>8. CASE j # k
    <3>1. policies'[j] = policies[j]
      BY <1>1, <2>5, <2>8 DEF TypeOK
    <3>2. IsPublished(j)
      BY <2>6, <3>1 DEF IsPublished, Stored
    <3> QED BY <1>1, <2>5, <3>1, <3>2 DEF PublishedWasSimulated
  <2> QED BY <2>7, <2>8
<1>3. ASSUME NothingPublished, UNCHANGED audited
      PROVE  PublishedWasSimulated'
  BY <1>1, <1>3 DEF PublishedWasSimulated, NothingPublished
<1>4. CASE (CallStep(c) \/ Saves(c)) /\ ~CommitPublication(c)
  <2>1. CallStep(c) \/ Proceed(c)
    BY <1>4 DEF Saves, Proceed
  <2> QED BY <1>1, <1>3, <1>4, <2>1, OnlyPublication
<1>5. CASE SimulationGone(c) \/ GivesUp(c)
  BY <1>3, <1>5 DEF SimulationGone, GivesUp, NothingPublished, IsPublished, Stored, repositoryVars
<1> QED BY <1>2, <1>4, <1>5 DEF SteadyStep

LEMMA SteadyPreserved ==
    ASSUME SteadyInv, NEW c \in Callers, SteadyStep(c)
    PROVE  SteadyInv'
<1>1. IInv
  BY DEF SteadyInv
<1> QED BY <1>1, SteadyTyped, StepsRead, StepsEvidence, StepsDecide, StepsTell, StepsPublish
        DEF SteadyInv

LEMMA SteadyStutters ==
    ASSUME SteadyInv, UNCHANGED vars
    PROVE  SteadyInv'
<1>1. UNCHANGED <<policies, simulations, decisions, audited, accepted, pc, call, calls>>
  BY DEF vars, repositoryVars
<1>2. IInv'
  BY <1>1 DEF SteadyInv, IInv, TypeOK, LocalsSet, PublishedApart, IsPublished, Stored
<1>3. ReadsHold'
  BY <1>1 DEF SteadyInv, ReadsHold, ReadAt, Seen, Evaluated, IsPublished, Stored
<1>4. EvidenceHolds' /\ DecidersPublished'
  BY <1>1 DEF SteadyInv, EvidenceHolds, DecidersPublished, Evaluated, IsPublished, Stored
<1>5. AcceptedKept' /\ DecisionsExplained' /\ PublishedWasSimulated'
  BY <1>1 DEF SteadyInv, AcceptedKept, DecisionsExplained, PublishedWasSimulated, IsPublished, Stored
<1> QED BY <1>2, <1>3, <1>4, <1>5 DEF SteadyInv

-----------------------------------------------------------------------------
(* Where the audits of drafts and updates do not fail, every reachable state *)
(* satisfies the steady invariant.                                           *)
THEOREM SteadyInvariance ==
    ASSUME "draft_audit" \notin Faults, "update_audit" \notin Faults
    PROVE  Spec => []SteadyInv
<1>1. SteadyInv /\ [Next]_vars => SteadyInv'
  <2>1. ASSUME NEW c \in Callers, CallStep(c) \/ Proceed(c)
        PROVE  SteadyStep(c)
    BY <2>1 DEF Proceed, SteadyStep, Saves, DraftAuditFails, UpdateAuditFails, SimulationAudited,
                SimulationAuditFails, SimulationGone, Fail, GivesUp
  <2> QED BY <2>1, SteadyPreserved, SteadyStutters DEF Next, Finished
<1> QED BY <1>1, SteadyInit, PTL DEF Spec

(* There no accepted change of a policy is lost, whatever interleaves,       *)
THEOREM ChangesAreKept ==
    ASSUME "draft_audit" \notin Faults, "update_audit" \notin Faults
    PROVE  Spec => []AcceptedKept
<1>1. SteadyInv => AcceptedKept
  BY DEF SteadyInv
<1> QED BY <1>1, SteadyInvariance, PTL

(* the policy of every decision is stored as it was when it decided,         *)
THEOREM DecisionsAreExplained ==
    ASSUME "draft_audit" \notin Faults, "update_audit" \notin Faults
    PROVE  Spec => []DecisionsExplained
<1>1. SteadyInv => DecisionsExplained
  BY DEF SteadyInv
<1> QED BY <1>1, SteadyInvariance, PTL

(* and every published policy was simulated with its content.                *)
THEOREM PublicationsWereSimulated ==
    ASSUME "draft_audit" \notin Faults, "update_audit" \notin Faults
    PROVE  Spec => []PublishedWasSimulated
<1>1. SteadyInv => PublishedWasSimulated
  BY DEF SteadyInv
<1> QED BY <1>1, SteadyInvariance, PTL

(* The steps of the model that the run of policies takes when no change is   *)
(* compensated are such steps.                                               *)
LEMMA SteadySteps ==
    ASSUME Steady!Next
    PROVE  UNCHANGED vars \/ \E c \in Callers : SteadyStep(c)
<1>1. Steady!Finished => UNCHANGED vars
  BY DEF Steady!Finished, Steady!vars, vars, Steady!repositoryVars, repositoryVars
<1>2. ASSUME NEW c \in Callers, Steady!CallStep(c) \/ Steady!Proceed(c)
      PROVE  SteadyStep(c)
  <2>1. /\ (Steady!CreateDraft(c) <=> CreateDraft(c))
        /\ (Steady!TakeNumber(c) <=> TakeNumber(c))
        /\ (Steady!CreateVersion(c) <=> CreateVersion(c))
    BY DEF Steady!Begin, Begin, Steady!repositoryVars, repositoryVars, Steady!NoCall, NoCall,
       Steady!Keys, Keys, Steady!Stored, Stored, Steady!IsPublished, IsPublished,
       Steady!VersionsOf, VersionsOf, Steady!IsNextVersion, IsNextVersion,
       Steady!Numbers, Numbers, Steady!NewDraft, NewDraft, Steady!CreateDraft, CreateDraft,
       Steady!TakeNumber, TakeNumber, Steady!CreateVersion, CreateVersion
  <2>2. /\ (Steady!UpdateDraft(c) <=> UpdateDraft(c))
        /\ (Steady!Simulate(c) <=> Simulate(c))
        /\ (Steady!Publish(c) <=> Publish(c))
    BY DEF Steady!Begin, Begin, Steady!repositoryVars, repositoryVars, Steady!NoCall, NoCall,
       Steady!Keys, Keys, Steady!Stored, Stored, Steady!IsDraft, IsDraft,
       Steady!UpdatedDraft, UpdatedDraft, Steady!UpdateDraft, UpdateDraft,
       Steady!Simulate, Simulate, Steady!Publish, Publish
  <2>3. Steady!Decide(c) <=> Decide(c)
    BY DEF Steady!Begin, Begin, Steady!repositoryVars, repositoryVars, Steady!NoCall, NoCall,
       Steady!Keys, Keys, Steady!Stored, Stored, Steady!IsPublished, IsPublished,
       Steady!Matches, Matches, Steady!AppliesTo, AppliesTo,
       Steady!AppliesToChannel, AppliesToChannel, Steady!IsEffective, IsEffective,
       Steady!Decide, Decide
  <2>4. /\ (Steady!SaveDraft(c) <=> SaveDraft(c))
        /\ (Steady!SaveUpdate(c) <=> SaveUpdate(c))
        /\ (Steady!ChangeAudited(c) <=> ChangeAudited(c))
    BY DEF Steady!Store, Store, Steady!Goto, Goto, Steady!Return, Return, Steady!NoCall, NoCall,
       Steady!Tell, Tell, Steady!Stored, Stored, Steady!HasRevision, HasRevision,
       Steady!BaseIsCurrent, BaseIsCurrent, Steady!repositoryVars, repositoryVars,
       Steady!SaveDraft, SaveDraft, Steady!SaveUpdate, SaveUpdate,
       Steady!ChangeAudited, ChangeAudited
  <2>5. Steady!SaveVersion(c) <=> SaveVersion(c)
    BY DEF Steady!Store, Store, Steady!Return, Return, Steady!NoCall, NoCall, Steady!Tell, Tell,
       Steady!Keys, Keys, Steady!Stored, Stored, Steady!VersionsOf, VersionsOf,
       Steady!VersionIsNew, VersionIsNew, Steady!SaveVersion, SaveVersion
  <2>6. /\ (Steady!SaveSimulation(c) <=> SaveSimulation(c))
        /\ (Steady!CheckEvidence(c) <=> CheckEvidence(c))
    BY DEF Steady!Goto, Goto, Steady!Published, Published, Steady!Simulates, Simulates,
       Steady!EvidenceFound, EvidenceFound, Steady!repositoryVars, repositoryVars,
       Steady!SaveSimulation, SaveSimulation, Steady!CheckEvidence, CheckEvidence
  <2>7. /\ (Steady!CommitPublication(c) <=> CommitPublication(c))
        /\ (Steady!CommitDecision(c) <=> CommitDecision(c))
    BY DEF Steady!Store, Store, Steady!Return, Return, Steady!NoCall, NoCall, Steady!Tell, Tell,
       Steady!Keys, Keys, Steady!Stored, Stored, Steady!IsPublished, IsPublished,
       Steady!HasRevision, HasRevision, Steady!BaseIsCurrent, BaseIsCurrent,
       Steady!EndOf, EndOf, Steady!ChannelsOverlap, ChannelsOverlap,
       Steady!WindowsOverlap, WindowsOverlap, Steady!Conflict, Conflict,
       Steady!WindowIsFree, WindowIsFree, Steady!PublicationAudited, PublicationAudited,
       Steady!Undecided, Undecided, Steady!CommitPublication, CommitPublication,
       Steady!CommitDecision, CommitDecision
  <2>8. ~Steady!DraftAuditFails(c) /\ ~Steady!UpdateAuditFails(c)
    BY DEF Steady!DraftAuditFails, Steady!UpdateAuditFails
  <2>9. Steady!SimulationAuditFails(c) => SimulationGone(c)
    BY DEF Steady!SimulationAuditFails, SimulationGone, Steady!Return, Return, Steady!NoCall, NoCall
  <2>10. Steady!SimulationAudited(c) \/ Steady!Fail(c) => GivesUp(c)
    BY DEF Steady!SimulationAudited, Steady!Fail, GivesUp, Steady!Return, Return, Steady!NoCall,
       NoCall, Steady!repositoryVars, repositoryVars
  <2> QED
    BY <1>2, <2>1, <2>2, <2>3, <2>4, <2>5, <2>6, <2>7, <2>8, <2>9, <2>10
       DEF Steady!CallStep, Steady!Proceed, CallStep, SteadyStep, Saves
<1> QED BY <1>1, <1>2 DEF Steady!Next

LEMMA SteadyRun ==
    ASSUME ~compensating => SteadyInv, [ChangesNext]_<<vars, compensating>>
    PROVE  (~compensating => SteadyInv)'
<1>1. CASE UNCHANGED <<vars, compensating>>
  BY <1>1, SteadyStutters
<1>2. CASE ChangesNext
  <2> SUFFICES ASSUME ~compensating' PROVE SteadyInv'
    OBVIOUS
  <2>1. SteadyInv /\ Steady!Next
    BY <1>2 DEF ChangesNext
  <2> QED BY <2>1, SteadySteps, SteadyPreserved, SteadyStutters
<1> QED BY <1>1, <1>2

(* The run itself, for any number of callers and policies.                   *)
THEOREM RunKeepsChanges == ChangesSpec => []SteadyChangesKept
<1>1. ChangesInit => (~compensating => SteadyInv)
  BY SteadyInit DEF ChangesInit
<1>2. (~compensating => SteadyInv) => SteadyChangesKept
  BY DEF SteadyInv, SteadyChangesKept
<1> QED BY <1>1, <1>2, SteadyRun, PTL DEF ChangesSpec

THEOREM RunPublishesSimulated == ChangesSpec => []SteadyPublishedWasSimulated
<1>1. ChangesInit => (~compensating => SteadyInv)
  BY SteadyInit DEF ChangesInit
<1>2. (~compensating => SteadyInv) => SteadyPublishedWasSimulated
  BY DEF SteadyInv, SteadyPublishedWasSimulated
<1> QED BY <1>1, <1>2, SteadyRun, PTL DEF ChangesSpec
=============================================================================
