----------------------------- MODULE ServicesProofs -----------------------------
(***************************************************************************)
(* Proofs about the four components that MCServices runs, for every value  *)
(* of their constants: decisions and their queries, changes of             *)
(* configurations, reason code catalogs and business projections.          *)
(***************************************************************************)
EXTENDS MCServices, WellFoundedInduction, TLAPS

(* Decisions and queries: types, evidence before decisions and answers, one  *)
(* final decision for each proposal, no lock that is left behind, answers that *)
(* were true at an instant of their query.                                    *)

(* The steps at which found is what the call has read                         *)
Reading == {"explain", "answer", "justify", "inform"}

(* What the code relies on in a call: it is about a proposal; a decision it   *)
(* makes is of that proposal; from the check of save to the commit it holds   *)
(* the lock, so that its decision stays new, and before the commit the intent *)
(* is published; what it has read is stored and of the proposal.              *)
Sound(c) ==
    /\ pc[c] # "idle" => about[c] \in Proposals
    /\ pc[c] \in {"save", "publish", "commit"} =>
           found[c] \in Decisions /\ found[c].proposal = about[c]
    /\ pc[c] \in {"publish", "commit"} => lock = c /\ IsNew(found[c])
    /\ pc[c] = "commit" => [event |-> "completed", proposal |-> about[c]] \in trail
    /\ pc[c] \in Reading /\ found[c] # None =>
           found[c] \in decisions /\ found[c].proposal = about[c]

AllSound == \A c \in Callers : Sound(c)

(* The inductive invariant                                                    *)
Inv == TypeOK /\ AllSound /\ EvidencePrecedes /\ LockIsInUse

LEMMA InitInductive == Init => Inv
  BY ConstantsAssumption DEF Init, Inv, TypeOK, AllSound, Sound, Reading,
     EvidencePrecedes, LockIsInUse, Steps

(* The store answers with one of its decisions of the proposal, or nothing.   *)
LEMMA DecisionOfStored ==
    ASSUME NEW p, DecisionOf(p) # None
    PROVE  DecisionOf(p) \in decisions /\ DecisionOf(p).proposal = p
  BY DEF DecisionOf, Of

LEMMA DecisionOfType ==
    ASSUME NEW p, decisions \subseteq Decisions
    PROVE  DecisionOf(p) \in Decisions \cup {None}
  BY DEF DecisionOf, Of

(* Publishing adds one intent and takes none away.                            *)
LEMMA TrailGrows ==
    ASSUME NEW intent \in {"completed", "rejected", "retrieved", "query_rejected"},
           NEW p \in Proposals, trail \subseteq Intents,
           Publish(intent, p) \/ MayPublish(intent, p)
    PROVE  trail \subseteq trail' /\ trail' \subseteq Intents
  BY DEF Publish, MayPublish, Intents

-----------------------------------------------------------------------------
(* Types of everything but the views                                          *)
StoresTyped ==
    /\ decisions \subseteq Decisions
    /\ statuses \in [Proposals -> ProposalStatuses \cup {None}]
    /\ lock \in Callers \cup {None}
    /\ trail \subseteq Intents
    /\ told \subseteq Decisions
    /\ calls \in 0..MaxCalls

LocalsTyped ==
    /\ pc \in [Callers -> Steps]
    /\ about \in [Callers -> Proposals \cup {None}]
    /\ found \in [Callers -> Decisions \cup {None}]
    /\ status \in [Callers -> ProposalStatuses \cup {None}]

(* A call begins.                                                             *)
LEMMA StartTyped ==
    ASSUME Inv, NEW c \in Callers, Start(c)
    PROVE  StoresTyped' /\ LocalsTyped'
<1> USE DEF Inv, TypeOK, StoresTyped, LocalsTyped
<1>1. calls < MaxCalls /\ calls' = calls + 1 => calls' \in 0..MaxCalls
  BY ConstantsAssumption
<1>2. CASE Execute(c)
  <2>1. PICK d \in Decisions : Begin(c, d.proposal, "save") /\ Find(c, d)
    BY <1>2 DEF Execute
  <2>2. d.proposal \in Proposals
    BY DEF Decisions
  <2> QED BY <1>1, <1>2, <2>1, <2>2 DEF Execute, Begin, Find, Goto, Steps
<1>3. CASE Query(c)
  BY <1>1, <1>3 DEF Query, Begin, Goto, Steps
<1>4. CASE AskWhy(c)
  BY <1>1, <1>4 DEF AskWhy, Begin, Goto, Steps
<1> QED BY <1>2, <1>3, <1>4 DEF Start

(* A step of a call                                                           *)
LEMMA CallTyped ==
    ASSUME Inv, NEW c \in Callers, Call(c)
    PROVE  StoresTyped' /\ LocalsTyped'
<1> USE DEF Inv, TypeOK, StoresTyped, LocalsTyped, Goto, Done, Steps, locals
<1>1. pc[c] # "idle" => about[c] \in Proposals
  BY DEF AllSound, Sound
<1>2. pc[c] # "idle"
  BY DEF Call, Lock, PublishCompleted, Commit, ReadDecision, ReadStatus, ReadAgain, Explain,
         Answer, FindDecision, Justify, Inform
<1>3. DecisionOf(about[c]) \in Decisions \cup {None}
  BY DecisionOfType
<1>4. \A intent \in {"completed", "rejected", "retrieved", "query_rejected"} :
         Publish(intent, about[c]) \/ MayPublish(intent, about[c]) => trail' \subseteq Intents
  BY <1>1, <1>2, TrailGrows
<1>5. CASE Lock(c)
  BY <1>4, <1>5 DEF Lock
<1>6. CASE PublishCompleted(c)
  BY <1>4, <1>6 DEF PublishCompleted, Abandon
<1>7. CASE Commit(c)
  BY <1>7 DEF Commit, AllSound, Sound
<1>8. CASE ReadDecision(c) \/ ReadAgain(c)
  BY <1>3, <1>8 DEF ReadDecision, ReadAgain, Find
<1>9. CASE ReadStatus(c)
  BY <1>1, <1>2, <1>4, <1>9 DEF ReadStatus, Refuse, PublishRejection, AfterStatus
<1>10. CASE Explain(c)
  BY <1>4, <1>10 DEF Explain, Refuse, PublishRejection
<1>11. CASE Answer(c)
  BY <1>4, <1>11 DEF Answer, Refuse, PublishRejection, Tell
<1>12. CASE FindDecision(c)
  BY <1>3, <1>4, <1>12 DEF FindDecision, Find
<1>13. CASE Justify(c)
  BY <1>4, <1>13 DEF Justify
<1>14. CASE Inform(c)
  BY <1>4, <1>14 DEF Inform, Tell
<1> QED BY <1>5, <1>6, <1>7, <1>8, <1>9, <1>10, <1>11, <1>12, <1>13, <1>14 DEF Call

(* A client could have been told of a stored decision, a status or nothing.   *)
LEMMA ViewsTyped ==
    ASSUME Inv, Observe, StoresTyped', LocalsTyped'
    PROVE  views' \in [Callers -> SUBSET ([decision : Decisions \cup {None},
                                           status : ProposalStatuses \cup {None}])]
<1>1. ASSUME NEW c \in Callers, about'[c] # None
      PROVE  ViewOf(about[c])' \in [decision : Decisions \cup {None},
                                    status : ProposalStatuses \cup {None}]
  <2>1. DecisionOf(about[c])' \in Decisions \cup {None}
    BY DEF StoresTyped, DecisionOf, Of
  <2>2. statuses'[about'[c]] \in ProposalStatuses \cup {None}
    BY <1>1 DEF StoresTyped, LocalsTyped
  <2> QED BY <2>1, <2>2 DEF ViewOf, View
<1> QED BY <1>1 DEF Observe, Inv, TypeOK

LEMMA TypePreserved ==
    ASSUME Inv, Next
    PROVE  TypeOK'
<1>1. StoresTyped' /\ LocalsTyped'
  <2>1. CASE SaveStatus
    BY <2>1 DEF SaveStatus, locals, Inv, TypeOK, StoresTyped, LocalsTyped
  <2>2. CASE \E c \in Callers : Start(c) \/ Call(c)
    BY <2>2, StartTyped, CallTyped
  <2> QED BY <2>1, <2>2 DEF Next
<1>2. views' \in [Callers -> SUBSET ([decision : Decisions \cup {None},
                                       status : ProposalStatuses \cup {None}])]
  BY <1>1, ViewsTyped DEF Next
<1> QED BY <1>1, <1>2 DEF TypeOK, StoresTyped, LocalsTyped

-----------------------------------------------------------------------------
(* What one call does leaves what is said of the others, as long as decisions, *)
(* intents and answers are only added to and the lock stays with its holder.   *)
LEMMA OthersKeep ==
    ASSUME Inv, NEW c \in Callers, NEW d \in Callers \ {c},
           pc'[d] = pc[d], about'[d] = about[d], found'[d] = found[d],
           decisions \subseteq decisions', trail \subseteq trail',
           pc[d] \in {"publish", "commit"} => lock' = lock /\ decisions' = decisions
    PROVE  Sound(d)'
  BY DEF Inv, AllSound, Sound, IsNew

(* A step that gives no answer and stores nothing preserves the evidence.      *)
LEMMA EvidenceKept ==
    ASSUME EvidencePrecedes, decisions' = decisions, told' = told, trail \subseteq trail'
    PROVE  EvidencePrecedes'
  BY DEF EvidencePrecedes

(* While another call holds the lock it is in use; so is it while this one does. *)
LEMMA LockKept ==
    ASSUME Inv, NEW c \in Callers, pc' \in [Callers -> Steps],
           \A d \in Callers \ {c} : pc'[d] = pc[d],
           lock' = lock, pc[c] \notin {"publish", "commit"}
    PROVE  LockIsInUse'
  BY ConstantsAssumption DEF Inv, TypeOK, LockIsInUse

LEMMA StartStep ==
    ASSUME Inv, NEW c \in Callers, Start(c)
    PROVE  AllSound' /\ EvidencePrecedes' /\ LockIsInUse'
<1> USE DEF Inv, TypeOK
<1>1. /\ pc[c] = "idle"
      /\ pc' \in [Callers -> Steps]
      /\ pc'[c] \in {"save", "query", "find"}
      /\ about'[c] \in Proposals
      /\ pc'[c] = "save" => found'[c] \in Decisions /\ found'[c].proposal = about'[c]
      /\ \A d \in Callers \ {c} :
            pc'[d] = pc[d] /\ about'[d] = about[d] /\ found'[d] = found[d]
      /\ UNCHANGED <<decisions, lock, trail, told>>
  <2>1. CASE Execute(c)
    <3>1. PICK d \in Decisions : Begin(c, d.proposal, "save") /\ Find(c, d)
      BY <2>1 DEF Execute
    <3>2. d.proposal \in Proposals
      BY DEF Decisions
    <3> QED BY <2>1, <3>1, <3>2 DEF Execute, Begin, Find, Goto, Steps
  <2>2. CASE Query(c)
    BY <2>2 DEF Query, Begin, Goto, Steps
  <2>3. CASE AskWhy(c)
    BY <2>3 DEF AskWhy, Begin, Goto, Steps
  <2> QED BY <2>1, <2>2, <2>3 DEF Start
<1>2. \A d \in Callers \ {c} : Sound(d)'
  BY <1>1, OthersKeep
<1>3. Sound(c)'
  BY <1>1 DEF Sound, Reading
<1>4. EvidencePrecedes'
  BY <1>1, EvidenceKept
<1>5. LockIsInUse'
  BY <1>1, LockKept
<1> QED BY <1>2, <1>3, <1>4, <1>5 DEF AllSound

(* The intents stay, and so do the calls of the others.                       *)
LEMMA CallFrame ==
    ASSUME Inv, NEW c \in Callers, Call(c)
    PROVE  /\ trail \subseteq trail'
           /\ decisions \subseteq decisions'
           /\ \A d \in Callers \ {c} :
                 pc'[d] = pc[d] /\ about'[d] = about[d] /\ found'[d] = found[d]
           /\ pc[c] \notin {"save", "publish", "commit"} => lock' = lock
           /\ pc[c] # "commit" => decisions' = decisions
           /\ pc[c] \notin {"answer", "inform"} => told' = told
<1> USE DEF Inv, TypeOK, Goto, Done, locals, Publish, MayPublish
<1>1. CASE Lock(c) \/ PublishCompleted(c) \/ Commit(c)
  BY <1>1 DEF Lock, PublishCompleted, Commit, Abandon
<1>2. CASE ReadDecision(c) \/ ReadAgain(c) \/ FindDecision(c)
  BY <1>2 DEF ReadDecision, ReadAgain, FindDecision, Find
<1>3. CASE ReadStatus(c) \/ Explain(c) \/ Answer(c)
  BY <1>3 DEF ReadStatus, Explain, Answer, Refuse, PublishRejection
<1>4. CASE Justify(c) \/ Inform(c)
  BY <1>4 DEF Justify, Inform
<1> QED BY <1>1, <1>2, <1>3, <1>4 DEF Call

(* Whoever else holds the lock keeps it, with the decisions as they were.     *)
LEMMA HoldersUndisturbed ==
    ASSUME Inv, NEW c \in Callers, Call(c), NEW d \in Callers \ {c},
           pc[d] \in {"publish", "commit"}
    PROVE  lock' = lock /\ decisions' = decisions
<1>1. lock = d /\ pc[c] \notin {"publish", "commit"}
  BY DEF Inv, AllSound, Sound
<1>2. CASE pc[c] = "save"
  BY <1>1, <1>2, ConstantsAssumption DEF Call, Lock, PublishCompleted, Commit, ReadDecision,
     ReadStatus, ReadAgain, Explain, Answer, FindDecision, Justify, Inform
<1>3. CASE pc[c] # "save"
  BY <1>1, <1>3, CallFrame
<1> QED BY <1>2, <1>3

LEMMA OthersSound ==
    ASSUME Inv, NEW c \in Callers, Call(c)
    PROVE  \A d \in Callers \ {c} : Sound(d)'
  BY CallFrame, HoldersUndisturbed, OthersKeep

(* The step leaves the call itself as the code relies on.                     *)
LEMMA CallSound ==
    ASSUME Inv, NEW c \in Callers, Call(c)
    PROVE  Sound(c)'
<1> USE DEF Inv, TypeOK, Goto, Sound, Reading, Steps
<1>1. /\ pc[c] # "idle" => about[c] \in Proposals
      /\ pc[c] \in {"save", "publish", "commit"} =>
             found[c] \in Decisions /\ found[c].proposal = about[c]
      /\ pc[c] = "publish" => lock = c /\ IsNew(found[c])
      /\ pc[c] \in Reading /\ found[c] # None =>
             found[c] \in decisions /\ found[c].proposal = about[c]
  BY DEF AllSound
<1>2. Done(c) => pc'[c] = "idle"
  BY DEF Done
<1>3. CASE Lock(c)
  BY <1>1, <1>2, <1>3 DEF Lock, locals, IsNew
<1>4. CASE PublishCompleted(c)
  BY <1>1, <1>2, <1>4 DEF PublishCompleted, Abandon, Publish, locals, IsNew
<1>5. CASE Commit(c)
  BY <1>2, <1>5 DEF Commit
<1>6. CASE ReadDecision(c) \/ ReadAgain(c)
  BY <1>1, <1>6, DecisionOfStored DEF ReadDecision, ReadAgain, Find
<1>7. CASE FindDecision(c)
  BY <1>1, <1>2, <1>7, DecisionOfStored DEF FindDecision, Find
<1>8. CASE ReadStatus(c)
  BY <1>1, <1>2, <1>8 DEF ReadStatus, Refuse, AfterStatus
<1>9. CASE Explain(c) \/ Answer(c)
  BY <1>1, <1>2, <1>9 DEF Explain, Answer, Refuse, locals
<1>10. CASE Justify(c) \/ Inform(c)
  BY <1>1, <1>2, <1>10 DEF Justify, Inform, locals
<1> QED BY <1>3, <1>4, <1>5, <1>6, <1>7, <1>8, <1>9, <1>10 DEF Call

(* Only a commit stores, and only an answer tells: both after their intent.   *)
LEMMA CallEvidence ==
    ASSUME Inv, NEW c \in Callers, Call(c)
    PROVE  EvidencePrecedes'
<1>1. trail \subseteq trail' /\ decisions \subseteq decisions'
  BY CallFrame
<1>2. CASE pc[c] = "commit"
  <2>1. Commit(c)
    BY <1>2 DEF Call, Lock, PublishCompleted, ReadDecision, ReadStatus, ReadAgain, Explain,
       Answer, FindDecision, Justify, Inform
  <2>2. /\ found[c].proposal = about[c]
        /\ [event |-> "completed", proposal |-> about[c]] \in trail
    BY <1>2 DEF Inv, AllSound, Sound
  <2> QED BY <1>1, <2>1, <2>2 DEF Commit, EvidencePrecedes, Inv
<1>3. CASE pc[c] \in {"answer", "inform"}
  <2>1. Answer(c) \/ Inform(c)
    BY <1>3 DEF Call, Lock, PublishCompleted, Commit, ReadDecision, ReadStatus, ReadAgain,
       Explain, FindDecision, Justify
  <2>2. decisions' = decisions
    BY <2>1 DEF Answer, Inform
  <2>3. found[c] # None => found[c] \in decisions /\ found[c].proposal = about[c]
    BY <1>3 DEF Inv, AllSound, Sound, Reading
  <2>4. \/ told' = told
        \/ Publish("retrieved", about[c]) /\ Tell(c)
    BY <2>1 DEF Answer, Inform
  <2>5. CASE Publish("retrieved", about[c]) /\ Tell(c)
    BY <1>1, <2>2, <2>3, <2>5 DEF Publish, Tell, EvidencePrecedes, Inv
  <2> QED BY <1>1, <2>2, <2>4, <2>5, EvidenceKept DEF Inv
<1>4. CASE pc[c] \notin {"commit", "answer", "inform"}
  BY <1>4, CallFrame, EvidenceKept DEF Inv
<1> QED BY <1>2, <1>3, <1>4

LEMMA CallLock ==
    ASSUME Inv, NEW c \in Callers, Call(c)
    PROVE  LockIsInUse'
<1> USE DEF Inv, TypeOK, Goto, Done
<1>1. pc' \in [Callers -> Steps]
  BY CallTyped DEF LocalsTyped
<1>2. CASE pc[c] = "save"
  <2>1. Lock(c)
    BY <1>2 DEF Call, PublishCompleted, Commit, ReadDecision, ReadStatus, ReadAgain, Explain,
       Answer, FindDecision, Justify, Inform
  <2> QED BY <2>1 DEF Lock, LockIsInUse
<1>3. CASE pc[c] \in {"publish", "commit"}
  <2>1. PublishCompleted(c) \/ Commit(c)
    BY <1>3 DEF Call, Lock, ReadDecision, ReadStatus, ReadAgain, Explain, Answer,
       FindDecision, Justify, Inform
  <2>2. lock = c
    BY <1>3 DEF AllSound, Sound
  <2> QED BY <1>1, <2>1, <2>2 DEF PublishCompleted, Abandon, Commit, LockIsInUse
<1>4. CASE pc[c] \notin {"save", "publish", "commit"}
  BY <1>1, <1>4, CallFrame, LockKept
<1> QED BY <1>2, <1>3, <1>4

LEMMA NextInductive == Inv /\ [Next]_vars => Inv'
<1> SUFFICES ASSUME Inv, [Next]_vars
             PROVE  Inv'
  OBVIOUS
<1>1. CASE Next
  <2>1. TypeOK'
    BY <1>1, TypePreserved
  <2>2. CASE SaveStatus
    BY <2>1, <2>2 DEF SaveStatus, locals, Inv, AllSound, Sound, IsNew, EvidencePrecedes,
       LockIsInUse
  <2>3. ASSUME NEW c \in Callers, Start(c)
        PROVE  Inv'
    BY <2>1, <2>3, StartStep DEF Inv
  <2>4. ASSUME NEW c \in Callers, Call(c)
        PROVE  Inv'
    BY <2>1, <2>4, OthersSound, CallSound, CallEvidence, CallLock DEF Inv, AllSound
  <2> QED BY <1>1, <2>2, <2>3, <2>4 DEF Next
<1>2. CASE UNCHANGED vars
  BY <1>2 DEF vars, locals, Inv, TypeOK, AllSound, Sound, IsNew, EvidencePrecedes, LockIsInUse
<1> QED BY <1>1, <1>2

LEMMA Invariance == Spec => []Inv
  BY InitInductive, NextInductive, PTL DEF Spec

-----------------------------------------------------------------------------
(* What makes an answer true, before it is one: what a call is going to       *)
(* answer with is among its views; a status it has read is too, unless a      *)
(* decision was saved in between, which the second read finds; and a missing  *)
(* status was missing when there was no decision.                             *)
WasTrue(c) ==
    /\ pc[c] \in Reading => View(found[c], status[c]) \in views[c]
    /\ pc[c] = "reread" /\ DecisionOf(about[c]) = None => View(None, status[c]) \in views[c]
    /\ pc[c] = "status" /\ statuses[about[c]] = None => View(None, None) \in views[c]

AllWereTrue == \A c \in Callers : WasTrue(c)

(* The stores only gain: no decision goes away, and no status.                *)
StoresGain ==
    /\ decisions \subseteq decisions'
    /\ \A p \in Proposals : statuses'[p] = None => statuses[p] = None

LEMMA NextGains == Inv /\ Next => StoresGain
<1> SUFFICES ASSUME Inv, Next
             PROVE  StoresGain
  OBVIOUS
<1>1. CASE SaveStatus
  BY <1>1, ConstantsAssumption DEF SaveStatus, StoresGain, Inv, TypeOK, ProposalStatuses
<1>2. ASSUME NEW c \in Callers, Start(c)
      PROVE  StoresGain
  BY <1>2 DEF Start, Execute, Query, AskWhy, StoresGain
<1>3. ASSUME NEW c \in Callers, Call(c)
      PROVE  StoresGain
  <2>1. statuses' = statuses
    BY <1>3 DEF Call, Lock, PublishCompleted, Commit, ReadDecision, ReadStatus, ReadAgain,
       Explain, Answer, FindDecision, Justify, Inform
  <2> QED BY <1>3, <2>1, CallFrame DEF StoresGain
<1> QED BY <1>1, <1>2, <1>3 DEF Next

(* No decision of a proposal is found where none is stored, and only there.   *)
LEMMA NoDecision ==
    ASSUME NEW p, decisions \subseteq Decisions
    PROVE  DecisionOf(p) = None <=> Of(p) = {}
  BY ConstantsAssumption DEF DecisionOf, Of

(* While a call is about one proposal, it gains the view of the moment and    *)
(* loses none.                                                                *)
LEMMA ViewsGain ==
    ASSUME Inv, Observe, NEW c \in Callers, about'[c] # None
    PROVE  views[c] \subseteq views'[c] /\ ViewOf(about[c])' \in views'[c]
  BY DEF Observe

(* A call that rests keeps what made its answer true.                         *)
LEMMA RestingTrue ==
    ASSUME Inv, Observe, StoresGain, (decisions \subseteq Decisions)',
           NEW d \in Callers, WasTrue(d),
           pc'[d] = pc[d], about'[d] = about[d], found'[d] = found[d], status'[d] = status[d]
    PROVE  WasTrue(d)'
<1>1. CASE pc[d] \notin Reading \cup {"reread", "status"}
  BY <1>1 DEF WasTrue
<1>2. CASE pc[d] \in Reading \cup {"reread", "status"}
  <2>1. about[d] \in Proposals /\ about[d] # None
    BY <1>2, ConstantsAssumption DEF Inv, AllSound, Sound, Reading
  <2>2. views[d] \subseteq views'[d]
    BY <2>1, ViewsGain
  <2>3. Of(about[d])' = {} => Of(about[d]) = {}
    BY DEF Of, StoresGain
  <2>4. DecisionOf(about[d])' = None => Of(about[d])' = {}
    BY ConstantsAssumption DEF DecisionOf, Of
  <2>5. DecisionOf(about[d])' = None => DecisionOf(about[d]) = None
    BY <2>3, <2>4, NoDecision DEF Inv, TypeOK
  <2>6. statuses'[about[d]] = None => statuses[about[d]] = None
    BY <2>1 DEF StoresGain
  <2> QED BY <2>2, <2>5, <2>6 DEF WasTrue, View
<1> QED BY <1>1, <1>2

(* What the stores say of the proposal of a call, when its step changed none. *)
LEMMA ViewRead ==
    ASSUME Inv, Observe, NEW c \in Callers, about'[c] = about[c], about[c] # None,
           decisions' = decisions, statuses' = statuses
    PROVE  View(DecisionOf(about[c]), statuses[about[c]]) \in views'[c]
<1>1. ViewOf(about[c])' = View(DecisionOf(about[c]), statuses[about[c]])
  BY DEF ViewOf, View, DecisionOf, Of
<1> QED BY <1>1, ViewsGain

(* A call begins: nothing of it is an answer yet.                             *)
LEMMA StartTrue ==
    ASSUME Inv, AllWereTrue, Observe, StoresGain, TypeOK', NEW c \in Callers, Start(c)
    PROVE  AllWereTrue'
<1>1. /\ pc'[c] \in {"save", "query", "find"}
      /\ \A d \in Callers \ {c} : /\ pc'[d] = pc[d] /\ about'[d] = about[d]
                                  /\ found'[d] = found[d] /\ status'[d] = status[d]
  <2> USE DEF Inv, TypeOK
  <2>1. CASE Execute(c)
    <3>1. PICK d \in Decisions : Begin(c, d.proposal, "save") /\ Find(c, d)
      BY <2>1 DEF Execute
    <3> QED BY <3>1 DEF Begin, Find, Goto
  <2>2. CASE Query(c)
    BY <2>2 DEF Query, Begin, Goto
  <2>3. CASE AskWhy(c)
    BY <2>3 DEF AskWhy, Begin, Goto
  <2> QED BY <2>1, <2>2, <2>3 DEF Start
<1>2. WasTrue(c)'
  BY <1>1 DEF WasTrue, Reading
<1>3. \A d \in Callers \ {c} : WasTrue(d)'
  BY <1>1, RestingTrue DEF AllWereTrue, TypeOK
<1> QED BY <1>2, <1>3 DEF AllWereTrue

(* The step of a call leaves the others where they are.                       *)
LEMMA OthersRest ==
    ASSUME Inv, NEW c \in Callers, Call(c), NEW d \in Callers \ {c}
    PROVE  /\ pc'[d] = pc[d] /\ about'[d] = about[d]
           /\ found'[d] = found[d] /\ status'[d] = status[d]
<1>1. status'[d] = status[d]
  BY DEF Inv, TypeOK, Done, locals, Call, Lock, PublishCompleted, Abandon, Commit, ReadDecision,
     ReadStatus, ReadAgain, Explain, Answer, Refuse, FindDecision, Justify, Inform
<1> QED BY <1>1, CallFrame

(* A read takes one of the views of its call, and what follows keeps it.      *)
LEMMA CallTrue ==
    ASSUME NEW c \in Callers, Inv, WasTrue(c), Observe, TypeOK', Call(c)
    PROVE  WasTrue(c)'
<1> USE DEF Inv, TypeOK, Goto, Reading
<1>1. pc[c] # "idle" /\ about[c] \in Proposals /\ about[c] # None
  <2>1. pc[c] # "idle"
    BY DEF Call, Lock, PublishCompleted, Commit, ReadDecision, ReadStatus, ReadAgain, Explain,
       Answer, FindDecision, Justify, Inform
  <2>2. about[c] \in Proposals
    BY <2>1 DEF AllSound, Sound
  <2> QED BY <2>1, <2>2, ConstantsAssumption
<1>2. CASE pc'[c] \in {"idle", "publish", "commit"}
  BY <1>2 DEF WasTrue
<1>3. Done(c) => pc'[c] = "idle"
  BY DEF Done
<1>4. CASE Lock(c) \/ PublishCompleted(c) \/ Commit(c) \/ Answer(c) \/ Inform(c)
  BY <1>2, <1>3, <1>4 DEF Lock, PublishCompleted, Abandon, Commit, Answer, Refuse, Inform
<1>5. ASSUME pc'[c] # "idle", about'[c] = about[c], decisions' = decisions, statuses' = statuses
      PROVE  /\ views[c] \subseteq views'[c]
             /\ View(DecisionOf(about[c]), statuses[about[c]]) \in views'[c]
             /\ DecisionOf(about[c])' = DecisionOf(about[c])
  <2>1. DecisionOf(about[c])' = DecisionOf(about[c])
    BY <1>5 DEF DecisionOf, Of
  <2> QED BY <1>1, <1>5, <2>1, ViewsGain, ViewRead
<1>6. CASE ReadDecision(c)
  BY <1>5, <1>6 DEF ReadDecision, Find, View, WasTrue
<1>7. CASE ReadAgain(c)
  BY <1>5, <1>7 DEF ReadAgain, Find, View, WasTrue
<1>8. CASE FindDecision(c)
  BY <1>2, <1>3, <1>5, <1>8 DEF FindDecision, Find, View, WasTrue
<1>9. CASE ReadStatus(c)
  BY <1>2, <1>3, <1>5, <1>9 DEF ReadStatus, Refuse, AfterStatus, View, WasTrue
<1>10. CASE Explain(c)
  BY <1>2, <1>3, <1>5, <1>10 DEF Explain, Refuse, locals, WasTrue
<1>11. CASE Justify(c)
  BY <1>2, <1>3, <1>5, <1>11 DEF Justify, locals, WasTrue
<1> QED BY <1>4, <1>6, <1>7, <1>8, <1>9, <1>10, <1>11 DEF Call

LEMMA NextTrue == Inv /\ AllWereTrue /\ Next /\ TypeOK' => AllWereTrue'
<1> SUFFICES ASSUME Inv, AllWereTrue, Next, TypeOK'
             PROVE  AllWereTrue'
  OBVIOUS
<1>1. StoresGain /\ Observe
  BY NextGains DEF Next
<1>2. CASE SaveStatus
  BY <1>1, <1>2, RestingTrue DEF SaveStatus, locals, AllWereTrue, TypeOK
<1>3. ASSUME NEW c \in Callers, Start(c)
      PROVE  AllWereTrue'
  BY <1>1, <1>3, StartTrue
<1>4. ASSUME NEW c \in Callers, Call(c)
      PROVE  AllWereTrue'
  <2>1. WasTrue(c)'
    BY <1>1, <1>4, CallTrue DEF AllWereTrue
  <2>2. ASSUME NEW d \in Callers \ {c}
        PROVE  WasTrue(d)'
    BY <1>1, <1>4, <2>2, OthersRest, RestingTrue DEF AllWereTrue, TypeOK
  <2> QED BY <2>1, <2>2 DEF AllWereTrue
<1> QED BY <1>2, <1>3, <1>4 DEF Next

-----------------------------------------------------------------------------
(* The stores, the audit trail and the locals of every call keep their types. *)
THEOREM TypeCorrect == Spec => []TypeOK
  BY Invariance, PTL DEF Inv

(* execute_credit_decision stores a decision only after the intent of its     *)
(* completion, and no client is told of a decision that is not stored or      *)
(* whose retrieval was not audited before.                                    *)
THEOREM EvidenceComesFirst == Spec => []EvidencePrecedes
  BY Invariance, PTL DEF Inv

(* Whatever raises under the lock of the decisions, its holder goes on to     *)
(* release it.                                                                *)
THEOREM LockIsReleased == Spec => []LockIsInUse
  BY Invariance, PTL DEF Inv

(* Together: evidence is published first, under a lock that is released.      *)
THEOREM EvidenceIsUnderLock == Spec => []EvidenceUnderLock
<1>1. Inv => EvidenceUnderLock
  BY DEF Inv, EvidenceUnderLock
<1> QED BY <1>1, Invariance, PTL

(* A public query answers with a decision only if it was stored, with a       *)
(* status only if there was no decision when it was the status, and with      *)
(* nothing only if there was neither, at one instant of the call: although    *)
(* decision and status are read one after the other.                          *)
THEOREM AnswersWereTrueOnce == Spec => []AnswersWereTrue
<1>1. Init => AllWereTrue
  BY DEF Init, AllWereTrue, WasTrue, Reading
<1>2. Inv /\ Inv' /\ AllWereTrue /\ [Next]_vars => AllWereTrue'
  <2>1. UNCHANGED vars /\ AllWereTrue => AllWereTrue'
    BY DEF vars, locals, AllWereTrue, WasTrue, View, DecisionOf, Of
  <2> QED BY <2>1, NextTrue DEF Inv
<1>3. AllWereTrue => AnswersWereTrue
  BY DEF AllWereTrue, WasTrue, AnswersWereTrue, Reading
<1> QED BY <1>1, <1>2, <1>3, Invariance, PTL DEF Spec

(* The repository of decisions is a write-once store: one decision for each   *)
(* proposal, which is never replaced.                                         *)
THEOREM DecidedOnce == Spec => ImplementsWriteOnce
<1>1. Init => Evidence!Init
  BY DEF Init, Evidence!Init
<1>2. Inv /\ [Next]_vars => [Evidence!Bind]_({<<d.proposal, d>> : d \in decisions})
  <2> SUFFICES ASSUME Inv, [Next]_vars
               PROVE  \/ decisions' = decisions
                      \/ Evidence!Bind
    OBVIOUS
  <2>1. ASSUME NEW c \in Callers, Call(c), pc[c] = "commit"
        PROVE  Evidence!Bind
    <3>1. decisions' = decisions \cup {found[c]}
      BY <2>1 DEF Call, Lock, PublishCompleted, Commit, ReadDecision, ReadStatus, ReadAgain,
         Explain, Answer, FindDecision, Justify, Inform
    <3>2. IsNew(found[c])
      BY <2>1 DEF Inv, AllSound, Sound
    <3> DEFINE bound == {<<d.proposal, d>> : d \in decisions}
               binding == <<found[c].proposal, found[c]>>
    <3>3. bound' = bound \cup {binding}
      BY <3>1
    <3>4. \A a \in bound : a[1] # binding[1]
      BY <3>2 DEF IsNew
    <3> QED BY <3>3, <3>4 DEF Evidence!Bind
  <2>2. ASSUME NEW c \in Callers, Call(c), pc[c] # "commit"
        PROVE  decisions' = decisions
    BY <2>2, CallFrame
  <2>3. ASSUME NEW c \in Callers, Start(c)
        PROVE  decisions' = decisions
    BY <2>3 DEF Start, Execute, Query, AskWhy
  <2> QED BY <2>1, <2>2, <2>3 DEF Next, SaveStatus, vars
<1> QED BY <1>1, <1>2, Invariance, PTL DEF Spec, ImplementsWriteOnce, Evidence!Spec

-----------------------------------------------------------------------------
(* Changes of configurations.                                                *)

LEMMA ChangesInit == Changes!Init => Changes!IInv
<1> SUFFICES ASSUME Changes!Init PROVE Changes!IInv
  OBVIOUS
<1>1. Changes!TypeOK
  BY InstancesAssumption
  DEF Changes!ConstantsAssumption, Changes!Init, Changes!TypeOK, Changes!Records, Changes!Steps
<1>2. Changes!Active = {}
  BY DEF Changes!Init, Changes!Active
<1>3. /\ Changes!CallsMeet /\ Changes!WantedIsKnown /\ Changes!LonersKnow
      /\ Changes!KeysAreFree
  BY <1>2 DEF Changes!CallsMeet, Changes!WantedIsKnown, Changes!LonersKnow, Changes!KeysAreFree
<1>4. /\ Changes!RecordsAccepted /\ Changes!ReplaysAvailable /\ Changes!AcceptedIsVisible
  BY DEF Changes!Init, Changes!RecordsAccepted, Changes!ReplaysAvailable, Changes!AcceptedIsVisible
<1> QED BY <1>1, <1>3, <1>4 DEF Changes!IInv

(* A call that goes on with its request, one that ends and one that enters    *)
ChangeGoesOn(c) ==
    /\ \E step \in {"save", "audit", "undo", "record"} : Changes!Goto(c, step)
    /\ UNCHANGED <<request, key, mixed, shared>>

ChangeEnds(c) == Changes!Done(c) /\ UNCHANGED <<mixed, shared>>

LEMMA ChangeMoves ==
    ASSUME NEW c \in Callers, Changes!Proceed(c)
    PROVE  /\ configPc[c] # "idle"
           /\ UNCHANGED configCalls
           /\ ChangeGoesOn(c) \/ ChangeEnds(c)
<1> USE DEF ChangeGoesOn, ChangeEnds, Changes!localVars, Changes!ghosts
<1>1. CASE Changes!Read(c)
  BY <1>1 DEF Changes!Read
<1>2. CASE Changes!Save(c)
  BY <1>2 DEF Changes!Save
<1>3. CASE Changes!Audit(c)
  BY <1>3 DEF Changes!Audit
<1>4. CASE Changes!Undo(c)
  BY <1>4 DEF Changes!Undo
<1>5. CASE Changes!Record(c)
  BY <1>5 DEF Changes!Record
<1> QED BY <1>1, <1>2, <1>3, <1>4, <1>5 DEF Changes!Proceed

(* What a call is about has its type.                                        *)
LEMMA ChangeTyped ==
    ASSUME Changes!TypeOK, NEW c \in Changes!Active
    PROVE  /\ c \in Callers
           /\ request[c] \in Changes!Requests
           /\ request[c].id \in Ids
           /\ request[c].kind \in Changes!Kinds
           /\ key[c] # None => key[c] \in Keys /\ Changes!Slot(c) \in Changes!Kinds \X Keys
           /\ previous[c] \in Changes!Configurations \cup {None}
  BY DEF Changes!TypeOK, Changes!Active, Changes!Requests, Changes!Slot

LEMMA WantedTyped ==
    ASSUME Changes!TypeOK, Changes!WantedIsKnown, NEW c \in Changes!Active, configPc[c] # "read"
    PROVE  Changes!Wanted(c) \in Changes!Configurations /\ Changes!Wanted(c) # None
<1>1. /\ request[c] \in Changes!Requests
      /\ previous[c] \in Changes!Configurations \cup {None}
  BY ChangeTyped
<1>2. CASE request[c].kind = "configure"
  BY <1>1, <1>2, InstancesAssumption
  DEF Changes!WantedIsKnown, Changes!Wanted, Changes!Requests, Changes!ConstantsAssumption
<1>3. CASE request[c].kind = "disable"
  <2>1. previous[c] \in Changes!Configurations
    BY <1>1, <1>3 DEF Changes!WantedIsKnown
  <2>2. [previous[c] EXCEPT !.active = FALSE] \in Changes!Configurations
    BY <2>1 DEF Changes!Configurations
  <2> QED BY <1>3, <2>2, InstancesAssumption DEF Changes!Wanted, Changes!ConstantsAssumption
<1> QED BY <1>1, <1>2, <1>3 DEF Changes!Requests, Changes!Kinds

(* Other calls keep where they are and what they are about.                  *)
LEMMA OtherChangesStay ==
    ASSUME Changes!TypeOK, NEW c \in Callers, ChangeGoesOn(c) \/ ChangeEnds(c),
           NEW d \in Callers, d # c
    PROVE  /\ configPc'[d] = configPc[d]
           /\ request'[d] = request[d] /\ key'[d] = key[d]
  BY DEF ChangeGoesOn, ChangeEnds, Changes!Goto, Changes!Done, Changes!TypeOK

(* No call becomes active but by entering, and one that stays active keeps    *)
(* its request and its key.                                                  *)
LEMMA ActiveStay ==
    ASSUME Changes!TypeOK, NEW c \in Callers, configPc[c] # "idle",
           ChangeGoesOn(c) \/ ChangeEnds(c), NEW d \in Changes!Active'
    PROVE  /\ d \in Changes!Active
           /\ request'[d] = request[d] /\ key'[d] = key[d]
           /\ d = c => ChangeGoesOn(c)
<1>1. CASE d # c
  BY <1>1, OtherChangesStay DEF Changes!Active
<1>2. CASE d = c
  BY <1>2 DEF ChangeGoesOn, ChangeEnds, Changes!Goto, Changes!Done, Changes!TypeOK, Changes!Active
<1> QED BY <1>1, <1>2

(* A call that moves on keeps the types.                                     *)
LEMMA ProceedKeepsTypes ==
    ASSUME Changes!TypeOK, Changes!WantedIsKnown, NEW c \in Callers, Changes!Proceed(c)
    PROVE  Changes!TypeOK'
<1>1. /\ c \in Changes!Active
      /\ UNCHANGED configCalls
      /\ ChangeGoesOn(c) \/ ChangeEnds(c)
  BY ChangeMoves DEF Changes!Active
<1>2. /\ request[c] \in Changes!Requests
      /\ request[c].id \in Ids
      /\ key[c] # None => Changes!Slot(c) \in Changes!Kinds \X Keys
      /\ previous[c] \in Changes!Configurations \cup {None}
  BY <1>1, ChangeTyped
<1>3. configPc[c] # "read" => Changes!Wanted(c) \in Changes!Configurations
  BY <1>1, WantedTyped
<1>4. /\ configPc' \in [Callers -> Changes!Steps]
      /\ request' \in [Callers -> Changes!Requests \cup {None}]
      /\ key' \in [Callers -> Keys \cup {None}]
      /\ mixed' \subseteq Ids /\ shared' \subseteq Changes!Kinds \X Keys
      /\ configCalls' \in 0..ChangeCalls
  BY <1>1 DEF ChangeGoesOn, ChangeEnds, Changes!Goto, Changes!Done, Changes!TypeOK, Changes!Steps
<1>5. \A d \in Callers : configPc'[d] # "idle" =>
          request'[d] # None /\ (key'[d] # None <=> request'[d].id \in Webhooks)
  <2> TAKE d \in Callers
  <2> HAVE configPc'[d] # "idle"
  <2>1. d \in Changes!Active'
    BY DEF Changes!Active
  <2>2. d \in Changes!Active /\ request'[d] = request[d] /\ key'[d] = key[d]
    BY <1>1, <2>1, ActiveStay DEF Changes!Active
  <2> QED BY <2>2 DEF Changes!TypeOK, Changes!Active
<1>6. /\ configs' \in [Ids -> Changes!Configurations \cup {None}]
      /\ requestRecords' \in Changes!Records
      /\ previous' \in [Callers -> Changes!Configurations \cup {None}]
      /\ acceptedConfigs' \in [Ids -> Changes!Configurations \cup {None}]
  <2> USE DEF Changes!stores, Changes!localVars, Changes!ghosts
  <2>1. CASE Changes!Read(c)
    <3>1. configs[request[c].id] \in Changes!Configurations \cup {None}
      BY <1>2 DEF Changes!TypeOK
    <3> QED BY <2>1, <3>1 DEF Changes!Read, Changes!Done, Changes!TypeOK
  <2>2. CASE Changes!Save(c)
    BY <1>2, <1>3, <2>2 DEF Changes!Save, Changes!TypeOK
  <2>3. CASE Changes!Audit(c)
    <3>1. Changes!Wanted(c) \in Changes!Configurations
      BY <1>3, <2>3 DEF Changes!Audit
    <3> QED BY <1>2, <2>3, <3>1 DEF Changes!Audit, Changes!Accept, Changes!Done, Changes!TypeOK
  <2>4. CASE Changes!Undo(c)
    BY <1>2, <2>4 DEF Changes!Undo, Changes!Compensate, Changes!Done, Changes!TypeOK
  <2>5. CASE Changes!Record(c)
    BY <1>2, <2>5 DEF Changes!Record, Changes!RecordUnder, Changes!RecordSlot, Changes!Slot,
                      Changes!Records, Changes!Done, Changes!TypeOK
  <2> QED BY <2>1, <2>2, <2>3, <2>4, <2>5 DEF Changes!Proceed
<1> QED BY <1>4, <1>5, <1>6 DEF Changes!TypeOK

(* A call that enters has met every active call for the same configuration    *)
(* or under the same key, or leaves everything but the counter.              *)
LEMMA EnteringKeeps ==
    ASSUME Changes!IInv, NEW c \in Callers, Changes!Configure(c) \/ Changes!Disable(c)
    PROVE  Changes!IInv'
<1> USE DEF Changes!stores
<1>0. /\ Changes!TypeOK /\ Changes!CallsMeet /\ Changes!WantedIsKnown /\ Changes!LonersKnow
      /\ Changes!KeysAreFree /\ Changes!RecordsAccepted /\ Changes!AcceptedIsVisible
      /\ Changes!ReplaysAvailable
  BY DEF Changes!IInv
<1>1. PICK r \in Changes!Requests, k \in Keys \cup {None} :
          /\ Changes!Calls(c, r, k)
          /\ k # None <=> r.id \in Webhooks
          /\ r.kind = "configure" => r.wanted # None
  <2>1. CASE Changes!Configure(c)
    <3>1. PICK i \in Ids, wanted \in Changes!Configurations, k \in Keys \cup {None} :
              /\ k # None <=> i \in Webhooks
              /\ Changes!Calls(c, [kind |-> "configure", id |-> i, wanted |-> wanted], k)
      BY <2>1 DEF Changes!Configure
    <3> DEFINE r == [kind |-> "configure", id |-> i, wanted |-> wanted]
    <3>2. /\ r \in Changes!Requests /\ r.id = i
          /\ r.wanted # None
      BY InstancesAssumption DEF Changes!Requests, Changes!Kinds, Changes!ConstantsAssumption
    <3> QED BY <3>1, <3>2
  <2>2. CASE Changes!Disable(c)
    <3>1. PICK i \in Webhooks, k \in Keys :
              Changes!Calls(c, [kind |-> "disable", id |-> i, wanted |-> None], k)
      BY <2>2 DEF Changes!Disable
    <3> DEFINE r == [kind |-> "disable", id |-> i, wanted |-> None]
    <3>2. r \in Changes!Requests /\ r.id = i /\ r.kind = "disable" /\ k # None
      BY InstancesAssumption DEF Changes!Requests, Changes!Kinds, Changes!ConstantsAssumption
    <3> QED BY <3>1, <3>2
  <2> QED BY <2>1, <2>2
<1>2. /\ configPc[c] = "idle"
      /\ UNCHANGED <<configs, requestRecords, previous, acceptedConfigs>>
      /\ configCalls' \in 0..ChangeCalls
  BY <1>0, <1>1, InstancesAssumption DEF Changes!Calls, Changes!TypeOK, Changes!ConstantsAssumption
<1>3. CASE Changes!Replays(r, k)
  <2>1. UNCHANGED <<request, key, mixed, shared, configPc>>
    BY <1>1, <1>3 DEF Changes!Calls
  <2>2. Changes!TypeOK'
    BY <1>0, <1>2, <2>1 DEF Changes!TypeOK
  <2>3. /\ Changes!CallsMeet' /\ Changes!WantedIsKnown' /\ Changes!LonersKnow'
        /\ Changes!KeysAreFree' /\ Changes!RecordsAccepted' /\ Changes!AcceptedIsVisible'
        /\ Changes!ReplaysAvailable'
    BY <1>0, <1>2, <2>1
    DEF Changes!CallsMeet, Changes!WantedIsKnown, Changes!LonersKnow, Changes!Alone,
        Changes!KeysAreFree, Changes!RecordsAccepted, Changes!AcceptedIsVisible, Changes!Quiet,
        Changes!ReplaysAvailable, Changes!Active, Changes!Slot, Changes!Wanted
  <2> QED BY <2>2, <2>3 DEF Changes!IInv
<1>4. CASE ~Changes!Replays(r, k)
  <2>1. Changes!Enter(c, r, k)
    BY <1>1, <1>4 DEF Changes!Calls
  <2>2. /\ c \notin Changes!Active /\ Changes!Active' = Changes!Active \cup {c}
        /\ configPc'[c] = "read" /\ request'[c] = r /\ key'[c] = k
        /\ \A d \in Changes!Active :
              /\ d \in Callers /\ d # c
              /\ configPc'[d] = configPc[d] /\ request'[d] = request[d] /\ key'[d] = key[d]
    BY <1>0, <1>2, <2>1 DEF Changes!Enter, Changes!Goto, Changes!Active, Changes!TypeOK
  <2>3. /\ mixed \subseteq mixed'
        /\ (\E d \in Changes!Active : request[d].id = r.id) => r.id \in mixed'
        /\ shared \subseteq shared'
        /\ k # None /\ (\E d \in Changes!Active : Changes!Slot(d) = <<r.kind, k>>)
              => <<r.kind, k>> \in shared'
    BY <2>1 DEF Changes!Enter
  <2>4. r.id \in Ids /\ r.kind \in Changes!Kinds
    BY <1>1 DEF Changes!Requests
  <2>5. Changes!TypeOK'
    <3>1. mixed' \subseteq Ids /\ shared' \subseteq Changes!Kinds \X Keys
      BY <1>0, <1>1, <2>1, <2>4 DEF Changes!Enter, Changes!TypeOK
    <3>2. /\ configPc' \in [Callers -> Changes!Steps]
          /\ request' \in [Callers -> Changes!Requests \cup {None}]
          /\ key' \in [Callers -> Keys \cup {None}]
      BY <1>0, <1>1, <2>1 DEF Changes!Enter, Changes!Goto, Changes!TypeOK, Changes!Steps
    <3>3. r # None
      BY <1>1, InstancesAssumption DEF Changes!ConstantsAssumption
    <3>4. \A d \in Callers : configPc'[d] # "idle" =>
              request'[d] # None /\ (key'[d] # None <=> request'[d].id \in Webhooks)
      BY <1>0, <1>1, <2>2, <3>3 DEF Changes!TypeOK, Changes!Active
    <3> QED BY <1>0, <1>2, <3>1, <3>2, <3>4 DEF Changes!TypeOK
  <2>6. Changes!CallsMeet'
    <3>1. \A d \in Changes!Active' : Changes!Slot(d)' = <<request'[d].kind, key'[d]>>
      BY DEF Changes!Slot
    <3>2. \A d \in Changes!Active : Changes!Slot(d) = <<request[d].kind, key[d]>>
      BY DEF Changes!Slot
    <3>3. SUFFICES ASSUME NEW d \in Changes!Active', NEW e \in Changes!Active', d # e
                   PROVE  /\ request'[d].id = request'[e].id => request'[d].id \in mixed'
                          /\ key'[d] # None /\ Changes!Slot(d)' = Changes!Slot(e)'
                                => Changes!Slot(d)' \in shared'
      BY DEF Changes!CallsMeet
    <3>4. CASE d # c /\ e # c
      BY <1>0, <2>2, <2>3, <3>1, <3>2, <3>3, <3>4 DEF Changes!CallsMeet
    <3>5. CASE d = c
      BY <2>2, <2>3, <3>1, <3>2, <3>3, <3>5
    <3>6. CASE e = c
      BY <2>2, <2>3, <3>1, <3>2, <3>3, <3>6
    <3> QED BY <3>4, <3>5, <3>6
  <2>7. Changes!WantedIsKnown'
    BY <1>0, <1>1, <1>2, <2>2 DEF Changes!WantedIsKnown
  <2>8. Changes!LonersKnow'
    <3>1. SUFFICES ASSUME NEW d \in Changes!Active', request'[d].id \notin mixed'
                   PROVE  Changes!Alone(d)'
      BY DEF Changes!LonersKnow
    <3>2. CASE d = c
      <4>1. Changes!Quiet(r.id) /\ r.id \notin mixed
        BY <2>2, <2>3, <3>1, <3>2 DEF Changes!Quiet, Changes!Active
      <4>2. configs[r.id] = acceptedConfigs[r.id]
        BY <1>0, <2>4, <4>1 DEF Changes!AcceptedIsVisible
      <4> QED BY <1>2, <2>2, <3>2, <4>2 DEF Changes!Alone
    <3>3. CASE d # c
      <4>1. d \in Changes!Active /\ Changes!Alone(d)
        BY <1>0, <2>2, <2>3, <3>1, <3>3 DEF Changes!LonersKnow
      <4> QED BY <1>2, <2>2, <4>1 DEF Changes!Alone, Changes!Wanted
    <3> QED BY <3>2, <3>3
  <2>9. Changes!KeysAreFree'
    <3>1. k # None => requestRecords[<<r.kind, k>>] = None
      BY <1>4 DEF Changes!Replays
    <3> QED BY <1>0, <1>2, <2>2, <2>3, <3>1 DEF Changes!KeysAreFree, Changes!Slot
  <2>10. Changes!RecordsAccepted' /\ Changes!ReplaysAvailable'
    BY <1>0, <1>2, <2>3 DEF Changes!RecordsAccepted, Changes!ReplaysAvailable
  <2>11. Changes!AcceptedIsVisible'
    <3>1. \A i \in Ids : Changes!Quiet(i)' => Changes!Quiet(i)
      BY <2>2 DEF Changes!Quiet, Changes!Active
    <3> QED BY <1>0, <1>2, <2>3, <3>1 DEF Changes!AcceptedIsVisible
  <2> QED BY <2>5, <2>6, <2>7, <2>8, <2>9, <2>10, <2>11 DEF Changes!IInv
<1> QED BY <1>3, <1>4

(* What a step of a call does to the stores is about its own configuration    *)
(* and, when it records, its own key.                                        *)
LEMMA ProceedStores ==
    ASSUME Changes!TypeOK, Changes!WantedIsKnown, NEW c \in Callers, Changes!Proceed(c)
    PROVE  /\ \A d \in Callers \ {c} : previous'[d] = previous[d]
           /\ \A j \in Ids \ {request[c].id} :
                 configs'[j] = configs[j] /\ acceptedConfigs'[j] = acceptedConfigs[j]
           /\ \A k \in Changes!Kinds \X Keys :
                 \/ requestRecords'[k] = requestRecords[k]
                 \/ /\ k = Changes!Slot(c) /\ key[c] # None
                    /\ requestRecords'[k] = request[c]
                    /\ configPc[c] = "record"
                    /\ UNCHANGED <<configs, acceptedConfigs>>
                    /\ Changes!Done(c)
<1> USE DEF Changes!TypeOK, Changes!stores, Changes!localVars, Changes!ghosts
<1>1. CASE Changes!Read(c)
  BY <1>1 DEF Changes!Read, Changes!Done
<1>2. CASE Changes!Save(c)
  BY <1>2 DEF Changes!Save
<1>3. CASE Changes!Audit(c)
  BY <1>3 DEF Changes!Audit, Changes!Accept, Changes!Done
<1>4. CASE Changes!Undo(c)
  BY <1>4 DEF Changes!Undo, Changes!Compensate, Changes!Done
<1>5. CASE Changes!Record(c)
  <2>1. requestRecords' = [requestRecords EXCEPT ![Changes!Slot(c)] = request[c]]
    BY <1>5 DEF Changes!Record, Changes!RecordUnder, Changes!RecordSlot, Changes!Slot
  <2>2. \A k \in Changes!Kinds \X Keys :
            \/ requestRecords'[k] = requestRecords[k]
            \/ k = Changes!Slot(c) /\ requestRecords'[k] = request[c]
    BY <2>1 DEF Changes!Records
  <2>3. \A k \in Changes!Kinds \X Keys : k = Changes!Slot(c) => key[c] # None
    BY InstancesAssumption DEF Changes!Slot, Changes!ConstantsAssumption
  <2> QED BY <1>5, <2>2, <2>3 DEF Changes!Record, Changes!Done
<1> QED BY <1>1, <1>2, <1>3, <1>4, <1>5 DEF Changes!Proceed

(* What the moving call knows when it goes on alone, what is there when it    *)
(* ends alone.                                                               *)
LEMMA LonerMoves ==
    ASSUME Changes!TypeOK, Changes!WantedIsKnown, NEW c \in Callers, Changes!Proceed(c),
           Changes!Alone(c)
    PROVE  LET i == request[c].id IN
           /\ configPc'[c] # "idle" => Changes!Alone(c)'
           /\ configPc'[c] = "idle" => configs'[i] = acceptedConfigs'[i]
           /\ acceptedConfigs[i] # None =>
                 \/ acceptedConfigs'[i] # None /\ configs'[i] # None
                 \/ UNCHANGED <<configs, acceptedConfigs>>
<1> DEFINE i == request[c].id
<1>0. /\ c \in Changes!Active /\ i \in Ids
      /\ configPc[c] # "read" => Changes!Wanted(c) # None
  <2>1. c \in Changes!Active
    BY ChangeMoves DEF Changes!Active
  <2> QED BY <2>1, ChangeTyped, WantedTyped
<1> USE DEF Changes!stores, Changes!localVars, Changes!ghosts, Changes!Goto, Changes!Done,
            Changes!Alone
<1>1. CASE Changes!Read(c)
  BY <1>0, <1>1 DEF Changes!Read, Changes!TypeOK
<1>2. CASE Changes!Save(c)
  BY <1>0, <1>2 DEF Changes!Save, Changes!TypeOK, Changes!Wanted
<1>3. CASE Changes!Audit(c)
  BY <1>0, <1>3 DEF Changes!Audit, Changes!Accept, Changes!TypeOK, Changes!Wanted
<1>4. CASE Changes!Undo(c)
  BY <1>0, <1>4 DEF Changes!Undo, Changes!Compensate, Changes!TypeOK
<1>5. CASE Changes!Record(c)
  BY <1>0, <1>5 DEF Changes!Record, Changes!TypeOK
<1> QED BY <1>1, <1>2, <1>3, <1>4, <1>5 DEF Changes!Proceed

(* A step of a call keeps the invariant, and the keys stay bound.             *)
LEMMA ProceedKeeps ==
    ASSUME Changes!IInv, NEW c \in Callers, Changes!Proceed(c)
    PROVE  Changes!IInv' /\ Changes!KeysStayBound
<1> DEFINE i == request[c].id
<1>0. /\ Changes!TypeOK /\ Changes!CallsMeet /\ Changes!WantedIsKnown /\ Changes!LonersKnow
      /\ Changes!KeysAreFree /\ Changes!RecordsAccepted /\ Changes!AcceptedIsVisible
      /\ Changes!ReplaysAvailable
  BY DEF Changes!IInv
<1>1. /\ c \in Changes!Active
      /\ ChangeGoesOn(c) \/ ChangeEnds(c)
      /\ UNCHANGED <<mixed, shared>>
  BY ChangeMoves DEF Changes!Active, ChangeGoesOn, ChangeEnds
<1>2. i \in Ids
  BY <1>0, <1>1, ChangeTyped
<1>3. \A d \in Changes!Active' :
          /\ d \in Callers /\ d \in Changes!Active
          /\ request'[d] = request[d] /\ key'[d] = key[d]
          /\ configPc'[d] # "idle"
          /\ d # c => configPc'[d] = configPc[d]
  BY <1>0, <1>1, ActiveStay, OtherChangesStay DEF Changes!Active
<1>4. /\ \A d \in Callers \ {c} : previous'[d] = previous[d]
      /\ \A j \in Ids \ {i} : configs'[j] = configs[j] /\ acceptedConfigs'[j] = acceptedConfigs[j]
      /\ \A k \in Changes!Kinds \X Keys :
            \/ requestRecords'[k] = requestRecords[k]
            \/ /\ k = Changes!Slot(c) /\ key[c] # None
               /\ requestRecords'[k] = request[c]
               /\ configPc[c] = "record"
               /\ UNCHANGED <<configs, acceptedConfigs>>
               /\ Changes!Done(c)
  BY <1>0, ProceedStores
<1>5. i \notin mixed =>
          /\ Changes!Alone(c)
          /\ configPc'[c] # "idle" => Changes!Alone(c)'
          /\ configPc'[c] = "idle" => configs'[i] = acceptedConfigs'[i]
          /\ acceptedConfigs[i] # None =>
                \/ acceptedConfigs'[i] # None /\ configs'[i] # None
                \/ UNCHANGED <<configs, acceptedConfigs>>
  <2>1. i \notin mixed => Changes!Alone(c)
    BY <1>0, <1>1 DEF Changes!LonersKnow
  <2> QED BY <1>0, <2>1, LonerMoves
<1>6. \A d \in Changes!Active' : Changes!Slot(d)' = Changes!Slot(d)
  BY <1>3 DEF Changes!Slot
<1>7. Changes!TypeOK'
  BY <1>0, ProceedKeepsTypes
<1>8. Changes!CallsMeet'
  BY <1>0, <1>1, <1>3, <1>6 DEF Changes!CallsMeet
<1>9. Changes!WantedIsKnown'
  <2>1. SUFFICES ASSUME NEW d \in Changes!Active'
                 PROVE  /\ request'[d].kind = "configure" => request'[d].wanted # None
                        /\ request'[d].kind = "disable" /\ configPc'[d] # "read"
                              => previous'[d] # None
    BY DEF Changes!WantedIsKnown
  <2>2. CASE d # c
    BY <1>0, <1>3, <1>4, <2>1, <2>2 DEF Changes!WantedIsKnown
  <2>3. CASE d = c /\ Changes!Read(c)
    BY <1>0, <1>3, <2>1, <2>3 DEF Changes!Read, Changes!Done, Changes!Goto, Changes!WantedIsKnown,
                             Changes!Active, Changes!TypeOK
  <2>4. CASE d = c /\ ~Changes!Read(c)
    <3>1. configPc[c] # "read" /\ (configPc'[c] # "idle" => previous'[c] = previous[c])
      BY <1>0, <2>4 DEF Changes!Proceed, Changes!Save, Changes!Audit, Changes!Undo, Changes!Record,
                   Changes!Done, Changes!Goto, Changes!TypeOK, Changes!localVars
    <3> QED BY <1>0, <1>3, <2>1, <2>4, <3>1 DEF Changes!WantedIsKnown
  <2> QED BY <2>2, <2>3, <2>4
<1>10. Changes!LonersKnow'
  <2>1. SUFFICES ASSUME NEW d \in Changes!Active', request'[d].id \notin mixed'
                 PROVE  Changes!Alone(d)'
    BY DEF Changes!LonersKnow
  <2>2. CASE d = c
    BY <1>1, <1>3, <1>5, <2>1, <2>2
  <2>3. CASE d # c
    <3>1. d \in Changes!Active /\ request[d].id \in Ids /\ request[d].id # i
      BY <1>0, <1>1, <1>3, <2>1, <2>3, ChangeTyped DEF Changes!CallsMeet
    <3>2. Changes!Alone(d)
      BY <1>0, <1>1, <1>3, <2>1, <3>1 DEF Changes!LonersKnow
    <3>3. /\ request'[d] = request[d] /\ configPc'[d] = configPc[d]
          /\ previous'[d] = previous[d]
      BY <1>3, <1>4, <2>3
    <3>4. /\ configs'[request[d].id] = configs[request[d].id]
          /\ acceptedConfigs'[request[d].id] = acceptedConfigs[request[d].id]
      BY <1>4, <3>1
    <3>5. Changes!Wanted(d)' = Changes!Wanted(d)
      BY <3>3 DEF Changes!Wanted
    <3> QED BY <3>2, <3>3, <3>4, <3>5 DEF Changes!Alone
  <2> QED BY <2>2, <2>3
<1>11. Changes!KeysAreFree'
  <2>1. SUFFICES ASSUME NEW d \in Changes!Active', key'[d] # None, Changes!Slot(d)' \notin shared'
                 PROVE  requestRecords'[Changes!Slot(d)'] = None
    BY DEF Changes!KeysAreFree
  <2>2. /\ d \in Changes!Active /\ key[d] # None
        /\ Changes!Slot(d) \in Changes!Kinds \X Keys /\ Changes!Slot(d)' = Changes!Slot(d)
        /\ Changes!Slot(d) \notin shared
    BY <1>0, <1>1, <1>3, <1>6, <2>1, ChangeTyped
  <2>3. requestRecords[Changes!Slot(d)] = None
    BY <1>0, <2>2 DEF Changes!KeysAreFree
  <2>4. CASE d = c
    <3>1. ~Changes!Done(c)
      BY <1>0, <1>3, <2>4 DEF Changes!Done, Changes!Goto, Changes!TypeOK
    <3> QED BY <1>4, <2>2, <2>3, <3>1
  <2>5. CASE d # c
    <3>1. Changes!Slot(d) # Changes!Slot(c)
      BY <1>0, <1>1, <2>2, <2>5 DEF Changes!CallsMeet
    <3> QED BY <1>4, <2>2, <2>3, <3>1
  <2> QED BY <2>4, <2>5
<1>12. ASSUME NEW k \in Changes!Kinds \X Keys, requestRecords'[k] # None,
              requestRecords'[k].id \notin mixed'
       PROVE  /\ acceptedConfigs'[requestRecords'[k].id] # None
              /\ configs'[requestRecords'[k].id] # None
  <2>1. CASE requestRecords'[k] # requestRecords[k]
    <3>1. /\ requestRecords'[k] = request[c] /\ configPc[c] = "record"
          /\ UNCHANGED <<configs, acceptedConfigs>>
      BY <1>4, <2>1
    <3>2. configs[i] = acceptedConfigs[i] /\ configs[i] # None
      BY <1>1, <1>5, <1>12, <3>1 DEF Changes!Alone
    <3> QED BY <3>1, <3>2
  <2>2. CASE requestRecords'[k] = requestRecords[k]
    <3>1. PICK j : j = requestRecords[k].id
      OBVIOUS
    <3>2. j \in Ids
      BY <1>0, <1>12, <2>2, <3>1 DEF Changes!TypeOK, Changes!Records, Changes!Requests
    <3>3. acceptedConfigs[j] # None /\ configs[j] # None
      BY <1>0, <1>1, <1>12, <2>2, <3>1 DEF Changes!RecordsAccepted, Changes!ReplaysAvailable
    <3>4. acceptedConfigs'[j] # None /\ configs'[j] # None
      BY <1>1, <1>4, <1>5, <1>12, <2>2, <3>1, <3>2, <3>3
    <3> QED BY <2>2, <3>1, <3>4
  <2> QED BY <2>1, <2>2
<1>13. Changes!AcceptedIsVisible'
  <2>1. SUFFICES ASSUME NEW j \in Ids, j \notin mixed', Changes!Quiet(j)'
                 PROVE  configs'[j] = acceptedConfigs'[j]
    BY DEF Changes!AcceptedIsVisible
  <2>2. CASE j = i
    <3>1. configPc'[c] = "idle"
      <4>1. configPc'[c] # "idle" => request'[c].id # j
        BY <2>1 DEF Changes!Quiet
      <4>2. configPc'[c] # "idle" => c \in Changes!Active'
        BY DEF Changes!Active
      <4> QED BY <1>3, <2>2, <4>1, <4>2
    <3> QED BY <1>1, <1>5, <2>1, <2>2, <3>1
  <2>3. CASE j # i
    <3>1. Changes!Quiet(j)
      <4> SUFFICES ASSUME NEW d \in Callers, configPc[d] # "idle"
                   PROVE  request[d].id # j
        BY DEF Changes!Quiet
      <4>1. CASE d = c
        BY <2>3, <4>1
      <4>2. CASE d # c
        <5>1. configPc'[d] = configPc[d] /\ request'[d] = request[d]
          BY <1>0, <1>1, <4>2, OtherChangesStay
        <5> QED BY <2>1, <5>1 DEF Changes!Quiet
      <4> QED BY <4>1, <4>2
    <3> QED BY <1>0, <1>1, <1>4, <2>1, <2>3, <3>1 DEF Changes!AcceptedIsVisible
  <2> QED BY <2>2, <2>3
<1>14. Changes!RecordsAccepted' /\ Changes!ReplaysAvailable'
  BY <1>12 DEF Changes!RecordsAccepted, Changes!ReplaysAvailable
<1>15. Changes!KeysStayBound
  <2>1. SUFFICES ASSUME NEW k \in Changes!Kinds \X Keys, k \notin shared', requestRecords[k] # None
                 PROVE  requestRecords'[k] = requestRecords[k]
    BY DEF Changes!KeysStayBound
  <2>2. key[c] # None /\ k = Changes!Slot(c) => requestRecords[k] = None
    BY <1>0, <1>1, <2>1 DEF Changes!KeysAreFree
  <2> QED BY <1>4, <2>1, <2>2
<1> QED BY <1>7, <1>8, <1>9, <1>10, <1>11, <1>13, <1>14, <1>15 DEF Changes!IInv

LEMMA ChangesKeep ==
    ASSUME Changes!IInv, Changes!Next
    PROVE  Changes!IInv' /\ Changes!KeysStayBound
<1>1. ASSUME NEW c \in Callers, Changes!Configure(c) \/ Changes!Disable(c)
      PROVE  Changes!IInv' /\ Changes!KeysStayBound
  <2>1. UNCHANGED requestRecords
    BY <1>1 DEF Changes!Configure, Changes!Disable, Changes!Calls, Changes!stores
  <2> QED BY <1>1, <2>1, EnteringKeeps DEF Changes!KeysStayBound
<1> QED BY <1>1, ProceedKeeps DEF Changes!Next

LEMMA ChangesRest ==
    ASSUME Changes!IInv, UNCHANGED configurationVars
    PROVE  Changes!IInv'
<1>1. UNCHANGED <<configs, requestRecords, configPc, request, key, previous, acceptedConfigs,
                  mixed, shared, configCalls>>
  BY DEF configurationVars
<1>2. Changes!TypeOK'
  BY <1>1 DEF Changes!IInv, Changes!TypeOK
<1>3. /\ Changes!CallsMeet' /\ Changes!WantedIsKnown' /\ Changes!LonersKnow'
      /\ Changes!KeysAreFree' /\ Changes!RecordsAccepted' /\ Changes!AcceptedIsVisible'
      /\ Changes!ReplaysAvailable'
  BY <1>1
  DEF Changes!IInv, Changes!CallsMeet, Changes!WantedIsKnown, Changes!LonersKnow, Changes!Alone,
      Changes!KeysAreFree, Changes!RecordsAccepted, Changes!AcceptedIsVisible, Changes!Quiet,
      Changes!ReplaysAvailable, Changes!Active, Changes!Slot, Changes!Wanted
<1> QED BY <1>2, <1>3 DEF Changes!IInv

(* Whatever calls change configurations at the same time and whatever audit   *)
(* fails, a configuration between its changes is as last accepted, replays of *)
(* keys find theirs, and a key answers for one request.                      *)
THEOREM ConfigurationsAreKept == ServicesSpec => ConfigurationsReplay
<1> DEFINE services == <<part, vars, configurationVars, catalogVars, projectionVars>>
<1>1. ServicesInit => Changes!IInv
  BY ChangesInit DEF ServicesInit
<1>2. ASSUME Changes!IInv, [ServicesNext]_services
      PROVE  /\ Changes!IInv'
             /\ [(Changes!TypeOK /\ Changes!AcceptedIsVisible /\ Changes!ReplaysAvailable)'
                   /\ Changes!KeysStayBound]_configurationVars
  <2>1. CASE UNCHANGED configurationVars
    BY <1>2, <2>1, ChangesRest
  <2>2. CASE Changes!Next
    <3>1. Changes!IInv' /\ Changes!KeysStayBound
      BY <1>2, <2>2, ChangesKeep
    <3>2. (Changes!TypeOK /\ Changes!AcceptedIsVisible /\ Changes!ReplaysAvailable)'
      BY <3>1 DEF Changes!IInv
    <3> QED BY <3>1, <3>2
  <2> QED BY <1>2, <2>1, <2>2 DEF ServicesNext
<1> QED BY <1>1, <1>2, PTL DEF ServicesSpec, ConfigurationsReplay

-----------------------------------------------------------------------------
(* Reason code catalogs.                                                     *)

(* A set of natural numbers has a least element, and a bounded one a greatest *)
(* one.                                                                      *)
LEMMA LeastNumber ==
    ASSUME NEW S, S \subseteq Nat, S # {}
    PROVE  \E m \in S : \A n \in S : m <= n
<1> DEFINE R == {p \in Nat \X Nat : p[1] < p[2]}
<1>1. OpToRel(<, Nat) = R
  BY DEF OpToRel
<1>2. IsWellFoundedOn(R, Nat)
  BY <1>1, NatLessThanWellFounded
<1> HIDE DEF R
<1>3. PICK m \in S : \A n \in S : ~(<<n, m>> \in R)
  BY <1>2, WFMin
<1>4. m \in Nat /\ \A n \in S : n \in Nat /\ ~(n < m)
  BY <1>3 DEF R
<1> QED BY <1>4

LEMMA GreatestNumber ==
    ASSUME NEW N \in Nat, NEW S, S \subseteq 0..N, S # {}
    PROVE  \E m \in S : \A n \in S : n <= m
<1> DEFINE T == {N - n : n \in S}
<1>1. \A n \in S : n \in Int /\ N - n \in Nat
  OBVIOUS
<1>2. T \subseteq Nat /\ T # {}
  BY <1>1
<1>3. PICK k \in T : \A n \in T : k <= n
  BY <1>2, LeastNumber
<1>4. PICK m \in S : k = N - m
  BY <1>3
<1>5. ASSUME NEW n \in S
      PROVE  n <= m
  <2>1. N - m <= N - n
    BY <1>3, <1>4
  <2> QED BY <1>1, <2>1
<1> QED BY <1>5

(* Compatible changes add up, and keep every answer.                         *)
LEMMA CompatibleIsReflexive ==
    ASSUME NEW content
    PROVE  ReasonCatalogs!Compatible(content, content)
  BY DEF ReasonCatalogs!Compatible, ReasonCatalogs!ReasonsKept, ReasonCatalogs!FactorsKept,
         ReasonCatalogs!Extends

LEMMA CompatibleIsTransitive ==
    ASSUME NEW old, NEW middle, NEW new,
           ReasonCatalogs!Compatible(old, middle), ReasonCatalogs!Compatible(middle, new)
    PROVE  ReasonCatalogs!Compatible(old, new)
<1> USE DEF ReasonCatalogs!Compatible, ReasonCatalogs!ReasonsKept, ReasonCatalogs!FactorsKept,
            ReasonCatalogs!Extends
<1>1. ReasonCatalogs!Extends(old.reasons, new.reasons)
  OBVIOUS
<1>2. ReasonCatalogs!Extends(old.factors, new.factors)
  OBVIOUS
<1>3. ASSUME NEW factor \in DOMAIN new.factors \ DOMAIN old.factors
      PROVE  ~new.factors[factor].required
  <2>1. CASE factor \in DOMAIN middle.factors
    BY <2>1
  <2>2. CASE factor \notin DOMAIN middle.factors
    BY <2>2
  <2> QED BY <2>1, <2>2
<1> QED BY <1>1, <1>2, <1>3

LEMMA CompatibleAnswers ==
    ASSUME NEW old, NEW new, NEW reference,
           ReasonCatalogs!Compatible(old, new), ReasonCatalogs!Answers(old, reference)
    PROVE  ReasonCatalogs!Answers(new, reference)
  BY DEF ReasonCatalogs!Compatible, ReasonCatalogs!ReasonsKept, ReasonCatalogs!Extends,
         ReasonCatalogs!Answers, ReasonCatalogs!Known

LEMMA CatalogsInit == ReasonCatalogs!Init => ReasonCatalogs!IInv
<1> SUFFICES ASSUME ReasonCatalogs!Init PROVE ReasonCatalogs!IInv
  OBVIOUS
<1>1. ReasonCatalogs!TypeOK
  BY InstancesAssumption
  DEF ReasonCatalogs!ConstantsAssumption, ReasonCatalogs!Init, ReasonCatalogs!TypeOK,
      ReasonCatalogs!Steps
<1>2. ReasonCatalogs!Stored = {} /\ undone = {}
  BY DEF ReasonCatalogs!Init, ReasonCatalogs!Stored
<1>3. \A c \in Callers : ReasonCatalogs!Knows(c)
  BY DEF ReasonCatalogs!Init, ReasonCatalogs!Knows
<1>4. ReasonCatalogs!VersionsDistinct /\ ReasonCatalogs!AcceptedKept
      /\ ReasonCatalogs!ReferencesStayValid
  BY <1>2 DEF ReasonCatalogs!Init, ReasonCatalogs!VersionsDistinct, ReasonCatalogs!AcceptedKept,
              ReasonCatalogs!ReferencesStayValid
<1> QED BY <1>1, <1>3, <1>4 DEF ReasonCatalogs!IInv

(* A stored catalog is a catalog.                                            *)
LEMMA CatalogTyped ==
    ASSUME ReasonCatalogs!TypeOK, NEW v \in Versions
    PROVE  /\ v \in ReasonCatalogs!Stored <=> catalogs[v] \in ReasonCatalogs!Catalogs
           /\ v \in ReasonCatalogs!Stored <=> catalogs[v] # None
           /\ v \in ReasonCatalogs!Stored =>
                 /\ catalogs[v].version \in Nat /\ catalogs[v].version \in 1..MaxVersion
                 /\ catalogs[v].revision \in Nat
                 /\ catalogs[v].content \in Drafts
  BY InstancesAssumption
  DEF ReasonCatalogs!ConstantsAssumption, ReasonCatalogs!TypeOK, ReasonCatalogs!Stored,
      ReasonCatalogs!Catalogs

(* The next version is greater than every stored one.                        *)
LEMMA NextVersionIsNew ==
    ASSUME ReasonCatalogs!TypeOK
    PROVE  /\ ReasonCatalogs!NextVersion \in Nat \ {0}
           /\ \A v \in ReasonCatalogs!Stored : catalogs[v].version < ReasonCatalogs!NextVersion
<1> DEFINE N == {catalogs[v].version : v \in ReasonCatalogs!Stored}
<1>1. CASE ReasonCatalogs!Stored = {}
  BY <1>1 DEF ReasonCatalogs!NextVersion
<1>2. CASE ReasonCatalogs!Stored # {}
  <2>1. \A v \in ReasonCatalogs!Stored : catalogs[v].version \in 1..MaxVersion
    BY CatalogTyped DEF ReasonCatalogs!Stored
  <2>2. MaxVersion \in Nat
    BY InstancesAssumption DEF ReasonCatalogs!ConstantsAssumption
  <2>3. N \subseteq 0..MaxVersion /\ N # {}
    BY <1>2, <2>1, <2>2
  <2>4. \E m \in N : \A n \in N : n <= m
    BY <2>2, <2>3, GreatestNumber
  <2>5. \E m \in N : \A v \in ReasonCatalogs!Stored : catalogs[v].version <= m
    BY <2>4
  <2> DEFINE g == CHOOSE n \in N : \A v \in ReasonCatalogs!Stored : catalogs[v].version <= n
  <2>6. g \in N /\ \A v \in ReasonCatalogs!Stored : catalogs[v].version <= g
    BY <2>5
  <2>7. ReasonCatalogs!NextVersion = 1 + g
    BY <1>2 DEF ReasonCatalogs!NextVersion
  <2>8. g \in Nat
    BY <2>2, <2>3, <2>6
  <2>9. \A v \in ReasonCatalogs!Stored : catalogs[v].version \in Nat
    BY <2>1, <2>2
  <2> HIDE DEF g, N
  <2> QED BY <2>6, <2>7, <2>8, <2>9
<1> QED BY <1>1, <1>2

(* What a step leaves of the catalogs of which no change is taken back: they  *)
(* stay, or a draft becomes a later revision with a compatible content.      *)
CatalogAdvances(v) ==
    /\ catalogs'[v] \in ReasonCatalogs!Catalogs
    /\ catalogs'[v].version = catalogs[v].version
    /\ \/ catalogs'[v] = catalogs[v]
       \/ /\ catalogs[v].status = "draft"
          /\ catalogs[v].revision < catalogs'[v].revision
          /\ ReasonCatalogs!Compatible(catalogs[v].content, catalogs'[v].content)

CatalogsAdvance ==
    /\ undone \subseteq undone'
    /\ \A v \in Versions \ undone' : v \in ReasonCatalogs!Stored => CatalogAdvances(v)

LEMMA SeenStays ==
    ASSUME ReasonCatalogs!TypeOK, CatalogsAdvance, NEW v \in Versions \ undone',
           NEW catalog \in ReasonCatalogs!Catalogs, ReasonCatalogs!Seen(v, catalog)
    PROVE  ReasonCatalogs!Seen(v, catalog)'
<1>1. /\ catalogs[v] \in ReasonCatalogs!Catalogs /\ CatalogAdvances(v)
      /\ catalogs[v].revision \in Nat
  BY CatalogTyped DEF CatalogsAdvance, ReasonCatalogs!Seen
<1>2. catalogs'[v] # None /\ catalogs'[v].revision \in Nat /\ catalog.revision \in Nat
  BY <1>1, InstancesAssumption
  DEF CatalogAdvances, ReasonCatalogs!ConstantsAssumption, ReasonCatalogs!Catalogs
<1>3. ReasonCatalogs!Compatible(catalog.content, catalogs'[v].content)
  BY <1>1, CompatibleIsTransitive DEF CatalogAdvances, ReasonCatalogs!Seen
<1> QED BY <1>1, <1>2, <1>3 DEF CatalogAdvances, ReasonCatalogs!Seen, ReasonCatalogs!Stored

(* What a call that does not move knows stays so.                            *)
LEMMA KnowledgeStays ==
    ASSUME ReasonCatalogs!TypeOK, CatalogsAdvance, NEW d \in Callers, ReasonCatalogs!Knows(d),
           catalogPc'[d] = catalogPc[d], target'[d] = target[d], base'[d] = base[d],
           written'[d] = written[d]
    PROVE  ReasonCatalogs!Knows(d)'
<1>1. ASSUME target[d] \in Versions \ undone', NEW catalog \in ReasonCatalogs!Catalogs,
             ReasonCatalogs!Seen(target[d], catalog)
      PROVE  ReasonCatalogs!Seen(target[d], catalog)'
  <2>1. PICK v : v = target[d]
    OBVIOUS
  <2>2. ReasonCatalogs!Seen(v, catalog)'
    BY <1>1, <2>1, SeenStays
  <2> QED BY <2>1, <2>2 DEF ReasonCatalogs!Seen, ReasonCatalogs!Stored
<1> QED BY <1>1 DEF ReasonCatalogs!Knows, CatalogsAdvance

(* What the parts of the invariant need of a step.                           *)
LEMMA CallsKnow ==
    ASSUME ReasonCatalogs!IInv, CatalogsAdvance, NEW c,
           \A d \in Callers \ {c} :
              /\ catalogPc'[d] = catalogPc[d] /\ target'[d] = target[d]
              /\ base'[d] = base[d] /\ written'[d] = written[d],
           c \in Callers => ReasonCatalogs!Knows(c)'
    PROVE  \A d \in Callers : ReasonCatalogs!Knows(d)'
<1> TAKE d \in Callers
<1>1. CASE d = c
  BY <1>1
<1>2. CASE d # c
  <2>1. ReasonCatalogs!TypeOK /\ ReasonCatalogs!Knows(d)
    BY DEF ReasonCatalogs!IInv
  <2> QED BY <1>2, <2>1, KnowledgeStays
<1> QED BY <1>1, <1>2

LEMMA NumbersStay ==
    ASSUME ReasonCatalogs!IInv, CatalogsAdvance, NEW fresh,
           \A v \in Versions \ undone' : v \in ReasonCatalogs!Stored' =>
              \/ v \in ReasonCatalogs!Stored
              \/ /\ v = fresh
                 /\ \A w \in ReasonCatalogs!Stored : catalogs[w].version < catalogs'[v].version
    PROVE  ReasonCatalogs!VersionsDistinct'
<1> SUFFICES ASSUME NEW v \in Versions \ undone', NEW w \in Versions \ undone',
                    v \in ReasonCatalogs!Stored', w \in ReasonCatalogs!Stored',
                    catalogs'[v].version = catalogs'[w].version
             PROVE  v = w
  BY DEF ReasonCatalogs!VersionsDistinct, ReasonCatalogs!Stored
<1>1. ReasonCatalogs!TypeOK /\ ReasonCatalogs!VersionsDistinct
  BY DEF ReasonCatalogs!IInv
<1>2. v \notin undone /\ w \notin undone
  BY DEF CatalogsAdvance
<1>3. /\ v \in ReasonCatalogs!Stored => catalogs'[v].version = catalogs[v].version
      /\ w \in ReasonCatalogs!Stored => catalogs'[w].version = catalogs[w].version
  BY DEF CatalogsAdvance, CatalogAdvances
<1>4. /\ v \in ReasonCatalogs!Stored => catalogs[v].version \in Nat
      /\ w \in ReasonCatalogs!Stored => catalogs[w].version \in Nat
  BY <1>1, CatalogTyped
<1>5. CASE v \in ReasonCatalogs!Stored /\ w \in ReasonCatalogs!Stored
  BY <1>1, <1>2, <1>3, <1>5 DEF ReasonCatalogs!VersionsDistinct
<1>6. CASE v \notin ReasonCatalogs!Stored /\ w \notin ReasonCatalogs!Stored
  BY <1>6
<1>7. CASE v \in ReasonCatalogs!Stored /\ w \notin ReasonCatalogs!Stored
  BY <1>3, <1>4, <1>7
<1>8. CASE v \notin ReasonCatalogs!Stored /\ w \in ReasonCatalogs!Stored
  BY <1>3, <1>4, <1>8
<1> QED BY <1>5, <1>6, <1>7, <1>8

LEMMA StoredStay ==
    ASSUME CatalogsAdvance, NEW v \in Versions \ undone', v \in ReasonCatalogs!Stored
    PROVE  /\ v \in ReasonCatalogs!Stored'
           /\ ReasonCatalogs!Compatible(catalogs[v].content, catalogs'[v].content)
<1>1. CatalogAdvances(v)
  BY DEF CatalogsAdvance
<1>2. catalogs'[v] # None
  BY <1>1, InstancesAssumption DEF CatalogAdvances, ReasonCatalogs!ConstantsAssumption
<1> QED BY <1>1, <1>2, CompatibleIsReflexive DEF CatalogAdvances, ReasonCatalogs!Stored

LEMMA AcceptedStay ==
    ASSUME ReasonCatalogs!IInv, CatalogsAdvance,
           \A v \in Versions \ undone' : \A content \in acceptedContents'[v] :
              \/ content \in acceptedContents[v]
              \/ /\ v \in ReasonCatalogs!Stored
                 /\ ReasonCatalogs!Compatible(content, catalogs[v].content)
    PROVE  ReasonCatalogs!AcceptedKept'
<1> SUFFICES ASSUME NEW v \in Versions \ undone', NEW content \in acceptedContents'[v]
             PROVE  /\ v \in ReasonCatalogs!Stored'
                    /\ ReasonCatalogs!Compatible(content, catalogs'[v].content)
  BY DEF ReasonCatalogs!AcceptedKept
<1>1. v \in ReasonCatalogs!Stored /\ ReasonCatalogs!Compatible(content, catalogs[v].content)
  BY DEF ReasonCatalogs!IInv, ReasonCatalogs!AcceptedKept, CatalogsAdvance
<1> QED BY <1>1, StoredStay, CompatibleIsTransitive

LEMMA ReferencesStay ==
    ASSUME ReasonCatalogs!IInv, CatalogsAdvance,
           \A v \in Versions \ undone' : referred'[v] # None =>
              \/ referred'[v] = referred[v]
              \/ /\ v \in ReasonCatalogs!Stored
                 /\ ReasonCatalogs!Answers(catalogs[v].content, referred'[v])
    PROVE  ReasonCatalogs!ReferencesStayValid'
<1> SUFFICES ASSUME NEW v \in Versions \ undone', referred'[v] # None
             PROVE  /\ v \in ReasonCatalogs!Stored'
                    /\ ReasonCatalogs!Answers(catalogs'[v].content, referred'[v])
  BY DEF ReasonCatalogs!ReferencesStayValid
<1>1. /\ v \in ReasonCatalogs!Stored
      /\ ReasonCatalogs!Answers(catalogs[v].content, referred'[v])
  BY DEF ReasonCatalogs!IInv, ReasonCatalogs!ReferencesStayValid, CatalogsAdvance
<1> QED BY <1>1, StoredStay, CompatibleAnswers

(* A step that changes no catalog and takes back nothing advances them.       *)
LEMMA NothingAdvances ==
    ASSUME ReasonCatalogs!TypeOK, UNCHANGED <<catalogs, undone>>
    PROVE  CatalogsAdvance /\ ReasonCatalogs!Stored' = ReasonCatalogs!Stored
  BY CatalogTyped DEF CatalogsAdvance, CatalogAdvances, ReasonCatalogs!Stored

CatalogLocals ==
    /\ catalogPc \in [Callers -> ReasonCatalogs!Steps]
    /\ target \in [Callers -> Versions \cup {None}]
    /\ base \in [Callers -> ReasonCatalogs!Catalogs \cup {None}]
    /\ written \in [Callers -> ReasonCatalogs!Catalogs \cup {None}]

CatalogOthers(c) ==
    \A d \in Callers \ {c} :
        /\ catalogPc'[d] = catalogPc[d] /\ target'[d] = target[d]
        /\ base'[d] = base[d] /\ written'[d] = written[d]

(* A call ends.                                                              *)
LEMMA CatalogDone ==
    ASSUME ReasonCatalogs!TypeOK, NEW c \in Callers, ReasonCatalogs!Done(c)
    PROVE  CatalogLocals' /\ CatalogOthers(c) /\ ReasonCatalogs!Knows(c)'
<1>1. CatalogLocals' /\ CatalogOthers(c) /\ catalogPc'[c] = "idle"
  BY DEF ReasonCatalogs!TypeOK, ReasonCatalogs!Done, ReasonCatalogs!Goto, ReasonCatalogs!Steps,
         CatalogLocals, CatalogOthers
<1> QED BY <1>1 DEF ReasonCatalogs!Knows

(* A call stores a new catalog under the next number, or ends.               *)
LEMMA SaveKeeps ==
    ASSUME ReasonCatalogs!IInv, NEW c \in Callers, NEW v \in Versions,
           NEW catalog \in ReasonCatalogs!Catalogs, catalog.revision = 1,
           ReasonCatalogs!Save(c, v, catalog),
           UNCHANGED <<acceptedContents, referred, undone>>, catalogCalls' \in 0..CatalogCalls
    PROVE  ReasonCatalogs!IInv' /\ CatalogsAdvance
<1>0. ReasonCatalogs!TypeOK
  BY DEF ReasonCatalogs!IInv
<1>1. CASE v \in ReasonCatalogs!Stored
  <2>1. ReasonCatalogs!Done(c) /\ UNCHANGED <<catalogs, undone>>
    BY <1>1 DEF ReasonCatalogs!Save
  <2>2. CatalogLocals' /\ CatalogOthers(c) /\ ReasonCatalogs!Knows(c)'
    BY <1>0, <2>1, CatalogDone
  <2>3. CatalogsAdvance /\ ReasonCatalogs!Stored' = ReasonCatalogs!Stored
    BY <1>0, <2>1, NothingAdvances
  <2>4. ReasonCatalogs!TypeOK'
    BY <1>0, <2>1, <2>2 DEF ReasonCatalogs!TypeOK, CatalogLocals
  <2>5. \A d \in Callers : ReasonCatalogs!Knows(d)'
    BY <2>2, <2>3, CallsKnow DEF CatalogOthers
  <2>6. ReasonCatalogs!VersionsDistinct' /\ ReasonCatalogs!AcceptedKept'
        /\ ReasonCatalogs!ReferencesStayValid'
    BY <2>3, NumbersStay, AcceptedStay, ReferencesStay
  <2> QED BY <2>3, <2>4, <2>5, <2>6 DEF ReasonCatalogs!IInv
<1>2. CASE v \notin ReasonCatalogs!Stored
  <2> DEFINE numbered == [catalog EXCEPT !.version = ReasonCatalogs!NextVersion]
  <2>1. /\ numbered.version <= MaxVersion
        /\ catalogs' = [catalogs EXCEPT ![v] = numbered]
        /\ target' = [target EXCEPT ![c] = v]
        /\ written' = [written EXCEPT ![c] = numbered]
        /\ catalogPc' = [catalogPc EXCEPT ![c] = "audit"]
        /\ UNCHANGED base
    BY <1>2 DEF ReasonCatalogs!Save, ReasonCatalogs!NumberFor, ReasonCatalogs!Goto
  <2>2. numbered.version = ReasonCatalogs!NextVersion /\ numbered.revision = 1
    BY DEF ReasonCatalogs!Catalogs
  <2>3. ReasonCatalogs!NextVersion \in 1..MaxVersion
    BY <1>0, <2>1, <2>2, NextVersionIsNew, InstancesAssumption
    DEF ReasonCatalogs!ConstantsAssumption
  <2>4. numbered \in ReasonCatalogs!Catalogs
    BY <2>3 DEF ReasonCatalogs!Catalogs
  <2>5. PICK n \in ReasonCatalogs!Catalogs :
            n = numbered /\ n.revision = 1 /\ n.version = ReasonCatalogs!NextVersion
    BY <2>2, <2>4
  <2> HIDE DEF numbered
  <2>6. /\ catalogs'[v] = n /\ \A w \in Versions \ {v} : catalogs'[w] = catalogs[w]
        /\ catalogs' \in [Versions -> ReasonCatalogs!Catalogs \cup {None}]
    BY <1>0, <2>1, <2>5 DEF ReasonCatalogs!TypeOK
  <2>7. CatalogsAdvance
    <3>1. \A w \in ReasonCatalogs!Stored : w \in Versions \ {v} /\ catalogs[w] \in ReasonCatalogs!Catalogs
      BY <1>0, <1>2, CatalogTyped DEF ReasonCatalogs!Stored
    <3> QED BY <2>6, <3>1 DEF CatalogsAdvance, CatalogAdvances
  <2>8. /\ CatalogLocals' /\ CatalogOthers(c)
        /\ catalogPc'[c] = "audit" /\ target'[c] = v /\ written'[c] = n
    BY <1>0, <2>1, <2>5
    DEF ReasonCatalogs!TypeOK, ReasonCatalogs!Steps, CatalogLocals, CatalogOthers
  <2>9. ReasonCatalogs!Knows(c)'
    <3>1. n # None /\ n.revision \in Nat
      BY <2>5, InstancesAssumption DEF ReasonCatalogs!ConstantsAssumption
    <3>2. ReasonCatalogs!Seen(v, n)'
      BY <2>5, <2>6, <3>1, CompatibleIsReflexive DEF ReasonCatalogs!Seen, ReasonCatalogs!Stored
    <3> QED BY <2>5, <2>8, <3>2 DEF ReasonCatalogs!Knows, ReasonCatalogs!Seen, ReasonCatalogs!Stored
  <2>10. ReasonCatalogs!TypeOK'
    BY <1>0, <2>6, <2>8 DEF ReasonCatalogs!TypeOK, CatalogLocals
  <2>11. \A d \in Callers : ReasonCatalogs!Knows(d)'
    BY <2>7, <2>8, <2>9, CallsKnow DEF CatalogOthers
  <2>12. \A w \in Versions \ undone' : w \in ReasonCatalogs!Stored' =>
            \/ w \in ReasonCatalogs!Stored
            \/ /\ w = v
               /\ \A u \in ReasonCatalogs!Stored : catalogs[u].version < catalogs'[w].version
    <3>1. \A u \in ReasonCatalogs!Stored : catalogs[u].version < catalogs'[v].version
      BY <1>0, <2>5, <2>6, NextVersionIsNew
    <3> QED BY <2>6, <3>1 DEF ReasonCatalogs!Stored
  <2>13. ReasonCatalogs!VersionsDistinct' /\ ReasonCatalogs!AcceptedKept'
         /\ ReasonCatalogs!ReferencesStayValid'
    BY <2>7, <2>12, NumbersStay, AcceptedStay, ReferencesStay
  <2> QED BY <2>7, <2>10, <2>11, <2>13 DEF ReasonCatalogs!IInv
<1> QED BY <1>1, <1>2

(* The steps of a call that change no catalog.                               *)
LEMMA RestKeeps ==
    ASSUME ReasonCatalogs!IInv, NEW c \in Callers, UNCHANGED <<catalogs, referred, undone>>,
           CatalogLocals', CatalogOthers(c), ReasonCatalogs!Knows(c)',
           acceptedContents' \in [Versions -> SUBSET Drafts], catalogCalls' \in 0..CatalogCalls,
           \A v \in Versions \ undone : \A content \in acceptedContents'[v] :
              \/ content \in acceptedContents[v]
              \/ /\ v \in ReasonCatalogs!Stored
                 /\ ReasonCatalogs!Compatible(content, catalogs[v].content)
    PROVE  ReasonCatalogs!IInv' /\ CatalogsAdvance
<1>0. ReasonCatalogs!TypeOK
  BY DEF ReasonCatalogs!IInv
<1>1. CatalogsAdvance /\ ReasonCatalogs!Stored' = ReasonCatalogs!Stored
  BY <1>0, NothingAdvances
<1>2. ReasonCatalogs!TypeOK'
  BY <1>0 DEF ReasonCatalogs!TypeOK, CatalogLocals
<1>3. \A d \in Callers : ReasonCatalogs!Knows(d)'
  BY <1>1, CallsKnow DEF CatalogOthers
<1>4. ReasonCatalogs!VersionsDistinct' /\ ReasonCatalogs!AcceptedKept'
      /\ ReasonCatalogs!ReferencesStayValid'
  BY <1>1, NumbersStay, AcceptedStay, ReferencesStay
<1> QED BY <1>1, <1>2, <1>3, <1>4 DEF ReasonCatalogs!IInv

LEMMA DraftedTyped ==
    ASSUME NEW content \in Drafts
    PROVE  /\ ReasonCatalogs!Drafted(content, 1) \in ReasonCatalogs!Catalogs
           /\ ReasonCatalogs!Drafted(content, 1).revision = 1
  BY InstancesAssumption
  DEF ReasonCatalogs!ConstantsAssumption, ReasonCatalogs!Drafted, ReasonCatalogs!Catalogs,
      ReasonCatalogs!Statuses

LEMMA BeginTyped ==
    ASSUME ReasonCatalogs!IInv, NEW c, ReasonCatalogs!Begins(c)
    PROVE  catalogCalls' \in 0..CatalogCalls
  BY InstancesAssumption
  DEF ReasonCatalogs!ConstantsAssumption, ReasonCatalogs!IInv, ReasonCatalogs!TypeOK,
      ReasonCatalogs!Begins

LEMMA PlanTyped ==
    ASSUME ReasonCatalogs!TypeOK, NEW c \in Callers, NEW v \in Versions,
           NEW before \in ReasonCatalogs!Catalogs, NEW catalog \in ReasonCatalogs!Catalogs,
           NEW step \in {"update", "save"}, ReasonCatalogs!Plan(c, v, before, catalog, step)
    PROVE  /\ CatalogLocals' /\ CatalogOthers(c)
           /\ catalogPc'[c] = step /\ target'[c] = v /\ base'[c] = before /\ written'[c] = catalog
  BY DEF ReasonCatalogs!TypeOK, ReasonCatalogs!Plan, ReasonCatalogs!Goto, ReasonCatalogs!Steps,
         CatalogLocals, CatalogOthers

(* Every step of a call keeps the invariant and advances the catalogs.        *)
LEMMA CallKeeps ==
    ASSUME ReasonCatalogs!IInv, NEW c \in Callers, ReasonCatalogs!Call(c)
    PROVE  ReasonCatalogs!IInv' /\ CatalogsAdvance
<1>0. /\ ReasonCatalogs!TypeOK /\ ReasonCatalogs!Knows(c)
      /\ ReasonCatalogs!AcceptedKept
  BY DEF ReasonCatalogs!IInv
<1>a. /\ acceptedContents \in [Versions -> SUBSET Drafts] /\ catalogCalls \in 0..CatalogCalls
      /\ written[c] \in ReasonCatalogs!Catalogs \cup {None}
  BY <1>0 DEF ReasonCatalogs!TypeOK
<1> USE DEF ReasonCatalogs!ghosts
<1>1. CASE ReasonCatalogs!CreateDraft(c)
  <2>1. PICK v \in Versions, content \in Drafts :
            ReasonCatalogs!Save(c, v, ReasonCatalogs!Drafted(content, 1))
    BY <1>1 DEF ReasonCatalogs!CreateDraft
  <2>2. UNCHANGED <<acceptedContents, referred, undone>> /\ catalogCalls' \in 0..CatalogCalls
    BY <1>1, BeginTyped DEF ReasonCatalogs!CreateDraft
  <2> QED BY <2>1, <2>2, DraftedTyped, SaveKeeps
<1>2. CASE ReasonCatalogs!UpdateDraft(c)
  <2>1. PICK v \in ReasonCatalogs!Stored, content \in Drafts :
            /\ ReasonCatalogs!IsDraft(catalogs[v])
            /\ ReasonCatalogs!Compatible(catalogs[v].content, content)
            /\ catalogs[v].revision < MaxRevision
            /\ ReasonCatalogs!Plan(c, v, catalogs[v],
                 [catalogs[v] EXCEPT !.content = content, !.revision = @ + 1], "update")
    BY <1>2 DEF ReasonCatalogs!UpdateDraft
  <2>2. /\ UNCHANGED <<catalogs, acceptedContents, referred, undone>>
        /\ catalogCalls' \in 0..CatalogCalls
    BY <1>2, BeginTyped DEF ReasonCatalogs!UpdateDraft
  <2>3. v \in Versions /\ catalogs[v] \in ReasonCatalogs!Catalogs
    BY <1>0, CatalogTyped DEF ReasonCatalogs!Stored
  <2>4. PICK before \in ReasonCatalogs!Catalogs : before = catalogs[v]
    BY <2>3
  <2> DEFINE catalog == [before EXCEPT !.content = content, !.revision = @ + 1]
  <2>5. /\ catalog \in ReasonCatalogs!Catalogs
        /\ catalog.content = content
        /\ catalog = [before EXCEPT !.content = catalog.content, !.revision = @ + 1]
    <3>1. before.revision + 1 \in 1..MaxRevision
      BY <2>1, <2>4, InstancesAssumption
      DEF ReasonCatalogs!ConstantsAssumption, ReasonCatalogs!Catalogs
    <3>2. catalog.content = content /\ catalog \in ReasonCatalogs!Catalogs
      BY <3>1 DEF ReasonCatalogs!Catalogs
    <3> QED BY <3>2
  <2>6. /\ CatalogLocals' /\ CatalogOthers(c)
        /\ catalogPc'[c] = "update" /\ target'[c] = v /\ base'[c] = before
        /\ written'[c] = catalog
    BY <1>0, <2>1, <2>3, <2>4, <2>5, PlanTyped
  <2>7. ReasonCatalogs!Seen(v, before)'
    <3>1. before.revision \in Nat
      BY DEF ReasonCatalogs!Catalogs
    <3> QED BY <2>2, <2>4, <3>1, CompatibleIsReflexive
            DEF ReasonCatalogs!Seen, ReasonCatalogs!Stored
  <2> HIDE DEF catalog
  <2>8. ReasonCatalogs!Knows(c)'
    BY <2>1, <2>3, <2>4, <2>5, <2>6, <2>7
    DEF ReasonCatalogs!Knows, ReasonCatalogs!IsDraft, ReasonCatalogs!Seen, ReasonCatalogs!Stored
  <2> QED BY <1>a, <2>2, <2>6, <2>8, RestKeeps
<1>3. CASE ReasonCatalogs!CreateVersion(c)
  <2>1. PICK from \in ReasonCatalogs!Stored, v \in Versions, content \in Drafts :
            ReasonCatalogs!Plan(c, v, catalogs[from], ReasonCatalogs!Drafted(content, 1), "save")
    BY <1>3 DEF ReasonCatalogs!CreateVersion
  <2>2. /\ UNCHANGED <<catalogs, acceptedContents, referred, undone>>
        /\ catalogCalls' \in 0..CatalogCalls
    BY <1>3, BeginTyped DEF ReasonCatalogs!CreateVersion
  <2>3. catalogs[from] \in ReasonCatalogs!Catalogs
    BY <1>0, CatalogTyped DEF ReasonCatalogs!Stored
  <2>4. /\ CatalogLocals' /\ CatalogOthers(c)
        /\ catalogPc'[c] = "save" /\ target'[c] = v
        /\ written'[c] \in ReasonCatalogs!Catalogs /\ written'[c].revision = 1
    BY <1>0, <2>1, <2>3, PlanTyped, DraftedTyped
  <2>5. ReasonCatalogs!Knows(c)'
    BY <2>4 DEF ReasonCatalogs!Knows
  <2> QED BY <1>a, <2>2, <2>4, <2>5, RestKeeps
<1>4. CASE ReasonCatalogs!SaveVersion(c)
  <2>1. /\ target[c] \in Versions /\ written[c] \in ReasonCatalogs!Catalogs
        /\ written[c].revision = 1
        /\ ReasonCatalogs!Save(c, target[c], written[c])
        /\ UNCHANGED <<acceptedContents, referred, undone, catalogCalls>>
    BY <1>0, <1>4 DEF ReasonCatalogs!SaveVersion, ReasonCatalogs!Knows
  <2> QED BY <1>a, <2>1, SaveKeeps
<1>5. CASE ReasonCatalogs!Update(c) /\ ~ReasonCatalogs!BaseIsCurrent(c)
  <2>1. /\ ReasonCatalogs!Done(c)
        /\ UNCHANGED <<catalogs, acceptedContents, referred, undone, catalogCalls>>
    BY <1>5 DEF ReasonCatalogs!Update
  <2>2. CatalogLocals' /\ CatalogOthers(c) /\ ReasonCatalogs!Knows(c)'
    BY <1>0, <2>1, CatalogDone
  <2> QED BY <1>a, <2>1, <2>2, RestKeeps
<1>6. CASE ReasonCatalogs!Update(c) /\ ReasonCatalogs!BaseIsCurrent(c)
  <2> DEFINE v == target[c]
             old == base[c]
             new == written[c]
  <2>1. /\ v \in Versions /\ v \in ReasonCatalogs!Stored
        /\ old \in ReasonCatalogs!Catalogs /\ new \in ReasonCatalogs!Catalogs
        /\ old.status = "draft"
        /\ new = [old EXCEPT !.content = new.content, !.revision = @ + 1]
        /\ ReasonCatalogs!Compatible(old.content, new.content)
        /\ v \notin undone => catalogs[v] = old
    BY <1>0, <1>6
    DEF ReasonCatalogs!Update, ReasonCatalogs!BaseIsCurrent, ReasonCatalogs!Knows,
        ReasonCatalogs!Seen
  <2>2. new.version = old.version /\ new.revision = old.revision + 1 /\ old.revision \in Nat
        /\ new # None
    <3>1. \A content :
              LET n == [old EXCEPT !.content = content, !.revision = @ + 1] IN
              n.version = old.version /\ n.revision = old.revision + 1
      BY <2>1 DEF ReasonCatalogs!Catalogs
    <3>2. new.version = old.version /\ new.revision = old.revision + 1
      BY <2>1, <3>1
    <3>3. old.revision \in Nat
      BY <2>1 DEF ReasonCatalogs!Catalogs
    <3> QED BY <2>1, <3>2, <3>3, InstancesAssumption DEF ReasonCatalogs!ConstantsAssumption
  <2>3. /\ catalogs' = [catalogs EXCEPT ![v] = new]
        /\ catalogPc' = [catalogPc EXCEPT ![c] = "audit"]
        /\ UNCHANGED <<target, base, written, acceptedContents, referred, undone, catalogCalls>>
    BY <1>6 DEF ReasonCatalogs!Update, ReasonCatalogs!Goto, ReasonCatalogs!locals
  <2>4. /\ catalogs'[v] = new /\ \A w \in Versions \ {v} : catalogs'[w] = catalogs[w]
        /\ catalogs' \in [Versions -> ReasonCatalogs!Catalogs \cup {None}]
        /\ ReasonCatalogs!Stored' = ReasonCatalogs!Stored
    BY <1>0, <2>1, <2>2, <2>3 DEF ReasonCatalogs!TypeOK, ReasonCatalogs!Stored
  <2>5. CatalogsAdvance
    <3>1. SUFFICES ASSUME NEW w \in Versions \ undone, w \in ReasonCatalogs!Stored
                   PROVE  CatalogAdvances(w)
      BY <2>3 DEF CatalogsAdvance
    <3>2. catalogs[w] \in ReasonCatalogs!Catalogs
      BY <1>0, <3>1, CatalogTyped
    <3>3. CASE w = v
      BY <2>1, <2>2, <2>4, <3>1, <3>3 DEF CatalogAdvances
    <3>4. CASE w # v
      BY <2>4, <3>2, <3>4 DEF CatalogAdvances
    <3> QED BY <3>3, <3>4
  <2>6. /\ CatalogLocals' /\ CatalogOthers(c)
        /\ catalogPc'[c] = "audit" /\ target'[c] = v /\ base'[c] = old /\ written'[c] = new
    BY <1>0, <2>3
    DEF ReasonCatalogs!TypeOK, ReasonCatalogs!Steps, CatalogLocals, CatalogOthers
  <2>7. ReasonCatalogs!Knows(c)'
    <3>1. PICK u, n : u = v /\ n = new
      OBVIOUS
    <3>2. n.revision \in Nat /\ n.version = old.version
      BY <2>2, <3>1
    <3>3. ReasonCatalogs!Seen(u, n)'
      BY <2>1, <2>2, <2>4, <3>1, <3>2, CompatibleIsReflexive
      DEF ReasonCatalogs!Seen, ReasonCatalogs!Stored
    <3> QED BY <2>1, <2>6, <3>1, <3>3
            DEF ReasonCatalogs!Knows, ReasonCatalogs!Seen, ReasonCatalogs!Stored
  <2>8. ReasonCatalogs!TypeOK'
    BY <1>0, <2>3, <2>4, <2>6 DEF ReasonCatalogs!TypeOK, CatalogLocals
  <2>9. \A d \in Callers : ReasonCatalogs!Knows(d)'
    BY <2>5, <2>6, <2>7, CallsKnow DEF CatalogOthers
  <2>10. ReasonCatalogs!VersionsDistinct' /\ ReasonCatalogs!AcceptedKept'
         /\ ReasonCatalogs!ReferencesStayValid'
    BY <2>3, <2>4, <2>5, NumbersStay, AcceptedStay, ReferencesStay
  <2> QED BY <2>5, <2>8, <2>9, <2>10 DEF ReasonCatalogs!IInv
<1>7. CASE ReasonCatalogs!Audit(c)
  <2>1. /\ UNCHANGED <<catalogs, referred, undone, catalogCalls>>
        /\ target[c] \in Versions /\ written[c] \in ReasonCatalogs!Catalogs
        /\ target[c] \notin undone => ReasonCatalogs!Seen(target[c], written[c])
        /\ written[c].revision > 1 => base[c] \in ReasonCatalogs!Catalogs
    BY <1>0, <1>7 DEF ReasonCatalogs!Audit, ReasonCatalogs!Knows
  <2>2. CASE /\ acceptedContents' = [acceptedContents EXCEPT ![target[c]] = @ \cup {written[c].content}]
             /\ ReasonCatalogs!Done(c)
    <3>1. CatalogLocals' /\ CatalogOthers(c) /\ ReasonCatalogs!Knows(c)'
      BY <1>0, <2>2, CatalogDone
    <3>2. acceptedContents' \in [Versions -> SUBSET Drafts]
      BY <1>a, <2>1, <2>2 DEF ReasonCatalogs!Catalogs
    <3>3. \A v \in Versions \ undone : \A content \in acceptedContents'[v] :
              \/ content \in acceptedContents[v]
              \/ /\ v \in ReasonCatalogs!Stored
                 /\ ReasonCatalogs!Compatible(content, catalogs[v].content)
      BY <1>a, <2>1, <2>2 DEF ReasonCatalogs!Seen
    <3> QED BY <1>a, <2>1, <3>1, <3>2, <3>3, RestKeeps
  <2>3. CASE /\ catalogPc' = [catalogPc EXCEPT ![c] = "undo"]
             /\ UNCHANGED <<target, base, written, acceptedContents>>
    <3>1. /\ CatalogLocals' /\ CatalogOthers(c)
          /\ catalogPc'[c] = "undo"
      BY <1>0, <2>3
      DEF ReasonCatalogs!TypeOK, ReasonCatalogs!Steps, CatalogLocals, CatalogOthers
    <3>2. ReasonCatalogs!Knows(c)'
      BY <2>1, <2>3, <3>1 DEF ReasonCatalogs!Knows
    <3> QED BY <1>a, <2>1, <2>3, <3>1, <3>2, RestKeeps
  <2> QED BY <1>7, <2>2, <2>3 DEF ReasonCatalogs!Audit, ReasonCatalogs!Goto, ReasonCatalogs!locals
<1>8. CASE ReasonCatalogs!Undo(c) /\ ~ReasonCatalogs!WrittenIsCurrent(c)
  <2>1. /\ ReasonCatalogs!Done(c)
        /\ UNCHANGED <<catalogs, acceptedContents, referred, undone, catalogCalls>>
    BY <1>8 DEF ReasonCatalogs!Undo
  <2>2. CatalogLocals' /\ CatalogOthers(c) /\ ReasonCatalogs!Knows(c)'
    BY <1>0, <2>1, CatalogDone
  <2> QED BY <1>a, <2>1, <2>2, RestKeeps
<1>9. CASE ReasonCatalogs!Undo(c) /\ ReasonCatalogs!WrittenIsCurrent(c)
  <2> DEFINE v == target[c]
             old == IF written[c].revision > 1 THEN base[c] ELSE None
  <2>1. /\ ReasonCatalogs!Done(c)
        /\ catalogs' = [catalogs EXCEPT ![v] = old]
        /\ undone' = undone \cup {v}
        /\ UNCHANGED <<acceptedContents, referred, catalogCalls>>
    BY <1>9 DEF ReasonCatalogs!Undo
  <2>2. v \in Versions /\ old \in ReasonCatalogs!Catalogs \cup {None}
    BY <1>0, <1>9 DEF ReasonCatalogs!Undo, ReasonCatalogs!Knows
  <2> HIDE DEF old
  <2>3. /\ \A w \in Versions \ {v} : catalogs'[w] = catalogs[w]
        /\ catalogs' \in [Versions -> ReasonCatalogs!Catalogs \cup {None}]
        /\ undone' \subseteq Versions
    BY <1>0, <2>1, <2>2 DEF ReasonCatalogs!TypeOK
  <2>4. CatalogsAdvance
    <3>1. \A w \in Versions \ undone' : w \in ReasonCatalogs!Stored =>
              w # v /\ catalogs[w] \in ReasonCatalogs!Catalogs
      BY <1>0, <2>1, CatalogTyped
    <3> QED BY <2>1, <2>3, <3>1 DEF CatalogsAdvance, CatalogAdvances
  <2>5. CatalogLocals' /\ CatalogOthers(c) /\ ReasonCatalogs!Knows(c)'
    BY <1>0, <2>1, CatalogDone
  <2>6. ReasonCatalogs!TypeOK'
    BY <1>0, <2>1, <2>3, <2>5 DEF ReasonCatalogs!TypeOK, CatalogLocals
  <2>7. \A d \in Callers : ReasonCatalogs!Knows(d)'
    BY <2>4, <2>5, CallsKnow DEF CatalogOthers
  <2>8. \A w \in Versions \ undone' :
            w \in ReasonCatalogs!Stored' => w \in ReasonCatalogs!Stored
    BY <2>1, <2>3 DEF ReasonCatalogs!Stored
  <2>9. ReasonCatalogs!VersionsDistinct' /\ ReasonCatalogs!AcceptedKept'
        /\ ReasonCatalogs!ReferencesStayValid'
    BY <2>1, <2>4, <2>8, NumbersStay, AcceptedStay, ReferencesStay
  <2> QED BY <2>4, <2>6, <2>7, <2>9 DEF ReasonCatalogs!IInv
<1> QED BY <1>1, <1>2, <1>3, <1>4, <1>5, <1>6, <1>7, <1>8, <1>9 DEF ReasonCatalogs!Call

(* So do a publication of a draft and the reference of a policy to a catalog. *)
LEMMA PublishKeeps ==
    ASSUME ReasonCatalogs!IInv, NEW v \in Versions,
           ReasonCatalogs!Publish(v) \/ ReasonCatalogs!Refer(v)
    PROVE  ReasonCatalogs!IInv' /\ CatalogsAdvance
<1>0. ReasonCatalogs!TypeOK
  BY DEF ReasonCatalogs!IInv
<1> USE DEF ReasonCatalogs!locals, ReasonCatalogs!ghosts
<1>1. UNCHANGED <<catalogPc, target, base, written, acceptedContents, undone, catalogCalls>>
  BY DEF ReasonCatalogs!Publish, ReasonCatalogs!Refer
<1>2. ASSUME CatalogsAdvance, ReasonCatalogs!Stored' = ReasonCatalogs!Stored,
             catalogs' \in [Versions -> ReasonCatalogs!Catalogs \cup {None}],
             referred' \in [Versions -> ReasonCatalogs!References \cup {None}],
             \A w \in Versions \ undone' : referred'[w] # None =>
                \/ referred'[w] = referred[w]
                \/ /\ w \in ReasonCatalogs!Stored
                   /\ ReasonCatalogs!Answers(catalogs[w].content, referred'[w])
      PROVE  ReasonCatalogs!IInv' /\ CatalogsAdvance
  <2>1. ReasonCatalogs!TypeOK'
    BY <1>0, <1>1, <1>2 DEF ReasonCatalogs!TypeOK
  <2>2. \A d \in Callers : ReasonCatalogs!Knows(d)'
    <3>1. None \in Callers => ReasonCatalogs!Knows(None)'
      BY <1>0, <1>1, <1>2, KnowledgeStays DEF ReasonCatalogs!IInv
    <3> QED BY <1>1, <1>2, <3>1, CallsKnow
  <2>3. ReasonCatalogs!VersionsDistinct' /\ ReasonCatalogs!AcceptedKept'
        /\ ReasonCatalogs!ReferencesStayValid'
    BY <1>1, <1>2, NumbersStay, AcceptedStay, ReferencesStay
  <2> QED BY <1>2, <2>1, <2>2, <2>3 DEF ReasonCatalogs!IInv
<1>3. CASE ReasonCatalogs!Publish(v)
  <2>1. /\ catalogs[v] # None /\ catalogs[v].status = "draft"
        /\ catalogs[v].revision < MaxRevision
        /\ catalogs' = [catalogs EXCEPT ![v].status = "published", ![v].revision = @ + 1]
        /\ UNCHANGED <<referred, undone>>
    BY <1>3 DEF ReasonCatalogs!Publish, ReasonCatalogs!IsDraft
  <2>2. PICK old \in ReasonCatalogs!Catalogs : old = catalogs[v]
    BY <1>0, <2>1, CatalogTyped
  <2> DEFINE new == [old EXCEPT !.status = "published", !.revision = @ + 1]
  <2>3. catalogs' = [catalogs EXCEPT ![v] = new]
    BY <2>1, <2>2
  <2>4. old.revision \in Nat /\ old.revision + 1 \in 1..MaxRevision
    BY <2>1, <2>2, InstancesAssumption DEF ReasonCatalogs!ConstantsAssumption, ReasonCatalogs!Catalogs
  <2>5. /\ new \in ReasonCatalogs!Catalogs
        /\ new.content = old.content /\ new.version = old.version
        /\ new.revision = old.revision + 1
    BY <2>4 DEF ReasonCatalogs!Catalogs, ReasonCatalogs!Statuses
  <2>6. new # None
    BY <2>5, InstancesAssumption DEF ReasonCatalogs!ConstantsAssumption
  <2> HIDE DEF new
  <2>7. /\ catalogs'[v] = new /\ \A w \in Versions \ {v} : catalogs'[w] = catalogs[w]
        /\ catalogs' \in [Versions -> ReasonCatalogs!Catalogs \cup {None}]
        /\ ReasonCatalogs!Stored' = ReasonCatalogs!Stored
    <3>1. /\ catalogs'[v] = new /\ \A w \in Versions \ {v} : catalogs'[w] = catalogs[w]
          /\ catalogs' \in [Versions -> ReasonCatalogs!Catalogs \cup {None}]
      BY <1>0, <2>3, <2>5 DEF ReasonCatalogs!TypeOK
    <3>2. \A w \in Versions : catalogs'[w] # None <=> catalogs[w] # None
      BY <2>1, <2>6, <3>1
    <3> QED BY <3>1, <3>2 DEF ReasonCatalogs!Stored
  <2>8. CatalogAdvances(v)
    BY <2>1, <2>2, <2>4, <2>5, <2>7, CompatibleIsReflexive DEF CatalogAdvances
  <2>9. CatalogsAdvance
    BY <1>0, <2>1, <2>7, <2>8, CatalogTyped DEF CatalogsAdvance, CatalogAdvances
  <2> QED BY <1>0, <1>2, <2>1, <2>7, <2>9 DEF ReasonCatalogs!TypeOK
<1>4. CASE ReasonCatalogs!Refer(v)
  <2>1. PICK reference \in ReasonCatalogs!References :
            /\ v \in ReasonCatalogs!Stored
            /\ ReasonCatalogs!Answers(catalogs[v].content, reference)
            /\ referred' = [referred EXCEPT ![v] = reference]
            /\ UNCHANGED <<catalogs, undone>>
    BY <1>4 DEF ReasonCatalogs!Refer
  <2>2. CatalogsAdvance /\ ReasonCatalogs!Stored' = ReasonCatalogs!Stored
    BY <1>0, <2>1, NothingAdvances
  <2> QED BY <1>0, <1>2, <2>1, <2>2 DEF ReasonCatalogs!TypeOK
<1> QED BY <1>3, <1>4

LEMMA CatalogsRest ==
    ASSUME ReasonCatalogs!IInv, UNCHANGED catalogVars
    PROVE  ReasonCatalogs!IInv'
<1>1. UNCHANGED <<catalogs, catalogPc, target, base, written, acceptedContents, referred,
                  undone, catalogCalls>>
  BY DEF catalogVars
<1>2. ReasonCatalogs!TypeOK /\ ReasonCatalogs!TypeOK'
  BY <1>1 DEF ReasonCatalogs!IInv, ReasonCatalogs!TypeOK
<1>3. CatalogsAdvance /\ ReasonCatalogs!Stored' = ReasonCatalogs!Stored
  BY <1>1, <1>2, NothingAdvances
<1>4. \A d \in Callers : ReasonCatalogs!Knows(d)'
  BY <1>1, <1>2, <1>3, KnowledgeStays DEF ReasonCatalogs!IInv
<1>5. ReasonCatalogs!VersionsDistinct' /\ ReasonCatalogs!AcceptedKept'
      /\ ReasonCatalogs!ReferencesStayValid'
  BY <1>1, <1>3, NumbersStay, AcceptedStay, ReferencesStay
<1> QED BY <1>2, <1>4, <1>5 DEF ReasonCatalogs!IInv

(* Whatever calls create, update and version catalogs at the same time, what  *)
(* no failed audit took back is kept, numbered once and final when published. *)
THEOREM CatalogsAreKept == ServicesSpec => CatalogsKept
<1> DEFINE services == <<part, vars, configurationVars, catalogVars, projectionVars>>
<1>1. ServicesInit => ReasonCatalogs!IInv
  BY CatalogsInit DEF ServicesInit
<1>2. ASSUME ReasonCatalogs!IInv, [ServicesNext]_services
      PROVE  /\ ReasonCatalogs!IInv'
             /\ [/\ (ReasonCatalogs!TypeOK /\ ReasonCatalogs!VersionsDistinct)'
                 /\ (ReasonCatalogs!AcceptedKept /\ ReasonCatalogs!ReferencesStayValid)'
                 /\ ReasonCatalogs!PublishedStays]_catalogVars
  <2>1. CASE UNCHANGED catalogVars
    BY <1>2, <2>1, CatalogsRest
  <2>2. CASE ReasonCatalogs!Next
    <3>1. ReasonCatalogs!IInv' /\ CatalogsAdvance
      BY <1>2, <2>2, CallKeeps, PublishKeeps DEF ReasonCatalogs!Next
    <3>2. ReasonCatalogs!PublishedStays
      BY <3>1 DEF CatalogsAdvance, CatalogAdvances, ReasonCatalogs!PublishedStays
    <3> QED BY <3>1, <3>2 DEF ReasonCatalogs!IInv
  <2> QED BY <1>2, <2>1, <2>2 DEF ServicesNext
<1> QED BY <1>1, <1>2, PTL DEF ServicesSpec, CatalogsKept

-----------------------------------------------------------------------------
(* Business projections.                                                     *)

(* The five fields of a projection, in the order in which they are written.   *)
LEMMA StagesAre ==
    /\ Len(Projection!Stages) = 5
    /\ Projection!Stages[1] = "statuses" /\ Projection!Stages[2] = "sums"
    /\ Projection!Stages[3] = "latencies" /\ Projection!Stages[4] = "eventTime"
    /\ Projection!Stages[5] = "processedAt"
  BY DEF Projection!Stages

(* The fields passed before the n-th one                                      *)
PassedBy(n) == {Projection!Stages[i] : i \in 1..(n - 1)}

LEMMA PassedFields ==
    ASSUME NEW n \in 1..5
    PROVE  /\ PassedBy(1) = {}
           /\ PassedBy(n) \subseteq Projection!StageNames
           /\ Projection!Stages[n] \in Projection!StageNames \ PassedBy(n)
           /\ PassedBy(n + 1) = PassedBy(n) \cup {Projection!Stages[n]}
           /\ PassedBy(6) = Projection!StageNames
           /\ "processedAt" \notin PassedBy(n)
           /\ n = 5 => Projection!Counters \subseteq PassedBy(n) /\ "eventTime" \in PassedBy(n)
<1> USE StagesAre DEF PassedBy, Projection!StageNames, Projection!Counters
<1>1. PassedBy(1) = {}
  OBVIOUS
<1>2. /\ PassedBy(2) = {"statuses"}
      /\ PassedBy(3) = {"statuses", "sums"}
      /\ PassedBy(4) = {"statuses", "sums", "latencies"}
      /\ PassedBy(5) = {"statuses", "sums", "latencies", "eventTime"}
      /\ PassedBy(6) = {"statuses", "sums", "latencies", "eventTime", "processedAt"}
  <2>1. 1..1 = {1} /\ 1..2 = {1, 2} /\ 1..3 = {1, 2, 3} /\ 1..4 = {1, 2, 3, 4}
        /\ 1..5 = {1, 2, 3, 4, 5}
    OBVIOUS
  <2>2. /\ PassedBy(2) = {Projection!Stages[i] : i \in {1}}
        /\ PassedBy(3) = {Projection!Stages[i] : i \in {1, 2}}
        /\ PassedBy(4) = {Projection!Stages[i] : i \in {1, 2, 3}}
        /\ PassedBy(5) = {Projection!Stages[i] : i \in {1, 2, 3, 4}}
        /\ PassedBy(6) = {Projection!Stages[i] : i \in {1, 2, 3, 4, 5}}
    BY <2>1
  <2> QED BY <2>2
<1>3. n = 1 \/ n = 2 \/ n = 3 \/ n = 4 \/ n = 5
  OBVIOUS
<1> QED BY <1>1, <1>2, <1>3

LEMMA PassedNow ==
    ASSUME NEW c
    PROVE  Projection!Passed(c) = PassedBy(stage[c]) /\ Projection!Passed(c)' = PassedBy(stage'[c])
  BY DEF Projection!Passed, PassedBy

(* Every event has a key.                                                    *)
LEMMA KeySets ==
    ASSUME NEW e \in Events
    PROVE  Projection!KeySet(e) \subseteq EventKeys /\ Projection!KeySet(e) # {}
<1>1. KeysOf[e] \in Seq(EventKeys) /\ KeysOf[e] # <<>>
  BY InstancesAssumption DEF Projection!ConstantsAssumption
<1>2. 1 \in DOMAIN KeysOf[e] /\ \A i \in DOMAIN KeysOf[e] : KeysOf[e][i] \in EventKeys
  BY <1>1
<1> QED BY <1>2 DEF Projection!KeySet

(* What a duplicate is answered with is recorded under one of its keys.       *)
LEMMA DuplicateIsRecorded ==
    ASSUME NEW e \in Events, Projection!Recorded(e) # {}
    PROVE  \E k \in Projection!KeySet(e) :
               eventRecords[k] # None /\ Projection!FirstRecorded(e) = eventRecords[k]
<1> DEFINE R == Projection!Recorded(e)
<1>1. R \subseteq Nat
  BY InstancesAssumption DEF Projection!ConstantsAssumption, Projection!Recorded
<1>2. \E i \in R : \A j \in R : i <= j
  BY <1>1, LeastNumber
<1>3. PICK n : n = CHOOSE i \in R : \A j \in R : i <= j
  OBVIOUS
<1>4. n \in R
  BY <1>2, <1>3
<1>5. Projection!FirstRecorded(e) = eventRecords[KeysOf[e][n]]
  BY <1>3 DEF Projection!FirstRecorded
<1> QED BY <1>4, <1>5 DEF Projection!Recorded, Projection!KeySet

LEMMA NothingRecorded ==
    ASSUME NEW e \in Events, Projection!Recorded(e) = {}
    PROVE  \A k \in Projection!KeySet(e) : eventRecords[k] = None
  BY DEF Projection!Recorded, Projection!KeySet

(* The projection to copy next is one and stays the same.                     *)
LEMMA OneIsFirst ==
    ASSUME NEW slots, created \in Seq(Projections)
    PROVE  \A p, q : Projection!FirstCreated(slots, p) /\ Projection!FirstCreated(slots, q) => p = q
<1> SUFFICES ASSUME NEW p, NEW q, Projection!FirstCreated(slots, p), Projection!FirstCreated(slots, q)
             PROVE  p = q
  OBVIOUS
<1>1. PICK i \in DOMAIN created :
          created[i] = p /\ p \in slots /\ \A j \in 1..(i - 1) : created[j] \notin slots
  BY DEF Projection!FirstCreated
<1>2. PICK k \in DOMAIN created :
          created[k] = q /\ q \in slots /\ \A j \in 1..(k - 1) : created[j] \notin slots
  BY DEF Projection!FirstCreated
<1>3. i \in Nat /\ k \in Nat /\ i >= 1 /\ k >= 1
  OBVIOUS
<1>4. ~(i < k) /\ ~(k < i)
  BY <1>1, <1>2, <1>3
<1> QED BY <1>1, <1>2, <1>3, <1>4

(* Projections are created one after the other, and none goes away.           *)
CreatedGrows ==
    \/ created' = created
    \/ \E p \in Projections : ~Projection!IsCreated(p) /\ created' = Append(created, p)

LEMMA FirstStays ==
    ASSUME created \in Seq(Projections), CreatedGrows, NEW slots,
           \A p \in slots : Projection!IsCreated(p)
    PROVE  /\ created' \in Seq(Projections)
           /\ \A p : Projection!IsCreated(p) => Projection!IsCreated(p)'
           /\ \A p : Projection!FirstCreated(slots, p) <=>
                         \E i \in DOMAIN created' : created'[i] = p /\ p \in slots
                             /\ \A j \in 1..(i - 1) : created'[j] \notin slots
<1>1. CASE created' = created
  BY <1>1 DEF Projection!IsCreated, Projection!FirstCreated
<1>2. ASSUME NEW r \in Projections, ~Projection!IsCreated(r), created' = Append(created, r)
      PROVE  /\ created' \in Seq(Projections)
             /\ \A p : Projection!IsCreated(p) => Projection!IsCreated(p)'
             /\ \A p : Projection!FirstCreated(slots, p) <=>
                         \E i \in DOMAIN created' : created'[i] = p /\ p \in slots
                             /\ \A j \in 1..(i - 1) : created'[j] \notin slots
  <2>1. /\ created' \in Seq(Projections) /\ Len(created') = Len(created) + 1
        /\ \A i \in 1..Len(created) : created'[i] = created[i]
        /\ created'[Len(created) + 1] = r
        /\ DOMAIN created = 1..Len(created) /\ DOMAIN created' = 1..(Len(created) + 1)
        /\ Len(created) \in Nat
    BY <1>2
  <2>2. r \notin slots
    BY <1>2
  <2>3. \A p : Projection!IsCreated(p) => Projection!IsCreated(p)'
    BY <2>1 DEF Projection!IsCreated
  <2>4. ASSUME NEW p
        PROVE  Projection!FirstCreated(slots, p) <=>
                   \E i \in DOMAIN created' : created'[i] = p /\ p \in slots
                             /\ \A j \in 1..(i - 1) : created'[j] \notin slots
    <3>1. ASSUME Projection!FirstCreated(slots, p)
          PROVE  \E i \in DOMAIN created' : created'[i] = p /\ p \in slots
                             /\ \A j \in 1..(i - 1) : created'[j] \notin slots
      BY <2>1, <3>1 DEF Projection!FirstCreated
    <3>2. ASSUME NEW i \in DOMAIN created', created'[i] = p, p \in slots,
                 \A j \in 1..(i - 1) : created'[j] \notin slots
          PROVE  Projection!FirstCreated(slots, p)
      <4>1. i # Len(created) + 1
        BY <2>1, <2>2, <3>2
      <4>2. i \in DOMAIN created /\ \A j \in 1..(i - 1) : j \in 1..Len(created)
        BY <2>1, <4>1
      <4> QED BY <2>1, <3>2, <4>2 DEF Projection!FirstCreated
    <3> QED BY <3>1, <3>2
  <2> QED BY <2>1, <2>3, <2>4
<1> QED BY <1>1, <1>2 DEF CreatedGrows

(* As long as something is left to copy, one is the next.                     *)
LEMMA SomeIsFirst ==
    ASSUME created \in Seq(Projections), NEW slots, slots # {},
           \A p \in slots : Projection!IsCreated(p)
    PROVE  \E p \in slots : Projection!FirstCreated(slots, p)
<1> DEFINE places == {i \in DOMAIN created : created[i] \in slots}
<1>1. places \subseteq Nat /\ places # {}
  BY DEF Projection!IsCreated
<1>2. PICK i \in places : \A j \in places : i <= j
  BY <1>1, LeastNumber
<1>3. \A j \in 1..(i - 1) : created[j] \notin slots
  <2> SUFFICES ASSUME NEW j \in 1..(i - 1), created[j] \in slots PROVE FALSE
    OBVIOUS
  <2>1. j \in DOMAIN created /\ i \in Nat /\ j \in Nat /\ j < i
    BY <1>2
  <2> QED BY <1>2, <2>1
<1> QED BY <1>2, <1>3 DEF Projection!FirstCreated
LEMMA ProjectionInit == Projection!Init => Projection!IInv
<1> SUFFICES ASSUME Projection!Init PROVE Projection!IInv
  OBVIOUS
<1> USE InstancesAssumption DEF Projection!ConstantsAssumption, Projection!Init
<1>1. \A p \in Projections, s \in Projection!StageNames :
        fields[p][s] = IF s \in Projection!Counters THEN [e \in Events |-> 0] ELSE None
  BY DEF Projection!Empty, Projection!NoEvents
<1>2. Projection!TypeOK
  <2>1. \A c \in Callers : DOMAIN seen[c] = {}
    <3>1. DOMAIN <<>> = 1..0 /\ 1..0 = {}
      OBVIOUS
    <3>2. \A c \in Callers : seen[c] = <<>>
      OBVIOUS
    <3> QED BY <3>1, <3>2, Zenon
  <2>2. stage \in [Callers -> 1..Len(Projection!Stages)]
    BY StagesAre
  <2>3. \A p \in Projections, s \in Projection!StageNames :
          fields[p][s] \in IF s \in Projection!Counters THEN [Events -> Nat] ELSE Nat \cup {None}
    BY <1>1
  <2> QED BY <2>1, <2>2, <2>3 DEF Projection!TypeOK
<1>3. Projection!Shapes
  BY DEF Projection!Shapes, Projection!Empty
<1>4. \A e \in Events : ~Projection!IsRecorded(e)
  BY KeySets DEF Projection!IsRecorded
<1>5. \A e \in Events, s \in Projection!StageNames : ~Projection!Counts(e, s)
  BY <1>4 DEF Projection!Counts
<1>6. Projection!Counters \subseteq Projection!StageNames /\ "eventTime" \in Projection!StageNames
      /\ "eventTime" \notin Projection!Counters
  BY DEF Projection!StageNames, Projection!Counters
<1>7. Projection!CountersFollow /\ Projection!RecordsFollow
  BY <1>1, <1>5, <1>6 DEF Projection!CountersFollow, Projection!RecordsFollow
<1>8. Projection!TimesFollow
  BY <1>1, <1>5, <1>6 DEF Projection!TimesFollow, Projection!InTime
<1>9. ASSUME NEW c \in Callers
      PROVE  /\ Projection!CallSound(c) /\ Projection!CopiesSound(c)
             /\ Projection!EventAnswered(c) /\ Projection!QuietlyCopied(c)
  <2>1. DOMAIN seen[c] = {} /\ todo[c] = {}
    OBVIOUS
  <2> QED BY <2>1
  DEF Projection!CallSound, Projection!CopiesSound, Projection!EventAnswered,
      Projection!QuietlyCopied
<1> QED BY <1>2, <1>3, <1>7, <1>8, <1>9 DEF Projection!IInv

(* A caller that does nothing in a step                                       *)
CallerStays(d) ==
    /\ projectionPc'[d] = projectionPc[d] /\ event'[d] = event[d] /\ at'[d] = at[d]
    /\ todo'[d] = todo[d] /\ stage'[d] = stage[d] /\ seen'[d] = seen[d]

(* Records stay, whatever is added.                                          *)
RecordsGrow ==
    \A k \in EventKeys : eventRecords[k] # None => eventRecords'[k] = eventRecords[k]

LEMMA RecordedStays ==
    ASSUME RecordsGrow, NEW e \in Events, Projection!IsRecorded(e)
    PROVE  Projection!IsRecorded(e)'
<1>1. e # None
  BY InstancesAssumption DEF Projection!ConstantsAssumption
<1> QED BY <1>1, KeySets DEF RecordsGrow, Projection!IsRecorded, Projection!KeySet

LEMMA OthersGoOn ==
    ASSUME Projection!IInv, CreatedGrows, RecordsGrow, NEW d \in Callers, CallerStays(d),
           projectionLock' = d <=> projectionLock = d,
           projectionPc[d] = "apply" => UNCHANGED eventRecords,
           overlapped \subseteq overlapped' \cup (Callers \ {d}),
           d \in overlapped' \/ \A p \in Projections :
               Projection!Copying(d, p) => fields'[p] = fields[p]
    PROVE  /\ Projection!CallSound(d)' /\ Projection!CopiesSound(d)'
           /\ Projection!EventAnswered(d)' /\ Projection!QuietlyCopied(d)'
<1> USE DEF CallerStays
<1>1. /\ Projection!CallSound(d) /\ Projection!CopiesSound(d)
      /\ Projection!EventAnswered(d) /\ Projection!QuietlyCopied(d)
      /\ created \in Seq(Projections)
  BY DEF Projection!IInv, Projection!TypeOK
<1>2. \A p \in todo[d] : Projection!IsCreated(p)
  BY <1>1 DEF Projection!CallSound
<1>3. /\ created' \in Seq(Projections)
      /\ \A p : Projection!IsCreated(p) => Projection!IsCreated(p)'
      /\ \A p : Projection!FirstCreated(todo[d], p) <=>
                         \E i \in DOMAIN created' : created'[i] = p /\ p \in todo[d]
                             /\ \A j \in 1..(i - 1) : created'[j] \notin todo[d]
  <2> PICK slots : slots = todo[d]
    OBVIOUS
  <2>1. \A p \in slots : Projection!IsCreated(p)
    BY <1>2
  <2> QED BY <1>1, <2>1, FirstStays
<1>4. \A p : Projection!Copying(d, p) <=> Projection!Copying(d, p)'
  BY <1>3 DEF Projection!Copying, Projection!FirstCreated
<1>5. Projection!CallSound(d)'
  BY <1>1, <1>3 DEF Projection!CallSound, Projection!KeySet
<1>6. Projection!Passed(d)' = Projection!Passed(d)
  BY DEF Projection!Passed
<1>7. Projection!CopiesSound(d)'
  BY <1>1, <1>4, <1>6 DEF Projection!CopiesSound
<1>8. Projection!EventAnswered(d)'
  <2> SUFFICES ASSUME projectionPc[d] \in {"copy", "answered"}, event[d] # None
               PROVE  \E e \in Events : Projection!Answers(d, e)'
    BY DEF Projection!EventAnswered
  <2>1. PICK e \in Events : Projection!Answers(d, e)
    BY <1>1 DEF Projection!EventAnswered
  <2>2. Projection!IsRecorded(e)'
    BY <2>1, RecordedStays DEF Projection!Answers
  <2>3. Projection!KeySet(e)' = Projection!KeySet(e)
        /\ Projection!KeySet(event'[d]) = Projection!KeySet(event[d])
    BY DEF Projection!KeySet
  <2>4. /\ Projection!KeySet(e) \cap Projection!KeySet(event[d]) # {}
        /\ TenantOf[e] = TenantOf[event[d]]
        /\ todo[d] \cup DOMAIN seen[d] \subseteq {SlotOf[e]}
        /\ \A p \in DOMAIN seen[d] : \A s \in Projection!Counters \cap DOMAIN seen[d][p] :
               seen[d][p][s][e] > 0
    BY <2>1 DEF Projection!Answers
  <2>5. Projection!Answers(d, e)'
    BY <2>2, <2>3, <2>4 DEF Projection!Answers
  <2> QED BY <2>5
<1>9. Projection!QuietlyCopied(d)'
  <2> SUFFICES ASSUME d \notin overlapped', NEW p \in DOMAIN seen[d]
               PROVE  IF p \in todo[d]
                      THEN \A s \in DOMAIN seen[d][p] : seen[d][p][s] = fields'[p][s]
                      ELSE Projection!Consistent(seen[d][p]) /\ Projection!InTime(seen[d][p])
    BY DEF Projection!QuietlyCopied, Projection!Consistent, Projection!InTime
  <2>1. d \notin overlapped
    OBVIOUS
  <2>2. IF p \in todo[d]
        THEN \A s \in DOMAIN seen[d][p] : seen[d][p][s] = fields[p][s]
        ELSE Projection!Consistent(seen[d][p]) /\ Projection!InTime(seen[d][p])
    BY <1>1, <2>1 DEF Projection!QuietlyCopied
  <2>3. p \in todo[d] => fields'[p] = fields[p]
    BY <1>1 DEF Projection!CopiesSound
  <2> QED BY <2>2, <2>3
<1> QED BY <1>5, <1>7, <1>8, <1>9

(* As long as nothing is written, what is counted stays.                      *)
LEMMA StoreRests ==
    ASSUME Projection!IInv, UNCHANGED <<fields, eventRecords>>, CreatedGrows,
           \A d \in Callers : projectionPc[d] = "apply" =>
               projectionPc'[d] = "apply" /\ event'[d] = event[d] /\ at'[d] = at[d]
                   /\ stage'[d] = stage[d],
           \A d \in Callers : projectionPc[d] # "apply" /\ projectionPc'[d] = "apply" =>
               stage'[d] = 1
    PROVE  /\ Projection!CountersFollow' /\ Projection!RecordsFollow' /\ Projection!TimesFollow'
           /\ Projection!Shapes /\ RecordsGrow
<1>1. \A d \in Callers : projectionPc'[d] = "apply" =>
          \/ projectionPc[d] = "apply" /\ Projection!Passed(d)' = Projection!Passed(d)
             /\ event'[d] = event[d]
          \/ Projection!Passed(d)' = {}
  <2>1. \A d \in Callers : stage'[d] = 1 => Projection!Passed(d)' = {}
    BY PassedNow, PassedFields
  <2> QED BY <2>1 DEF Projection!Passed
<1>2. \A d \in Callers : projectionPc[d] = "apply" =>
          Projection!Passed(d)' = Projection!Passed(d)
  BY DEF Projection!Passed
<1>3. \A e : Projection!IsRecorded(e)' <=> Projection!IsRecorded(e)
  BY DEF Projection!IsRecorded, Projection!KeySet
<1>4. \A e, s : Projection!Counts(e, s)' <=> Projection!Counts(e, s)
  <2>1. ASSUME NEW e, NEW s
        PROVE  Projection!Counts(e, s)' <=> Projection!Counts(e, s)
    BY <1>1, <1>2, <1>3 DEF Projection!Counts
  <2> QED BY <2>1
<1>5. Projection!CountersFollow'
  BY <1>4 DEF Projection!IInv, Projection!CountersFollow
<1>6. Projection!RecordsFollow'
  <2>1. \A p : Projection!IsCreated(p) => Projection!IsCreated(p)'
    <3> PICK slots : slots = {}
      OBVIOUS
    <3>1. created \in Seq(Projections) /\ \A p \in slots : Projection!IsCreated(p)
      BY DEF Projection!IInv, Projection!TypeOK
    <3> QED BY <3>1, FirstStays
  <2> QED BY <1>3, <2>1 DEF Projection!IInv, Projection!RecordsFollow, Projection!KeySet
<1>7. Projection!TimesFollow'
  <2>1. ASSUME NEW c \in Callers, NEW p, Projection!Applying(c, p),
               "eventTime" \in Projection!Passed(c), fields[p]["eventTime"] <= at[c]
        PROVE  Projection!Applying(c, p)' /\ "eventTime" \in Projection!Passed(c)'
               /\ fields'[p]["eventTime"] <= at'[c]
    BY <1>2, <2>1 DEF Projection!Applying
  <2>2. \A p : Projection!InTime(fields[p]) => Projection!InTime(fields'[p])
    OBVIOUS
  <2>3. ASSUME NEW p \in Projections
        PROVE  \/ Projection!InTime(fields'[p])
               \/ \E c \in Callers : /\ Projection!Applying(c, p)' /\ "eventTime" \in Projection!Passed(c)'
                                     /\ fields'[p]["eventTime"] <= at'[c]
    BY <2>1, <2>2 DEF Projection!IInv, Projection!TimesFollow
  <2>4. ASSUME NEW p \in Projections, NEW e \in Events, SlotOf[e] = p,
               Projection!Counts(e, "eventTime")'
        PROVE  fields'[p]["eventTime"] # None /\ fields'[p]["eventTime"] >= OccurredAt[e]
    BY <1>4, <2>4 DEF Projection!IInv, Projection!TimesFollow
  <2> QED BY <2>3, <2>4 DEF Projection!TimesFollow, Projection!InTime
<1> QED BY <1>5, <1>6, <1>7 DEF Projection!IInv, RecordsGrow
(* A step of one caller that writes no projection                             *)
LEMMA QuietStep ==
    ASSUME Projection!IInv, NEW c \in Callers, Projection!TypeOK', UNCHANGED <<fields, eventRecords>>,
           DOMAIN seen' = Callers, CreatedGrows,
           \A d \in Callers \ {c} : CallerStays(d),
           \A d \in Callers \ {c} : projectionLock' = d <=> projectionLock = d,
           overlapped \subseteq overlapped' \cup {c},
           projectionPc[c] # "apply", projectionPc'[c] = "apply" => stage'[c] = 1,
           Projection!CallSound(c)', Projection!CopiesSound(c)',
           Projection!EventAnswered(c)', Projection!QuietlyCopied(c)'
    PROVE  Projection!IInv'
<1>1. /\ Projection!CountersFollow' /\ Projection!RecordsFollow' /\ Projection!TimesFollow'
      /\ Projection!Shapes /\ RecordsGrow
  <2>1. \A d \in Callers : projectionPc[d] = "apply" =>
               projectionPc'[d] = "apply" /\ event'[d] = event[d] /\ at'[d] = at[d]
                   /\ stage'[d] = stage[d]
    BY DEF CallerStays
  <2>2. \A d \in Callers : projectionPc[d] # "apply" /\ projectionPc'[d] = "apply" =>
               stage'[d] = 1
    BY DEF CallerStays
  <2> QED BY <2>1, <2>2, StoreRests
<1>2. Projection!Shapes'
  BY <1>1 DEF Projection!Shapes
<1>3. ASSUME NEW d \in Callers, d # c
      PROVE  /\ Projection!CallSound(d)' /\ Projection!CopiesSound(d)'
             /\ Projection!EventAnswered(d)' /\ Projection!QuietlyCopied(d)'
  <2>1. CallerStays(d) /\ (projectionLock' = d <=> projectionLock = d)
        /\ overlapped \subseteq overlapped' \cup (Callers \ {d})
        /\ (\A p \in Projections : Projection!Copying(d, p) => fields'[p] = fields[p])
    BY <1>3
  <2>2. projectionPc[d] = "apply" => UNCHANGED eventRecords
    OBVIOUS
  <2> QED BY <1>1, <2>1, <2>2, OthersGoOn
<1>4. \A d \in Callers : /\ Projection!CallSound(d)' /\ Projection!CopiesSound(d)'
                         /\ Projection!EventAnswered(d)' /\ Projection!QuietlyCopied(d)'
  BY <1>3
<1> QED BY <1>1, <1>2, <1>4 DEF Projection!IInv

(* A call begins.                                                            *)
LEMMA RecordKeeps ==
    ASSUME Projection!IInv, NEW c \in Callers, Projection!Record(c)
    PROVE  Projection!IInv'
<1> USE DEF Projection!store
<1>1. /\ Projection!TypeOK /\ Projection!Shapes
      /\ Projection!CallSound(c) /\ Projection!CopiesSound(c)
  BY DEF Projection!IInv
<1>2. PICK e \in Events, now \in Clock :
          /\ event' = [event EXCEPT ![c] = e]
          /\ at' = [at EXCEPT ![c] = Projection!ProcessedAt(e, now)]
  BY DEF Projection!Record
<1>3. /\ projectionPc[c] = "idle" /\ projectionPc' = [projectionPc EXCEPT ![c] = "enter"]
      /\ projectionCalls' = projectionCalls + 1 /\ projectionCalls < EventCalls
      /\ UNCHANGED <<fields, eventRecords, created, projectionLock, todo, stage, seen, overlapped>>
  BY DEF Projection!Record, Projection!Begins, Projection!Goto
<1>4. /\ now \in Nat /\ OccurredAt[e] \in Nat /\ EventCalls \in Nat
      /\ Projection!ProcessedAt(e, now) \in Nat
      /\ Projection!ProcessedAt(e, now) >= OccurredAt[e]
  BY InstancesAssumption DEF Projection!ConstantsAssumption, Projection!ProcessedAt
<1>5. /\ projectionPc'[c] = "enter" /\ event'[c] = e /\ at'[c] = Projection!ProcessedAt(e, now)
      /\ \A d \in Callers \ {c} : CallerStays(d)
      /\ CreatedGrows
  BY <1>1, <1>2, <1>3 DEF Projection!TypeOK, CallerStays, CreatedGrows
<1>6. Projection!TypeOK'
  <2>1. /\ event' \in [Callers -> Events \cup {None}] /\ at' \in [Callers -> Nat]
        /\ projectionPc' \in [Callers -> {"idle", "enter", "apply", "list", "copy", "answered"}]
        /\ projectionCalls' \in 0..EventCalls
    BY <1>1, <1>2, <1>3, <1>4 DEF Projection!TypeOK
  <2>2. \A d \in Callers : \A p \in DOMAIN seen'[d] :
            /\ DOMAIN seen'[d][p] \subseteq Projection!StageNames
            /\ projectionPc'[d] = "answered" => DOMAIN seen'[d][p] = Projection!StageNames
    BY <1>1, <1>2, <1>3 DEF Projection!TypeOK
  <2> QED BY <1>1, <1>3, <2>1, <2>2 DEF Projection!TypeOK
<1>7. Projection!CallSound(c)'
  <2>1. projectionLock # c /\ stage[c] = 1 /\ todo[c] = {}
    BY <1>1, <1>3 DEF Projection!CallSound
  <2> QED BY <1>3, <1>4, <1>5, <2>1 DEF Projection!CallSound
<1>8. DOMAIN seen'[c] = {} /\ todo'[c] = {}
  BY <1>1, <1>3 DEF Projection!CallSound, Projection!CopiesSound
<1>9. Projection!CopiesSound(c)' /\ Projection!EventAnswered(c)' /\ Projection!QuietlyCopied(c)'
  BY <1>5, <1>8 DEF Projection!CopiesSound, Projection!EventAnswered, Projection!QuietlyCopied
<1> QED
  BY <1>1, <1>3, <1>5, <1>6, <1>7, <1>9, QuietStep DEF Projection!Shapes

(* What a copy of some projections starts with                                *)
Starts(c, slots) ==
    /\ projectionPc' = [projectionPc EXCEPT ![c] = "copy"]
    /\ todo' = [todo EXCEPT ![c] = slots]
    /\ stage' = [stage EXCEPT ![c] = 1]
    /\ UNCHANGED <<fields, eventRecords, projectionLock, event, at, seen, created, overlapped>>
    /\ projectionCalls' \in 0..EventCalls

LEMMA CopyStarts ==
    ASSUME Projection!IInv, NEW c \in Callers, NEW slots, slots \subseteq Projections, slots # {},
           \A p \in slots : Projection!IsCreated(p), Starts(c, slots),
           projectionPc[c] \in {"idle", "enter"},
           event[c] # None => \E e \in Events :
               /\ Projection!KeySet(e) \cap Projection!KeySet(event[c]) # {}
               /\ TenantOf[e] = TenantOf[event[c]]
               /\ Projection!IsRecorded(e)
               /\ slots = {SlotOf[e]}
    PROVE  Projection!IInv'
<1> USE DEF Starts
<1>1. /\ Projection!TypeOK /\ Projection!Shapes
      /\ Projection!CallSound(c) /\ Projection!CopiesSound(c)
  BY DEF Projection!IInv
<1>2. DOMAIN seen[c] = {} /\ projectionLock # c
  BY <1>1 DEF Projection!CopiesSound, Projection!CallSound
<1>3. /\ projectionPc'[c] = "copy" /\ todo'[c] = slots /\ stage'[c] = 1
      /\ \A d \in Callers \ {c} : CallerStays(d)
      /\ CreatedGrows
  BY <1>1 DEF Projection!TypeOK, CallerStays, CreatedGrows
<1>4. Projection!TypeOK'
  <2>1. /\ projectionPc' \in [Callers -> {"idle", "enter", "apply", "list", "copy", "answered"}]
        /\ todo' \in [Callers -> SUBSET Projections]
        /\ stage' \in [Callers -> 1..Len(Projection!Stages)]
    BY <1>1, StagesAre DEF Projection!TypeOK
  <2>2. \A d \in Callers : \A p \in DOMAIN seen'[d] :
            /\ DOMAIN seen'[d][p] \subseteq Projection!StageNames
            /\ projectionPc'[d] = "answered" => DOMAIN seen'[d][p] = Projection!StageNames
    BY <1>1, <1>2 DEF Projection!TypeOK
  <2> QED BY <1>1, <2>1, <2>2 DEF Projection!TypeOK
<1>5. Projection!CallSound(c)'
  BY <1>1, <1>2, <1>3 DEF Projection!CallSound, Projection!IsCreated
<1>6. Projection!CopiesSound(c)' /\ Projection!QuietlyCopied(c)'
  BY <1>2, <1>3 DEF Projection!CopiesSound, Projection!QuietlyCopied
<1>7. Projection!EventAnswered(c)'
  <2> SUFFICES ASSUME event[c] # None
               PROVE  \E e \in Events : Projection!Answers(c, e)'
    BY DEF Projection!EventAnswered
  <2>1. PICK e \in Events :
               /\ Projection!KeySet(e) \cap Projection!KeySet(event[c]) # {}
               /\ TenantOf[e] = TenantOf[event[c]]
               /\ Projection!IsRecorded(e)
               /\ slots = {SlotOf[e]}
    OBVIOUS
  <2>2. Projection!IsRecorded(e)'
    BY <2>1 DEF Projection!IsRecorded, Projection!KeySet
  <2>3. Projection!KeySet(e)' = Projection!KeySet(e)
        /\ Projection!KeySet(event'[c]) = Projection!KeySet(event[c])
    BY DEF Projection!KeySet
  <2>4. Projection!Answers(c, e)'
    BY <1>2, <1>3, <2>1, <2>2, <2>3 DEF Projection!Answers
  <2> QED BY <2>4
<1> QED
  BY <1>1, <1>3, <1>4, <1>5, <1>6, <1>7, QuietStep DEF Projection!Shapes

LEMMA ListKeeps ==
    ASSUME Projection!IInv, NEW c \in Callers, Projection!List(c)
    PROVE  Projection!IInv'
<1> USE DEF Projection!store
<1>1. /\ Projection!TypeOK /\ Projection!Shapes /\ Projection!CallSound(c)
      /\ projectionPc[c] = "idle" /\ event[c] = None
      /\ projectionCalls' \in 0..EventCalls
      /\ UNCHANGED <<fields, eventRecords, projectionLock, event, at, seen, created, overlapped>>
  <2>1. EventCalls \in Nat
    BY InstancesAssumption DEF Projection!ConstantsAssumption
  <2> QED BY <2>1 DEF Projection!IInv, Projection!List, Projection!Begins, Projection!CallSound,
             Projection!TypeOK
<1>2. PICK t \in Tenants :
          IF Projection!TenantSlots(t) = {}
          THEN UNCHANGED <<projectionPc, todo, stage>>
          ELSE Projection!Copy(c, Projection!TenantSlots(t))
  BY DEF Projection!List
<1>3. CASE Projection!TenantSlots(t) # {}
  <2>1. Starts(c, Projection!TenantSlots(t))
    BY <1>1, <1>2, <1>3 DEF Starts, Projection!Copy, Projection!Goto
  <2>2. /\ Projection!TenantSlots(t) \subseteq Projections
        /\ \A p \in Projection!TenantSlots(t) : Projection!IsCreated(p)
    BY DEF Projection!TenantSlots, Projection!IsCreated
  <2> QED BY <1>1, <1>3, <2>1, <2>2, CopyStarts
<1>4. CASE Projection!TenantSlots(t) = {}
  <2>1. /\ \A d \in Callers : CallerStays(d)
        /\ UNCHANGED <<projectionPc, todo, stage>> /\ CreatedGrows
    BY <1>1, <1>2, <1>4 DEF CallerStays, CreatedGrows
  <2>2. Projection!TypeOK'
    BY <1>1, <2>1 DEF Projection!TypeOK
  <2>3. RecordsGrow /\ overlapped \subseteq overlapped' \cup (Callers \ {c})
    BY <1>1 DEF RecordsGrow
  <2>4. /\ Projection!CallSound(c)' /\ Projection!CopiesSound(c)'
        /\ Projection!EventAnswered(c)' /\ Projection!QuietlyCopied(c)'
    BY <1>1, <2>1, <2>3, OthersGoOn
  <2> QED BY <1>1, <2>1, <2>2, <2>4, QuietStep DEF Projection!Shapes
<1> QED BY <1>3, <1>4
LEMMA BackKeeps ==
    ASSUME Projection!IInv, NEW c \in Callers, Projection!Back(c),
           projectionPc[c] \in {"enter", "answered"},
           UNCHANGED <<fields, eventRecords, created, projectionLock, projectionCalls>>
    PROVE  Projection!IInv'
<1>1. /\ Projection!TypeOK /\ Projection!Shapes /\ Projection!CallSound(c)
  BY DEF Projection!IInv
<1>2. /\ projectionPc' = [projectionPc EXCEPT ![c] = "idle"]
      /\ event' = [event EXCEPT ![c] = None] /\ at' = [at EXCEPT ![c] = 0]
      /\ todo' = [todo EXCEPT ![c] = {}] /\ stage' = [stage EXCEPT ![c] = 1]
      /\ seen' = [seen EXCEPT ![c] = <<>>] /\ overlapped' = overlapped \ {c}
  BY DEF Projection!Back, Projection!Goto
<1>3. DOMAIN <<>> = {}
  <2>1. DOMAIN <<>> = 1..0 /\ 1..0 = {}
    OBVIOUS
  <2> QED BY <2>1, Zenon
<1>4. /\ projectionPc'[c] = "idle" /\ event'[c] = None /\ todo'[c] = {} /\ stage'[c] = 1
      /\ DOMAIN seen'[c] = {} /\ projectionLock # c
      /\ \A d \in Callers \ {c} : CallerStays(d)
      /\ CreatedGrows /\ DOMAIN seen' = Callers
  BY <1>1, <1>2, <1>3
  DEF Projection!TypeOK, Projection!Shapes, Projection!CallSound, CallerStays, CreatedGrows
<1>5. Projection!TypeOK'
  <2>1. /\ event' \in [Callers -> Events \cup {None}] /\ at' \in [Callers -> Nat]
        /\ projectionPc' \in [Callers -> {"idle", "enter", "apply", "list", "copy", "answered"}]
        /\ todo' \in [Callers -> SUBSET Projections]
        /\ stage' \in [Callers -> 1..Len(Projection!Stages)]
        /\ overlapped' \subseteq Callers
    BY <1>1, <1>2, StagesAre DEF Projection!TypeOK
  <2>2. \A d \in Callers : \A p \in DOMAIN seen'[d] :
            /\ DOMAIN seen'[d][p] \subseteq Projection!StageNames
            /\ projectionPc'[d] = "answered" => DOMAIN seen'[d][p] = Projection!StageNames
    <3>1. ASSUME NEW d \in Callers, d # c, NEW p \in DOMAIN seen[d]
          PROVE  /\ DOMAIN seen[d][p] \subseteq Projection!StageNames
                 /\ projectionPc[d] = "answered" => DOMAIN seen[d][p] = Projection!StageNames
      BY <1>1, <3>1 DEF Projection!TypeOK
    <3> QED BY <1>4, <3>1 DEF CallerStays
  <2> QED BY <1>1, <2>1, <2>2 DEF Projection!TypeOK
<1>6. Projection!CallSound(c)'
  BY <1>4 DEF Projection!CallSound
<1>7. Projection!CopiesSound(c)' /\ Projection!EventAnswered(c)' /\ Projection!QuietlyCopied(c)'
  BY <1>4 DEF Projection!CopiesSound, Projection!EventAnswered, Projection!QuietlyCopied
<1>8. overlapped \subseteq overlapped' \cup {c} /\ projectionPc[c] # "apply"
      /\ projectionPc'[c] # "apply"
  BY <1>2, <1>4
<1> QED
  BY <1>4, <1>5, <1>6, <1>7, <1>8, QuietStep

(* apply_once refuses, answers with the duplicate, or starts to apply.        *)
LEMMA EnterKeeps ==
    ASSUME Projection!IInv, NEW c \in Callers, Projection!Enter(c)
    PROVE  Projection!IInv'
<1> USE DEF Projection!store, Projection!locals
<1>1. /\ Projection!TypeOK /\ Projection!Shapes /\ Projection!CallSound(c)
      /\ Projection!CopiesSound(c) /\ Projection!RecordsFollow
  BY DEF Projection!IInv
<1>2. /\ projectionPc[c] = "enter" /\ projectionLock = None /\ UNCHANGED projectionCalls
  BY DEF Projection!Enter
<1>3. PICK e : e = event[c]
  OBVIOUS
<1>4. e \in Events /\ at[c] >= OccurredAt[e] /\ stage[c] = 1 /\ todo[c] = {} /\ DOMAIN seen[c] = {}
  BY <1>1, <1>2, <1>3 DEF Projection!CallSound, Projection!CopiesSound
<1>5. CASE Projection!Conflicts(e)
  <2>1. Projection!Back(c) /\ UNCHANGED <<fields, eventRecords, created, projectionLock>>
    BY <1>3, <1>5 DEF Projection!Enter
  <2> QED BY <1>2, <2>1, BackKeeps
<1>6. CASE ~Projection!Conflicts(e) /\ Projection!Recorded(e) # {}
  <2>1. PICK k \in Projection!KeySet(e) :
            eventRecords[k] # None /\ Projection!FirstRecorded(e) = eventRecords[k]
    BY <1>4, <1>6, DuplicateIsRecorded
  <2>2. PICK f : f = eventRecords[k]
    OBVIOUS
  <2>3. k \in EventKeys
    BY <1>4, <2>1, KeySets
  <2>4. /\ f \in Events /\ k \in Projection!KeySet(f) /\ Projection!IsRecorded(f)
    BY <1>1, <2>1, <2>2, <2>3 DEF Projection!TypeOK, Projection!RecordsFollow
  <2>5. TenantOf[f] = TenantOf[e] /\ Projection!DuplicateSlot(e) = SlotOf[f]
    BY <1>6, <2>1, <2>2 DEF Projection!Conflicts, Projection!DuplicateSlot
  <2>6. Projection!Copy(c, {SlotOf[f]})
        /\ UNCHANGED <<fields, eventRecords, created, projectionLock, event, at, seen, overlapped>>
    BY <1>3, <1>6, <2>5 DEF Projection!Enter
  <2>7. Starts(c, {SlotOf[f]})
    BY <1>1, <1>2, <2>6 DEF Starts, Projection!Copy, Projection!Goto, Projection!TypeOK
  <2>8. SlotOf[f] \in Projections
    BY <2>4, InstancesAssumption DEF Projection!ConstantsAssumption
  <2>9. Projection!IsCreated(SlotOf[f])
    BY <1>1, <2>1, <2>2, <2>3 DEF Projection!RecordsFollow
  <2>10. k \in Projection!KeySet(f) \cap Projection!KeySet(event[c])
    BY <1>3, <2>1, <2>4
  <2> QED BY <1>2, <1>3, <2>4, <2>5, <2>7, <2>8, <2>9, <2>10, CopyStarts
<1>7. CASE ~Projection!Conflicts(e) /\ Projection!Recorded(e) = {}
  <2>1. /\ projectionLock' = c /\ created' = Projection!AddIfNew(created, SlotOf[e])
        /\ projectionPc' = [projectionPc EXCEPT ![c] = "apply"]
        /\ UNCHANGED <<fields, eventRecords, event, at, todo, stage, seen, overlapped>>
    BY <1>3, <1>7 DEF Projection!Enter, Projection!Goto
  <2>2. SlotOf[e] \in Projections
    BY <1>4, InstancesAssumption DEF Projection!ConstantsAssumption
  <2>3. CreatedGrows
    BY <2>1, <2>2 DEF Projection!AddIfNew, Projection!IsCreated, CreatedGrows
  <2>4. created' \in Seq(Projections) /\ Projection!IsCreated(SlotOf[e])'
    <3>1. CASE Projection!IsCreated(SlotOf[e])
      BY <1>1, <2>1, <3>1 DEF Projection!AddIfNew, Projection!IsCreated, Projection!TypeOK
    <3>2. CASE ~Projection!IsCreated(SlotOf[e])
      <4>1. created' = Append(created, SlotOf[e]) /\ created \in Seq(Projections)
        BY <1>1, <2>1, <3>2 DEF Projection!AddIfNew, Projection!IsCreated, Projection!TypeOK
      <4>2. Len(created) + 1 \in DOMAIN created' /\ created'[Len(created) + 1] = SlotOf[e]
            /\ created' \in Seq(Projections)
        BY <2>2, <4>1
      <4> QED BY <4>2 DEF Projection!IsCreated
    <3> QED BY <3>1, <3>2
  <2>5. Projection!TypeOK'
    <3>1. /\ projectionPc' \in [Callers -> {"idle", "enter", "apply", "list", "copy", "answered"}]
          /\ projectionLock' \in Callers \cup {None}
      BY <1>1, <2>1 DEF Projection!TypeOK
    <3>2. \A d \in Callers : \A p \in DOMAIN seen'[d] :
              /\ DOMAIN seen'[d][p] \subseteq Projection!StageNames
              /\ projectionPc'[d] = "answered" => DOMAIN seen'[d][p] = Projection!StageNames
      BY <1>1, <2>1 DEF Projection!TypeOK
    <3> QED BY <1>1, <1>2, <2>1, <2>4, <3>1, <3>2 DEF Projection!TypeOK
  <2>6. /\ projectionPc'[c] = "apply" /\ stage'[c] = 1 /\ projectionPc[c] # "apply"
        /\ \A d \in Callers \ {c} : CallerStays(d)
        /\ \A d \in Callers \ {c} : projectionLock' = d <=> projectionLock = d
        /\ overlapped \subseteq overlapped' \cup {c} /\ DOMAIN seen' = Callers
    <3>1. None \notin Callers
      BY InstancesAssumption DEF Projection!ConstantsAssumption
    <3> QED BY <1>1, <1>2, <1>4, <2>1, <3>1 DEF Projection!TypeOK, Projection!Shapes, CallerStays
  <2>7. \A k \in Projection!KeySet(e) : eventRecords[k] = None
    BY <1>4, <1>7, NothingRecorded
  <2>8. Projection!CallSound(c)'
    BY <1>3, <1>4, <2>1, <2>4, <2>6, <2>7 DEF Projection!CallSound, Projection!KeySet
  <2>9. Projection!CopiesSound(c)' /\ Projection!EventAnswered(c)' /\ Projection!QuietlyCopied(c)'
    BY <1>4, <2>1, <2>6
    DEF Projection!CopiesSound, Projection!EventAnswered, Projection!QuietlyCopied
  <2> QED BY <2>1, <2>3, <2>5, <2>6, <2>8, <2>9, QuietStep
<1> QED BY <1>5, <1>6, <1>7

LEMMA ReturnKeeps ==
    ASSUME Projection!IInv, NEW c \in Callers, Projection!Return(c)
    PROVE  Projection!IInv'
  BY BackKeeps DEF Projection!Return, Projection!store
(* A projection nothing is applied to agrees with itself.                     *)
LEMMA RestingAgrees ==
    ASSUME Projection!IInv, NEW p \in Projections,
           \A d \in Callers : ~Projection!Applying(d, p)
    PROVE  /\ Projection!Consistent(fields[p]) /\ Projection!InTime(fields[p])
           /\ \A e \in Events, s \in Projection!Counters :
                  fields[p][s][e] = IF SlotOf[e] = p /\ Projection!IsRecorded(e) THEN 1 ELSE 0
<1>1. \A s : \A e \in Events : SlotOf[e] = p =>
          (Projection!Counts(e, s) <=> Projection!IsRecorded(e))
  BY DEF Projection!Applying, Projection!Counts
<1>2. \A e \in Events, s \in Projection!Counters :
          fields[p][s][e] = IF SlotOf[e] = p /\ Projection!IsRecorded(e) THEN 1 ELSE 0
  BY <1>1 DEF Projection!IInv, Projection!CountersFollow
<1>3. "statuses" \in Projection!Counters /\ Projection!Counters \subseteq Projection!StageNames
  BY DEF Projection!Counters, Projection!StageNames
<1>4. \A s \in Projection!Counters : fields[p][s] \in [Events -> Nat]
  BY <1>3 DEF Projection!IInv, Projection!TypeOK
<1>5. \A s \in Projection!Counters : fields[p][s] = fields[p]["statuses"]
  BY <1>2, <1>3, <1>4
<1>6. Projection!Consistent(fields[p])
  BY <1>2, <1>3, <1>5 DEF Projection!Consistent
<1>7. Projection!InTime(fields[p])
  BY DEF Projection!IInv, Projection!TimesFollow
<1> QED BY <1>2, <1>6, <1>7

(* One field of one projection is copied.                                     *)
LEMMA SeeKeeps ==
    ASSUME Projection!IInv, NEW c \in Callers, Projection!See(c)
    PROVE  Projection!IInv'
<1> USE DEF Projection!store
<1>1. /\ Projection!TypeOK /\ Projection!Shapes /\ Projection!CallSound(c)
      /\ Projection!CopiesSound(c) /\ Projection!EventAnswered(c) /\ Projection!QuietlyCopied(c)
  BY DEF Projection!IInv
<1>2. PICK p \in todo[c] :
        /\ Projection!Copying(c, p)
        /\ seen' = [seen EXCEPT ![c] = Projection!Kept(@, p, Projection!Kept(
                        Projection!Fields(c, p), Projection!Stages[stage[c]],
                        fields[p][Projection!Stages[stage[c]]]))]
        /\ overlapped' = overlapped \cup {d \in {c} : \E a \in Callers : Projection!Applying(a, p)}
        /\ IF ~Projection!IsLast(c)
           THEN stage' = [stage EXCEPT ![c] = @ + 1] /\ UNCHANGED <<todo, projectionPc>>
           ELSE /\ stage' = [stage EXCEPT ![c] = 1]
                /\ todo' = [todo EXCEPT ![c] = @ \ {p}]
                /\ IF todo[c] = {p} THEN Projection!Goto(c, "answered") ELSE UNCHANGED projectionPc
  BY DEF Projection!See
<1>3. UNCHANGED <<fields, eventRecords, created, projectionLock, event, at, projectionCalls>>
  BY DEF Projection!See
<1>4. PICK n : n = stage[c]
  OBVIOUS
<1>5. PICK s : s = Projection!Stages[n]
  OBVIOUS
<1>6. PICK row : row = Projection!Kept(Projection!Fields(c, p), s, fields[p][s])
  OBVIOUS
<1>7. /\ projectionPc[c] = "copy" /\ projectionLock # c /\ p \in Projections
      /\ n \in 1..5 /\ (Projection!IsLast(c) <=> n = 5)
  BY <1>1, <1>2, <1>4, StagesAre
  DEF Projection!Copying, Projection!TypeOK, Projection!IsLast, Projection!CallSound
<1>8. seen' = [seen EXCEPT ![c] = Projection!Kept(seen[c], p, row)]
  BY <1>2, <1>4, <1>5, <1>6
<1>9. /\ DOMAIN seen' = Callers
      /\ DOMAIN seen'[c] = DOMAIN seen[c] \cup {p}
      /\ seen'[c][p] = row
      /\ \A q \in DOMAIN seen[c] \ {p} : seen'[c][q] = seen[c][q]
  BY <1>1, <1>8 DEF Projection!Shapes, Projection!Kept
<1>10. DOMAIN Projection!Fields(c, p) = PassedBy(n)
  <2>1. CASE p \in DOMAIN seen[c]
    BY <1>1, <1>2, <1>4, <2>1, PassedNow DEF Projection!CopiesSound, Projection!Fields
  <2>2. CASE p \notin DOMAIN seen[c]
    <3>1. n = 1
      BY <1>1, <1>2, <1>4, <1>7, <2>2 DEF Projection!CopiesSound
    <3>2. DOMAIN <<>> = {}
      <4>1. DOMAIN <<>> = 1..0 /\ 1..0 = {}
        OBVIOUS
      <4> QED BY <4>1, Zenon
    <3>3. Projection!Fields(c, p) = <<>>
      BY <2>2 DEF Projection!Fields
    <3> QED BY <1>7, <3>1, <3>2, <3>3, PassedFields
  <2> QED BY <2>1, <2>2
<1>11. /\ s \in Projection!StageNames /\ s \notin PassedBy(n)
       /\ PassedBy(n + 1) = PassedBy(n) \cup {s}
       /\ n = 5 => PassedBy(n + 1) = Projection!StageNames
       /\ PassedBy(n + 1) \subseteq Projection!StageNames
  BY <1>5, <1>7, PassedFields
<1>12. /\ DOMAIN row = PassedBy(n + 1)
       /\ row[s] = fields[p][s]
       /\ \A t \in PassedBy(n) : p \in DOMAIN seen[c] /\ row[t] = seen[c][p][t]
  <2>1. DOMAIN row = PassedBy(n + 1) /\ row[s] = fields[p][s]
        /\ \A t \in PassedBy(n) : row[t] = Projection!Fields(c, p)[t]
    BY <1>6, <1>10, <1>11 DEF Projection!Kept
  <2>2. p \notin DOMAIN seen[c] => PassedBy(n) = {}
    <3>1. p \notin DOMAIN seen[c] => n = 1
      BY <1>1, <1>2, <1>4, <1>7 DEF Projection!CopiesSound
    <3> QED BY <1>7, <3>1, PassedFields
  <2> QED BY <2>1, <2>2 DEF Projection!Fields
<1>13. \A q \in Projections : Projection!Copying(c, q) => q = p
  BY <1>1, <1>2, OneIsFirst DEF Projection!Copying, Projection!TypeOK
<1>14. \A q \in DOMAIN seen[c] \ {p} : q \notin todo[c]
  BY <1>1, <1>13 DEF Projection!CopiesSound
<1>15. \A d \in Callers \ {c} : CallerStays(d)
  BY <1>1, <1>2, <1>3, <1>8
  DEF Projection!Shapes, Projection!TypeOK, Projection!Goto, CallerStays
<1>16. \/ /\ n # 5 /\ stage'[c] = n + 1 /\ todo'[c] = todo[c] /\ projectionPc'[c] = "copy"
       \/ /\ n = 5 /\ stage'[c] = 1 /\ todo'[c] = todo[c] \ {p}
          /\ IF todo[c] = {p} THEN projectionPc'[c] = "answered" ELSE projectionPc'[c] = "copy"
  BY <1>1, <1>2, <1>4, <1>7 DEF Projection!TypeOK, Projection!Goto
<1>17. /\ todo' \in [Callers -> SUBSET Projections]
       /\ stage' \in [Callers -> 1..Len(Projection!Stages)]
       /\ projectionPc' \in [Callers -> {"idle", "enter", "apply", "list", "copy", "answered"}]
  <2>1. /\ stage \in [Callers -> 1..5] /\ todo \in [Callers -> SUBSET Projections]
        /\ projectionPc \in [Callers -> {"idle", "enter", "apply", "list", "copy", "answered"}]
    BY <1>1, StagesAre DEF Projection!TypeOK
  <2>2. CASE n # 5
    <3>1. stage' = [stage EXCEPT ![c] = n + 1] /\ UNCHANGED <<todo, projectionPc>>
          /\ n + 1 \in 1..5
      BY <1>2, <1>4, <1>7, <2>2
    <3> QED BY <2>1, <3>1, StagesAre
  <2>3. CASE n = 5
    <3>1. stage' = [stage EXCEPT ![c] = 1] /\ todo' = [todo EXCEPT ![c] = todo[c] \ {p}]
          /\ (projectionPc' = [projectionPc EXCEPT ![c] = "answered"] \/ UNCHANGED projectionPc)
      BY <1>2, <1>7, <2>3 DEF Projection!Goto
    <3>2. stage' \in [Callers -> 1..5] /\ todo' \in [Callers -> SUBSET Projections]
      BY <2>1, <3>1
    <3> QED BY <2>1, <3>1, <3>2, StagesAre
  <2> QED BY <2>2, <2>3
<1>18. Projection!CopiesSound(c)'
  <2>1. projectionPc'[c] \in {"copy", "answered"}
    BY <1>16
  <2>2. ASSUME NEW q \in DOMAIN seen'[c]
        PROVE  /\ q \in Projections
               /\ q \in todo'[c] => Projection!Copying(c, q)' /\ stage'[c] > 1
                      /\ DOMAIN seen'[c][q] = Projection!Passed(c)'
               /\ q \notin todo'[c] => DOMAIN seen'[c][q] = Projection!StageNames
    <3>1. CASE q # p
      <4>1. q \in DOMAIN seen[c] /\ q \notin todo[c] /\ seen'[c][q] = seen[c][q]
        BY <1>9, <1>14, <2>2, <3>1
      <4>2. q \in Projections /\ DOMAIN seen[c][q] = Projection!StageNames
        BY <1>1, <4>1 DEF Projection!CopiesSound
      <4> QED BY <1>16, <4>1, <4>2
    <3>2. CASE q = p /\ n # 5
      <4>1. Projection!Copying(c, p)'
        BY <1>2, <1>3, <1>16, <3>2 DEF Projection!Copying, Projection!FirstCreated
      <4>2. stage'[c] > 1 /\ p \in todo'[c] /\ Projection!Passed(c)' = PassedBy(n + 1)
        BY <1>2, <1>7, <1>16, <3>2, PassedNow
      <4> QED BY <1>7, <1>9, <1>12, <3>2, <4>1, <4>2
    <3>3. CASE q = p /\ n = 5
      BY <1>7, <1>9, <1>11, <1>12, <1>16, <3>3
    <3> QED BY <3>1, <3>2, <3>3
  <2>3. ASSUME NEW q \in todo'[c], Projection!Copying(c, q)', stage'[c] > 1
        PROVE  q \in DOMAIN seen'[c]
    <3>1. n # 5 /\ todo'[c] = todo[c]
      BY <1>16, <2>3
    <3>2. Projection!Copying(c, q)
      BY <1>3, <1>7, <2>3, <3>1 DEF Projection!Copying, Projection!FirstCreated
    <3>3. q \in Projections
      BY <1>17, <2>3
    <3> QED BY <1>9, <1>13, <3>2, <3>3
  <2> QED BY <2>1, <2>2, <2>3 DEF Projection!CopiesSound
<1>19. Projection!CallSound(c)'
  <2>1. \A q \in todo[c] : Projection!IsCreated(q)'
    BY <1>1, <1>3 DEF Projection!CallSound, Projection!IsCreated
  <2> QED BY <1>2, <1>3, <1>7, <1>16, <2>1 DEF Projection!CallSound
<1>20. Projection!EventAnswered(c)'
  <2> SUFFICES ASSUME event[c] # None
               PROVE  \E e \in Events : Projection!Answers(c, e)'
    BY <1>3 DEF Projection!EventAnswered
  <2>1. PICK e \in Events : Projection!Answers(c, e)
    BY <1>1, <1>7 DEF Projection!EventAnswered
  <2>2. /\ Projection!KeySet(e) \cap Projection!KeySet(event[c]) # {}
        /\ TenantOf[e] = TenantOf[event[c]] /\ Projection!IsRecorded(e)
        /\ todo[c] \cup DOMAIN seen[c] \subseteq {SlotOf[e]}
        /\ \A q \in DOMAIN seen[c] : \A t \in Projection!Counters \cap DOMAIN seen[c][q] :
               seen[c][q][t][e] > 0
    BY <2>1 DEF Projection!Answers
  <2>3. Projection!IsRecorded(e)' /\ Projection!KeySet(e)' = Projection!KeySet(e)
        /\ Projection!KeySet(event'[c]) = Projection!KeySet(event[c])
    BY <1>3, <2>2 DEF Projection!IsRecorded, Projection!KeySet
  <2>4. p = SlotOf[e]
    BY <1>2, <2>2
  <2>5. \A t \in Projection!Counters : fields[p][t][e] = 1
    BY <1>7, <2>2, <2>4 DEF Projection!IInv, Projection!CountersFollow, Projection!Counts
  <2>6. ASSUME NEW q \in DOMAIN seen'[c], NEW t \in Projection!Counters \cap DOMAIN seen'[c][q]
        PROVE  seen'[c][q][t][e] > 0
    <3>1. q = p /\ t \in DOMAIN row
      BY <1>9, <2>2, <2>4, <2>6
    <3>2. CASE t = s
      BY <1>9, <1>12, <2>5, <2>6, <3>1, <3>2
    <3>3. CASE t # s
      <4>1. t \in PassedBy(n)
        BY <1>11, <1>12, <3>1, <3>3
      <4>2. p \in DOMAIN seen[c] /\ row[t] = seen[c][p][t]
        BY <1>12, <4>1
      <4>3. t \in DOMAIN seen[c][p]
        BY <1>10, <4>1, <4>2 DEF Projection!Fields
      <4> QED BY <1>9, <2>2, <2>6, <3>1, <4>2, <4>3
    <3> QED BY <3>2, <3>3
  <2>7. todo'[c] \cup DOMAIN seen'[c] \subseteq {SlotOf[e]}
    BY <1>9, <1>16, <2>2, <2>4
  <2>8. Projection!Answers(c, e)'
    BY <1>3, <2>2, <2>3, <2>6, <2>7 DEF Projection!Answers
  <2> QED BY <2>8
<1>21. Projection!QuietlyCopied(c)'
  <2> SUFFICES ASSUME c \notin overlapped', NEW q \in DOMAIN seen'[c]
               PROVE  IF q \in todo'[c]
                      THEN \A t \in DOMAIN seen'[c][q] : seen'[c][q][t] = fields'[q][t]
                      ELSE Projection!Consistent(seen'[c][q]) /\ Projection!InTime(seen'[c][q])
    BY DEF Projection!QuietlyCopied, Projection!Consistent, Projection!InTime
  <2>1. c \notin overlapped /\ \A a \in Callers : ~Projection!Applying(a, p)
    BY <1>2
  <2>2. CASE q # p
    <3>1. q \in DOMAIN seen[c] /\ q \notin todo[c] /\ q \notin todo'[c]
          /\ seen'[c][q] = seen[c][q]
      BY <1>9, <1>14, <1>16, <2>2
    <3>2. Projection!Consistent(seen[c][q]) /\ Projection!InTime(seen[c][q])
      BY <1>1, <2>1, <3>1 DEF Projection!QuietlyCopied
    <3> QED BY <3>1, <3>2
  <2>3. CASE q = p
    <3>1. \A t \in DOMAIN row : row[t] = fields[p][t]
      <4>1. ASSUME NEW t \in PassedBy(n)
            PROVE  row[t] = fields[p][t]
        <5>1. p \in DOMAIN seen[c] /\ row[t] = seen[c][p][t]
          BY <1>12
        <5>2. t \in DOMAIN seen[c][p]
          BY <1>10, <5>1 DEF Projection!Fields
        <5> QED BY <1>1, <1>2, <2>1, <5>1, <5>2 DEF Projection!QuietlyCopied
      <4> QED BY <1>11, <1>12, <4>1
    <3>2. CASE n # 5
      BY <1>2, <1>3, <1>9, <1>16, <2>3, <3>1, <3>2
    <3>3. CASE n = 5
      <4>1. p \notin todo'[c] /\ DOMAIN row = Projection!StageNames
        BY <1>11, <1>12, <1>16, <3>3
      <4>2. Projection!Consistent(fields[p]) /\ Projection!InTime(fields[p])
        BY <1>7, <2>1, RestingAgrees
      <4>3. /\ row["eventTime"] = fields[p]["eventTime"]
            /\ row["processedAt"] = fields[p]["processedAt"]
            /\ row["statuses"] = fields[p]["statuses"]
            /\ \A t \in Projection!Counters : row[t] = fields[p][t]
        BY <3>1, <4>1 DEF Projection!StageNames, Projection!Counters
      <4>4. Projection!Consistent(row) /\ Projection!InTime(row)
        BY <4>2, <4>3 DEF Projection!Consistent, Projection!InTime
      <4> QED BY <1>9, <2>3, <4>1, <4>4
    <3> QED BY <3>2, <3>3
  <2> QED BY <2>2, <2>3
<1>22. Projection!TypeOK'
  <2>1. ASSUME NEW d \in Callers, NEW q \in DOMAIN seen'[d]
        PROVE  /\ DOMAIN seen'[d][q] \subseteq Projection!StageNames
               /\ projectionPc'[d] = "answered" => DOMAIN seen'[d][q] = Projection!StageNames
    <3>1. CASE d # c
      <4>1. seen'[d] = seen[d] /\ projectionPc'[d] = projectionPc[d]
        BY <1>15, <3>1 DEF CallerStays
      <4> QED BY <1>1, <2>1, <4>1 DEF Projection!TypeOK
    <3>2. CASE d = c
      <4>1. Projection!Passed(c)' \subseteq Projection!StageNames
        <5>1. stage'[c] \in 1..5
          BY <1>17, StagesAre
        <5> QED BY <5>1, PassedNow, PassedFields
      <4>2. projectionPc'[c] = "answered" => todo'[c] = {}
        BY <1>16
      <4> QED BY <1>18, <2>1, <3>2, <4>1, <4>2 DEF Projection!CopiesSound
    <3> QED BY <3>1, <3>2
  <2>2. overlapped' \subseteq Callers
    BY <1>1, <1>2 DEF Projection!TypeOK
  <2> QED BY <1>1, <1>3, <1>17, <2>1, <2>2 DEF Projection!TypeOK
<1>23. CreatedGrows /\ overlapped \subseteq overlapped' \cup {c} /\ projectionPc[c] # "apply"
       /\ projectionPc'[c] # "apply"
       /\ \A d \in Callers \ {c} : projectionLock' = d <=> projectionLock = d
  BY <1>2, <1>3, <1>7, <1>16 DEF CreatedGrows
<1> QED BY <1>3, <1>9, <1>15, <1>18, <1>19, <1>20, <1>21, <1>22, <1>23, QuietStep
(* What the step that applies one field of an event does                      *)
Writes(c, e, p, n, s) ==
    /\ projectionPc[c] = "apply" /\ projectionLock = c
    /\ e = event[c] /\ e \in Events /\ p = SlotOf[e] /\ p \in Projections
    /\ n = stage[c] /\ n \in 1..5 /\ s = Projection!Stages[n]
    /\ fields' = [fields EXCEPT ![p][s] = Projection!Applied(c, s, @)]
    /\ overlapped' = overlapped \cup {d \in Callers : Projection!Copying(d, p)}
    /\ IF n = 5
       THEN /\ eventRecords' = [k \in EventKeys |-> IF k \in Projection!KeySet(e) THEN e
                                                    ELSE eventRecords[k]]
            /\ projectionLock' = None
            /\ projectionPc' = [projectionPc EXCEPT ![c] = "copy"]
            /\ todo' = [todo EXCEPT ![c] = {p}]
            /\ stage' = [stage EXCEPT ![c] = 1]
       ELSE /\ stage' = [stage EXCEPT ![c] = n + 1]
            /\ UNCHANGED <<eventRecords, projectionLock, todo, projectionPc>>
    /\ UNCHANGED <<created, event, at, seen, projectionCalls>>

LEMMA ApplyWrites ==
    ASSUME Projection!IInv, NEW c \in Callers, Projection!Apply(c)
    PROVE  \E e, p, n, s : Writes(c, e, p, n, s)
<1>1. projectionPc[c] = "apply" /\ projectionLock = c /\ event[c] \in Events
  BY DEF Projection!IInv, Projection!CallSound, Projection!Apply
<1>2. SlotOf[event[c]] \in Projections
  BY <1>1, InstancesAssumption DEF Projection!ConstantsAssumption
<1>3. stage[c] \in 1..5 /\ (Projection!IsLast(c) <=> stage[c] = 5)
  BY StagesAre DEF Projection!IInv, Projection!TypeOK, Projection!IsLast
<1>4. Writes(c, event[c], SlotOf[event[c]], stage[c], Projection!Stages[stage[c]])
  BY <1>1, <1>2, <1>3
  DEF Writes, Projection!Apply, Projection!Copy, Projection!Goto, Projection!RecordedKeys
<1> QED BY <1>4

(* Nothing has counted the event in the field that is written, and nobody     *)
(* else writes.                                                               *)
LEMMA WriterIsAlone ==
    ASSUME Projection!IInv, NEW c \in Callers, NEW e, NEW p, NEW n, NEW s, Writes(c, e, p, n, s)
    PROVE  /\ \A d \in Callers : projectionPc[d] = "apply" => d = c
           /\ ~Projection!IsRecorded(e)
           /\ \A k \in Projection!KeySet(e) : eventRecords[k] = None
           /\ Projection!KeySet(e) \subseteq EventKeys /\ Projection!KeySet(e) # {}
           /\ at[c] \in Nat /\ OccurredAt[e] \in Nat /\ at[c] >= OccurredAt[e]
           /\ Projection!IsCreated(p)
<1> USE DEF Writes
<1>1. \A d \in Callers : Projection!CallSound(d)
  BY DEF Projection!IInv
<1>2. \A d \in Callers : projectionPc[d] = "apply" => d = c
  BY <1>1 DEF Projection!CallSound
<1>3. /\ \A k \in Projection!KeySet(e) : eventRecords[k] = None
      /\ at[c] >= OccurredAt[e] /\ Projection!IsCreated(p)
  BY <1>1 DEF Projection!CallSound
<1>4. Projection!KeySet(e) \subseteq EventKeys /\ Projection!KeySet(e) # {}
  BY KeySets
<1>5. e # None /\ OccurredAt[e] \in Nat
  BY InstancesAssumption DEF Projection!ConstantsAssumption
<1>6. ~Projection!IsRecorded(e)
  BY <1>3, <1>4, <1>5 DEF Projection!IsRecorded
<1>7. at[c] \in Nat
  BY DEF Projection!IInv, Projection!TypeOK
<1> QED BY <1>2, <1>3, <1>4, <1>5, <1>6, <1>7

(* The records after the step                                                 *)
LEMMA WritesRecord ==
    ASSUME Projection!IInv, NEW c \in Callers, NEW e, NEW p, NEW n, NEW s, Writes(c, e, p, n, s)
    PROVE  /\ RecordsGrow
           /\ eventRecords' \in [EventKeys -> Events \cup {None}]
           /\ \A f \in Events : Projection!IsRecorded(f)' <=>
                  Projection!IsRecorded(f) \/ (n = 5 /\ f = e)
<1>1. eventRecords \in [EventKeys -> Events \cup {None}]
  BY DEF Projection!IInv, Projection!TypeOK
<1>2. /\ ~Projection!IsRecorded(e)
      /\ \A k \in Projection!KeySet(e) : eventRecords[k] = None
      /\ Projection!KeySet(e) \subseteq EventKeys /\ Projection!KeySet(e) # {}
  BY WriterIsAlone
<1>3. CASE n # 5
  <2>1. eventRecords' = eventRecords
    BY <1>3 DEF Writes
  <2> QED BY <1>1, <1>3, <2>1 DEF RecordsGrow, Projection!IsRecorded, Projection!KeySet
<1>4. CASE n = 5
  <2>1. eventRecords' = [k \in EventKeys |-> IF k \in Projection!KeySet(e) THEN e
                                             ELSE eventRecords[k]]
        /\ e \in Events
    BY <1>4 DEF Writes
  <2>2. RecordsGrow /\ eventRecords' \in [EventKeys -> Events \cup {None}]
    BY <1>1, <1>2, <2>1 DEF RecordsGrow
  <2>3. ASSUME NEW f \in Events, f # e
        PROVE  Projection!IsRecorded(f)' <=> Projection!IsRecorded(f)
    <3>1. /\ Projection!KeySet(f) \subseteq EventKeys
          /\ Projection!KeySet(f)' = Projection!KeySet(f)
      BY KeySets DEF Projection!KeySet
    <3>2. f # None
      BY InstancesAssumption DEF Projection!ConstantsAssumption
    <3>3. \A k \in Projection!KeySet(f) : eventRecords'[k] = f <=> eventRecords[k] = f
      BY <1>2, <2>1, <2>3, <3>1, <3>2
    <3> QED BY <3>1, <3>3 DEF Projection!IsRecorded
  <2>4. Projection!IsRecorded(e)'
    <3>1. Projection!KeySet(e)' = Projection!KeySet(e)
      BY DEF Projection!KeySet
    <3> QED BY <1>2, <2>1, <3>1 DEF Projection!IsRecorded
  <2> QED BY <1>2, <1>4, <2>1, <2>2, <2>3, <2>4
<1> QED BY <1>3, <1>4

(* An event counts in a field once the step that writes it is done.           *)
LEMMA WritesCount ==
    ASSUME Projection!IInv, NEW c \in Callers, NEW e, NEW p, NEW n, NEW s, Writes(c, e, p, n, s)
    PROVE  /\ ~Projection!Counts(e, s)
           /\ \A f \in Events, t \in Projection!Counters \cup {"eventTime"} :
                  Projection!Counts(f, t)' <=> Projection!Counts(f, t) \/ (f = e /\ t = s)
<1>1. /\ \A d \in Callers : projectionPc[d] = "apply" => d = c
      /\ ~Projection!IsRecorded(e)
  BY WriterIsAlone
<1>2. \A f \in Events : Projection!IsRecorded(f)' <=>
                  Projection!IsRecorded(f) \/ (n = 5 /\ f = e)
  BY WritesRecord
<1>3. projectionPc[c] = "apply" /\ e = event[c] /\ event' = event /\ n = stage[c] /\ n \in 1..5
      /\ s = Projection!Stages[n]
  BY DEF Writes
<1>4. Projection!Passed(c) = PassedBy(n)
  BY <1>3, PassedNow
<1>5. s \notin PassedBy(n) /\ PassedBy(n + 1) = PassedBy(n) \cup {s}
  BY <1>3, PassedFields
<1>6. \A f, t : Projection!Counts(f, t) <=>
          Projection!IsRecorded(f) \/ (f = e /\ t \in PassedBy(n))
  BY <1>1, <1>3, <1>4 DEF Projection!Counts
<1>7. CASE n # 5
  <2>1. stage' = [stage EXCEPT ![c] = n + 1] /\ projectionPc' = projectionPc
    BY <1>7 DEF Writes
  <2>2. stage'[c] = n + 1
    BY <2>1 DEF Projection!IInv, Projection!TypeOK
  <2>3. Projection!Passed(c)' = PassedBy(n + 1)
    BY <2>2, PassedNow
  <2>4. \A f, t : Projection!Counts(f, t)' <=>
            Projection!IsRecorded(f)' \/ (f = e /\ t \in PassedBy(n + 1))
    BY <1>1, <1>3, <2>1, <2>3 DEF Projection!Counts
  <2> QED BY <1>1, <1>2, <1>5, <1>6, <1>7, <2>4
<1>8. CASE n = 5
  <2>1. projectionPc' = [projectionPc EXCEPT ![c] = "copy"]
    BY <1>8 DEF Writes
  <2>2. \A d \in Callers : projectionPc'[d] # "apply"
    BY <1>1, <2>1 DEF Projection!IInv, Projection!TypeOK
  <2>3. \A f, t : Projection!Counts(f, t)' <=> Projection!IsRecorded(f)'
    BY <2>2 DEF Projection!Counts
  <2>4. Projection!Counters \cup {"eventTime"} \subseteq PassedBy(n)
    BY <1>3, <1>8, PassedFields
  <2>5. s \notin Projection!Counters \cup {"eventTime"}
    BY <1>5, <2>4
  <2> QED BY <1>1, <1>2, <1>5, <1>6, <1>8, <2>3, <2>4, <2>5
<1> QED BY <1>7, <1>8

(* The fields after the step                                                  *)
LEMMA WritesFields ==
    ASSUME Projection!IInv, NEW c \in Callers, NEW e, NEW p, NEW n, NEW s, Writes(c, e, p, n, s)
    PROVE  /\ DOMAIN fields' = Projections
           /\ \A q \in Projections : DOMAIN fields'[q] = Projection!StageNames
           /\ \A q \in Projections \ {p} : fields'[q] = fields[q]
           /\ \A t \in Projection!StageNames \ {s} : fields'[p][t] = fields[p][t]
           /\ fields'[p][s] = Projection!Applied(c, s, fields[p][s])
           /\ fields'[p][s] \in IF s \in Projection!Counters THEN [Events -> Nat]
                                ELSE Nat \cup {None}
<1>0. /\ e = event[c] /\ e \in Events /\ p \in Projections /\ n \in 1..5 /\ s = Projection!Stages[n]
      /\ fields' = [fields EXCEPT ![p][s] = Projection!Applied(c, s, @)]
  BY DEF Writes
<1>1. DOMAIN fields = Projections /\ \A q \in Projections : DOMAIN fields[q] = Projection!StageNames
  BY DEF Projection!IInv, Projection!Shapes
<1>2. s \in Projection!StageNames
  BY <1>0, PassedFields
<1>3. /\ DOMAIN fields' = Projections
      /\ \A q \in Projections : DOMAIN fields'[q] = Projection!StageNames
      /\ \A q \in Projections \ {p} : fields'[q] = fields[q]
      /\ \A t \in Projection!StageNames \ {s} : fields'[p][t] = fields[p][t]
      /\ fields'[p][s] = Projection!Applied(c, s, fields[p][s])
  BY <1>0, <1>1, <1>2
<1>4. fields[p][s] \in IF s \in Projection!Counters THEN [Events -> Nat] ELSE Nat \cup {None}
  BY <1>0, <1>2 DEF Projection!IInv, Projection!TypeOK
<1>5. at[c] \in Nat /\ OccurredAt[e] \in Nat
  BY WriterIsAlone
<1>6. CASE s \in Projection!Counters
  <2>1. Projection!Applied(c, s, fields[p][s]) = [fields[p][s] EXCEPT ![e] = @ + 1]
    BY <1>0, <1>6 DEF Projection!Applied, Projection!Count, Projection!Counters
  <2>2. fields[p][s] \in [Events -> Nat]
    BY <1>4, <1>6
  <2>3. [fields[p][s] EXCEPT ![e] = @ + 1] \in [Events -> Nat]
    BY <1>0, <2>2
  <2> QED BY <1>3, <1>6, <2>1, <2>3
<1>7. CASE s \notin Projection!Counters
  <2>1. s = "eventTime" \/ s = "processedAt"
    BY <1>2, <1>7 DEF Projection!StageNames
  <2>2. Projection!Applied(c, s, fields[p][s]) \in Nat
    BY <1>0, <1>4, <1>5, <1>7, <2>1 DEF Projection!Applied, Projection!LaterOf, Projection!Counters
  <2> QED BY <1>3, <1>7, <2>2
<1> QED BY <1>3, <1>6, <1>7
LEMMA ApplyCounts ==
    ASSUME Projection!IInv, NEW c \in Callers, NEW e, NEW p, NEW n, NEW s, Writes(c, e, p, n, s)
    PROVE  Projection!CountersFollow' /\ Projection!RecordsFollow'
<1>0. /\ e \in Events /\ p = SlotOf[e] /\ p \in Projections /\ e = event[c] /\ created' = created
      /\ n = 5 => eventRecords' = [k \in EventKeys |-> IF k \in Projection!KeySet(e) THEN e
                                                       ELSE eventRecords[k]]
      /\ n # 5 => eventRecords' = eventRecords
  BY DEF Writes
<1>1. /\ \A q \in Projections \ {p} : fields'[q] = fields[q]
      /\ \A t \in Projection!StageNames \ {s} : fields'[p][t] = fields[p][t]
      /\ fields'[p][s] = Projection!Applied(c, s, fields[p][s])
  BY WritesFields
<1>2. /\ ~Projection!Counts(e, s)
      /\ \A f \in Events, t \in Projection!Counters :
             Projection!Counts(f, t)' <=> Projection!Counts(f, t) \/ (f = e /\ t = s)
  BY WritesCount
<1>3. ASSUME NEW q \in Projections, NEW t \in Projection!Counters, NEW f \in Events
      PROVE  fields'[q][t][f] = IF SlotOf[f] = q /\ Projection!Counts(f, t)' THEN 1 ELSE 0
  <2>1. fields[q][t][f] = IF SlotOf[f] = q /\ Projection!Counts(f, t) THEN 1 ELSE 0
    BY DEF Projection!IInv, Projection!CountersFollow
  <2>2. t \in Projection!StageNames
    BY DEF Projection!StageNames
  <2>3. CASE q # p \/ t # s
    <3>1. fields'[q][t] = fields[q][t]
      BY <1>1, <2>2, <2>3
    <3> QED BY <1>0, <1>2, <2>1, <2>3, <3>1
  <2>4. CASE q = p /\ t = s
    <3>1. fields'[p][s] = [fields[p][s] EXCEPT ![e] = @ + 1]
      BY <1>0, <1>1, <2>4 DEF Projection!Applied, Projection!Count, Projection!Counters
    <3>2. fields[p][s] \in [Events -> Nat]
      BY <2>2, <2>4 DEF Projection!IInv, Projection!TypeOK
    <3>3. CASE f = e
      BY <1>0, <1>2, <2>1, <2>4, <3>1, <3>2, <3>3
    <3>4. CASE f # e
      BY <1>2, <2>1, <2>4, <3>1, <3>2, <3>4
    <3> QED BY <3>3, <3>4
  <2> QED BY <2>3, <2>4
<1>4. Projection!CountersFollow'
  BY <1>3 DEF Projection!CountersFollow
<1>5. ASSUME NEW k \in EventKeys, NEW g, g = eventRecords'[k], g # None
      PROVE  /\ k \in Projection!KeySet(g) /\ Projection!IsRecorded(g)'
             /\ Projection!IsCreated(SlotOf[g])'
  <2>1. /\ ~Projection!IsRecorded(e) /\ Projection!IsCreated(p)
        /\ Projection!KeySet(e) \subseteq EventKeys
    BY WriterIsAlone
  <2>2. RecordsGrow /\ \A f \in Events : Projection!IsRecorded(f)' <=>
                  Projection!IsRecorded(f) \/ (n = 5 /\ f = e)
    BY WritesRecord
  <2>3. CASE n = 5 /\ k \in Projection!KeySet(e)
    <3>1. g = e
      BY <1>0, <1>5, <2>3
    <3>2. Projection!IsRecorded(e)' /\ Projection!IsCreated(p)'
      BY <1>0, <2>1, <2>2, <2>3 DEF Projection!IsCreated
    <3> QED BY <1>0, <2>3, <3>1, <3>2
  <2>4. CASE ~(n = 5 /\ k \in Projection!KeySet(e))
    <3>1. g = eventRecords[k]
      BY <1>0, <1>5, <2>4
    <3>3. /\ g \in Events /\ k \in Projection!KeySet(g) /\ Projection!IsRecorded(g)
          /\ Projection!IsCreated(SlotOf[g])
      BY <1>5, <3>1 DEF Projection!IInv, Projection!TypeOK, Projection!RecordsFollow
    <3>4. Projection!IsRecorded(g)' /\ Projection!IsCreated(SlotOf[g])'
      BY <1>0, <2>2, <3>3 DEF Projection!IsCreated
    <3> QED BY <3>3, <3>4
  <2> QED BY <2>3, <2>4
<1>6. Projection!RecordsFollow'
  BY <1>5 DEF Projection!RecordsFollow, Projection!IsRecorded, Projection!IsCreated,
          Projection!KeySet
<1> QED BY <1>4, <1>6

LEMMA ApplyTimes ==
    ASSUME Projection!IInv, NEW c \in Callers, NEW e, NEW p, NEW n, NEW s, Writes(c, e, p, n, s)
    PROVE  Projection!TimesFollow'
<1>0. /\ e \in Events /\ p = SlotOf[e] /\ p \in Projections /\ e = event[c] /\ n \in 1..5
      /\ n = stage[c] /\ s = Projection!Stages[n] /\ projectionPc[c] = "apply"
      /\ event' = event /\ at' = at
      /\ n # 5 => stage' = [stage EXCEPT ![c] = n + 1] /\ projectionPc' = projectionPc
  BY DEF Writes
<1>1. /\ \A q \in Projections \ {p} : fields'[q] = fields[q]
      /\ \A t \in Projection!StageNames \ {s} : fields'[p][t] = fields[p][t]
      /\ fields'[p][s] = Projection!Applied(c, s, fields[p][s])
  BY WritesFields
<1>2. \A f \in Events : Projection!Counts(f, "eventTime")' <=>
          Projection!Counts(f, "eventTime") \/ (f = e /\ s = "eventTime")
  BY WritesCount
<1>3. /\ \A d \in Callers : projectionPc[d] = "apply" => d = c
      /\ at[c] \in Nat /\ OccurredAt[e] \in Nat /\ at[c] >= OccurredAt[e]
  BY WriterIsAlone
<1>4. /\ "eventTime" \in Projection!StageNames \ Projection!Counters
      /\ "processedAt" \in Projection!StageNames \ Projection!Counters
  BY DEF Projection!StageNames, Projection!Counters
<1>5. \A q \in Projections : /\ fields[q]["eventTime"] \in Nat \cup {None}
                             /\ fields[q]["processedAt"] \in Nat \cup {None}
  BY <1>4 DEF Projection!IInv, Projection!TypeOK
<1>6. \A f \in Events : OccurredAt[f] \in Nat
  BY InstancesAssumption DEF Projection!ConstantsAssumption
<1>7. None \notin Nat
  BY InstancesAssumption DEF Projection!ConstantsAssumption
<1>8. \A q \in Projections \ {p} : Projection!InTime(fields[q])
  BY <1>0, <1>3 DEF Projection!IInv, Projection!TimesFollow, Projection!Applying
<1>9. Projection!InTime(fields[p]) \/ ("eventTime" \in PassedBy(n) /\ fields[p]["eventTime"] <= at[c])
  BY <1>0, <1>3, PassedNow DEF Projection!IInv, Projection!TimesFollow, Projection!Applying
<1>10. \A f \in Events : Projection!Counts(f, "eventTime") =>
          fields[SlotOf[f]]["eventTime"] # None /\ fields[SlotOf[f]]["eventTime"] >= OccurredAt[f]
  <2>1. \A f \in Events : SlotOf[f] \in Projections
    BY InstancesAssumption DEF Projection!ConstantsAssumption
  <2> QED BY <2>1 DEF Projection!IInv, Projection!TimesFollow
<1>11. fields'[p]["eventTime"] = IF s = "eventTime"
                                 THEN Projection!LaterOf(fields[p]["eventTime"], OccurredAt[e])
                                 ELSE fields[p]["eventTime"]
  BY <1>0, <1>1, <1>4 DEF Projection!Applied
<1>12. fields'[p]["processedAt"] = IF s = "processedAt"
                                   THEN Projection!LaterOf(fields[p]["processedAt"], at[c])
                                   ELSE fields[p]["processedAt"]
  BY <1>1, <1>4 DEF Projection!Applied
<1>13. ASSUME NEW q \in Projections, NEW f \in Events, SlotOf[f] = q,
              Projection!Counts(f, "eventTime")'
       PROVE  fields'[q]["eventTime"] # None /\ fields'[q]["eventTime"] >= OccurredAt[f]
  <2>1. CASE q # p
    BY <1>0, <1>1, <1>2, <1>10, <1>13, <2>1
  <2>2. CASE q = p
    <3>1. CASE Projection!Counts(f, "eventTime")
      <4>1. fields[p]["eventTime"] \in Nat /\ fields[p]["eventTime"] >= OccurredAt[f]
        BY <1>5, <1>10, <1>13, <2>2, <3>1
      <4> QED BY <1>3, <1>6, <1>7, <1>11, <2>2, <4>1 DEF Projection!LaterOf
    <3>2. CASE f = e /\ s = "eventTime"
      BY <1>3, <1>5, <1>7, <1>11, <2>2, <3>2 DEF Projection!LaterOf
    <3> QED BY <1>2, <1>13, <3>1, <3>2
  <2> QED BY <2>1, <2>2
<1>14. ASSUME NEW q \in Projections
       PROVE  \/ Projection!InTime(fields'[q])
              \/ \E d \in Callers : /\ Projection!Applying(d, q)'
                                    /\ "eventTime" \in Projection!Passed(d)'
                                    /\ fields'[q]["eventTime"] <= at'[d]
  <2>1. CASE q # p
    BY <1>1, <1>8, <2>1
  <2>2. CASE q = p /\ s = "processedAt"
    <3>1. fields'[p]["eventTime"] = fields[p]["eventTime"]
      BY <1>11, <2>2
    <3>2. CASE fields[p]["eventTime"] = None
      BY <2>2, <3>1, <3>2 DEF Projection!InTime
    <3>3. CASE fields[p]["eventTime"] # None
      BY <1>3, <1>5, <1>7, <1>9, <1>12, <2>2, <3>1, <3>3
      DEF Projection!InTime, Projection!LaterOf
    <3> QED BY <3>2, <3>3
  <2>3. CASE q = p /\ s # "processedAt"
    <3>1. n # 5 /\ PassedBy(n + 1) = PassedBy(n) \cup {s} /\ s \notin PassedBy(n)
      BY <1>0, <2>3, StagesAre, PassedFields
    <3>2. /\ stage'[c] = n + 1 /\ projectionPc'[c] = "apply" /\ event'[c] = e /\ at'[c] = at[c]
      BY <1>0, <3>1 DEF Projection!IInv, Projection!TypeOK
    <3>3. Projection!Applying(c, p)' /\ Projection!Passed(c)' = PassedBy(n + 1)
      BY <1>0, <3>2, PassedNow DEF Projection!Applying
    <3>4. fields'[p]["processedAt"] = fields[p]["processedAt"]
      BY <1>12, <2>3
    <3>5. CASE fields'[p]["eventTime"] = fields[p]["eventTime"]
      <4>1. CASE Projection!InTime(fields[p])
        BY <2>3, <3>4, <3>5, <4>1 DEF Projection!InTime
      <4>2. CASE "eventTime" \in PassedBy(n) /\ fields[p]["eventTime"] <= at[c]
        BY <2>3, <3>1, <3>2, <3>3, <3>5, <4>2
      <4> QED BY <1>9, <4>1, <4>2
    <3>6. CASE fields'[p]["eventTime"] # fields[p]["eventTime"]
      <4>1. s = "eventTime" /\ fields'[p]["eventTime"] = OccurredAt[e]
        BY <1>11, <3>6 DEF Projection!LaterOf
      <4> QED BY <1>3, <2>3, <3>1, <3>2, <3>3, <4>1
    <3> QED BY <3>5, <3>6
  <2> QED BY <2>1, <2>2, <2>3
<1> QED BY <1>13, <1>14 DEF Projection!TimesFollow, Projection!InTime

LEMMA ApplyTypes ==
    ASSUME Projection!IInv, NEW c \in Callers, NEW e, NEW p, NEW n, NEW s, Writes(c, e, p, n, s)
    PROVE  Projection!TypeOK' /\ Projection!Shapes'
<1>0. Projection!TypeOK /\ Projection!Shapes /\ Projection!CopiesSound(c)
  BY DEF Projection!IInv
<1>1. /\ n \in 1..5 /\ p \in Projections /\ projectionPc[c] = "apply"
      /\ overlapped' = overlapped \cup {d \in Callers : Projection!Copying(d, p)}
      /\ n = 5 => /\ projectionLock' = None
                  /\ projectionPc' = [projectionPc EXCEPT ![c] = "copy"]
                  /\ todo' = [todo EXCEPT ![c] = {p}]
                  /\ stage' = [stage EXCEPT ![c] = 1]
      /\ n # 5 => /\ stage' = [stage EXCEPT ![c] = n + 1]
                  /\ UNCHANGED <<projectionLock, todo, projectionPc>>
      /\ UNCHANGED <<created, event, at, seen, projectionCalls>>
  BY DEF Writes
<1>2. /\ eventRecords' \in [EventKeys -> Events \cup {None}]
  BY WritesRecord
<1>3. \A q \in Projections, t \in Projection!StageNames :
          fields'[q][t] \in IF t \in Projection!Counters THEN [Events -> Nat] ELSE Nat \cup {None}
  <2>1. \A q \in Projections, t \in Projection!StageNames :
          fields[q][t] \in IF t \in Projection!Counters THEN [Events -> Nat] ELSE Nat \cup {None}
    BY <1>0 DEF Projection!TypeOK
  <2>2. /\ \A q \in Projections \ {p} : fields'[q] = fields[q]
        /\ \A t \in Projection!StageNames \ {s} : fields'[p][t] = fields[p][t]
        /\ fields'[p][s] \in IF s \in Projection!Counters THEN [Events -> Nat]
                             ELSE Nat \cup {None}
    BY WritesFields
  <2>3. ASSUME NEW q \in Projections, NEW t \in Projection!StageNames
        PROVE  fields'[q][t] \in IF t \in Projection!Counters THEN [Events -> Nat]
                                 ELSE Nat \cup {None}
    <3>1. CASE q # p \/ t # s
      <4>1. fields'[q][t] = fields[q][t]
        BY <2>2, <3>1
      <4> QED BY <2>1, <4>1
    <3>2. CASE q = p /\ t = s
      BY <2>2, <3>2
    <3> QED BY <3>1, <3>2
  <2> QED BY <2>3
<1>4. /\ projectionPc' \in [Callers -> {"idle", "enter", "apply", "list", "copy", "answered"}]
      /\ projectionLock' \in Callers \cup {None}
      /\ overlapped' \subseteq Callers
  BY <1>0, <1>1 DEF Projection!TypeOK
<1>5. /\ todo' \in [Callers -> SUBSET Projections]
      /\ stage' \in [Callers -> 1..Len(Projection!Stages)]
  <2>1. todo \in [Callers -> SUBSET Projections] /\ stage \in [Callers -> 1..5]
    BY <1>0, StagesAre DEF Projection!TypeOK
  <2>2. n # 5 => n + 1 \in 1..5
    BY <1>1
  <2> QED BY <1>1, <2>1, <2>2, StagesAre
<1>6. \A d \in Callers : \A q \in DOMAIN seen'[d] :
        /\ DOMAIN seen'[d][q] \subseteq Projection!StageNames
        /\ projectionPc'[d] = "answered" => DOMAIN seen'[d][q] = Projection!StageNames
  <2>1. \A d \in Callers : projectionPc'[d] = "answered" => projectionPc[d] = "answered"
    BY <1>0, <1>1 DEF Projection!TypeOK
  <2> QED BY <1>0, <1>1, <2>1 DEF Projection!TypeOK
<1>7. Projection!TypeOK'
  BY <1>0, <1>1, <1>2, <1>3, <1>4, <1>5, <1>6 DEF Projection!TypeOK
<1>8. Projection!Shapes'
  BY <1>0, <1>1, WritesFields DEF Projection!Shapes
<1> QED BY <1>7, <1>8

LEMMA ApplyKeeps ==
    ASSUME Projection!IInv, NEW c \in Callers, Projection!Apply(c)
    PROVE  Projection!IInv'
<1>1. PICK e, p, n, s : Writes(c, e, p, n, s)
  BY ApplyWrites
<1>2. /\ e \in Events /\ p = SlotOf[e] /\ p \in Projections /\ e = event[c] /\ n \in 1..5
      /\ n = stage[c] /\ projectionPc[c] = "apply" /\ projectionLock = c
      /\ overlapped' = overlapped \cup {d \in Callers : Projection!Copying(d, p)}
      /\ n = 5 => /\ projectionLock' = None
                  /\ projectionPc' = [projectionPc EXCEPT ![c] = "copy"]
                  /\ todo' = [todo EXCEPT ![c] = {p}]
                  /\ stage' = [stage EXCEPT ![c] = 1]
      /\ n # 5 => /\ stage' = [stage EXCEPT ![c] = n + 1]
                  /\ UNCHANGED <<eventRecords, projectionLock, todo, projectionPc>>
      /\ UNCHANGED <<created, event, at, seen, projectionCalls>>
  BY <1>1 DEF Writes
<1>3. Projection!TypeOK' /\ Projection!Shapes'
  BY <1>1, ApplyTypes
<1>4. Projection!CountersFollow' /\ Projection!RecordsFollow' /\ Projection!TimesFollow'
  BY <1>1, ApplyCounts, ApplyTimes
<1>5. /\ \A d \in Callers : projectionPc[d] = "apply" => d = c
      /\ \A k \in Projection!KeySet(e) : eventRecords[k] = None
      /\ Projection!KeySet(e) # {}
      /\ at[c] >= OccurredAt[e] /\ Projection!IsCreated(p)
  BY <1>1, WriterIsAlone
<1>6. RecordsGrow /\ (n = 5 => Projection!IsRecorded(e)')
  BY <1>1, <1>2, WritesRecord
<1>7. CreatedGrows
  BY <1>2 DEF CreatedGrows
<1>8. None \notin Callers
  BY InstancesAssumption DEF Projection!ConstantsAssumption
<1>9. Projection!TypeOK
  BY DEF Projection!IInv
<1>10. ASSUME NEW d \in Callers, d # c
       PROVE  /\ Projection!CallSound(d)' /\ Projection!CopiesSound(d)'
              /\ Projection!EventAnswered(d)' /\ Projection!QuietlyCopied(d)'
  <2>1. CallerStays(d)
    BY <1>2, <1>9, <1>10 DEF Projection!TypeOK, CallerStays
  <2>2. projectionLock' = d <=> projectionLock = d
    BY <1>2, <1>8, <1>10
  <2>3. projectionPc[d] = "apply" => UNCHANGED eventRecords
    BY <1>5, <1>10
  <2>4. overlapped \subseteq overlapped' \cup (Callers \ {d})
    BY <1>2
  <2>5. d \in overlapped' \/ \A q \in Projections : Projection!Copying(d, q) => fields'[q] = fields[q]
    BY <1>1, <1>2, WritesFields
  <2> QED BY <1>6, <1>7, <2>1, <2>2, <2>3, <2>4, <2>5, OthersGoOn
<1>11. Projection!CopiesSound(c) /\ Projection!CallSound(c)
  BY DEF Projection!IInv
<1>12. DOMAIN seen'[c] = {} /\ event'[c] = e /\ at'[c] = at[c]
  BY <1>2, <1>11 DEF Projection!CopiesSound
<1>13. Projection!IsCreated(p)'
  BY <1>2, <1>5 DEF Projection!IsCreated
<1>14. Projection!KeySet(e)' = Projection!KeySet(e)
  BY DEF Projection!KeySet
<1>15. /\ Projection!CallSound(c)' /\ Projection!CopiesSound(c)'
       /\ Projection!EventAnswered(c)' /\ Projection!QuietlyCopied(c)'
  <2>1. CASE n # 5
    <3>1. /\ projectionPc'[c] = "apply" /\ projectionLock' = c /\ todo'[c] = todo[c]
          /\ eventRecords' = eventRecords
      BY <1>2, <2>1
    <3>2. todo[c] = {}
      BY <1>2, <1>11 DEF Projection!CallSound
    <3>3. Projection!CallSound(c)'
      BY <1>2, <1>5, <1>12, <1>13, <1>14, <3>1, <3>2 DEF Projection!CallSound
    <3> QED BY <1>12, <3>1, <3>2, <3>3
        DEF Projection!CopiesSound, Projection!EventAnswered, Projection!QuietlyCopied
  <2>2. CASE n = 5
    <3>1. /\ projectionPc'[c] = "copy" /\ projectionLock' # c /\ todo'[c] = {p} /\ stage'[c] = 1
      BY <1>2, <1>8, <1>9, <2>2 DEF Projection!TypeOK
    <3>2. Projection!CallSound(c)'
      BY <1>13, <3>1 DEF Projection!CallSound
    <3>3. Projection!CopiesSound(c)' /\ Projection!QuietlyCopied(c)'
      BY <1>12, <3>1 DEF Projection!CopiesSound, Projection!QuietlyCopied
    <3>4. Projection!Answers(c, e)'
      BY <1>2, <1>5, <1>6, <1>12, <1>14, <2>2, <3>1 DEF Projection!Answers
    <3>5. Projection!EventAnswered(c)'
      BY <1>2, <3>4 DEF Projection!EventAnswered
    <3> QED BY <3>2, <3>3, <3>5
  <2> QED BY <2>1, <2>2
<1> QED BY <1>3, <1>4, <1>10, <1>15 DEF Projection!IInv

LEMMA ProjectionsRest ==
    ASSUME Projection!IInv, UNCHANGED projectionVars
    PROVE  Projection!IInv'
<1>1. UNCHANGED <<fields, eventRecords, projectionLock, projectionPc, event, at, todo, stage, seen,
                  created, overlapped, projectionCalls>>
  BY DEF projectionVars
<1>2. CreatedGrows /\ RecordsGrow
  BY <1>1 DEF CreatedGrows, RecordsGrow
<1>3. \A d \in Callers : CallerStays(d)
  BY <1>1 DEF CallerStays
<1>4. Projection!TypeOK' /\ Projection!Shapes'
  BY <1>1 DEF Projection!IInv, Projection!TypeOK, Projection!Shapes
<1>5. Projection!CountersFollow' /\ Projection!RecordsFollow' /\ Projection!TimesFollow'
  BY <1>1, <1>2, StoreRests
<1>6. ASSUME NEW d \in Callers
      PROVE  /\ Projection!CallSound(d)' /\ Projection!CopiesSound(d)'
             /\ Projection!EventAnswered(d)' /\ Projection!QuietlyCopied(d)'
  <2>1. overlapped \subseteq overlapped' \cup (Callers \ {d})
    BY <1>1
  <2> QED BY <1>1, <1>2, <1>3, <2>1, OthersGoOn
<1> QED BY <1>4, <1>5, <1>6 DEF Projection!IInv

LEMMA EventsAgree ==
    ASSUME Projection!IInv
    PROVE  EventsCounted
<1>1. Projection!TypeOK
  BY DEF Projection!IInv
<1>2. \A c \in Callers : /\ Projection!CallSound(c) /\ Projection!CopiesSound(c)
                         /\ Projection!EventAnswered(c) /\ Projection!QuietlyCopied(c)
  BY DEF Projection!IInv
<1>3. ASSUME projectionLock = None
      PROVE  /\ \A p \in Projections :
                 /\ Projection!Consistent(fields[p]) /\ Projection!InTime(fields[p])
                 /\ \A e \in Projection!Counted(p) : SlotOf[e] = p /\ Projection!IsRecorded(e)
  <2>1. \A d \in Callers : projectionPc[d] # "apply"
    <3>1. None \notin Callers
      BY InstancesAssumption DEF Projection!ConstantsAssumption
    <3> QED BY <1>2, <1>3, <3>1 DEF Projection!CallSound
  <2>2. ASSUME NEW p \in Projections
        PROVE  /\ Projection!Consistent(fields[p]) /\ Projection!InTime(fields[p])
               /\ \A e \in Projection!Counted(p) : SlotOf[e] = p /\ Projection!IsRecorded(e)
    <3>1. \A d \in Callers : ~Projection!Applying(d, p)
      BY <2>1 DEF Projection!Applying
    <3>2. "statuses" \in Projection!Counters
      BY DEF Projection!Counters
    <3> QED BY <3>1, <3>2, RestingAgrees DEF Projection!Counted
  <2> QED BY <2>2
<1>4. Projection!CountedOnce
  <2>1. ASSUME projectionLock = None, NEW p \in Projections, NEW q \in Projections,
               NEW e \in Projection!Counted(p), NEW f \in Projection!Counted(q), e # f
        PROVE  Projection!KeySet(e) \cap Projection!KeySet(f) = {}
    <3>1. Projection!IsRecorded(e) /\ Projection!IsRecorded(f)
      BY <1>3, <2>1
    <3> QED BY <2>1, <3>1 DEF Projection!IsRecorded
  <2> QED BY <1>3, <2>1 DEF Projection!CountedOnce
<1>5. Projection!ProcessedAfterEvents
  <2>1. ASSUME projectionLock = None, NEW p \in Projections, NEW e \in Projection!Counted(p)
        PROVE  /\ fields[p]["eventTime"] >= OccurredAt[e]
               /\ fields[p]["processedAt"] >= fields[p]["eventTime"]
    <3>1. e \in Events /\ SlotOf[e] = p /\ Projection!IsRecorded(e) /\ Projection!InTime(fields[p])
      BY <1>3, <2>1 DEF Projection!Counted
    <3>2. fields[p]["eventTime"] # None /\ fields[p]["eventTime"] >= OccurredAt[e]
      BY <3>1 DEF Projection!IInv, Projection!TimesFollow, Projection!Counts
    <3> QED BY <3>1, <3>2 DEF Projection!InTime
  <2> QED BY <2>1 DEF Projection!ProcessedAfterEvents
<1>6. Projection!AnswersCountEvent /\ Projection!AnswersOwnTenant
  <2>1. ASSUME NEW c \in Callers, Projection!Answered(c), event[c] # None, NEW p \in DOMAIN seen[c]
        PROVE  \E e \in Events :
                   /\ Projection!KeySet(e) \cap Projection!KeySet(event[c]) # {}
                   /\ SlotOf[e] = p /\ TenantOf[e] = TenantOf[event[c]]
                   /\ \A s \in Projection!Counters : seen[c][p][s][e] > 0
    <3>1. PICK e \in Events : Projection!Answers(c, e)
      BY <1>2, <2>1 DEF Projection!EventAnswered, Projection!Answered
    <3>2. p \notin todo[c]
      BY <1>2, <2>1 DEF Projection!CallSound, Projection!Answered
    <3>3. Projection!Counters \subseteq DOMAIN seen[c][p]
      BY <1>2, <2>1, <3>2 DEF Projection!CopiesSound, Projection!StageNames
    <3>4. SlotOf[e] = p
      BY <2>1, <3>1 DEF Projection!Answers
    <3> QED BY <2>1, <3>1, <3>3, <3>4 DEF Projection!Answers
  <2>2. Projection!AnswersCountEvent
    BY <2>1 DEF Projection!AnswersCountEvent
  <2>3. Projection!AnswersOwnTenant
    BY <2>1 DEF Projection!AnswersOwnTenant
  <2> QED BY <2>2, <2>3
<1>7. Projection!QuietSnapshotsAgree
  <2>1. ASSUME NEW c \in Callers \ overlapped, Projection!Answered(c), NEW p \in DOMAIN seen[c]
        PROVE  Projection!Consistent(seen[c][p]) /\ Projection!InTime(seen[c][p])
    <3>1. p \notin todo[c]
      BY <1>2, <2>1 DEF Projection!CallSound, Projection!Answered
    <3> QED BY <1>2, <2>1, <3>1 DEF Projection!QuietlyCopied
  <2> QED BY <2>1 DEF Projection!QuietSnapshotsAgree, Projection!InTime
<1> QED BY <1>1, <1>4, <1>5, <1>6, <1>7 DEF EventsCounted

(* Every event and its repetitions are counted once, in every counter alike,  *)
(* and what a caller is answered with counts its event, for its own tenant.   *)
THEOREM EventsAreCounted == ServicesSpec => []EventsCounted
<1> DEFINE services == <<part, vars, configurationVars, catalogVars, projectionVars>>
<1>1. ServicesInit => Projection!IInv
  BY ProjectionInit DEF ServicesInit
<1>2. Projection!IInv /\ [ServicesNext]_services => Projection!IInv'
  <2> SUFFICES ASSUME Projection!IInv, [ServicesNext]_services
               PROVE  Projection!IInv'
    OBVIOUS
  <2>1. CASE UNCHANGED projectionVars
    BY <2>1, ProjectionsRest
  <2>2. CASE Projection!Next
    BY <2>2, RecordKeeps, EnterKeeps, ApplyKeeps, ListKeeps, SeeKeeps, ReturnKeeps
    DEF Projection!Next
  <2> QED BY <2>1, <2>2 DEF ServicesNext
<1>3. Projection!IInv => EventsCounted
  BY EventsAgree
<1> QED BY <1>1, <1>2, <1>3, PTL DEF ServicesSpec
=============================================================================
