--------------------------- MODULE AuditChainProofs ---------------------------
(***************************************************************************)
(* Proofs about AuditChain, for every number of callers, events, windows   *)
(* and requests and every fault: types, write-once stores, exports that    *)
(* reconcile, a chain that reports no export that is not there, and        *)
(* checkpoints that notice what is done to the events they cover.          *)
(***************************************************************************)
EXTENDS AuditChain, SequenceTheorems, WellFoundedInduction, TLAPS

-----------------------------------------------------------------------------
(* Segments of the chain                                                      *)

(* A non-empty set of positions has a first and a last one.                   *)
LEMMA EndsExist ==
    ASSUME NEW n \in Nat, NEW S \in SUBSET (1..n), S # {}
    PROVE  /\ \E i \in S : \A j \in S : i <= j
           /\ \E i \in S : \A j \in S : j <= i
<1>1. \A T \in SUBSET Nat : T # {} => \E i \in T : \A j \in T : ~(j < i)
  <2>1. SUFFICES ASSUME NEW T \in SUBSET Nat, T # {}
                 PROVE  \E i \in T : \A j \in T : ~(j < i)
    OBVIOUS
  <2>2. PICK i \in T : \A j \in T : <<j, i>> \notin OpToRel(<, Nat)
    BY <2>1, NatLessThanWellFounded, WFMin, Zenon
  <2> QED BY <2>2 DEF OpToRel
<1>2. \E i \in S : \A j \in S : i <= j
  <2>1. PICK i \in S : \A j \in S : ~(j < i)
    BY <1>1
  <2> QED BY <2>1
<1>3. \E i \in S : \A j \in S : j <= i
  <2> DEFINE T == {n - i : i \in S}
  <2>1. T \in SUBSET Nat /\ T # {}
    <3>1. \A i \in S : i \in Nat /\ n - i \in Nat
      OBVIOUS
    <3> QED BY <3>1
  <2>2. \E t \in T : \A u \in T : ~(u < t)
    <3> HIDE DEF T
    <3> QED BY <1>1, <2>1
  <2>3. \E i \in S : \A j \in S : ~(n - j < n - i)
    BY <2>2
  <2> QED BY <2>3
<1> QED BY <1>2, <1>3

(* The segment of a window is a sequence of links.                            *)
LEMMA SegmentTyped ==
    ASSUME NEW log \in Seq(Links), NEW w
    PROVE  Segment(log, w) \in Seq(Links)
<1>1. CASE Positions(log, w) = {}
  BY <1>1 DEF Segment
<1>2. CASE Positions(log, w) # {}
  <2>1. Positions(log, w) \in SUBSET (1..Len(log)) /\ Len(log) \in Nat
    BY DEF Positions
  <2>2. First(log, w) \in Positions(log, w) /\ Last(log, w) \in Positions(log, w)
    <3>1. /\ \E i \in Positions(log, w) : \A j \in Positions(log, w) : i <= j
          /\ \E i \in Positions(log, w) : \A j \in Positions(log, w) : j <= i
      BY <1>2, <2>1, EndsExist
    <3> QED BY <3>1 DEF First, Last
  <2>3. SubSeq(log, First(log, w), Last(log, w)) \in Seq(Links)
    BY <2>1, <2>2
  <2> QED BY <1>2, <2>3 DEF Segment
<1> QED BY <1>1, <1>2

LEMMA BatchTyped ==
    ASSUME NEW segment \in Seq(Links)
    PROVE  Batch(segment) \in Batches
<1> DEFINE Entries == [id : EventIds \cup Nat, previous : Hashes, hash : Hashes]
<1>1. DOMAIN segment = 1..Len(segment) /\ Len(segment) \in Nat
  OBVIOUS
<1>2. \A link \in Links :
         /\ link.content.id \in EventIds \cup Nat
         /\ link.previous \in Hashes
         /\ link.hash \in Hashes
  BY DEF Links, Contents
<1>3. \A i \in 1..Len(segment) :
         [id |-> segment[i].content.id, previous |-> segment[i].previous,
          hash |-> segment[i].hash] \in Entries
  BY <1>2
<1>4. Batch(segment) \in [1..Len(segment) -> Entries]
  BY <1>1, <1>3 DEF Batch
<1> HIDE DEF Entries
<1>5. Batch(segment) \in Seq(Entries)
  BY <1>1, <1>4, SeqDef
<1> QED BY <1>5 DEF Batches, Entries

(* What is appended to the chain is a link.                                   *)
LEMMA SealedTyped ==
    ASSUME NEW log \in Seq(Links), NEW content \in Contents
    PROVE  Sealed(content, log) \in Links /\ Sealed(content, log).content = content
<1> DEFINE previous == IF log = <<>> THEN Genesis ELSE log[Len(log)].hash
<1>1. previous \in Hashes
  <2>1. CASE log = <<>>
    BY <2>1 DEF Genesis, Hashes
  <2>2. CASE log # <<>>
    <3>1. log[Len(log)] \in Links
      BY <2>2
    <3> QED BY <2>2, <3>1 DEF Links
  <2> QED BY <2>1, <2>2
<1>2. EventHash(content, previous) \in Hashes
  BY <1>1 DEF EventHash, Hashes
<1> QED BY <1>1, <1>2 DEF Sealed, Links

-----------------------------------------------------------------------------
(* The object an export stores                                                *)
ObjectOf(c) == [key |-> request[c].key, body |-> ManifestOf(held[c], request[c])]

Reports(outcome) == outcome \in {"accepted", "idempotent"}

Recorded(w) == \E x \in exports : x.window = w

(* What the code relies on in a call: an export works on a stored checkpoint  *)
(* of the window it was asked for; before it is recorded its object is in the *)
(* storage; a verdict that reports an export is about one that is recorded.   *)
Sound(c) ==
    /\ pc[c] = "checkpoint" => held[c] \in Checkpoints
    /\ pc[c] \in {"find", "put", "record"} =>
           /\ held[c] \in checkpoints
           /\ request[c] \in Requests
           /\ held[c].window = request[c].window
    /\ pc[c] = "record" => ObjectOf(c) \in objects
    /\ pc[c] = "audit" =>
           /\ verdict[c] \in Verdicts
           /\ Reports(verdict[c].outcome) => Recorded(verdict[c].about)

AllSound == \A c \in Callers : Sound(c)

(* The inductive invariant                                                    *)
Inv == TypeOK /\ AllSound /\ ExportsReconcile /\ ChainTruthful

(* The steps of a call                                                        *)
Call(c) ==
    \/ Register(c) \/ Read(c) \/ Generate(c) \/ Verify(c) \/ Export(c) \/ Reconcile(c)
    \/ SaveCheckpoint(c) \/ Find(c) \/ Put(c) \/ Record(c) \/ AppendVerdict(c)

LEMMA InitInductive == Init => Inv
<1> SUFFICES ASSUME Init PROVE Inv
  OBVIOUS
<1>1. TypeOK
  BY ConstantsAssumption DEF Init, TypeOK, Steps
<1> QED BY <1>1 DEF Init, Inv, AllSound, Sound, ExportsReconcile, ChainTruthful

(* The manifest of a stored checkpoint has the types of its export.           *)
LEMMA ManifestTyped ==
    ASSUME NEW k \in Checkpoints, NEW r \in Requests
    PROVE  ManifestOf(k, r) \in Manifests
  BY ConstantsAssumption DEF ManifestOf, Manifests, Checkpoints

(* A call in an export has the types of what it works on.                     *)
LEMMA ExportTyped ==
    ASSUME Inv, NEW c \in Callers, pc[c] \in {"find", "put", "record"}
    PROVE  /\ held[c] \in Checkpoints
           /\ request[c] \in Requests
           /\ request[c].window \in Windows
           /\ ManifestOf(held[c], request[c]) \in Manifests
           /\ ObjectOf(c) \in Objects
<1>1. held[c] \in Checkpoints /\ request[c] \in Requests
  BY DEF Inv, TypeOK, AllSound, Sound
<1>2. ManifestOf(held[c], request[c]) \in Manifests
  BY <1>1, ManifestTyped
<1> QED BY <1>1, <1>2, ConstantsAssumption DEF ObjectOf, Objects

(* A call that concludes has a verdict of the right type.                     *)
LEMMA ConcludeTyped ==
    ASSUME TypeOK, NEW c \in Callers, NEW outcome \in Outcomes,
           NEW about \in Windows \cup {None}, Conclude(c, outcome, about)
    PROVE  /\ pc' \in [Callers -> Steps]
           /\ verdict' \in [Callers -> Verdicts \cup {None}]
           /\ pc'[c] = "audit"
           /\ verdict'[c] = [outcome |-> outcome, about |-> about]
           /\ verdict'[c] \in Verdicts
           /\ \A d \in Callers \ {c} : pc'[d] = pc[d] /\ verdict'[d] = verdict[d]
  BY DEF TypeOK, Conclude, Goto, Steps, Verdicts

-----------------------------------------------------------------------------
(* Types *)

(* A new event at the end of the chain *)
LEMMA AppendTyped ==
    ASSUME TypeOK, NEW content \in Contents, chain' = Append(chain, Sealed(content, chain))
    PROVE  chain' \in Seq(Links)
  BY SealedTyped DEF TypeOK

LEMMA BeginsTyped ==
    ASSUME Inv, NEW c \in Callers,
           Register(c) \/ Read(c) \/ Generate(c) \/ Verify(c) \/ Export(c) \/ Reconcile(c)
    PROVE  TypeOK'
<1> USE DEF Inv, TypeOK
<1>1. CASE Register(c)
  <2>1. PICK id \in EventIds, at \in Instants :
            chain' = Append(chain, Sealed([id |-> id, at |-> at, outcome |-> "event",
                                           about |-> None], chain))
    BY <1>1 DEF Register
  <2>2. [id |-> id, at |-> at, outcome |-> "event", about |-> None] \in Contents
    BY ConstantsAssumption DEF Contents
  <2>3. chain' \in Seq(Links)
    BY <2>1, <2>2, AppendTyped
  <2> QED BY <1>1, <2>3 DEF Register, stores, localVars
<1>2. CASE Read(c)
  <2>1. \E outcome \in Outcomes : Conclude(c, outcome, None)
    BY <1>2 DEF Read, Outcomes
  <2>2. pc' \in [Callers -> Steps] /\ verdict' \in [Callers -> Verdicts \cup {None}]
    BY <2>1, ConcludeTyped
  <2> QED BY <1>2, <2>2 DEF Read, stores
<1>3. CASE Generate(c)
  <2>1. PICK w \in Windows :
            held' = [held EXCEPT ![c] = [window |-> w, batch |-> Batch(Segment(chain, w))]]
    BY <1>3 DEF Generate
  <2>2. [window |-> w, batch |-> Batch(Segment(chain, w))] \in Checkpoints
    BY SegmentTyped, BatchTyped DEF Checkpoints
  <2> QED BY <1>3, <2>1, <2>2 DEF Generate, stores, Goto, Steps
<1>4. CASE Verify(c)
  <2>1. \E outcome \in Outcomes, w \in Windows : Conclude(c, outcome, w)
    BY <1>4 DEF Verify, Outcomes
  <2>2. pc' \in [Callers -> Steps] /\ verdict' \in [Callers -> Verdicts \cup {None}]
    BY <2>1, ConcludeTyped
  <2> QED BY <1>4, <2>2 DEF Verify, stores
<1>5. CASE Export(c)
  <2>1. PICK r \in Requests :
            \/ /\ \E k \in checkpoints : CheckpointValid(chain, r.window, k)
               /\ held' = [held EXCEPT ![c] =
                              CHOOSE k \in checkpoints : CheckpointValid(chain, r.window, k)]
               /\ request' = [request EXCEPT ![c] = r]
               /\ Goto(c, "find")
               /\ UNCHANGED verdict
            \/ Conclude(c, "rejected", r.window) /\ UNCHANGED <<held, request>>
    BY <1>5 DEF Export
  <2>2. CASE Conclude(c, "rejected", r.window) /\ UNCHANGED <<held, request>>
    <3>1. r.window \in Windows /\ "rejected" \in Outcomes
      BY ConstantsAssumption DEF Outcomes
    <3>2. pc' \in [Callers -> Steps] /\ verdict' \in [Callers -> Verdicts \cup {None}]
      BY <2>2, <3>1, ConcludeTyped
    <3> QED BY <1>5, <2>2, <3>2 DEF Export, stores
  <2>3. CASE Goto(c, "find") /\ UNCHANGED verdict
    BY <1>5, <2>1, <2>3 DEF Export, stores, Goto, Steps, Conclude
  <2> QED BY <2>1, <2>2, <2>3
<1>6. CASE Reconcile(c)
  <2>1. \E outcome \in Outcomes, w \in Windows : Conclude(c, outcome, w)
    BY <1>6 DEF Reconcile, Outcomes
  <2>2. pc' \in [Callers -> Steps] /\ verdict' \in [Callers -> Verdicts \cup {None}]
    BY <2>1, ConcludeTyped
  <2> QED BY <1>6, <2>2 DEF Reconcile, stores
<1> QED BY <1>1, <1>2, <1>3, <1>4, <1>5, <1>6

LEMMA ContinuesTyped ==
    ASSUME Inv, NEW c \in Callers,
           SaveCheckpoint(c) \/ Find(c) \/ Put(c) \/ Record(c) \/ AppendVerdict(c)
    PROVE  TypeOK'
<1> USE DEF Inv, TypeOK
<1>1. CASE SaveCheckpoint(c)
  <2>1. held[c] \in Checkpoints
    BY <1>1 DEF SaveCheckpoint, AllSound, Sound
  <2> QED BY <1>1, <2>1 DEF SaveCheckpoint, Done, Goto, Steps
<1>2. CASE Find(c)
  <2>1. request[c].window \in Windows
    BY <1>2, ExportTyped DEF Find
  <2>2. \/ Goto(c, "put") /\ UNCHANGED verdict
        \/ \E outcome \in Outcomes : Conclude(c, outcome, request[c].window)
    BY <1>2 DEF Find, Outcomes
  <2>3. pc' \in [Callers -> Steps] /\ verdict' \in [Callers -> Verdicts \cup {None}]
    BY <2>1, <2>2, ConcludeTyped DEF Goto, Steps
  <2> QED BY <1>2, <2>3 DEF Find, stores
<1>3. CASE Put(c)
  <2>1. request[c].window \in Windows /\ ObjectOf(c) \in Objects
    BY <1>3, ExportTyped DEF Put
  <2>2. \/ Goto(c, "record") /\ UNCHANGED verdict
        \/ \E outcome \in Outcomes : Conclude(c, outcome, request[c].window)
    BY <1>3 DEF Put, Outcomes
  <2>3. pc' \in [Callers -> Steps] /\ verdict' \in [Callers -> Verdicts \cup {None}]
    BY <2>1, <2>2, ConcludeTyped DEF Goto, Steps
  <2>4. objects' \subseteq objects \cup {ObjectOf(c)}
    BY <1>3 DEF Put, ObjectOf
  <2>5. objects' \subseteq Objects
    BY <2>1, <2>4
  <2> QED BY <1>3, <2>3, <2>5 DEF Put
<1>4. CASE Record(c)
  <2> DEFINE x == [window |-> held[c].window, key |-> request[c].key,
                   manifest |-> ManifestOf(held[c], request[c])]
  <2>1. held[c].window \in Windows /\ x \in Exports
    BY <1>4, ExportTyped DEF Record, Exports, Checkpoints
  <2>2. \E outcome \in Outcomes : Conclude(c, outcome, held[c].window)
    BY <1>4 DEF Record, Outcomes
  <2>3. pc' \in [Callers -> Steps] /\ verdict' \in [Callers -> Verdicts \cup {None}]
    BY <2>1, <2>2, ConcludeTyped
  <2>4. exports' \subseteq exports \cup {x}
    BY <1>4 DEF Record
  <2>5. exports' \subseteq Exports
    BY <2>1, <2>4
  <2> QED BY <1>4, <2>3, <2>5 DEF Record
<1>5. CASE AppendVerdict(c)
  <2> DEFINE content == [id |-> Len(chain) + 1, at |-> now, outcome |-> verdict[c].outcome,
                         about |-> verdict[c].about]
  <2>1. verdict[c] \in Verdicts
    BY <1>5 DEF AppendVerdict, AllSound, Sound
  <2>2. content \in Contents
    BY <2>1, ConstantsAssumption DEF Contents, Verdicts
  <2>3. chain' \in Seq(Links)
    BY <1>5, <2>2, AppendTyped DEF AppendVerdict
  <2> QED BY <1>5, <2>3 DEF AppendVerdict, Done, Goto, Steps, stores
<1> QED BY <1>1, <1>2, <1>3, <1>4, <1>5

-----------------------------------------------------------------------------
(* What is reported exists *)

(* The stores only grow, and a step of a call leaves the others where they are. *)
LEMMA CallFrame ==
    ASSUME Inv, NEW c \in Callers, Call(c)
    PROVE  /\ checkpoints \subseteq checkpoints'
           /\ objects \subseteq objects'
           /\ exports \subseteq exports'
           /\ \A d \in Callers \ {c} :
                 /\ pc'[d] = pc[d] /\ held'[d] = held[d]
                 /\ request'[d] = request[d] /\ verdict'[d] = verdict[d]
<1> USE DEF Inv, TypeOK, Goto, Conclude, Done, stores, localVars
<1>1. CASE Register(c) \/ Read(c) \/ Verify(c) \/ Reconcile(c)
  BY <1>1 DEF Register, Read, Verify, Reconcile
<1>2. CASE Generate(c) \/ SaveCheckpoint(c)
  BY <1>2 DEF Generate, SaveCheckpoint
<1>3. CASE Export(c)
  BY <1>3 DEF Export
<1>4. CASE Find(c)
  BY <1>4 DEF Find
<1>5. CASE Put(c) \/ Record(c)
  BY <1>5 DEF Put, Record
<1>6. CASE AppendVerdict(c)
  BY <1>6 DEF AppendVerdict
<1> QED BY <1>1, <1>2, <1>3, <1>4, <1>5, <1>6 DEF Call

LEMMA OthersSound ==
    ASSUME Inv, NEW c \in Callers, Call(c)
    PROVE  \A d \in Callers \ {c} : Sound(d)'
<1> SUFFICES ASSUME NEW d \in Callers \ {c}
             PROVE  Sound(d)'
  OBVIOUS
<1>1. Sound(d)
  BY DEF Inv, AllSound
<1>2. ObjectOf(d)' = ObjectOf(d)
  BY CallFrame DEF ObjectOf, ManifestOf
<1> QED BY <1>1, <1>2, CallFrame DEF Sound, Recorded

(* A call that concludes without reporting an export                          *)
LEMMA ConcludeSound ==
    ASSUME TypeOK, NEW c \in Callers, NEW outcome \in Outcomes,
           NEW about \in Windows \cup {None}, Conclude(c, outcome, about),
           Reports(outcome) => Recorded(about)'
    PROVE  Sound(c)'
<1>1. /\ pc'[c] = "audit"
      /\ verdict'[c] = [outcome |-> outcome, about |-> about]
      /\ verdict'[c] \in Verdicts
  BY ConcludeTyped
<1> QED BY <1>1 DEF Sound

LEMMA IdleSound ==
    ASSUME TypeOK, NEW c \in Callers, Goto(c, "idle")
    PROVE  Sound(c)'
  BY DEF TypeOK, Goto, Sound

LEMMA BeginsSound ==
    ASSUME Inv, NEW c \in Callers,
           Register(c) \/ Read(c) \/ Generate(c) \/ Verify(c) \/ Export(c) \/ Reconcile(c)
    PROVE  Sound(c)'
<1> USE DEF Inv, TypeOK
<1>1. CASE Register(c)
  BY <1>1 DEF Register, Begin, Sound, localVars
<1>2. CASE Read(c)
  <2>1. \E outcome \in Outcomes : ~Reports(outcome) /\ Conclude(c, outcome, None)
    BY <1>2 DEF Read, Outcomes, Reports
  <2> QED BY <2>1, ConcludeSound
<1>3. CASE Generate(c)
  <2>1. pc'[c] = "checkpoint" /\ held'[c] \in Checkpoints
    <3>1. TypeOK'
      BY <1>3, BeginsTyped
    <3>2. PICK w \in Windows :
              held' = [held EXCEPT ![c] = [window |-> w, batch |-> Batch(Segment(chain, w))]]
      BY <1>3 DEF Generate
    <3>3. [window |-> w, batch |-> Batch(Segment(chain, w))] \in Checkpoints
      BY SegmentTyped, BatchTyped DEF Checkpoints
    <3> QED BY <1>3, <3>2, <3>3 DEF Generate, Goto
  <2> QED BY <2>1 DEF Sound
<1>4. CASE Verify(c)
  <2>1. \E outcome \in Outcomes, w \in Windows : ~Reports(outcome) /\ Conclude(c, outcome, w)
    BY <1>4 DEF Verify, Outcomes, Reports
  <2> QED BY <2>1, ConcludeSound
<1>5. CASE Export(c)
  <2>1. PICK r \in Requests :
            \/ /\ \E k \in checkpoints : CheckpointValid(chain, r.window, k)
               /\ held' = [held EXCEPT ![c] =
                              CHOOSE k \in checkpoints : CheckpointValid(chain, r.window, k)]
               /\ request' = [request EXCEPT ![c] = r]
               /\ Goto(c, "find")
            \/ Conclude(c, "rejected", r.window)
    BY <1>5 DEF Export
  <2>2. CASE Conclude(c, "rejected", r.window)
    <3>1. r.window \in Windows /\ "rejected" \in Outcomes /\ ~Reports("rejected")
      BY ConstantsAssumption DEF Outcomes, Reports
    <3> QED BY <2>2, <3>1, ConcludeSound
  <2>3. CASE /\ \E k \in checkpoints : CheckpointValid(chain, r.window, k)
             /\ held' = [held EXCEPT ![c] =
                            CHOOSE k \in checkpoints : CheckpointValid(chain, r.window, k)]
             /\ request' = [request EXCEPT ![c] = r]
             /\ Goto(c, "find")
    <3>1. /\ held'[c] \in checkpoints
          /\ CheckpointValid(chain, r.window, held'[c])
          /\ request'[c] = r
          /\ pc'[c] = "find"
      BY <2>3 DEF Goto
    <3>2. checkpoints' = checkpoints
      BY <1>5 DEF Export, stores
    <3> QED BY <3>1, <3>2 DEF Sound, CheckpointValid
  <2> QED BY <2>1, <2>2, <2>3
<1>6. CASE Reconcile(c)
  <2>1. \E outcome \in Outcomes, w \in Windows : ~Reports(outcome) /\ Conclude(c, outcome, w)
    BY <1>6 DEF Reconcile, Outcomes, Reports
  <2> QED BY <2>1, ConcludeSound
<1> QED BY <1>1, <1>2, <1>3, <1>4, <1>5, <1>6

LEMMA ContinuesSound ==
    ASSUME Inv, NEW c \in Callers,
           SaveCheckpoint(c) \/ Find(c) \/ Put(c) \/ Record(c) \/ AppendVerdict(c)
    PROVE  Sound(c)'
<1> USE DEF Inv, TypeOK
<1>1. CASE SaveCheckpoint(c) \/ AppendVerdict(c)
  BY <1>1, IdleSound DEF SaveCheckpoint, AppendVerdict, Done
<1>2. CASE Find(c)
  <2>1. PICK w \in Windows : w = request[c].window
    BY <1>2, ExportTyped DEF Find
  <2>2. \/ Goto(c, "put")
        \/ Conclude(c, "rejected", w)
        \/ Conclude(c, "idempotent", w) /\ Recorded(w)'
    BY <1>2, <2>1 DEF Find, Recorded, stores
  <2>3. CASE Goto(c, "put")
    <3>1. UNCHANGED <<held, request, checkpoints>> /\ pc'[c] = "put"
      BY <1>2, <2>3 DEF Find, Goto, stores
    <3> QED BY <1>2, <3>1 DEF Find, AllSound, Sound
  <2>4. "rejected" \in Outcomes /\ "idempotent" \in Outcomes /\ ~Reports("rejected")
    BY DEF Outcomes, Reports
  <2> QED BY <2>2, <2>3, <2>4, ConcludeSound
<1>3. CASE Put(c)
  <2>1. request[c].window \in Windows
    BY <1>3, ExportTyped DEF Put
  <2>2. \/ Goto(c, "record") /\ objects' = objects \cup {ObjectOf(c)}
        \/ Conclude(c, "rejected", request[c].window)
        \/ Conclude(c, "technical_failure", request[c].window)
    BY <1>3 DEF Put, ObjectOf
  <2>3. CASE Goto(c, "record") /\ objects' = objects \cup {ObjectOf(c)}
    <3>1. UNCHANGED <<held, request, checkpoints>> /\ pc'[c] = "record"
      BY <1>3, <2>3 DEF Put, Goto
    <3>2. ObjectOf(c)' \in objects'
      BY <2>3, <3>1 DEF ObjectOf, ManifestOf
    <3> QED BY <1>3, <3>1, <3>2 DEF Put, AllSound, Sound
  <2>4. /\ "rejected" \in Outcomes /\ "technical_failure" \in Outcomes
        /\ ~Reports("rejected") /\ ~Reports("technical_failure")
    BY DEF Outcomes, Reports
  <2> QED BY <2>1, <2>2, <2>3, <2>4, ConcludeSound
<1>4. CASE Record(c)
  <2>1. PICK w \in Windows : w = held[c].window
    BY <1>4, ExportTyped DEF Record, Checkpoints
  <2>2. \/ Conclude(c, "accepted", w) /\ Recorded(w)'
        \/ Conclude(c, "rejected", w)
        \/ Conclude(c, "technical_failure", w)
    BY <1>4, <2>1 DEF Record, Recorded
  <2>3. /\ "accepted" \in Outcomes /\ "rejected" \in Outcomes /\ "technical_failure" \in Outcomes
        /\ ~Reports("rejected") /\ ~Reports("technical_failure")
    BY DEF Outcomes, Reports
  <2> QED BY <2>2, <2>3, ConcludeSound
<1> QED BY <1>1, <1>2, <1>3, <1>4

(* Only Record stores a record, and only of an object that is in the storage. *)
LEMMA ReconcilesKept ==
    ASSUME Inv, NEW c \in Callers, Call(c)
    PROVE  ExportsReconcile'
<1>1. \A x \in exports : Reconciles(x) /\ Reconciles(x)'
  BY CallFrame DEF Inv, ExportsReconcile, Reconciles
<1>2. CASE Record(c)
  <2>1. PICK x : x = [window |-> held[c].window, key |-> request[c].key,
                      manifest |-> ManifestOf(held[c], request[c])]
    OBVIOUS
  <2>2. exports' \subseteq exports \cup {x} /\ objects' = objects /\ checkpoints' = checkpoints
    BY <1>2, <2>1 DEF Record
  <2>3. ObjectOf(c) \in objects /\ held[c] \in checkpoints
    BY <1>2 DEF Record, Inv, AllSound, Sound
  <2>4. Reconciles(x)
    BY <2>1, <2>3 DEF Reconciles, ObjectOf, ManifestOf
  <2>5. Reconciles(x)'
    BY <2>2, <2>4 DEF Reconciles
  <2> QED BY <1>1, <2>2, <2>5 DEF ExportsReconcile
<1>3. CASE ~Record(c)
  <2>1. exports' = exports
    BY <1>3 DEF Call, Register, Read, Generate, Verify, Export, Reconcile, SaveCheckpoint,
       Find, Put, AppendVerdict, stores
  <2> QED BY <1>1, <2>1 DEF ExportsReconcile
<1> QED BY <1>2, <1>3

(* What a call appends to the chain reports no export that is not recorded.   *)
LEMMA AppendTruthful ==
    ASSUME Inv, NEW content \in Contents,
           chain' = Append(chain, Sealed(content, chain)), exports \subseteq exports',
           Reports(content.outcome) => Recorded(content.about)
    PROVE  ChainTruthful'
<1>1. Sealed(content, chain).content = content
  BY SealedTyped DEF Inv, TypeOK
<1>2. \A i \in DOMAIN chain' :
         \/ i \in DOMAIN chain /\ chain'[i] = chain[i]
         \/ chain'[i] = Sealed(content, chain)
  BY DEF Inv, TypeOK
<1> QED BY <1>1, <1>2 DEF Inv, ChainTruthful, Reports, Recorded

LEMMA TruthKept ==
    ASSUME Inv, NEW c \in Callers, Call(c)
    PROVE  ChainTruthful'
<1> USE DEF Inv, TypeOK
<1>1. exports \subseteq exports'
  BY CallFrame
<1>2. CASE Register(c)
  <2>1. PICK id \in EventIds, at \in Instants :
            chain' = Append(chain, Sealed([id |-> id, at |-> at, outcome |-> "event",
                                           about |-> None], chain))
    BY <1>2 DEF Register
  <2>2. /\ [id |-> id, at |-> at, outcome |-> "event", about |-> None] \in Contents
        /\ ~Reports("event")
    BY ConstantsAssumption DEF Contents, Reports
  <2> QED BY <1>1, <2>1, <2>2, AppendTruthful
<1>3. CASE AppendVerdict(c)
  <2> DEFINE content == [id |-> Len(chain) + 1, at |-> now, outcome |-> verdict[c].outcome,
                         about |-> verdict[c].about]
  <2>1. /\ verdict[c] \in Verdicts
        /\ Reports(verdict[c].outcome) => Recorded(verdict[c].about)
    BY <1>3 DEF AppendVerdict, AllSound, Sound
  <2>2. content \in Contents
    BY <2>1, ConstantsAssumption DEF Contents, Verdicts
  <2>3. chain' = Append(chain, Sealed(content, chain))
    BY <1>3 DEF AppendVerdict
  <2> QED BY <1>1, <2>1, <2>2, <2>3, AppendTruthful
<1>4. CASE ~Register(c) /\ ~AppendVerdict(c)
  <2>1. chain' = chain
    BY <1>4 DEF Call, Read, Generate, Verify, Export, Reconcile, SaveCheckpoint, Find, Put,
       Record
  <2> QED BY <1>1, <2>1 DEF ChainTruthful
<1> QED BY <1>2, <1>3, <1>4

-----------------------------------------------------------------------------
LEMMA NextInductive == Inv /\ [Next]_vars => Inv'
<1> SUFFICES ASSUME Inv, [Next]_vars
             PROVE  Inv'
  OBVIOUS
<1> USE DEF Inv
<1>1. ASSUME now' \in 0..MaxTime, UNCHANGED <<chain, stores, pc, localVars>>
      PROVE  Inv'
  BY <1>1 DEF TypeOK, AllSound, Sound, ObjectOf, ManifestOf, Recorded, ExportsReconcile,
     Reconciles, ChainTruthful, stores, localVars
<1>2. CASE Tick
  BY <1>1, <1>2, ConstantsAssumption DEF Tick, TypeOK
<1>3. CASE UNCHANGED vars
  BY <1>1, <1>3 DEF vars, TypeOK
<1>4. ASSUME NEW c \in Callers, Call(c)
      PROVE  Inv'
  <2>1. TypeOK' /\ Sound(c)'
    BY <1>4, BeginsTyped, ContinuesTyped, BeginsSound, ContinuesSound DEF Call
  <2> QED BY <1>4, <2>1, OthersSound, ReconcilesKept, TruthKept DEF AllSound
<1> QED BY <1>2, <1>3, <1>4 DEF Next, Call

LEMMA Invariance == Spec => []Inv
  BY InitInductive, NextInductive, PTL DEF Spec

(* The clock, the chain, the stores and the locals of every call keep their   *)
(* types.                                                                     *)
THEOREM TypeCorrect == Spec => []TypeOK
  BY Invariance, PTL DEF Inv

(* export_checkpoint_to_worm records an export only after its object is in    *)
(* the storage, and neither is ever changed: each record reconciles.          *)
THEOREM ExportsAlwaysReconcile == Spec => []ExportsReconcile
  BY Invariance, PTL DEF Inv

(* The audit events of exports report none that was not recorded.             *)
THEOREM ChainIsTruthful == Spec => []ChainTruthful
  BY Invariance, PTL DEF Inv

(* Together: storage, records and chain agree on every export.                *)
THEOREM ExportsAreTruthful == Spec => []ExportsTruthful
<1>1. Inv => ExportsTruthful
  BY DEF Inv, ExportsTruthful
<1> QED BY <1>1, Invariance, PTL


-----------------------------------------------------------------------------
(* What a checkpoint says of the chain                                        *)

(* The chain as append leaves it: each event points to the one before it, its *)
(* hash is of its contents, and covers as many events as there are up to it.  *)
Linked(log) ==
    \A i \in DOMAIN log :
        /\ log[i].previous = IF i = 1 THEN Genesis ELSE log[i - 1].hash
        /\ log[i].hash = EventHash(log[i].content, log[i].previous)
        /\ Len(log[i].hash) = i

(* A checkpoint is of an unbroken part of the chain, from the first event of   *)
(* its window to what was the last one.                                        *)
Covers(log, k) ==
    \E a, b \in Positions(log, k.window) :
        /\ a <= b
        /\ \A i \in Positions(log, k.window) : a <= i
        /\ k.batch = Batch(SubSeq(log, a, b))

(* It is so when the chain is looked at, and stays so until it is stored and   *)
(* after that.                                                                 *)
CheckpointsCover ==
    /\ Linked(chain)
    /\ \A k \in checkpoints : Covers(chain, k)
    /\ \A c \in Callers : pc[c] = "checkpoint" => Covers(chain, held[c])

LEMMA SegmentEnds ==
    ASSUME NEW log \in Seq(Links), NEW w, Positions(log, w) # {}
    PROVE  /\ First(log, w) \in Positions(log, w) /\ Last(log, w) \in Positions(log, w)
           /\ \A i \in Positions(log, w) : First(log, w) <= i /\ i <= Last(log, w)
           /\ Positions(log, w) \in SUBSET (1..Len(log))
           /\ Segment(log, w) = SubSeq(log, First(log, w), Last(log, w))
<1>1. Positions(log, w) \in SUBSET (1..Len(log)) /\ Len(log) \in Nat
  BY DEF Positions
<1>2. /\ \E i \in Positions(log, w) : \A j \in Positions(log, w) : i <= j
      /\ \E i \in Positions(log, w) : \A j \in Positions(log, w) : j <= i
  BY <1>1, EndsExist
<1>3. /\ First(log, w) \in Positions(log, w)
      /\ \A i \in Positions(log, w) : First(log, w) <= i
  BY <1>2 DEF First
<1>4. /\ Last(log, w) \in Positions(log, w)
      /\ \A i \in Positions(log, w) : i <= Last(log, w)
  BY <1>2 DEF Last
<1> QED BY <1>1, <1>3, <1>4 DEF Segment

(* The batch of a part of the chain has an entry for each of its events.       *)
LEMMA BatchOfPart ==
    ASSUME NEW log \in Seq(Links), NEW a \in 1..Len(log), NEW b \in 1..Len(log), a <= b,
           NEW batch, batch = Batch(SubSeq(log, a, b))
    PROVE  /\ Len(batch) = b - a + 1
           /\ \A j \in 0..(b - a) : batch[j + 1].hash = log[a + j].hash
<1>1. PICK part : part = SubSeq(log, a, b)
  OBVIOUS
<1>2. /\ part \in Seq(Links) /\ Len(part) = b - a + 1
      /\ \A i \in 1..(b - a + 1) : part[i] = log[a + i - 1]
  BY <1>1
<1>3. DOMAIN part = 1..(b - a + 1) /\ b - a + 1 \in Nat
  BY <1>2
<1>4. Batch(part) = [i \in 1..(b - a + 1) |->
          [id |-> part[i].content.id, previous |-> part[i].previous, hash |-> part[i].hash]]
  BY <1>3 DEF Batch
<1>5. Len(batch) = b - a + 1
  <2>1. batch = Batch(part)
    BY <1>1
  <2>2. DOMAIN batch = 1..(b - a + 1)
    BY <1>4, <2>1
  <2>3. PICK S : S = {batch[i] : i \in 1..(b - a + 1)}
    OBVIOUS
  <2>4. batch \in [1..(b - a + 1) -> S]
    BY <1>4, <2>1, <2>2, <2>3
  <2>5. batch \in Seq(S)
    BY <1>3, <2>4, SeqDef
  <2> QED BY <1>3, <2>1, <2>2, <2>5, LenProperties
<1>6. \A j \in 0..(b - a) : j + 1 \in 1..(b - a + 1) /\ part[j + 1] = log[a + j]
  BY <1>2
<1> QED BY <1>1, <1>4, <1>5, <1>6

(* An event that is appended leaves the chain linked, and every checkpoint     *)
(* what it was of: it comes after the first event of each window.              *)
LEMMA AppendCovered ==
    ASSUME NEW log \in Seq(Links), Linked(log), NEW content \in Contents,
           NEW longer, longer = Append(log, Sealed(content, log))
    PROVE  Linked(longer) /\ \A k : Covers(log, k) => Covers(longer, k)
<1>1. PICK n \in Nat : n = Len(log) /\ DOMAIN log = 1..n
  OBVIOUS
<1>2. PICK link \in Links : link = Sealed(content, log)
  BY SealedTyped
<1>3. /\ longer \in Seq(Links) /\ DOMAIN longer = 1..(n + 1) /\ Len(longer) = n + 1
      /\ longer[n + 1] = link /\ \A i \in 1..n : longer[i] = log[i]
  BY <1>1, <1>2
<1>4. Linked(longer)
  <2>1. ASSUME NEW i \in 1..n
        PROVE  /\ longer[i].previous = IF i = 1 THEN Genesis ELSE longer[i - 1].hash
               /\ longer[i].hash = EventHash(longer[i].content, longer[i].previous)
               /\ Len(longer[i].hash) = i
    BY <1>1, <1>3 DEF Linked
  <2>2. /\ link.previous = IF n + 1 = 1 THEN Genesis ELSE longer[n].hash
        /\ link.hash = EventHash(link.content, link.previous)
    <3>1. PICK previous : previous = IF log = <<>> THEN Genesis ELSE log[Len(log)].hash
      OBVIOUS
    <3>2. link = [content |-> content, previous |-> previous,
                  hash |-> EventHash(content, previous)]
      BY <1>2, <3>1 DEF Sealed
    <3>3. log = <<>> <=> n = 0
      BY <1>1
    <3>4. n # 0 => longer[n] = log[n]
      BY <1>1, <1>3
    <3> QED BY <1>1, <3>1, <3>2, <3>3, <3>4
  <2>3. link.previous \in Seq(Contents) /\ Len(link.previous) = n
    <3>1. CASE n = 0
      BY <2>2, <3>1 DEF Genesis
    <3>2. CASE n # 0
      <4>1. n \in 1..n
        BY <3>2
      <4>2. link.previous = log[n].hash
        BY <1>3, <2>2, <3>2, <4>1
      <4>3. log[n].hash \in Seq(Contents)
        <5>1. log[n] \in Links
          BY <1>1, <4>1
        <5>2. log[n].hash \in Hashes
          BY <5>1 DEF Links
        <5> QED BY <5>2 DEF Hashes
      <4>4. Len(log[n].hash) = n
        BY <1>1, <4>1 DEF Linked
      <4> QED BY <4>2, <4>3, <4>4
    <3> QED BY <3>1, <3>2
  <2>4. Len(link.hash) = n + 1
    <3>1. link.content \in Contents
      BY <1>2 DEF Links
    <3>2. PICK s \in Seq(Contents), e \in Contents : s = link.previous /\ e = link.content
      BY <2>3, <3>1
    <3>3. link.hash = Append(s, e) /\ Len(s) = n
      BY <2>2, <2>3, <3>2 DEF EventHash
    <3> QED BY <3>3
  <2>5. \A i \in 1..(n + 1) : i \in 1..n \/ i = n + 1
    OBVIOUS
  <2>6. n + 1 - 1 = n
    OBVIOUS
  <2> QED BY <1>3, <2>1, <2>2, <2>4, <2>5, <2>6 DEF Linked
<1>5. ASSUME NEW k, Covers(log, k)
      PROVE  Covers(longer, k)
  <2>1. PICK a \in Positions(log, k.window), b \in Positions(log, k.window) :
            /\ a <= b
            /\ \A i \in Positions(log, k.window) : a <= i
            /\ k.batch = Batch(SubSeq(log, a, b))
    BY <1>5 DEF Covers
  <2>2. a \in 1..n /\ b \in 1..n
    BY <1>1 DEF Positions
  <2>3. \A i \in 1..n : i \in Positions(longer, k.window) <=> i \in Positions(log, k.window)
    BY <1>1, <1>3 DEF Positions, Within
  <2>4. Positions(longer, k.window) \subseteq 1..(n + 1)
    BY <1>3 DEF Positions
  <2>5. \A i \in Positions(longer, k.window) : a <= i
    BY <1>1, <2>1, <2>2, <2>3, <2>4
  <2>6. SubSeq(longer, a, b) = SubSeq(log, a, b)
    BY <1>1, <1>3, <2>1, <2>2
  <2> QED BY <2>1, <2>2, <2>3, <2>5, <2>6 DEF Covers
<1> QED BY <1>4, <1>5

(* What a window that verifies makes a checkpoint of                           *)
LEMMA GeneratedCovers ==
    ASSUME NEW log \in Seq(Links), NEW w, WindowValid(log, w)
    PROVE  Covers(log, [window |-> w, batch |-> Batch(Segment(log, w))])
<1>1. Positions(log, w) # {}
  BY DEF WindowValid, ChainValid, Segment
<1> QED BY <1>1, SegmentEnds DEF Covers

LEMMA CallCovered ==
    ASSUME Inv, CheckpointsCover, NEW c \in Callers, Call(c)
    PROVE  CheckpointsCover'
<1> USE DEF Inv, TypeOK
<1>1. /\ \/ chain' = chain
         \/ \E content \in Contents : chain' = Append(chain, Sealed(content, chain))
      /\ \A k : Covers(chain, k) => Covers(chain', k)
      /\ Linked(chain')
  <2>1. CASE Register(c)
    <3>1. PICK id \in EventIds, at \in Instants :
              chain' = Append(chain, Sealed([id |-> id, at |-> at, outcome |-> "event",
                                             about |-> None], chain))
      BY <2>1 DEF Register
    <3> DEFINE content == [id |-> id, at |-> at, outcome |-> "event", about |-> None]
    <3>2. content \in Contents
      BY ConstantsAssumption DEF Contents
    <3>3. chain' = Append(chain, Sealed(content, chain))
      BY <3>1
    <3> HIDE DEF content
    <3> QED BY <3>2, <3>3, AppendCovered DEF CheckpointsCover
  <2>2. CASE AppendVerdict(c)
    <3> DEFINE content == [id |-> Len(chain) + 1, at |-> now, outcome |-> verdict[c].outcome,
                           about |-> verdict[c].about]
    <3>1. verdict[c] \in Verdicts
      BY <2>2 DEF AppendVerdict, AllSound, Sound
    <3>2. content \in Contents
      BY <3>1, ConstantsAssumption DEF Contents, Verdicts
    <3>3. chain' = Append(chain, Sealed(content, chain))
      BY <2>2 DEF AppendVerdict
    <3> HIDE DEF content
    <3> QED BY <3>2, <3>3, AppendCovered DEF CheckpointsCover
  <2>3. CASE ~Register(c) /\ ~AppendVerdict(c)
    <3>1. chain' = chain
      BY <2>3 DEF Call, Read, Generate, Verify, Export, Reconcile, SaveCheckpoint, Find, Put,
         Record
    <3> QED BY <3>1 DEF CheckpointsCover
  <2> QED BY <2>1, <2>2, <2>3
<1>2. CASE SaveCheckpoint(c)
  <2>1. /\ checkpoints' \subseteq checkpoints \cup {held[c]}
        /\ Covers(chain, held[c])
        /\ pc'[c] = "idle"
    BY <1>2 DEF SaveCheckpoint, Done, Goto, CheckpointsCover
  <2>2. \A k \in checkpoints' : Covers(chain', k)
    BY <1>1, <2>1 DEF CheckpointsCover
  <2>3. \A d \in Callers : pc'[d] = "checkpoint" => Covers(chain', held'[d])
    BY <1>1, <2>1, CallFrame DEF CheckpointsCover
  <2> QED BY <1>1, <2>2, <2>3 DEF CheckpointsCover
<1>3. CASE Generate(c)
  <2>1. PICK w \in Windows :
            /\ WindowValid(chain, w)
            /\ held' = [held EXCEPT ![c] = [window |-> w, batch |-> Batch(Segment(chain, w))]]
    BY <1>3 DEF Generate
  <2>2. Covers(chain, held'[c])
    BY <2>1, GeneratedCovers
  <2>3. chain' = chain /\ checkpoints' = checkpoints
    BY <1>3 DEF Generate, stores
  <2>4. \A d \in Callers : pc'[d] = "checkpoint" => Covers(chain', held'[d])
    BY <1>1, <2>2, <2>3, CallFrame DEF CheckpointsCover
  <2> QED BY <1>1, <2>3, <2>4 DEF CheckpointsCover
<1>4. CASE ~SaveCheckpoint(c) /\ ~Generate(c)
  <2>1. checkpoints' = checkpoints /\ (pc'[c] = "checkpoint" => FALSE)
    <3>1. CASE Register(c) \/ Read(c) \/ Verify(c) \/ Reconcile(c)
      BY <3>1 DEF Register, Begin, Read, Verify, Reconcile, Conclude, Goto, stores, localVars
    <3>2. CASE Export(c) \/ Find(c) \/ Put(c) \/ Record(c) \/ AppendVerdict(c)
      BY <3>2 DEF Export, Find, Put, Record, AppendVerdict, Done, Conclude, Goto, stores
    <3> QED BY <1>4, <3>1, <3>2 DEF Call
  <2>2. \A d \in Callers : pc'[d] = "checkpoint" => Covers(chain', held'[d])
    BY <1>1, <2>1, CallFrame DEF CheckpointsCover
  <2> QED BY <1>1, <2>1, <2>2 DEF CheckpointsCover
<1> QED BY <1>2, <1>3, <1>4

LEMMA NextCovered == Inv /\ CheckpointsCover /\ [Next]_vars => CheckpointsCover'
<1>1. UNCHANGED <<chain, checkpoints, pc, held>> /\ CheckpointsCover => CheckpointsCover'
  BY DEF CheckpointsCover
<1>2. Inv /\ CheckpointsCover /\ (\E c \in Callers : Call(c)) => CheckpointsCover'
  BY CallCovered
<1> QED BY <1>1, <1>2 DEF Next, Call, Tick, vars, stores, localVars

LEMMA CoveredInvariance == Spec => []CheckpointsCover
<1>1. Init => CheckpointsCover
  BY DEF Init, CheckpointsCover, Linked
<1> QED BY <1>1, NextCovered, Invariance, PTL DEF Spec

-----------------------------------------------------------------------------
(* Verification of a checkpoint                                               *)

(* A log has a batch of the chain only where a part of it has its hashes, in   *)
(* their order.                                                                *)
LEMMA BatchFound ==
    ASSUME NEW original \in Seq(Links),
           NEW a \in 1..Len(original), NEW b \in 1..Len(original), a <= b,
           NEW log \in Seq(Links), NEW w,
           Batch(Segment(log, w)) = Batch(SubSeq(original, a, b))
    PROVE  /\ First(log, w) \in 1..Len(log)
           /\ Last(log, w) = First(log, w) + (b - a)
           /\ Last(log, w) \in 1..Len(log)
           /\ Segment(log, w) = SubSeq(log, First(log, w), Last(log, w))
           /\ \A j \in 0..(b - a) : log[First(log, w) + j].hash = original[a + j].hash
<1>1. /\ Len(Batch(SubSeq(original, a, b))) = b - a + 1
      /\ \A j \in 0..(b - a) :
            Batch(SubSeq(original, a, b))[j + 1].hash = original[a + j].hash
  BY BatchOfPart
<1>2. Positions(log, w) # {}
  <2>1. Batch(<<>>) = <<>>
    BY DEF Batch
  <2> QED BY <1>1, <2>1 DEF Segment
<1>3. PICK s \in 1..Len(log), e \in 1..Len(log) :
          /\ s <= e
          /\ s = First(log, w) /\ e = Last(log, w)
          /\ Segment(log, w) = SubSeq(log, s, e)
  <2>1. Positions(log, w) \in SUBSET (1..Len(log)) /\ Len(log) \in Nat
    BY <1>2, SegmentEnds
  <2>2. /\ First(log, w) \in Positions(log, w) /\ Last(log, w) \in Positions(log, w)
        /\ First(log, w) <= Last(log, w)
        /\ Segment(log, w) = SubSeq(log, First(log, w), Last(log, w))
    BY <1>2, SegmentEnds
  <2> QED BY <2>1, <2>2
<1>4. PICK batch : batch = Batch(SubSeq(log, s, e)) /\ batch = Batch(SubSeq(original, a, b))
  BY <1>3
<1>5. /\ Len(batch) = e - s + 1
      /\ \A j \in 0..(e - s) : batch[j + 1].hash = log[s + j].hash
  <2>1. s <= e
    BY <1>3
  <2>2. /\ Len(Batch(SubSeq(log, s, e))) = e - s + 1
        /\ \A j \in 0..(e - s) : Batch(SubSeq(log, s, e))[j + 1].hash = log[s + j].hash
    BY <2>1, BatchOfPart
  <2> QED BY <1>4, <2>2
<1>6. /\ Len(batch) = b - a + 1
      /\ \A j \in 0..(b - a) : batch[j + 1].hash = original[a + j].hash
  BY <1>1, <1>4
<1>7. e - s = b - a /\ e = s + (b - a)
  BY <1>5, <1>6
<1>8. \A j \in 0..(b - a) : log[s + j].hash = original[a + j].hash
  BY <1>5, <1>6, <1>7
<1> QED BY <1>3, <1>7, <1>8

(* The part of a linked chain that a window selects verifies.                  *)
LEMMA LinkedVerifies ==
    ASSUME NEW log \in Seq(Links), Linked(log), NEW w, Positions(log, w) # {}
    PROVE  WindowValid(log, w)
<1>1. PICK s \in 1..Len(log), e \in 1..Len(log) :
          /\ s <= e
          /\ s = First(log, w)
          /\ Segment(log, w) = SubSeq(log, s, e)
  <2>1. Positions(log, w) \in SUBSET (1..Len(log)) /\ Len(log) \in Nat
    BY SegmentEnds
  <2>2. /\ First(log, w) \in Positions(log, w) /\ Last(log, w) \in Positions(log, w)
        /\ First(log, w) <= Last(log, w)
        /\ Segment(log, w) = SubSeq(log, First(log, w), Last(log, w))
    BY SegmentEnds
  <2> QED BY <2>1, <2>2
<1>2. PICK part : part = SubSeq(log, s, e)
  OBVIOUS
<1>3. /\ DOMAIN part = 1..(e - s + 1) /\ part # <<>>
      /\ \A i \in 1..(e - s + 1) : part[i] = log[s + i - 1] /\ s + i - 1 \in DOMAIN log
  BY <1>1, <1>2
<1>4. Before(log, w) = IF s = 1 THEN Genesis ELSE log[s - 1].hash
  BY <1>1 DEF Before
<1>5. ASSUME NEW i \in 1..(e - s + 1)
      PROVE  /\ part[i].previous = IF i = 1 THEN Before(log, w) ELSE part[i - 1].hash
             /\ part[i].hash = EventHash(part[i].content, part[i].previous)
  <2>1. PICK p \in DOMAIN log : p = s + i - 1 /\ part[i] = log[p]
    BY <1>3
  <2>2. /\ log[p].previous = IF p = 1 THEN Genesis ELSE log[p - 1].hash
        /\ log[p].hash = EventHash(log[p].content, log[p].previous)
    BY DEF Linked
  <2>3. CASE i = 1
    BY <1>4, <2>1, <2>2, <2>3
  <2>4. CASE i # 1
    <3>1. i - 1 \in 1..(e - s + 1) /\ s + (i - 1) - 1 = p - 1 /\ p # 1
      BY <2>1, <2>4
    <3>2. part[i - 1] = log[p - 1]
      BY <1>3, <3>1
    <3> QED BY <2>1, <2>2, <2>4, <3>1, <3>2
  <2> QED BY <2>3, <2>4
<1>6. ChainValid(part, Before(log, w))
  BY <1>3, <1>5 DEF ChainValid
<1> QED BY <1>1, <1>2, <1>6 DEF WindowValid

(* What a checkpoint covers, by the hashes of its ends                         *)
LEMMA CoveredPart ==
    ASSUME NEW log \in Seq(Links), Linked(log), NEW k, Covers(log, k)
    PROVE  \E a, b \in 1..Len(log) :
              /\ a <= b
              /\ k.batch = Batch(SubSeq(log, a, b))
              /\ a = Len(k.batch[1].hash)
              /\ b = Len(k.batch[Len(k.batch)].hash)
              /\ a \in Positions(log, k.window) /\ b \in Positions(log, k.window)
              /\ \A i \in Positions(log, k.window) : a <= i
<1>1. PICK a \in Positions(log, k.window), b \in Positions(log, k.window) :
          /\ a <= b
          /\ \A i \in Positions(log, k.window) : a <= i
          /\ k.batch = Batch(SubSeq(log, a, b))
  BY DEF Covers
<1>2. a \in 1..Len(log) /\ b \in a..Len(log) /\ DOMAIN log = 1..Len(log)
  BY <1>1 DEF Positions
<1>3. /\ Len(k.batch) = b - a + 1
      /\ \A j \in 0..(b - a) : k.batch[j + 1].hash = log[a + j].hash
  <2>1. PICK batch : batch = k.batch
    OBVIOUS
  <2>2. a <= b /\ batch = Batch(SubSeq(log, a, b)) /\ a \in 1..Len(log) /\ b \in 1..Len(log)
    BY <1>1, <1>2, <2>1
  <2>3. Len(batch) = b - a + 1 /\ \A j \in 0..(b - a) : batch[j + 1].hash = log[a + j].hash
    BY <2>2, BatchOfPart
  <2> QED BY <2>1, <2>3
<1>4. k.batch[1].hash = log[a].hash /\ k.batch[Len(k.batch)].hash = log[b].hash
  <2>1. 0 \in 0..(b - a) /\ b - a \in 0..(b - a) /\ a + 0 = a /\ a + (b - a) = b /\ 0 + 1 = 1
    BY <1>2
  <2> QED BY <1>3, <2>1
<1> QED BY <1>1, <1>2, <1>4 DEF Linked

(* generate_integrity_checkpoint and verify_integrity look at the chain by the *)
(* instants of its events, which their producers say: what makes a stored      *)
(* checkpoint fail is an event of its window that came after it was made, and  *)
(* nothing else.                                                               *)
THEOREM CheckpointsFailOnlyWhenLate == Spec => []CheckpointsVerify
<1>1. Inv /\ CheckpointsCover => CheckpointsVerify
  <2> SUFFICES ASSUME Inv, CheckpointsCover, NEW k \in checkpoints
               PROVE  WindowValid(chain, k.window) /\ CheckpointValid(chain, k.window, k)
                        <=> \A i \in Positions(chain, k.window) :
                                i <= Len(k.batch[Len(k.batch)].hash)
    BY DEF CheckpointsVerify
  <2>1. chain \in Seq(Links) /\ Linked(chain) /\ Covers(chain, k)
    BY DEF Inv, TypeOK, CheckpointsCover
  <2>2. PICK log \in Seq(Links) : log = chain
    BY <2>1
  <2>3. PICK a \in 1..Len(log), b \in 1..Len(log) :
            /\ a <= b
            /\ k.batch = Batch(SubSeq(log, a, b))
            /\ b = Len(k.batch[Len(k.batch)].hash)
            /\ a \in Positions(log, k.window) /\ b \in Positions(log, k.window)
            /\ \A i \in Positions(log, k.window) : a <= i
    BY <2>1, <2>2, CoveredPart
  <2>4. PICK s, e :
            /\ s = First(log, k.window) /\ e = Last(log, k.window)
            /\ s \in Positions(log, k.window) /\ e \in Positions(log, k.window)
            /\ \A i \in Positions(log, k.window) : s <= i /\ i <= e
            /\ Positions(log, k.window) \in SUBSET (1..Len(log))
            /\ Segment(log, k.window) = SubSeq(log, s, e)
    BY <2>3, SegmentEnds
  <2>5. s = a
    BY <2>3, <2>4
  <2>6. ASSUME Batch(Segment(log, k.window)) = k.batch
        PROVE  e = b
    <3>1. a <= b /\ Batch(Segment(log, k.window)) = Batch(SubSeq(log, a, b))
      BY <2>3, <2>6
    <3>2. Last(log, k.window) = First(log, k.window) + (b - a)
      BY <3>1, BatchFound
    <3>3. e = s + (b - a)
      BY <2>4, <3>2
    <3> QED BY <2>5, <3>3
  <2>7. ASSUME \A i \in Positions(log, k.window) : i <= b
        PROVE  Batch(Segment(log, k.window)) = k.batch
    <3>1. e <= b /\ b <= e /\ e \in 1..Len(log)
      BY <2>3, <2>4, <2>7
    <3>2. e = b
      BY <3>1
    <3> QED BY <2>3, <2>4, <2>5, <3>2
  <2>8. WindowValid(log, k.window)
    BY <2>1, <2>2, <2>3, LinkedVerifies
  <2>9. WindowValid(log, k.window) /\ CheckpointValid(log, k.window, k)
          <=> \A i \in Positions(log, k.window) : i <= b
    BY <2>4, <2>6, <2>7, <2>8 DEF CheckpointValid
  <2> QED BY <2>2, <2>3, <2>9
<1> QED BY <1>1, Invariance, CoveredInvariance, PTL

(* What TamperEvident says of one change: verify_integrity notices it.         *)
Noticed(log, k) == ~(WindowValid(log, k.window) /\ CheckpointValid(log, k.window, k))

(* A log in which the checkpoint is found has, one after the other, events with *)
(* the hashes of the events it covers.                                          *)
LEMMA UnnoticedHashes ==
    ASSUME chain \in Seq(Links), Linked(chain), NEW k,
           NEW a \in 1..Len(chain), NEW b \in 1..Len(chain), a <= b,
           k.batch = Batch(SubSeq(chain, a, b)),
           NEW log \in Seq(Links), ~Noticed(log, k)
    PROVE  \E s \in Int :
              \A i \in a..b :
                  /\ s + i \in 1..Len(log)
                  /\ Len(log[s + i].hash) = i
                  /\ log[s + i].hash = EventHash(log[s + i].content, log[s + i].previous)
<1>1. Batch(Segment(log, k.window)) = Batch(SubSeq(chain, a, b))
  BY DEF Noticed, CheckpointValid
<1>2. PICK f \in 1..Len(log), l \in 1..Len(log) :
          /\ l = f + (b - a)
          /\ Segment(log, k.window) = SubSeq(log, f, l)
          /\ \A j \in 0..(b - a) : log[f + j].hash = chain[a + j].hash
  <2>1. /\ First(log, k.window) \in 1..Len(log) /\ Last(log, k.window) \in 1..Len(log)
        /\ Last(log, k.window) = First(log, k.window) + (b - a)
        /\ Segment(log, k.window) = SubSeq(log, First(log, k.window), Last(log, k.window))
        /\ \A j \in 0..(b - a) : log[First(log, k.window) + j].hash = chain[a + j].hash
    BY <1>1, BatchFound
  <2> QED BY <2>1
<1>3. \A i \in a..b : i \in DOMAIN chain => Len(chain[i].hash) = i
  BY DEF Linked
<1>4. PICK part : part = SubSeq(log, f, l)
  OBVIOUS
<1>5. /\ DOMAIN part = 1..(l - f + 1)
      /\ \A i \in 1..(l - f + 1) : part[i] = log[f + i - 1]
  BY <1>2, <1>4
<1>6. \A i \in DOMAIN part : part[i].hash = EventHash(part[i].content, part[i].previous)
  <2>1. ChainValid(part, Before(log, k.window))
    BY <1>2, <1>4 DEF Noticed, WindowValid
  <2> QED BY <2>1 DEF ChainValid
<1>7. PICK s \in Int : s = f - a
  OBVIOUS
<1>8. ASSUME NEW i \in a..b
      PROVE  /\ s + i \in 1..Len(log)
             /\ Len(log[s + i].hash) = i
             /\ log[s + i].hash = EventHash(log[s + i].content, log[s + i].previous)
  <2>1. l - f = b - a
    BY <1>2
  <2>2. i - a \in 0..(b - a) /\ f + (i - a) = s + i /\ a + (i - a) = i
    BY <1>7
  <2>3. log[s + i].hash = chain[i].hash
    BY <1>2, <2>2
  <2>4. s + i \in 1..Len(log) /\ i \in DOMAIN chain
    BY <1>7, <2>1
  <2>5. i - a + 1 \in 1..(l - f + 1) /\ f + (i - a + 1) - 1 = s + i
    BY <1>7, <2>1
  <2>6. i - a + 1 \in DOMAIN part /\ part[i - a + 1] = log[s + i]
    BY <1>5, <2>5
  <2> QED BY <1>3, <1>6, <2>3, <2>4, <2>6
<1> QED BY <1>8

(* verify_integrity notices when an event that a checkpoint covers was removed, *)
(* swapped with its neighbour or changed, although the digest of the checkpoint *)
(* holds none of the contents: each hash covers them and the hash before it.    *)
THEOREM TamperingIsEvident == Spec => []TamperEvident
<1>1. Inv /\ CheckpointsCover => TamperEvident
  <2> SUFFICES ASSUME Inv, CheckpointsCover, NEW k \in checkpoints,
                      NEW i \in Len(k.batch[1].hash)..Len(k.batch[Len(k.batch)].hash)
               PROVE  /\ Noticed(Without(i), k)
                      /\ i < Len(k.batch[Len(k.batch)].hash) => Noticed(Swapped(i), k)
                      /\ \A log \in Altered(i) : Noticed(log, k)
    BY DEF TamperEvident, Noticed
  <2>1. chain \in Seq(Links) /\ Linked(chain) /\ Covers(chain, k)
    BY DEF Inv, TypeOK, CheckpointsCover
  <2>2. PICK a \in 1..Len(chain), b \in 1..Len(chain) :
            /\ a <= b
            /\ k.batch = Batch(SubSeq(chain, a, b))
            /\ a = Len(k.batch[1].hash)
            /\ b = Len(k.batch[Len(k.batch)].hash)
    BY <2>1, CoveredPart
  <2>3. /\ i \in a..b /\ i \in DOMAIN chain /\ i \in Nat
        /\ Len(chain) \in Nat /\ DOMAIN chain = 1..Len(chain)
    <3>1. i \in a..b
      BY <2>2
    <3>2. Len(chain) \in Nat /\ DOMAIN chain = 1..Len(chain)
      BY <2>1
    <3> QED BY <3>1, <3>2
  <2>4. \A j \in DOMAIN chain : chain[j] \in Links /\ Len(chain[j].hash) = j
    BY <2>1 DEF Linked
  <2>5. ASSUME NEW log \in Seq(Links), ~Noticed(log, k)
        PROVE  \E s \in Int :
                  \A j \in a..b :
                      /\ s + j \in 1..Len(log)
                      /\ Len(log[s + j].hash) = j
                      /\ log[s + j].hash = EventHash(log[s + j].content, log[s + j].previous)
    <3>1. a <= b /\ k.batch = Batch(SubSeq(chain, a, b))
      BY <2>2
    <3> QED BY <2>1, <2>5, <3>1, UnnoticedHashes
  <2>6. Noticed(Without(i), k)
    <3>1. PICK log : log = Without(i)
      OBVIOUS
    <3>2. /\ log \in Seq(Links) /\ Len(log) = Len(chain) - 1
          /\ \A j \in 1..(Len(chain) - 1) :
                 log[j] = IF j < i THEN chain[j] ELSE chain[j + 1]
      <4>1. PICK m \in Nat : m = Len(chain) - 1
        <5>1. Len(chain) >= 1
          BY <2>3
        <5>2. Len(chain) \in Int
          BY <2>3
        <5>3. Len(chain) - 1 \in Nat
          BY <5>1, <5>2
        <5> QED BY <5>3
      <4>2. log = [j \in 1..m |-> IF j < i THEN chain[j] ELSE chain[j + 1]]
        BY <3>1, <4>1 DEF Without
      <4>3. \A j \in 1..m : j \in DOMAIN chain /\ j + 1 \in DOMAIN chain
        BY <2>3, <4>1
      <4>4. log \in [1..m -> Links]
        BY <2>4, <4>2, <4>3
      <4>5. log \in Seq(Links) /\ Len(log) = m
        BY <4>4
      <4> QED BY <4>1, <4>2, <4>5
    <3>3. ASSUME NEW j \in 1..Len(log)
          PROVE  Len(log[j].hash) # i
      <4>1. j \in DOMAIN chain /\ j + 1 \in DOMAIN chain
        BY <2>3, <3>2
      <4> QED BY <2>3, <2>4, <3>2, <4>1
    <3> QED BY <2>3, <2>5, <3>1, <3>2, <3>3
  <2>7. ASSUME i < b
        PROVE  Noticed(Swapped(i), k)
    <3>1. PICK log : log = Swapped(i)
      OBVIOUS
    <3>2. i + 1 \in DOMAIN chain /\ i + 1 \in a..b
      BY <2>2, <2>3, <2>7
    <3>3. /\ log \in Seq(Links) /\ Len(log) = Len(chain)
          /\ log[i] = chain[i + 1] /\ log[i + 1] = chain[i]
          /\ \A j \in DOMAIN chain \ {i, i + 1} : log[j] = chain[j]
      <4>1. log = [chain EXCEPT ![i] = chain[i + 1], ![i + 1] = chain[i]]
        BY <3>1 DEF Swapped
      <4>2. DOMAIN log = 1..Len(chain) /\ \A j \in 1..Len(chain) : log[j] \in Links
        BY <2>3, <2>4, <3>2, <4>1
      <4>3. log \in [1..Len(chain) -> Links]
        BY <4>1, <4>2, <2>3
      <4>4. log \in Seq(Links) /\ Len(log) = Len(chain)
        BY <2>3, <4>3
      <4>5. i # i + 1
        BY <2>3
      <4> QED BY <2>3, <3>2, <4>1, <4>4, <4>5
    <3>4. ASSUME NEW s \in Int,
                 \A j \in a..b : s + j \in 1..Len(log) /\ Len(log[s + j].hash) = j
          PROVE  FALSE
      <4>1. \A j \in 1..Len(log) :
               Len(log[j].hash) = IF j = i THEN i + 1 ELSE IF j = i + 1 THEN i ELSE j
        BY <2>3, <2>4, <3>2, <3>3
      <4>2. s + i = i + 1
        BY <2>3, <3>4, <4>1
      <4>3. s + (i + 1) = i
        BY <2>3, <3>2, <3>4, <4>1
      <4> QED BY <2>3, <4>2, <4>3
    <3> QED BY <2>5, <3>1, <3>3, <3>4
  <2>8. ASSUME NEW log \in Altered(i)
        PROVE  Noticed(log, k)
    <3>1. PICK content : /\ content \in Contents /\ content # chain[i].content
                         /\ log = [chain EXCEPT ![i].content = content]
      <4>1. PICK c : c = chain[i].content
        OBVIOUS
      <4>2. c \in Contents
        BY <2>3, <2>4, <4>1 DEF Links
      <4>3. PICK content :
                /\ log = [chain EXCEPT ![i].content = content]
                /\ \/ \E t \in Instants \ {c.at} : content = [c EXCEPT !.at = t]
                   \/ \E o \in {"event", "accepted"} \ {c.outcome} :
                          content = [c EXCEPT !.outcome = o]
        <5>1. \E content \in {[chain[i].content EXCEPT !.at = t] :
                                    t \in Instants \ {chain[i].content.at}}
                    \cup {[chain[i].content EXCEPT !.outcome = o] :
                              o \in {"event", "accepted"} \ {chain[i].content.outcome}} :
                  log = [chain EXCEPT ![i].content = content]
          BY DEF Altered
        <5>2. \E content \in {[c EXCEPT !.at = t] : t \in Instants \ {c.at}}
                    \cup {[c EXCEPT !.outcome = o] : o \in {"event", "accepted"} \ {c.outcome}} :
                  log = [chain EXCEPT ![i].content = content]
          BY <4>1, <5>1
        <5> QED BY <5>2
      <4>4. CASE \E t \in Instants \ {c.at} : content = [c EXCEPT !.at = t]
        <5>1. PICK t \in Instants \ {c.at} : content = [c EXCEPT !.at = t]
          BY <4>4
        <5>2. t \in Nat
          BY ConstantsAssumption
        <5>3. content \in Contents /\ content.at = t
          BY <4>2, <5>1, <5>2 DEF Contents
        <5> QED BY <4>1, <4>3, <5>3
      <4>5. CASE \E o \in {"event", "accepted"} \ {c.outcome} : content = [c EXCEPT !.outcome = o]
        <5>1. PICK o \in {"event", "accepted"} \ {c.outcome} : content = [c EXCEPT !.outcome = o]
          BY <4>5
        <5>2. content \in Contents /\ content.outcome = o
          BY <4>2, <5>1 DEF Contents, Outcomes
        <5> QED BY <4>1, <4>3, <5>2
      <4> QED BY <4>3, <4>4, <4>5
    <3>2. /\ log \in Seq(Links) /\ Len(log) = Len(chain)
          /\ log[i] = [chain[i] EXCEPT !.content = content]
          /\ \A j \in DOMAIN chain \ {i} : log[j] = chain[j]
      <4>1. [chain[i] EXCEPT !.content = content] \in Links
        BY <2>3, <2>4, <3>1 DEF Links
      <4>2. DOMAIN log = 1..Len(chain) /\ \A j \in 1..Len(chain) : log[j] \in Links
        BY <2>3, <2>4, <3>1, <4>1
      <4>3. log \in [1..Len(chain) -> Links]
        BY <2>3, <3>1, <4>2
      <4>4. log \in Seq(Links) /\ Len(log) = Len(chain)
        BY <2>3, <4>3
      <4> QED BY <2>3, <3>1, <4>4
    <3>3. /\ log[i].content = content /\ log[i].previous = chain[i].previous
          /\ log[i].hash = chain[i].hash
      BY <2>3, <2>4, <3>2 DEF Links
    <3>4. \A j \in DOMAIN chain : Len(log[j].hash) = j
      BY <2>3, <2>4, <3>2, <3>3
    <3>5. chain[i].hash = EventHash(chain[i].content, chain[i].previous)
      BY <2>1, <2>3 DEF Linked
    <3>6. log[i].hash # EventHash(log[i].content, log[i].previous)
      <4>1. chain[i].previous \in Seq(Contents) /\ chain[i].content \in Contents
        BY <2>3, <2>4 DEF Links, Hashes
      <4> QED BY <3>1, <3>3, <3>5, <4>1 DEF EventHash
    <3>7. ASSUME NEW s \in Int, s + i \in 1..Len(log), Len(log[s + i].hash) = i
          PROVE  s + i = i
      BY <2>3, <3>2, <3>4, <3>7
    <3> QED BY <2>3, <2>5, <3>2, <3>6, <3>7
  <2> QED BY <2>2, <2>6, <2>7, <2>8
<1> QED BY <1>1, Invariance, CoveredInvariance, PTL

-----------------------------------------------------------------------------
(* What is stored is never changed *)

(* The names of the four stores are apart: a name that is new in its store is *)
(* new.                                                                       *)
LEMMA NewNames ==
    ASSUME NEW n
    PROVE  /\ n \notin DOMAIN chain => \A a \in Stored : a[1] # <<"event", n>>
           /\ (\A k \in checkpoints : k.window # n) => \A a \in Stored : a[1] # <<"checkpoint", n>>
           /\ (\A o \in objects : o.key # n) => \A a \in Stored : a[1] # <<"object", n>>
           /\ (\A x \in exports : x.window # n) => \A a \in Stored : a[1] # <<"export", n>>
<1> SUFFICES ASSUME NEW a \in Stored
             PROVE  /\ n \notin DOMAIN chain => a[1] # <<"event", n>>
                    /\ (\A k \in checkpoints : k.window # n) => a[1] # <<"checkpoint", n>>
                    /\ (\A o \in objects : o.key # n) => a[1] # <<"object", n>>
                    /\ (\A x \in exports : x.window # n) => a[1] # <<"export", n>>
  OBVIOUS
<1>1. \/ \E i \in DOMAIN chain : a[1] = <<"event", i>>
      \/ \E k \in checkpoints : a[1] = <<"checkpoint", k.window>>
      \/ \E o \in objects : a[1] = <<"object", o.key>>
      \/ \E x \in exports : a[1] = <<"export", x.window>>
  BY DEF Stored
<1> QED BY <1>1

(* Each store gets at most one new binding in a step, under a name that was   *)
(* not bound.                                                                 *)
LEMMA StepBinds ==
    ASSUME Inv, NEW c \in Callers, Call(c)
    PROVE  Evidence!Bind \/ Stored' = Stored
<1>1. ASSUME NEW name, NEW value, \A a \in Stored : a[1] # name,
             Stored' = Stored \cup {<<name, value>>}
      PROVE  Evidence!Bind
  BY <1>1 DEF Evidence!Bind
<1>2. CASE Register(c) \/ AppendVerdict(c)
  <2>1. PICK link \in Links : chain' = Append(chain, link)
    <3>1. TypeOK'
      BY <1>2, BeginsTyped, ContinuesTyped
    <3>2. PICK link : chain' = Append(chain, link)
      BY <1>2 DEF Register, AppendVerdict
    <3>3. chain' \in Seq(Links) /\ chain'[Len(chain) + 1] = link /\ Len(chain') = Len(chain) + 1
      BY <3>1, <3>2 DEF Inv, TypeOK
    <3>4. link \in Links
      BY <3>3 DEF Inv, TypeOK
    <3> QED BY <3>2, <3>4
  <2>2. PICK n : n = Len(chain) + 1
    OBVIOUS
  <2>3. UNCHANGED <<checkpoints, objects, exports>>
    BY <1>2 DEF Register, AppendVerdict, stores
  <2>4. /\ n \notin DOMAIN chain
        /\ DOMAIN chain' = DOMAIN chain \cup {n}
        /\ chain'[n] = link
        /\ \A i \in DOMAIN chain : chain'[i] = chain[i]
    BY <2>1, <2>2 DEF Inv, TypeOK
  <2>5. {<<<<"event", i>>, chain[i]>> : i \in DOMAIN chain}'
            = {<<<<"event", i>>, chain[i]>> : i \in DOMAIN chain} \cup {<<<<"event", n>>, link>>}
    BY <2>4
  <2>6. Stored' = Stored \cup {<<<<"event", n>>, link>>}
    BY <2>3, <2>5 DEF Stored
  <2> QED BY <1>1, <2>4, <2>6, NewNames
<1>3. CASE SaveCheckpoint(c)
  <2>1. PICK k : k = held[c]
    OBVIOUS
  <2>2. UNCHANGED <<chain, objects, exports>>
    BY <1>3 DEF SaveCheckpoint
  <2>3. CASE checkpoints' = checkpoints
    BY <2>2, <2>3 DEF Stored
  <2>4. CASE /\ checkpoints' = checkpoints \cup {k}
             /\ \A one \in checkpoints : one.window # k.window
    <3>1. Stored' = Stored \cup {<<<<"checkpoint", k.window>>, k>>}
      BY <2>2, <2>4 DEF Stored
    <3> QED BY <1>1, <2>4, <3>1, NewNames
  <2> QED BY <1>3, <2>1, <2>3, <2>4 DEF SaveCheckpoint
<1>4. CASE Put(c)
  <2>1. PICK o : o = ObjectOf(c)
    OBVIOUS
  <2>2. UNCHANGED <<chain, checkpoints, exports>>
    BY <1>4 DEF Put
  <2>3. CASE objects' = objects
    BY <2>2, <2>3 DEF Stored
  <2>4. CASE objects' = objects \cup {o} /\ \A p \in objects : p.key # o.key
    <3>1. Stored' = Stored \cup {<<<<"object", o.key>>, o>>}
      BY <2>2, <2>4 DEF Stored
    <3> QED BY <1>1, <2>4, <3>1, NewNames
  <2>5. objects' = objects \/ (objects' = objects \cup {o} /\ \A p \in objects : p.key # o.key)
    <3>1. \/ objects' = objects
          \/ /\ objects' = objects \cup {o}
             /\ \A p \in objects : p.key = o.key => p = o
      BY <1>4, <2>1 DEF Put, ObjectOf
    <3> QED BY <3>1
  <2> QED BY <2>3, <2>4, <2>5
<1>5. CASE Record(c)
  <2>1. PICK x : x = [window |-> held[c].window, key |-> request[c].key,
                      manifest |-> ManifestOf(held[c], request[c])]
    OBVIOUS
  <2>2. UNCHANGED <<chain, checkpoints, objects>>
    BY <1>5 DEF Record
  <2>3. CASE exports' = exports
    BY <2>2, <2>3 DEF Stored
  <2>4. CASE exports' = exports \cup {x} /\ \A y \in exports : y.window # x.window
    <3>1. Stored' = Stored \cup {<<<<"export", x.window>>, x>>}
      BY <2>2, <2>4 DEF Stored
    <3> QED BY <1>1, <2>4, <3>1, NewNames
  <2>5. exports' = exports \/ (exports' = exports \cup {x} /\ \A y \in exports : y.window # x.window)
    <3>1. \/ exports' = exports
          \/ /\ exports' = exports \cup {x}
             /\ \A y \in exports : y.window = x.window => y = x
      BY <1>5, <2>1 DEF Record
    <3> QED BY <3>1
  <2> QED BY <2>3, <2>4, <2>5
<1>6. CASE Read(c) \/ Generate(c) \/ Verify(c) \/ Export(c) \/ Reconcile(c) \/ Find(c)
  BY <1>6 DEF Read, Generate, Verify, Export, Reconcile, Find, stores, Stored
<1> QED BY <1>2, <1>3, <1>4, <1>5, <1>6 DEF Call

(* The chain, the checkpoints, the WORM storage and the records of exports    *)
(* are write-once stores: a position, a window's checkpoint, a key and a      *)
(* window's export keep their first value.                                    *)
THEOREM EvidenceIsWriteOnce == Spec => ImplementsWriteOnce
<1>1. Init => Evidence!Init
  BY DEF Init, Stored, Evidence!Init
<1>2. Inv /\ [Next]_vars => [Evidence!Bind]_Stored
  <2> SUFFICES ASSUME Inv, [Next]_vars
               PROVE  Evidence!Bind \/ Stored' = Stored
    OBVIOUS
  <2>1. CASE Tick \/ UNCHANGED vars
    BY <2>1 DEF Tick, vars, stores, Stored
  <2>2. CASE \E c \in Callers : Call(c)
    BY <2>2, StepBinds
  <2> QED BY <2>1, <2>2 DEF Next, Call
<1> QED BY <1>1, <1>2, Invariance, PTL DEF Spec, ImplementsWriteOnce, Evidence!Spec
=============================================================================
