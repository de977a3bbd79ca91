----------------------------- MODULE ReviewOutput -----------------------------
(***************************************************************************)
(* What services/automated-review does with data: which inputs of a review *)
(* reach the executor (domain/value_objects/review_execution.py), and what *)
(* becomes of the output it returns (domain/value_objects/review_output.py *)
(* and the result that execute_consultative_review builds from it).        *)
(*                                                                         *)
(* A text is abstracted to what its checks say: of an item, the flaw each  *)
(* check finds; of an input, whether it is allowed and sensitive.          *)
(***************************************************************************)
EXTENDS Naturals, Sequences

CONSTANTS
    MaxItems     \* MAX_EXECUTOR_OUTPUT_ITEMS

(* The checks of an item in the order they are made, and what each may find: *)
(* a guardrail is about sensitive, injected or autonomous content.           *)
Flaws == {"none", "schema", "guardrail"}

Checks == <<"shape", "item_ref", "item_type", "severity", "reason_ref", "confidence",
            "evidence_refs", "safe_summary">>

FlawsOf(check) ==
    IF check \in {"item_ref", "reason_ref", "evidence_refs", "safe_summary"}
    THEN Flaws ELSE Flaws \ {"guardrail"}

ItemTypes == {"missing_data", "inconsistency", "explainability_factor", "limitation"}

(* from_mapping and __post_init__ of ReviewOutputItem: the first flaw raises. *)
ItemFlaw(item) ==
    LET found == {i \in DOMAIN Checks : item.flaws[i] # "none"} IN
    IF found = {} THEN "none"
    ELSE item.flaws[CHOOSE i \in found : \A j \in found : i <= j]

Flawed(items) == {i \in DOMAIN items : ItemFlaw(items[i]) # "none"}

FirstFlawed(items) == CHOOSE i \in Flawed(items) : \A j \in Flawed(items) : i <= j

Duplicated(items) ==
    \E i, j \in DOMAIN items : i # j /\ items[i].ref = items[j].ref

(* _validate_executor_output, ReviewOutputValidationResult and the checks of   *)
(* the execution result, with _output_block_reason_ref: the first thing wrong. *)
(* A reference may be fit for an item and not for an execution's own lists.    *)
Problem(output) ==
    LET items == output.items IN
    CASE output.raises                       -> "executor_failure"
      [] ~output.completed \/ output.legacy  -> "contract"
      [] Len(items) \notin 1..MaxItems       -> "schema"
      [] Flawed(items) # {}                  -> ItemFlaw(items[FirstFlawed(items)])
      [] Duplicated(items)                   -> "schema"
      [] \E i \in DOMAIN items : ~items[i].fit -> "contract"
      [] OTHER                               -> "none"

RefsOf(items, types) == {items[i].ref : i \in {j \in DOMAIN items : items[j].type \in types}}

(* accepted_counts_by_type *)
CountsOf(items) ==
    [t \in {items[i].type : i \in DOMAIN items} |->
        Len(SelectSeq(items, LAMBDA item : item.type = t))]

NoCounts == [t \in {} |-> 0]

(* The result of a review: completed with what was accepted, or a fallback    *)
(* with the reason; a failed executor leaves no usage, a refused output does. *)
Reviewed(output) ==
    LET problem == Problem(output) IN
    IF problem = "none"
    THEN [status |-> "completed", validation |-> "accepted",
          findings |-> RefsOf(output.items, ItemTypes \ {"limitation"}),
          limitations |-> RefsOf(output.items, {"limitation"}),
          accepted |-> CountsOf(output.items), blocked |-> {}, usage |-> output.usage]
    ELSE [status |-> "fallback", validation |-> "blocked",
          findings |-> {}, limitations |-> {problem},
          accepted |-> NoCounts, blocked |-> {problem},
          usage |-> problem # "executor_failure" /\ output.usage]

(* __post_init__ of AutomatedReviewExecutionResult: what it takes for the result *)
(* of a review.  A result it refuses would end the call after the reservation.   *)
WellFormed(result) ==
    IF result.status = "fallback"
    THEN /\ result.blocked # {}
         /\ result.validation = "blocked"
         /\ result.limitations # {}
         /\ result.findings = {}
         /\ \A t \in DOMAIN result.accepted : result.accepted[t] = 0
    ELSE result.blocked = {}

(* from_execution of ConsultativeEvidence: evidence is made of accepted items. *)
EvidenceOf(result) ==
    [findings |-> result.findings, limitations |-> result.limitations,
     counts |-> result.accepted]

-----------------------------------------------------------------------------
(* Inputs: _minimize_candidate *)

InputActions == {"included", "masked", "referenced", "tokenized", "omitted"}

Candidates == [allowed : BOOLEAN, sensitive : BOOLEAN, ref : {"none", "source", "token"}]

Minimized(candidate) ==
    CASE candidate.allowed /\ candidate.sensitive  -> "masked"
      [] candidate.allowed /\ ~candidate.sensitive -> "included"
      [] ~candidate.allowed /\ candidate.ref = "source" -> "referenced"
      [] ~candidate.allowed /\ candidate.ref = "token"  -> "tokenized"
      [] ~candidate.allowed /\ candidate.ref = "none" /\ candidate.sensitive -> "masked"
      [] OTHER -> "omitted"

(* input_for_execution *)
ExecutorInput(candidates) == {k \in candidates : Minimized(k) = "included"}
=============================================================================
