---------------------------- MODULE PolicySimulations ----------------------------
(***************************************************************************)
(* The simulation of a draft of a credit policy of services/decision       *)
(* (domain/entities/policy_simulation.py and value_objects of that name)   *)
(* and what a publication asks of it: PolicyLifecycle has it as one step   *)
(* whose outcome is a choice, here it is what the evaluator makes of its   *)
(* cases.                                                                  *)
(*                                                                         *)
(* A case is its id and the values of its fields.  Issues with the same    *)
(* code and field are one, which no comparison with zero tells apart.      *)
(***************************************************************************)
EXTENDS PolicyEvaluation, Sequences

CONSTANT MaxCases  \* MAX_POLICY_SIMULATION_CASES

(* _validate_simulation_scope *)
MaySimulate(policy, status, cases) ==
    /\ status = "draft"
    /\ Len(cases) \in 1..MaxCases
    /\ \A i, j \in DOMAIN cases : cases[i].id = cases[j].id => i = j
    /\ \A i \in DOMAIN cases : InScope(policy, cases[i].values)

(* _validate_policy_for_simulation *)
PolicyIssues(policy) ==
    {Issue("missing", part) : part \in {p \in {"rules", "criteria", "limits"} : policy[p] = {}}}

(* _evaluate_case *)
CaseResult(policy, catalog, case) ==
    [id |-> case.id, evaluation |-> Evaluate(policy, catalog, case.values)]

(* PolicySimulation.run *)
Simulate(policy, catalog, cases) ==
    LET results == [i \in DOMAIN cases |-> CaseResult(policy, catalog, cases[i])] IN
    [results |-> results,
     issues |-> PolicyIssues(policy),
     status |-> IF PolicyIssues(policy) = {} /\ \A i \in DOMAIN results :
                    results[i].evaluation.issues = {}
                THEN "completed" ELSE "completed_with_issues"]

(* _build_summary *)
IssuesOf(simulation) ==
    simulation.issues
        \cup UNION {simulation.results[i].evaluation.issues : i \in DOMAIN simulation.results}

CasesWith(simulation, outcome) ==
    {i \in DOMAIN simulation.results : simulation.results[i].evaluation.outcome = outcome}

(* What _require_publication_simulation asks of a simulation of the policy as *)
(* it is                                                                      *)
IsClean(simulation) == simulation.status = "completed" /\ IssuesOf(simulation) = {}

(* _applied_fallback_action: the fallback that is named and was followed *)
Applied(evaluation) ==
    \/ evaluation.fallback = AskData /\ evaluation.outcome = AskData
    \/ evaluation.fallback = Unable /\ evaluation.outcome = Unable
    \/ evaluation.fallback = "reject_by_policy" /\ evaluation.outcome = Reject

(* fallback_applied_count and required_data_case_count of the audit details *)
FallbackCases(simulation) ==
    {i \in DOMAIN simulation.results : Applied(simulation.results[i].evaluation)}

AskingCases(simulation) ==
    {i \in DOMAIN simulation.results : simulation.results[i].evaluation.required # {}}

-----------------------------------------------------------------------------
(* What publishes a policy is decided by its rules alone: in a simulation     *)
(* that is clean the rules that apply to a case agree on its outcome, every   *)
(* criterion and limit holds, nothing is asked for and no fallback is used.   *)
(* No case of it is approved with changes: changes are made where a limit     *)
(* does not hold, which is an issue.                                          *)
CleanIsDecidedByRules(policy, catalog, cases) ==
    LET simulation == Simulate(policy, catalog, cases) IN
    IsClean(simulation) =>
        /\ FallbackCases(simulation) = {}
        /\ AskingCases(simulation) = {}
        /\ CasesWith(simulation, Adjust) = {}
        /\ \A i \in DOMAIN cases : LET values == cases[i].values IN
              /\ OutcomesOf(Triggered(policy, values)) = {simulation.results[i].evaluation.outcome}
              /\ \A test \in policy.criteria : Passes(test, values)
              /\ \A limit \in policy.limits : Passes(TestOf(limit), values)
=============================================================================
