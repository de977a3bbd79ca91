---------------------------- MODULE PolicyEvaluation ----------------------------
(***************************************************************************)
(* The evaluation of a credit policy of services/decision for the field    *)
(* values of one proposal (domain/services/policy_evaluator.py), the       *)
(* decision that is made of it (CreditDecision.create) and the explanation *)
(* a customer gets of that (to_explainable_response).                      *)
(*                                                                         *)
(* Rules, criteria, limits and issues are sets: their order shows in the   *)
(* order of reported issues and nowhere else.                              *)
(***************************************************************************)
EXTENDS ReasonCodes, Integers

CONSTANTS
    OtherFields,  \* governed fields besides the terms a proposal asks for
    None          \* absence of a value

ASSUME ConstantsAssumption ==
    /\ OtherFields \cap {"amount", "installments", "term"} = {}
    /\ None \notin Nat
    /\ None \notin [{"amount", "installments", "term"} -> Nat]
    /\ None \notin {"request_more_data", "unable_to_decide", "reject_by_policy"}

(* APPROVAL_TERM_FIELDS *)
TermFields == {"amount", "installments", "term"}

Fields == TermFields \cup OtherFields

Approve == "approve"
Adjust == "approve_with_changes"
Reject == "reject"
AskData == "request_more_data"
Unable == "unable_to_decide"

Final == {Approve, Adjust, Reject}

Values == [Fields -> Nat \cup {None}]

(* PolicyRule and PolicyCriterion are tests of one field; exists asks for the *)
(* presence of its field with 1 (True) and for its absence with 0 (False).    *)
Tests == [field : Fields, op : {"gte", "lte", "eq"}, value : Nat]
         \cup [field : Fields, op : {"exists"}, value : {0, 1}]

LimitTypes == [field : {"amount", "term"}, op : {"gte", "lte"}]
              \cup [field : {"installments"}, op : {"lte"}]

Limits == [type : LimitTypes, value : Nat]

(* PolicyFallbackAction: codes exactly if it rejects *)
Fallbacks ==
    [action : {AskData, Unable}, codes : {{}}]
    \cup [action : {"reject_by_policy"}, codes : (SUBSET Codes) \ {{}}]

Rules == [test : Tests, outcome : Outcomes, codes : (SUBSET Codes) \ {{}}]

Policies ==
    [rules : SUBSET Rules, criteria : SUBSET Tests, limits : SUBSET Limits, fallback : Fallbacks]

-----------------------------------------------------------------------------
(* _matches_operator *)
Compares(op, value, expected) ==
    CASE op = "gte" -> value >= expected
      [] op = "lte" -> value <= expected
      [] op = "eq" -> value = expected

Passes(test, values) ==
    IF test.op = "exists"
    THEN (values[test.field] # None) = (test.value = 1)
    ELSE values[test.field] # None /\ Compares(test.op, values[test.field], test.value)

(* _operator_requires_present_field *)
Needs(test) == test.op # "exists" \/ test.value = 1

Misses(test, values) == Needs(test) /\ values[test.field] = None

(* _limit_field_and_operator turns a limit into a test. *)
TestOf(limit) == [field |-> limit.type.field, op |-> limit.type.op, value |-> limit.value]

Issue(code, field) == [code |-> code, field |-> field]

MissingCodes == {"missing_criterion_field", "missing_limit_field", "missing_rule_field"}

(* _policy_evaluation_allowed_fields and validate_policy_evaluation_scope *)
AllowedFields(policy) ==
    TermFields \cup {rule.test.field : rule \in policy.rules}
               \cup {criterion.field : criterion \in policy.criteria}

InScope(policy, values) ==
    LET given == {field \in Fields : values[field] # None} IN
    given # {} /\ given \subseteq AllowedFields(policy)

(* _criteria_are_satisfied *)
CriterionIssues(policy, values) ==
    {Issue(IF Misses(test, values) THEN "missing_criterion_field"
           ELSE "policy_criterion_not_satisfied", test.field) :
        test \in {c \in policy.criteria : ~Passes(c, values)}}

IssuesOfPresent(policy, values) ==
    {Issue("policy_limit_not_satisfied", limit.type.field) :
        limit \in {l \in policy.limits :
            values[l.type.field] # None /\ ~Passes(TestOf(l), values)}}

(* _limits_are_satisfied *)
LimitIssues(policy, values) ==
    {Issue(IF Misses(TestOf(limit), values) THEN "missing_limit_field"
           ELSE "policy_limit_not_satisfied", limit.type.field) :
        limit \in {l \in policy.limits : ~Passes(TestOf(l), values)}}

RuleIssues(policy, values) ==
    {Issue("missing_rule_field", rule.test.field) :
        rule \in {r \in policy.rules : Misses(r.test, values)}}

Issues(policy, values) ==
    CriterionIssues(policy, values) \cup LimitIssues(policy, values) \cup RuleIssues(policy, values)

Triggered(policy, values) == {rule \in policy.rules : Passes(rule.test, values)}

CodesOf(rules) == UNION {rule.codes : rule \in rules}

OutcomesOf(rules) == {rule.outcome : rule \in rules}

MissingIssues(issues) == {issue \in issues : issue.code \in MissingCodes}

(* _required_data_refs_for *)
RequiredOf(issues) == {issue.field : issue \in MissingIssues(issues)}

-----------------------------------------------------------------------------
(* from_decision_input: all three, or none *)
Complete(values) == \A field \in TermFields : values[field] # None

Requested(values) == [field \in TermFields |-> values[field]]

Maxima(policy, field) ==
    {limit.value : limit \in {l \in policy.limits : l.type.field = field /\ l.type.op = "lte"}}

Least(numbers) == CHOOSE n \in numbers : \A m \in numbers : n <= m

(* adjusted_from_policy_limits, which _can_derive_safe_approved_terms repeats *)
Adjusted(policy, terms) ==
    [field \in TermFields |-> Least({terms[field]} \cup Maxima(policy, field))]

(* _approval_terms_satisfy_limits and _approved_terms_satisfy_policy_limits *)
SatisfyLimits(policy, terms) ==
    \A limit \in policy.limits : Compares(limit.type.op, terms[limit.type.field], limit.value)

CanAdjust(policy, values) ==
    /\ Complete(values)
    /\ LET adjusted == Adjusted(policy, Requested(values)) IN
       adjusted # Requested(values) /\ SatisfyLimits(policy, adjusted)

-----------------------------------------------------------------------------
Result(catalog, outcome, triggered, codes, issues, action, required) ==
    [outcome |-> outcome, triggered |-> triggered, codes |-> codes,
     factors |-> FactorsOf(catalog, codes), issues |-> issues,
     fallback |-> action, required |-> required]

(* _fallback_reject_reason_code_refs: those that a triggered rule rejects with *)
RejectCodes(policy, triggered) ==
    policy.fallback.codes \cap CodesOf({rule \in triggered : rule.outcome = Reject})

(* _fallback_result *)
Fallback(policy, catalog, issues, triggered, mayReject) ==
    LET action == policy.fallback.action
        required == RequiredOf(issues)
        codes == RejectCodes(policy, triggered)
    IN IF action = AskData /\ required # {}
       THEN Result(catalog, AskData, triggered, {}, issues, action, required)
       ELSE IF action = "reject_by_policy" /\ mayReject /\ required = {} /\ codes # {}
       THEN Result(catalog, Reject, triggered, codes, issues, action, {})
       ELSE Result(catalog, Unable, triggered, {}, issues, action, required)

(* The outcome all triggered rules agree on *)
Follow(catalog, triggered, outcome, issues) ==
    Result(catalog, outcome, triggered, CodesOf(triggered), issues, None, {})

(* evaluate_policy_case *)
Evaluate(policy, catalog, values) ==
    LET issues == Issues(policy, values)
        triggered == Triggered(policy, values)
        outcomes == OutcomesOf(triggered)
        FallBack(more, mayReject) ==
            Fallback(policy, catalog, issues \cup more, triggered, mayReject)
    IN IF triggered = {}
       THEN FallBack({Issue("no_policy_rule_triggered", None)}, FALSE)
       ELSE IF MissingIssues(issues) # {}
       THEN FallBack({}, FALSE)
       ELSE IF \E one, other \in outcomes : one # other
       THEN FallBack({Issue("conflicting_policy_rule_outcomes", None)}, FALSE)
       ELSE IF outcomes = {Adjust}
       THEN IF \/ ~CanAdjust(policy, values)
               \/ \E issue \in issues : issue.code # "policy_limit_not_satisfied"
            THEN FallBack(IF issues = {}
                          THEN {Issue("approve_with_changes_adjustment_not_available", None)}
                          ELSE {}, issues # {})
            ELSE Follow(catalog, triggered, Adjust, issues)
       ELSE IF issues # {}
       THEN FallBack({}, TRUE)
       ELSE Follow(catalog, triggered, CHOOSE outcome \in outcomes : TRUE, {})

-----------------------------------------------------------------------------
(* What _validate_policy_reason_code_refs asks of the catalog: the codes of the *)
(* rules for their outcomes, those of a fallback that rejects for a rejection.  *)
ReferencesOf(policy) ==
    (UNION {{[outcome |-> rule.outcome, code |-> code] : code \in rule.codes} :
                rule \in policy.rules})
    \cup {[outcome |-> Reject, code |-> code] : code \in policy.fallback.codes}

ValidFor(policy, catalog) ==
    \A reference \in ReferencesOf(policy) : Answers(catalog, reference)

(* CreditDecision.create: the terms of the decision *)
TermsOf(policy, values, outcome) ==
    IF outcome = Approve /\ Complete(values) THEN Requested(values)
    ELSE IF outcome = Adjust /\ CanAdjust(policy, values)
    THEN Adjusted(policy, Requested(values))
    ELSE None

(* What a decision that is not final has to have one of *)
SaysWhy(codes, result) ==
    codes # {} \/ result.required # {} \/ result.issues # {} \/ result.fallback # None

(* An approval needs terms, a final outcome reasons, a controlled one anything *)
(* that says why, and every reason has to be of the catalog for this outcome.  *)
Decides(policy, catalog, values, result) ==
    /\ \A code \in result.codes : Answers(catalog, [outcome |-> result.outcome, code |-> code])
    /\ result.outcome \in {Approve, Adjust} => TermsOf(policy, values, result.outcome) # None
    /\ IF result.outcome \in Final
       THEN result.codes # {}
       ELSE SaysWhy(result.codes, result)

(* _explainable_reason_codes for an audience that sees some of the codes *)
Visible(result, seen) == result.codes \cap seen

(* _visible_factor_refs *)
VisibleFactors(result, catalog, seen) ==
    IF result.codes = {} THEN result.factors
    ELSE FactorsOf(catalog, Visible(result, seen)) \cap result.factors

(* to_explainable_response *)
Explains(result, seen) ==
    IF result.outcome \in Final
    THEN Visible(result, seen) # {}
    ELSE SaysWhy(Visible(result, seen), result)

-----------------------------------------------------------------------------
(* An approval is what every rule that applies asks for, with no criterion    *)
(* unmet, no limit exceeded and no field missing.                             *)
ApprovedWithinPolicy(policy, catalog, values) ==
    LET result == Evaluate(policy, catalog, values) IN
    result.outcome = Approve =>
        /\ \A criterion \in policy.criteria : Passes(criterion, values)
        /\ \A limit \in policy.limits : Passes(TestOf(limit), values)
        /\ \A rule \in policy.rules : Passes(rule.test, values) => rule.outcome = Approve
        /\ \E rule \in policy.rules : Passes(rule.test, values)

(* An approval with changes offers terms within every limit, none greater     *)
(* than what was asked for and one less, and only limits were not met.        *)
AdjustedWithinLimits(policy, catalog, values) ==
    Evaluate(policy, catalog, values).outcome = Adjust =>
        LET terms == TermsOf(policy, values, Adjust) IN
        /\ \A criterion \in policy.criteria : Passes(criterion, values)
        /\ terms # None
        /\ \A limit \in policy.limits :
               Compares(limit.type.op, terms[limit.type.field], limit.value)
        /\ \A field \in TermFields : terms[field] <= values[field]
        /\ terms # Requested(values)

(* A rejection names reasons with which a rule that applies rejects.          *)
RejectionsHaveGrounds(policy, catalog, values) ==
    LET result == Evaluate(policy, catalog, values) IN
    result.outcome = Reject =>
        /\ result.codes # {}
        /\ \A code \in result.codes : \E rule \in policy.rules :
              Passes(rule.test, values) /\ rule.outcome = Reject /\ code \in rule.codes

(* With complete terms, whatever the evaluation of a policy that is valid for *)
(* its catalog says can be decided; and, also without, unless it approves.    *)
EvaluationsDecide(policy, catalog, values) ==
    LET result == Evaluate(policy, catalog, values) IN
    ValidFor(policy, catalog) /\ (Complete(values) \/ result.outcome # Approve) =>
        Decides(policy, catalog, values, result) /\ Explains(result, Codes)

(* An explanation shows no factor but those of the reasons it shows.          *)
FactorsOfShownReasons(policy, catalog, values, seen) ==
    LET result == Evaluate(policy, catalog, values) IN
    VisibleFactors(result, catalog, seen) \subseteq FactorsOf(catalog, Visible(result, seen))

(* A request for data names fields that are absent and that the policy needs: *)
(* once they are given, whatever their values, no field is missed any more.   *)
AskedOnce(policy, catalog, values, given) ==
    LET result == Evaluate(policy, catalog, values) IN
    result.fallback = AskData /\ result.outcome = AskData =>
        LET next == [field \in Fields |->
                        IF field \in result.required THEN given ELSE values[field]] IN
        /\ \A field \in result.required : values[field] = None
        /\ MissingIssues(Evaluate(policy, catalog, next).issues) = {}

(* A compatible update of the catalog changes no evaluation and no factor of  *)
(* an explanation, and leaves the policy valid.                               *)
UpdatesChangeNothing(policy, old, new, values) ==
    ValidFor(policy, old) /\ Compatible(old, new) =>
        /\ ValidFor(policy, new)
        /\ Evaluate(policy, new, values) = Evaluate(policy, old, values)
=============================================================================
